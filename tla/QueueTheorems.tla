--------------------------- MODULE QueueTheorems ----------------------------
(***************************************************************************)
(* What the operators on queues do to the elements of a queue, to their    *)
(* number and to its head.  The proofs of the components know of sequences  *)
(* only what is stated here.                                                *)
(*                                                                          *)
(* Without is a recursive function; it is proved about with an induction    *)
(* principle for sets, which follows from the well-foundedness of < on Nat. *)
(***************************************************************************)
EXTENDS Queues, FiniteSets, SequenceTheorems, WellFoundedInduction,
        FiniteSetTheorems, TLAPS

\* A nonempty set of numbers has a least element.
LEMMA LeastNumber ==
    ASSUME NEW T, T \subseteq Nat, T # {}
    PROVE  \E x \in T : \A y \in T : x <= y
  <1> DEFINE R == {ss \in Nat \X Nat : ss[1] < ss[2]}
  <1>1. IsWellFoundedOn(R, Nat)
    BY NatLessThanWellFounded DEF OpToRel
  <1>2. PICK x \in T : \A y \in T : ~(<<y, x>> \in R)
    <2> HIDE DEF R
    <2> QED
      BY <1>1, WFMin
  <1>3. ASSUME NEW y \in T, y < x PROVE FALSE
    <2>1. <<y, x>> \in R
      BY <1>3
    <2> QED
      BY <2>1, <1>2
  <1> QED
    BY <1>3

\* Induction up to n: a set that has 0 and with every number below n the next one.
LEMMA InductionUpTo ==
    ASSUME NEW P, NEW n \in Nat, 0 \in P, \A i \in 0 .. n - 1 : i \in P => i + 1 \in P
    PROVE  \A i \in 0 .. n : i \in P
  <1>1. SUFFICES ASSUME NEW j \in 0 .. n, j \notin P PROVE FALSE
    OBVIOUS
  <1> DEFINE B == {i \in 0 .. n : i \notin P}
  <1>2. PICK x \in B : \A y \in B : x <= y
    <2>1. B \subseteq Nat /\ B # {}
      BY <1>1
    <2> QED
      BY <2>1, LeastNumber
  <1>3. x # 0
    BY <1>2
  <1>4. x - 1 \in 0 .. n - 1 /\ x - 1 \notin B
    BY <1>2, <1>3
  <1> QED
    BY <1>2, <1>4

-----------------------------------------------------------------------------
\* The elements of two queues, one after the other.
LEMMA SetOfConcat ==
    ASSUME NEW S, NEW a \in Seq(S), NEW b \in Seq(S)
    PROVE  /\ a \o b \in Seq(S)
           /\ ToSet(a \o b) = ToSet(a) \cup ToSet(b)
  <1>1. /\ a \o b \in Seq(S)
        /\ Len(a \o b) = Len(a) + Len(b)
        /\ \A k \in 1 .. Len(a) + Len(b) :
              (a \o b)[k] = IF k <= Len(a) THEN a[k] ELSE b[k - Len(a)]
        /\ Len(a) \in Nat /\ Len(b) \in Nat
    OBVIOUS
  <1>2. /\ DOMAIN a = 1 .. Len(a) /\ DOMAIN b = 1 .. Len(b)
        /\ DOMAIN (a \o b) = 1 .. Len(a) + Len(b)
    OBVIOUS
  <1>3. ASSUME NEW x \in ToSet(a \o b) PROVE x \in ToSet(a) \cup ToSet(b)
    <2>1. PICK k \in 1 .. Len(a) + Len(b) : x = (a \o b)[k]
      BY <1>2, <1>3 DEF ToSet
    <2>2. CASE k <= Len(a)
      BY <2>1, <2>2, <1>1, <1>2 DEF ToSet
    <2>3. CASE ~(k <= Len(a))
      <3>1. k - Len(a) \in 1 .. Len(b) /\ x = b[k - Len(a)]
        BY <2>1, <2>3, <1>1
      <3> QED
        BY <3>1, <1>2 DEF ToSet
    <2> QED
      BY <2>2, <2>3
  <1>4. ASSUME NEW x \in ToSet(a) PROVE x \in ToSet(a \o b)
    <2>1. PICK k \in 1 .. Len(a) : x = a[k]
      BY <1>2, <1>4 DEF ToSet
    <2>2. k \in 1 .. Len(a) + Len(b) /\ x = (a \o b)[k]
      BY <2>1, <1>1
    <2> QED
      BY <2>2, <1>2 DEF ToSet
  <1>5. ASSUME NEW x \in ToSet(b) PROVE x \in ToSet(a \o b)
    <2>1. PICK k \in 1 .. Len(b) : x = b[k]
      BY <1>2, <1>5 DEF ToSet
    <2>2. k + Len(a) \in 1 .. Len(a) + Len(b) /\ x = (a \o b)[k + Len(a)]
      BY <2>1, <1>1
    <2> QED
      BY <2>2, <1>2 DEF ToSet
  <1> QED
    BY <1>1, <1>3, <1>4, <1>5

\* The elements of a queue that gets one more.
LEMMA SetOfAppend ==
    ASSUME NEW S, NEW q \in Seq(S), NEW m \in S
    PROVE  /\ Append(q, m) \in Seq(S)
           /\ ToSet(Append(q, m)) = ToSet(q) \cup {m}
  <1>1. /\ Append(q, m) \in Seq(S)
        /\ Len(Append(q, m)) = Len(q) + 1
        /\ \A k \in 1 .. Len(q) : Append(q, m)[k] = q[k]
        /\ Append(q, m)[Len(q) + 1] = m
    OBVIOUS
  <1>2. DOMAIN q = 1 .. Len(q) /\ DOMAIN Append(q, m) = 1 .. Len(q) + 1
    OBVIOUS
  <1>3. ASSUME NEW x PROVE x \in ToSet(Append(q, m)) <=> x \in ToSet(q) \cup {m}
    BY <1>1, <1>2 DEF ToSet
  <1> QED
    BY <1>1, <1>3

\* The elements of a queue that loses its first.
LEMMA SetOfTail ==
    ASSUME NEW S, NEW q \in Seq(S), q # <<>>
    PROVE  /\ Head(q) \in S /\ Head(q) \in ToSet(q)
           /\ Tail(q) \in Seq(S)
           /\ ToSet(Tail(q)) \subseteq ToSet(q)
  BY DEF ToSet

\* An empty queue has no elements.
LEMMA SetOfEmpty == ToSet(<<>>) = {}
  BY DEF ToSet

\* The elements of a queue of one.
LEMMA SetOfOne ==
    ASSUME NEW S, NEW m \in S
    PROVE  /\ Append(<<>>, m) \in Seq(S)
           /\ ToSet(Append(<<>>, m)) = {m}
  <1> DEFINE e == <<>>
  <1>1. e \in Seq(S) /\ ToSet(e) = {}
    BY SetOfEmpty
  <1> HIDE DEF e
  <1>2. Append(e, m) \in Seq(S) /\ ToSet(Append(e, m)) = ToSet(e) \cup {m}
    BY <1>1, SetOfAppend
  <1>3. Append(e, m) \in Seq(S) /\ ToSet(Append(e, m)) = {m}
    BY <1>1, <1>2
  <1> QED
    BY <1>3 DEF e

\* A queue has elements of its type.
LEMMA SetOfSeq ==
    ASSUME NEW S, NEW q \in Seq(S)
    PROVE  ToSet(q) \subseteq S
  BY DEF ToSet

\* A queue without elements is empty.
LEMMA EmptySet ==
    ASSUME NEW S, NEW q \in Seq(S), ToSet(q) = {}
    PROVE  q = <<>>
  BY SetOfTail

\* A sequence without repetitions has none after a new element.
LEMMA InjectiveAppend ==
    ASSUME NEW S, NEW q \in Seq(S), NEW e \in S, e \notin ToSet(q), IsInjective(q)
    PROVE  IsInjective(Append(q, e))
  <1>1. /\ DOMAIN q = 1 .. Len(q) /\ DOMAIN Append(q, e) = 1 .. Len(q) + 1 /\ Len(q) \in Nat
        /\ \A k \in 1 .. Len(q) : Append(q, e)[k] = q[k]
        /\ Append(q, e)[Len(q) + 1] = e
    OBVIOUS
  <1>2. \A k \in 1 .. Len(q) : q[k] # e
    BY <1>1 DEF ToSet
  <1> SUFFICES ASSUME NEW a \in 1 .. Len(q) + 1, NEW b \in 1 .. Len(q) + 1,
                      Append(q, e)[a] = Append(q, e)[b]
               PROVE  a = b
    BY <1>1 DEF IsInjective
  <1>3. CASE a \in 1 .. Len(q) /\ b \in 1 .. Len(q)
    BY <1>1, <1>3 DEF IsInjective
  <1>4. CASE a = Len(q) + 1 \/ b = Len(q) + 1
    BY <1>1, <1>2, <1>4
  <1> QED
    BY <1>1, <1>3, <1>4

\* InsertAt puts e at position pos and shifts the rest by one.
LEMMA InsertAtLemma ==
    ASSUME NEW S, NEW s \in Seq(S), NEW e \in S, NEW pos \in 1 .. Len(s) + 1
    PROVE  /\ InsertAt(s, pos, e) \in Seq(S)
           /\ Len(InsertAt(s, pos, e)) = Len(s) + 1
           /\ \A k \in 1 .. Len(s) + 1 :
                 InsertAt(s, pos, e)[k] =
                    IF k < pos THEN s[k] ELSE IF k = pos THEN e ELSE s[k - 1]
  <1> DEFINE front == SubSeq(s, 1, pos - 1)
             rest == SubSeq(s, pos, Len(s))
             two == front \o <<e>>
  <1>1. /\ front \in Seq(S)
        /\ Len(front) = pos - 1
        /\ \A k \in 1 .. pos - 1 : front[k] = s[k]
    BY SubSeqProperties
  <1>2. /\ rest \in Seq(S)
        /\ Len(rest) = Len(s) - pos + 1
        /\ \A k \in 1 .. Len(s) - pos + 1 : rest[k] = s[pos + k - 1]
    BY SubSeqProperties
  <1> HIDE DEF front, rest
  <1>3. /\ two \in Seq(S)
        /\ Len(two) = pos
        /\ \A k \in 1 .. pos : two[k] = IF k < pos THEN s[k] ELSE e
    BY <1>1
  <1> HIDE DEF two
  <1>4. /\ two \o rest \in Seq(S)
        /\ Len(two \o rest) = Len(s) + 1
        /\ \A k \in 1 .. Len(s) + 1 :
              (two \o rest)[k] = IF k <= pos THEN two[k] ELSE rest[k - pos]
    <2>1. /\ two \o rest \in Seq(S)
          /\ Len(two \o rest) = Len(two) + Len(rest)
          /\ \A k \in 1 .. Len(two) + Len(rest) : (two \o rest)[k] =
                IF k <= Len(two) THEN two[k] ELSE rest[k - Len(two)]
      BY <1>2, <1>3, ConcatProperties
    <2>2. Len(two) = pos /\ Len(two) + Len(rest) = Len(s) + 1
      BY <1>2, <1>3
    <2> QED
      BY <2>1, <2>2
  <1>5. InsertAt(s, pos, e) = two \o rest
    BY DEF InsertAt, two, front, rest
  <1> QED
    BY <1>2, <1>3, <1>4, <1>5

\* RemoveAt drops position pos and shifts the rest back by one.
LEMMA RemoveAtLemma ==
    ASSUME NEW S, NEW s \in Seq(S), NEW pos \in 1 .. Len(s)
    PROVE  /\ RemoveAt(s, pos) \in Seq(S)
           /\ Len(RemoveAt(s, pos)) = Len(s) - 1
           /\ \A k \in 1 .. Len(s) - 1 :
                 RemoveAt(s, pos)[k] = IF k < pos THEN s[k] ELSE s[k + 1]
  <1> DEFINE front == SubSeq(s, 1, pos - 1)
             rest == SubSeq(s, pos + 1, Len(s))
  <1>1. /\ front \in Seq(S)
        /\ Len(front) = pos - 1
        /\ \A k \in 1 .. pos - 1 : front[k] = s[k]
    BY SubSeqProperties
  <1>2. /\ rest \in Seq(S)
        /\ Len(rest) = Len(s) - pos
        /\ \A k \in 1 .. Len(s) - pos : rest[k] = s[pos + k]
    BY SubSeqProperties
  <1> HIDE DEF front, rest
  <1>3. /\ front \o rest \in Seq(S)
        /\ Len(front \o rest) = Len(s) - 1
        /\ \A k \in 1 .. Len(s) - 1 :
              (front \o rest)[k] =
                 IF k <= pos - 1 THEN front[k] ELSE rest[k - (pos - 1)]
    BY <1>1, <1>2, ConcatProperties
  <1>4. RemoveAt(s, pos) = front \o rest
    BY DEF RemoveAt, front, rest
  <1>5. ASSUME NEW k \in 1 .. Len(s) - 1
        PROVE  (front \o rest)[k] = IF k < pos THEN s[k] ELSE s[k + 1]
    <2>1. CASE k < pos
      BY <1>1, <1>3, <2>1
    <2>2. CASE ~(k < pos)
      <3>1. (front \o rest)[k] = rest[k - (pos - 1)]
        BY <1>3, <2>2
      <3>2. k - (pos - 1) \in 1 .. Len(s) - pos
        BY <2>2
      <3>3. rest[k - (pos - 1)] = s[pos + (k - (pos - 1))]
        BY <1>2, <3>2
      <3> QED
        BY <2>2, <3>1, <3>3
    <2> QED
      BY <2>1, <2>2
  <1> QED
    BY <1>3, <1>4, <1>5

-----------------------------------------------------------------------------
\* The right-hand side of the definition of WithoutUpTo.
WithoutRule(q, T, F) ==
    [i \in 0 .. Len(q) |->
        IF i = 0 THEN <<>>
        ELSE IF q[i] \in T THEN F[i - 1] ELSE Append(F[i - 1], q[i])]

\* The equation that defines WithoutUpTo has a solution: one exists for every prefix of q.
LEMMA WithoutDefined ==
    ASSUME NEW S, NEW q, q \in Seq(S), NEW T
    PROVE  \E F : F = WithoutRule(q, T, F)
  <1> DEFINE n == Len(q)
             Step(F, i) == IF i = 0 THEN <<>>
                           ELSE IF q[i] \in T THEN F[i - 1] ELSE Append(F[i - 1], q[i])
             P == {k \in 0 .. n : \E F : F = [i \in 0 .. k |-> Step(F, i)]}
  <1>1. n \in Nat
    OBVIOUS
  <1>2. 0 \in P
    <2> DEFINE F == [i \in 0 .. 0 |-> <<>>]
    <2>1. F = [i \in 0 .. 0 |-> Step(F, i)]
      OBVIOUS
    <2> HIDE DEF F
    <2> QED
      BY <2>1, <1>1
  <1>3. ASSUME NEW k \in 0 .. n - 1, k \in P PROVE k + 1 \in P
    <2>1. PICK F : F = [i \in 0 .. k |-> Step(F, i)]
      BY <1>3
    <2> DEFINE G == [i \in 0 .. k + 1 |-> IF i = k + 1 THEN Step(F, i) ELSE F[i]]
    <2>2. ASSUME NEW i \in 0 .. k + 1 PROVE G[i] = Step(G, i)
      <3>1. CASE i = 0
        BY <3>1, <2>1
      <3>2. CASE i # 0
        <4>1. i - 1 \in 0 .. k /\ G[i - 1] = F[i - 1]
          BY <3>2
        <4>2. G[i] = Step(F, i)
          <5>1. CASE i = k + 1
            BY <5>1
          <5>2. CASE i # k + 1
            <6>1. i \in 0 .. k /\ G[i] = F[i]
              BY <5>2
            <6> QED
              BY <6>1, <2>1
          <5> QED
            BY <5>1, <5>2
        <4> QED
          BY <4>1, <4>2, <3>2
      <3> QED
        BY <3>1, <3>2
    <2>3. DOMAIN G = 0 .. k + 1 /\ G = [i \in 0 .. k + 1 |-> G[i]]
      OBVIOUS
    <2> HIDE DEF G
    <2>4. G = [i \in 0 .. k + 1 |-> Step(G, i)]
      BY <2>2, <2>3
    <2>5. k + 1 \in 0 .. n
      BY <1>1
    <2> QED
      BY <2>4, <2>5
  <1>4. n \in P
    <2> HIDE DEF P, n
    <2>1. \A k \in 0 .. n - 1 : k \in P => k + 1 \in P
      BY <1>3
    <2>2. \A k \in 0 .. n : k \in P
      BY <1>1, <1>2, <2>1, InductionUpTo
    <2> QED
      BY <1>1, <2>2
  <1> QED
    BY <1>4 DEF WithoutRule

\* The recursion of Without.
LEMMA WithoutSteps ==
    ASSUME NEW S, NEW q, q \in Seq(S), NEW T
    PROVE  \A i \in 0 .. Len(q) : WithoutUpTo(q, T)[i] =
              IF i = 0 THEN <<>>
              ELSE IF q[i] \in T THEN WithoutUpTo(q, T)[i - 1]
              ELSE Append(WithoutUpTo(q, T)[i - 1], q[i])
  <1> DEFINE W == CHOOSE F : F = WithoutRule(q, T, F)
  <1>1. WithoutUpTo(q, T) = W
    BY DEF WithoutUpTo, WithoutRule
  <1>2. W = WithoutRule(q, T, W)
    BY WithoutDefined
  <1> HIDE DEF W
  <1> QED
    BY <1>1, <1>2 DEF WithoutRule

\* w has of the first i elements of q those outside T, in their order.
IsPart(w, q, T, i) ==
    /\ ToSet(w) = {q[j] : j \in 1 .. i} \ T
    /\ \A a, b \in 1 .. Len(w) : a < b =>
          \E j, k \in 1 .. i : j < k /\ w[a] = q[j] /\ w[b] = q[k]
    /\ i > 0 /\ q[1] \notin T => w # <<>> /\ w[1] = q[1]

\* Of the first i elements those outside T are kept, in their order.
LEMMA WithoutPrefix ==
    ASSUME NEW S, NEW q, q \in Seq(S), NEW T
    PROVE  \A i \in 0 .. Len(q) : /\ WithoutUpTo(q, T)[i] \in Seq(S)
                                  /\ IsPart(WithoutUpTo(q, T)[i], q, T, i)
  <1> DEFINE n == Len(q)
             W == WithoutUpTo(q, T)
             Kept(i) == ToSet(W[i]) = {q[j] : j \in 1 .. i} \ T
             Order(i) == \A a, b \in 1 .. Len(W[i]) : a < b =>
                            \E j, k \in 1 .. i : j < k /\ W[i][a] = q[j] /\ W[i][b] = q[k]
             First(i) == i > 0 /\ q[1] \notin T => W[i] # <<>> /\ W[i][1] = q[1]
             P == {i \in 0 .. n : W[i] \in Seq(S) /\ IsPart(W[i], q, T, i)}
  <1>1. n \in Nat /\ \A i \in 1 .. n : q[i] \in S
    OBVIOUS
  <1>2. \A i \in 0 .. n : W[i] = IF i = 0 THEN <<>>
                                 ELSE IF q[i] \in T THEN W[i - 1] ELSE Append(W[i - 1], q[i])
    BY WithoutSteps
  <1> HIDE DEF n, W
  <1>3. 0 \in P
    <2>1. W[0] = <<>> /\ 0 \in 0 .. n
      BY <1>1, <1>2
    <2>2. ToSet(W[0]) = {} /\ {q[j] : j \in 1 .. 0} = {} /\ W[0] \in Seq(S) /\ Len(W[0]) = 0
      BY <2>1 DEF ToSet
    <2>3. IsPart(W[0], q, T, 0)
      BY <2>1, <2>2 DEF IsPart
    <2> QED
      BY <2>1, <2>2, <2>3
  <1>4. ASSUME NEW k \in 0 .. n - 1, k \in P PROVE k + 1 \in P
    <2> DEFINE m == k + 1
               w == W[k]
               x == q[k + 1]
    <2>1. m \in 1 .. n /\ m \in 0 .. n /\ m # 0 /\ m - 1 = k /\ k \in Nat /\ x \in S
      BY <1>1
    <2>2. w \in Seq(S) /\ Kept(k) /\ Order(k) /\ First(k)
      BY <1>4 DEF IsPart
    <2>3. {q[j] : j \in 1 .. m} = {q[j] : j \in 1 .. k} \cup {x}
      <3>1. 1 .. m = (1 .. k) \cup {m}
        BY <2>1
      <3> QED
        BY <3>1
    <2>4. CASE x \in T
      <3>1. W[m] = w
        BY <2>1, <2>4, <1>2
      <3>2. Kept(m)
        BY <3>1, <2>2, <2>3, <2>4
      <3>3. Order(m)
        <4>1. \A j \in 1 .. k : j \in 1 .. m
          BY <2>1
        <4> HIDE DEF m
        <4> QED
          BY <3>1, <2>2, <4>1
      <3>4. First(m)
        <4>1. k = 0 => q[1] \in T
          BY <2>4
        <4> QED
          BY <3>1, <2>1, <2>2, <4>1
      <3> QED
        BY <3>1, <3>2, <3>3, <3>4, <2>1, <2>2 DEF IsPart
    <2>5. CASE x \notin T
      <3>1. W[m] = Append(w, x)
        BY <2>1, <2>5, <1>2
      <3>2. /\ W[m] \in Seq(S) /\ Len(W[m]) = Len(w) + 1 /\ Len(w) \in Nat
            /\ \A a \in 1 .. Len(w) : W[m][a] = w[a]
            /\ W[m][Len(w) + 1] = x
            /\ W[m] # <<>>
        <4> DEFINE v == Append(w, x)
        <4>1. w \in Seq(S) /\ x \in S
          BY <2>1, <2>2
        <4>2. /\ v \in Seq(S) /\ Len(v) = Len(w) + 1 /\ Len(w) \in Nat
              /\ \A a \in 1 .. Len(w) : v[a] = w[a]
              /\ v[Len(w) + 1] = x
              /\ v # <<>>
          <5> HIDE DEF w, x
          <5> QED
            BY <4>1
        <4>3. W[m] = v
          BY <3>1
        <4> HIDE DEF v, w, x
        <4> QED
          BY <4>2, <4>3
      <3>3. Kept(m)
        <4>1. DOMAIN W[m] = (1 .. Len(w)) \cup {Len(w) + 1} /\ DOMAIN w = 1 .. Len(w)
          BY <3>2, <2>2
        <4>2. ToSet(W[m]) = ToSet(w) \cup {x}
          <5> HIDE DEF w, m, x
          <5> QED
            BY <3>2, <4>1 DEF ToSet
        <4> QED
          BY <4>2, <2>2, <2>3, <2>5
      <3>4. Order(m)
        <4> SUFFICES ASSUME NEW a \in 1 .. Len(W[m]), NEW b \in 1 .. Len(W[m]), a < b
                     PROVE  \E j, l \in 1 .. m : j < l /\ W[m][a] = q[j] /\ W[m][b] = q[l]
          OBVIOUS
        <4>1. a \in 1 .. Len(w) /\ W[m][a] = w[a]
          BY <3>2
        <4>2. CASE b \in 1 .. Len(w)
          <5>1. PICK j \in 1 .. k, l \in 1 .. k : j < l /\ w[a] = q[j] /\ w[b] = q[l]
            BY <2>2, <4>1, <4>2
          <5>2. j \in 1 .. m /\ l \in 1 .. m
            BY <2>1
          <5>3. W[m][b] = w[b]
            BY <3>2, <4>2
          <5> QED
            BY <5>1, <5>2, <5>3, <4>1
        <4>3. CASE b = Len(w) + 1
          <5>1. w[a] \in ToSet(w)
            BY <4>1, <2>2 DEF ToSet
          <5>2. PICK j \in 1 .. k : w[a] = q[j]
            BY <5>1, <2>2
          <5>3. j \in 1 .. m /\ m \in 1 .. m /\ j < m
            BY <2>1
          <5>4. W[m][b] = q[m]
            BY <4>3, <3>2
          <5> QED
            BY <5>2, <5>3, <5>4, <4>1
        <4> QED
          BY <4>2, <4>3, <3>2
      <3>5. First(m)
        <4>1. CASE k = 0
          <5>1. w = <<>>
            BY <4>1, <1>2, <1>1
          <5> QED
            BY <5>1, <4>1, <3>2
        <4>2. CASE k > 0
          <5> SUFFICES ASSUME q[1] \notin T PROVE W[m] # <<>> /\ W[m][1] = q[1]
            OBVIOUS
          <5>1. w # <<>> /\ w[1] = q[1]
            BY <4>2, <2>2
          <5>2. 1 \in 1 .. Len(w)
            BY <5>1, <2>2
          <5> QED
            BY <5>1, <5>2, <3>2
        <4> QED
          BY <4>1, <4>2, <2>1
      <3> QED
        BY <3>2, <3>3, <3>4, <3>5, <2>1 DEF IsPart
    <2> QED
      BY <2>4, <2>5
  <1>5. \A i \in 0 .. n : i \in P
    <2> HIDE DEF P
    <2>1. \A k \in 0 .. n - 1 : k \in P => k + 1 \in P
      BY <1>4
    <2> QED
      BY <1>1, <1>3, <2>1, InductionUpTo
  <1> QED
    BY <1>5 DEF n, W

\* Without takes out the elements of T and no others; it puts none twice, and does not
\* change the head unless it takes it out.
LEMMA WithoutLemma ==
    ASSUME NEW S, NEW q, q \in Seq(S), NEW T
    PROVE  /\ Without(q, T) \in Seq(S)
           /\ ToSet(Without(q, T)) = ToSet(q) \ T
           /\ IsInjective(q) => IsInjective(Without(q, T))
           /\ \A U : Once(q, U) => Once(Without(q, T), U)
           /\ q # <<>> /\ Head(q) \notin T =>
                 Without(q, T) # <<>> /\ Head(Without(q, T)) = Head(q)
  <1> DEFINE w == Without(q, T)
             n == Len(q)
  <1>1. n \in Nat /\ n \in 0 .. n /\ DOMAIN q = 1 .. n
    OBVIOUS
  <1>2. /\ w \in Seq(S)
        /\ ToSet(w) = {q[j] : j \in 1 .. n} \ T
        /\ \A a, b \in 1 .. Len(w) : a < b =>
              \E j, k \in 1 .. n : j < k /\ w[a] = q[j] /\ w[b] = q[k]
        /\ n > 0 /\ q[1] \notin T => w # <<>> /\ w[1] = q[1]
    <2>1. w \in Seq(S) /\ IsPart(w, q, T, n)
      BY <1>1, WithoutPrefix DEF Without
    <2> QED
      BY <2>1 DEF IsPart
  <1> HIDE DEF w
  <1>3. DOMAIN w = 1 .. Len(w) /\ Len(w) \in Nat
    BY <1>2
  <1>4. ASSUME IsInjective(q) PROVE IsInjective(w)
    <2> SUFFICES ASSUME NEW a \in 1 .. Len(w), NEW b \in 1 .. Len(w), w[a] = w[b], a < b
                 PROVE  FALSE
      BY <1>3 DEF IsInjective
    <2>1. PICK j \in 1 .. n, k \in 1 .. n : j < k /\ w[a] = q[j] /\ w[b] = q[k]
      BY <1>2
    <2>2. q[j] = q[k] /\ j \in DOMAIN q /\ k \in DOMAIN q
      BY <2>1, <1>1
    <2>3. j = k
      BY <2>2, <1>4 DEF IsInjective
    <2> QED
      BY <2>1, <2>3
  <1>5. ASSUME NEW U, Once(q, U) PROVE Once(w, U)
    <2> SUFFICES ASSUME NEW a \in 1 .. Len(w), NEW b \in 1 .. Len(w), a < b,
                        w[a] \in U, w[b] \in U
                 PROVE  FALSE
      BY <1>3 DEF Once
    <2>1. PICK j \in 1 .. n, k \in 1 .. n : j < k /\ w[a] = q[j] /\ w[b] = q[k]
      BY <1>2
    <2> QED
      BY <2>1, <1>1, <1>5 DEF Once
  <1>6. ASSUME q # <<>>, Head(q) \notin T PROVE w # <<>> /\ Head(w) = Head(q)
    <2>1. n > 0 /\ Head(q) = q[1]
      BY <1>6
    <2>2. w # <<>> /\ w[1] = q[1]
      BY <2>1, <1>2, <1>6
    <2> QED
      BY <2>1, <2>2, <1>2
  <1>7. ToSet(q) = {q[j] : j \in 1 .. n}
    BY <1>1 DEF ToSet
  <1> QED
    BY <1>2, <1>4, <1>5, <1>6, <1>7 DEF w

-----------------------------------------------------------------------------
\* A queue gets an element of U; it had none.
LEMMA OnceAppend ==
    ASSUME NEW S, NEW q \in Seq(S), NEW e \in S, NEW U,
           \/ Once(q, U) /\ e \notin U
           \/ ToSet(q) \cap U = {}
    PROVE  Once(Append(q, e), U)
  <1>1. /\ DOMAIN q = 1 .. Len(q) /\ DOMAIN Append(q, e) = 1 .. Len(q) + 1 /\ Len(q) \in Nat
        /\ \A k \in 1 .. Len(q) : Append(q, e)[k] = q[k]
        /\ Append(q, e)[Len(q) + 1] = e
    OBVIOUS
  <1> SUFFICES ASSUME NEW a \in 1 .. Len(q) + 1, NEW b \in 1 .. Len(q) + 1,
                      Append(q, e)[a] \in U, Append(q, e)[b] \in U
               PROVE  a = b
    BY <1>1 DEF Once
  <1>2. CASE Once(q, U) /\ e \notin U
    <2>1. a \in 1 .. Len(q) /\ b \in 1 .. Len(q)
      BY <1>1, <1>2
    <2> QED
      BY <1>1, <1>2, <2>1 DEF Once
  <1>3. CASE ToSet(q) \cap U = {}
    <2>1. \A k \in 1 .. Len(q) : q[k] \notin U
      BY <1>1, <1>3 DEF ToSet
    <2>2. a = Len(q) + 1 /\ b = Len(q) + 1
      BY <2>1, <1>1
    <2> QED
      BY <2>2
  <1> QED
    BY <1>2, <1>3

\* A queue loses its first element; if that is in U, no other is.
LEMMA OnceTail ==
    ASSUME NEW S, NEW q \in Seq(S), q # <<>>, NEW U, Once(q, U)
    PROVE  /\ Once(Tail(q), U)
           /\ Head(q) \in U => ToSet(Tail(q)) \cap U = {}
  <1>1. /\ DOMAIN q = 1 .. Len(q) /\ DOMAIN Tail(q) = 1 .. Len(q) - 1 /\ Len(q) \in Nat
        /\ \A k \in 1 .. Len(q) - 1 : Tail(q)[k] = q[k + 1]
        /\ Head(q) = q[1] /\ 1 \in 1 .. Len(q)
    OBVIOUS
  <1>2. Once(Tail(q), U)
    <2> SUFFICES ASSUME NEW a \in 1 .. Len(q) - 1, NEW b \in 1 .. Len(q) - 1,
                        Tail(q)[a] \in U, Tail(q)[b] \in U
                 PROVE  a = b
      BY <1>1 DEF Once
    <2>1. a + 1 \in DOMAIN q /\ b + 1 \in DOMAIN q /\ q[a + 1] \in U /\ q[b + 1] \in U
      BY <1>1
    <2>2. a + 1 = b + 1
      BY <2>1 DEF Once
    <2> QED
      BY <2>2
  <1>3. ASSUME Head(q) \in U, NEW k \in 1 .. Len(q) - 1, Tail(q)[k] \in U PROVE FALSE
    <2>1. k + 1 \in DOMAIN q /\ 1 \in DOMAIN q /\ q[k + 1] \in U /\ q[1] \in U
      BY <1>1, <1>3
    <2>2. k + 1 = 1
      BY <2>1 DEF Once
    <2> QED
      BY <2>2
  <1> QED
    BY <1>1, <1>2, <1>3 DEF ToSet

\* An empty queue.
LEMMA OnceEmpty == ASSUME NEW U PROVE Once(<<>>, U)
  BY DEF Once

\* A queue is followed by elements outside U.
LEMMA OnceConcat ==
    ASSUME NEW S, NEW q \in Seq(S), NEW r \in Seq(S), NEW U, Once(q, U), ToSet(r) \cap U = {}
    PROVE  Once(q \o r, U)
  <1>1. /\ Len(q) \in Nat /\ Len(r) \in Nat
        /\ DOMAIN (q \o r) = 1 .. Len(q) + Len(r) /\ DOMAIN q = 1 .. Len(q)
        /\ DOMAIN r = 1 .. Len(r)
        /\ \A k \in 1 .. Len(q) + Len(r) :
              (q \o r)[k] = IF k <= Len(q) THEN q[k] ELSE r[k - Len(q)]
    OBVIOUS
  <1>2. \A k \in 1 .. Len(r) : r[k] \notin U
    BY <1>1 DEF ToSet
  <1>3. ASSUME NEW k \in 1 .. Len(q) + Len(r), (q \o r)[k] \in U
        PROVE  k \in 1 .. Len(q) /\ q[k] \in U
    <2>1. CASE k <= Len(q)
      BY <2>1, <1>1, <1>3
    <2>2. CASE ~(k <= Len(q))
      <3>1. k - Len(q) \in 1 .. Len(r) /\ (q \o r)[k] = r[k - Len(q)]
        BY <2>2, <1>1
      <3> QED
        BY <3>1, <1>2, <1>3
    <2> QED
      BY <2>1, <2>2
  <1> SUFFICES ASSUME NEW a \in 1 .. Len(q) + Len(r), NEW b \in 1 .. Len(q) + Len(r),
                      (q \o r)[a] \in U, (q \o r)[b] \in U
               PROVE  a = b
    BY <1>1 DEF Once
  <1> QED
    BY <1>1, <1>3 DEF Once

\* InsertAt adds one element; the head stays unless the element goes before it.
LEMMA InsertAtElements ==
    ASSUME NEW S, NEW s \in Seq(S), NEW e \in S, NEW pos \in 1 .. Len(s) + 1
    PROVE  /\ InsertAt(s, pos, e) \in Seq(S)
           /\ ToSet(InsertAt(s, pos, e)) = ToSet(s) \cup {e}
           /\ IsInjective(s) /\ e \notin ToSet(s) => IsInjective(InsertAt(s, pos, e))
           /\ InsertAt(s, pos, e) # <<>>
           /\ pos > 1 => Head(InsertAt(s, pos, e)) = Head(s)
           /\ pos = 1 => Head(InsertAt(s, pos, e)) = e
  <1> DEFINE t == InsertAt(s, pos, e)
             n == Len(s)
             old(k) == IF k < pos THEN k ELSE k - 1
  <1>1. /\ t \in Seq(S)
        /\ Len(t) = n + 1
        /\ \A k \in 1 .. n + 1 : t[k] = IF k < pos THEN s[k] ELSE IF k = pos THEN e ELSE s[k - 1]
    BY InsertAtLemma
  <1>2. n \in Nat /\ DOMAIN s = 1 .. n
    OBVIOUS
  <1> HIDE DEF t, n
  <1>3. DOMAIN t = 1 .. n + 1
    BY <1>1, <1>2
  <1>4. pos \in 1 .. n + 1 /\ t[pos] = e
    BY <1>1, <1>2 DEF n
  <1>5. \A k \in 1 .. n + 1 : k # pos => old(k) \in 1 .. n /\ t[k] = s[old(k)]
    BY <1>1, <1>2, <1>4
  <1>6. ToSet(t) \subseteq ToSet(s) \cup {e}
    <2> HIDE DEF old
    <2> QED
      BY <1>2, <1>3, <1>4, <1>5 DEF ToSet
  <1>7. ASSUME NEW k \in 1 .. n PROVE s[k] \in ToSet(t)
    <2>1. CASE k < pos
      <3>1. k \in 1 .. n + 1 /\ t[k] = s[k]
        BY <2>1, <1>1, <1>2
      <3> QED
        BY <3>1, <1>3 DEF ToSet
    <2>2. CASE ~(k < pos)
      <3>1. k + 1 \in 1 .. n + 1 /\ t[k + 1] = s[k]
        BY <2>2, <1>1, <1>2, <1>4
      <3> QED
        BY <3>1, <1>3 DEF ToSet
    <2> QED
      BY <2>1, <2>2
  <1>8. ToSet(t) = ToSet(s) \cup {e}
    <2>1. e \in ToSet(t)
      BY <1>3, <1>4 DEF ToSet
    <2>2. ToSet(s) \subseteq ToSet(t)
      BY <1>2, <1>7 DEF ToSet
    <2> QED
      BY <2>1, <2>2, <1>6
  <1>9. ASSUME IsInjective(s), e \notin ToSet(s) PROVE IsInjective(t)
    <2> SUFFICES ASSUME NEW a \in 1 .. n + 1, NEW b \in 1 .. n + 1, t[a] = t[b], a # b
                 PROVE  FALSE
      BY <1>3 DEF IsInjective
    <2>1. \A k \in 1 .. n : s[k] # e
      BY <1>2, <1>9 DEF ToSet
    <2>2. a # pos /\ b # pos
      BY <2>1, <1>4, <1>5
    <2>3. old(a) \in 1 .. n /\ old(b) \in 1 .. n /\ s[old(a)] = s[old(b)]
      BY <2>2, <1>5
    <2>4. old(a) = old(b)
      <3> HIDE DEF old
      <3> QED
        BY <2>3, <1>2, <1>9 DEF IsInjective
    <2> QED
      BY <2>2, <2>4, <1>4
  <1>10. t # <<>> /\ Head(t) = t[1] /\ 1 \in 1 .. n + 1
    BY <1>1, <1>2
  <1>11. (pos > 1 => Head(t) = Head(s)) /\ (pos = 1 => Head(t) = e)
    <2>1. CASE pos > 1
      <3>1. t[1] = s[1] /\ n > 0
        BY <2>1, <1>1, <1>2, <1>4
      <3>2. s # <<>> /\ Head(s) = s[1]
        BY <3>1 DEF n
      <3> QED
        BY <3>1, <3>2, <1>10, <2>1
    <2>2. CASE pos = 1
      BY <2>2, <1>4, <1>10
    <2> QED
      BY <2>1, <2>2, <1>4
  <1> QED
    BY <1>1, <1>8, <1>9, <1>10, <1>11 DEF t

\* SetToSeq lists the elements of a finite set.
LEMMA SetToSeqLemma ==
    ASSUME NEW S, IsFiniteSet(S)
    PROVE  SetToSeq(S) \in Seq(S)
  <1> DEFINE n == Cardinality(S)
  <1>1. n \in Nat /\ ExistsBijection(1 .. n, S)
    BY FS_CardinalityType
  <1>2. PICK g \in [1 .. n -> S] : IsInjective(g)
    BY <1>1 DEF ExistsBijection, Bijection, Injection
  <1>3. SetToSeq(S) \in [1 .. n -> S]
    BY <1>2 DEF SetToSeq
  <1> HIDE DEF n
  <1> QED
    BY <1>1, <1>3

-----------------------------------------------------------------------------
\* Queues that agree in their first elements, and in which of them are taken out, keep
\* the same ones.
LEMMA WithoutAgree ==
    ASSUME NEW S, NEW p, p \in Seq(S), NEW q, q \in Seq(S), NEW A, NEW B, NEW n \in Nat,
           n <= Len(p), n <= Len(q),
           \A k \in 1 .. n : p[k] = q[k] /\ (p[k] \in A <=> q[k] \in B)
    PROVE  \A i \in 0 .. n : WithoutUpTo(p, A)[i] = WithoutUpTo(q, B)[i]
  <1> DEFINE V == WithoutUpTo(p, A)
             W == WithoutUpTo(q, B)
             P == {i \in 0 .. n : V[i] = W[i]}
  <1>1. \A i \in 0 .. Len(p) : V[i] = IF i = 0 THEN <<>>
                                      ELSE IF p[i] \in A THEN V[i - 1] ELSE Append(V[i - 1], p[i])
    BY WithoutSteps
  <1>2. \A i \in 0 .. Len(q) : W[i] = IF i = 0 THEN <<>>
                                      ELSE IF q[i] \in B THEN W[i - 1] ELSE Append(W[i - 1], q[i])
    BY WithoutSteps
  <1>3. Len(p) \in Nat /\ Len(q) \in Nat
    OBVIOUS
  <1> HIDE DEF V, W
  <1>4. 0 \in P
    BY <1>1, <1>2, <1>3
  <1>5. ASSUME NEW i \in 0 .. n - 1, i \in P PROVE i + 1 \in P
    <2>1. i + 1 \in 0 .. Len(p) /\ i + 1 \in 0 .. Len(q) /\ i + 1 # 0 /\ (i + 1) - 1 = i
          /\ i + 1 \in 1 .. n /\ i + 1 \in 0 .. n
      BY <1>3
    <2>2. V[i] = W[i]
      BY <1>5
    <2>3. V[i + 1] = IF p[i + 1] \in A THEN V[i] ELSE Append(V[i], p[i + 1])
      BY <2>1, <1>1
    <2>4. W[i + 1] = IF q[i + 1] \in B THEN W[i] ELSE Append(W[i], q[i + 1])
      BY <2>1, <1>2
    <2>5. p[i + 1] = q[i + 1] /\ (p[i + 1] \in A <=> q[i + 1] \in B)
      BY <2>1
    <2>6. V[i + 1] = W[i + 1]
      BY <2>2, <2>3, <2>4, <2>5
    <2> QED
      BY <2>1, <2>6
  <1> HIDE DEF P
  <1>6. \A i \in 0 .. n : i \in P
    BY <1>4, <1>5, InductionUpTo
  <1> QED
    BY <1>6 DEF P, V, W

\* What is taken out does not depend on elements that the queue does not have.
LEMMA WithoutSame ==
    ASSUME NEW S, NEW q, q \in Seq(S), NEW A, NEW B,
           \A e \in ToSet(q) : e \in A <=> e \in B
    PROVE  Without(q, A) = Without(q, B)
  <1>1. \A k \in 1 .. Len(q) : q[k] \in ToSet(q)
    BY DEF ToSet
  <1>2. Len(q) \in Nat /\ Len(q) <= Len(q) /\ Len(q) \in 0 .. Len(q)
    OBVIOUS
  <1>3. \A k \in 1 .. Len(q) : q[k] = q[k] /\ (q[k] \in A <=> q[k] \in B)
    BY <1>1
  <1>4. \A i \in 0 .. Len(q) : WithoutUpTo(q, A)[i] = WithoutUpTo(q, B)[i]
    BY <1>2, <1>3, WithoutAgree
  <1> QED
    BY <1>2, <1>4 DEF Without

\* A queue with nothing of T stays as it is.
LEMMA WithoutNothing ==
    ASSUME NEW S, NEW q, q \in Seq(S)
    PROVE  Without(q, {}) = q
  <1> DEFINE W == WithoutUpTo(q, {})
             P == {i \in 0 .. Len(q) : W[i] = SubSeq(q, 1, i)}
  <1>1. \A i \in 0 .. Len(q) : W[i] = IF i = 0 THEN <<>> ELSE Append(W[i - 1], q[i])
    <2>1. \A i \in 0 .. Len(q) : W[i] = IF i = 0 THEN <<>>
                                        ELSE IF q[i] \in {} THEN W[i - 1] ELSE Append(W[i - 1], q[i])
      BY WithoutSteps
    <2> HIDE DEF W
    <2> QED
      BY <2>1
  <1>2. Len(q) \in Nat /\ Len(q) \in 0 .. Len(q)
    OBVIOUS
  <1> HIDE DEF W
  <1>3. 0 \in P
    <2>1. 0 \in 0 .. Len(q) /\ W[0] = <<>>
      BY <1>1, <1>2
    <2>2. SubSeq(q, 1, 0) = <<>>
      OBVIOUS
    <2> QED
      BY <2>1, <2>2
  <1>4. ASSUME NEW i \in 0 .. Len(q) - 1, i \in P PROVE i + 1 \in P
    <2>1. i + 1 \in 0 .. Len(q) /\ i + 1 # 0 /\ (i + 1) - 1 = i
      BY <1>2
    <2>2. W[i + 1] = Append(SubSeq(q, 1, i), q[i + 1])
      BY <2>1, <1>1, <1>4
    <2>3. SubSeq(q, 1, i + 1) = Append(SubSeq(q, 1, i), q[i + 1])
      BY <1>2
    <2> QED
      BY <2>1, <2>2, <2>3
  <1> HIDE DEF P
  <1>5. \A i \in 0 .. Len(q) : i \in P
    BY <1>2, <1>3, <1>4, InductionUpTo
  <1>6. W[Len(q)] = SubSeq(q, 1, Len(q))
    BY <1>2, <1>5 DEF P
  <1> QED
    BY <1>6, <1>2 DEF Without, W

\* The last element is taken out, or comes last.
LEMMA WithoutAppend ==
    ASSUME NEW S, NEW q, q \in Seq(S), NEW e \in S, NEW T
    PROVE  Without(Append(q, e), T) =
              IF e \in T THEN Without(q, T) ELSE Append(Without(q, T), e)
  <1> DEFINE p == Append(q, e)
             n == Len(q)
  <1>1. /\ p \in Seq(S) /\ Len(p) = n + 1 /\ p[n + 1] = e /\ n \in Nat /\ n \in 0 .. n
        /\ \A k \in 1 .. n : p[k] = q[k]
        /\ n <= Len(p) /\ n <= Len(q)
    OBVIOUS
  <1> HIDE DEF p
  <1>2. \A i \in 0 .. n : WithoutUpTo(p, T)[i] = WithoutUpTo(q, T)[i]
    BY <1>1, WithoutAgree
  <1>3. \A i \in 0 .. Len(p) : WithoutUpTo(p, T)[i] =
              IF i = 0 THEN <<>>
              ELSE IF p[i] \in T THEN WithoutUpTo(p, T)[i - 1]
              ELSE Append(WithoutUpTo(p, T)[i - 1], p[i])
    BY <1>1, WithoutSteps
  <1>4. n + 1 \in 0 .. Len(p) /\ n + 1 # 0 /\ (n + 1) - 1 = n
    BY <1>1
  <1>5. WithoutUpTo(p, T)[n + 1] =
              IF e \in T THEN WithoutUpTo(p, T)[n] ELSE Append(WithoutUpTo(p, T)[n], e)
    BY <1>1, <1>3, <1>4
  <1> QED
    BY <1>1, <1>2, <1>5 DEF Without, p

\* An empty queue has nothing to take out.
LEMMA WithoutEmpty ==
    ASSUME NEW T
    PROVE  Without(<<>>, T) = <<>>
  <1>1. \A q \in Seq({}) : WithoutUpTo(q, T)[0] = <<>>
    <2> TAKE q \in Seq({})
    <2>1. 0 \in 0 .. Len(q)
      OBVIOUS
    <2> QED
      BY <2>1, WithoutSteps
  <1>2. <<>> \in Seq({}) /\ Len(<<>>) = 0
    OBVIOUS
  <1> QED
    BY <1>1, <1>2 DEF Without

\* Taking out twice is taking out at once.
LEMMA WithoutTwice ==
    ASSUME NEW S, NEW q, q \in Seq(S), NEW A, NEW B
    PROVE  Without(Without(q, A), B) = Without(q, A \cup B)
  <1> DEFINE V == WithoutUpTo(q, A)
             W == WithoutUpTo(q, A \cup B)
             n == Len(q)
             P == {i \in 0 .. n : Without(V[i], B) = W[i]}
  <1>1. n \in Nat /\ n \in 0 .. n
    OBVIOUS
  <1>2. \A i \in 0 .. n : V[i] = IF i = 0 THEN <<>>
                                 ELSE IF q[i] \in A THEN V[i - 1] ELSE Append(V[i - 1], q[i])
    BY WithoutSteps
  <1>3. \A i \in 0 .. n : W[i] = IF i = 0 THEN <<>>
                                 ELSE IF q[i] \in A \cup B THEN W[i - 1] ELSE Append(W[i - 1], q[i])
    BY WithoutSteps
  <1>4. \A i \in 0 .. n : V[i] \in Seq(S)
    BY WithoutPrefix
  <1>5. \A i \in 1 .. n : q[i] \in S
    OBVIOUS
  <1>6. Without(<<>>, B) = <<>>
    BY WithoutEmpty
  <1> HIDE DEF V, W, n
  <1>7. 0 \in P
    BY <1>1, <1>2, <1>3, <1>6
  <1>8. ASSUME NEW i \in 0 .. n - 1, i \in P PROVE i + 1 \in P
    <2>1. i + 1 \in 0 .. n /\ i + 1 # 0 /\ (i + 1) - 1 = i /\ i + 1 \in 1 .. n /\ i \in 0 .. n
      BY <1>1
    <2>2. Without(V[i], B) = W[i]
      BY <1>8
    <2>3. V[i + 1] = IF q[i + 1] \in A THEN V[i] ELSE Append(V[i], q[i + 1])
      BY <2>1, <1>2
    <2>4. W[i + 1] = IF q[i + 1] \in A \cup B THEN W[i] ELSE Append(W[i], q[i + 1])
      BY <2>1, <1>3
    <2>5. Without(Append(V[i], q[i + 1]), B) =
             IF q[i + 1] \in B THEN Without(V[i], B) ELSE Append(Without(V[i], B), q[i + 1])
      <3>1. V[i] \in Seq(S) /\ q[i + 1] \in S
        BY <2>1, <1>4, <1>5
      <3>2. \A v \in Seq(S), e \in S : Without(Append(v, e), B) =
                IF e \in B THEN Without(v, B) ELSE Append(Without(v, B), e)
        BY WithoutAppend
      <3> HIDE DEF P
      <3> QED
        BY <3>1, <3>2
    <2>6. Without(V[i + 1], B) = W[i + 1]
      <3>1. CASE q[i + 1] \in A
        BY <3>1, <2>2, <2>3, <2>4
      <3>2. CASE q[i + 1] \notin A /\ q[i + 1] \in B
        BY <3>2, <2>2, <2>3, <2>4, <2>5
      <3>3. CASE q[i + 1] \notin A /\ q[i + 1] \notin B
        BY <3>3, <2>2, <2>3, <2>4, <2>5
      <3> QED
        BY <3>1, <3>2, <3>3
    <2> QED
      BY <2>1, <2>6
  <1> HIDE DEF P
  <1>9. \A i \in 0 .. n : i \in P
    BY <1>1, <1>7, <1>8, InductionUpTo
  <1> QED
    BY <1>1, <1>9 DEF P, V, W, n, Without


\* An element that is taken out may be put in anywhere.
LEMMA WithoutInsert ==
    ASSUME NEW S, NEW q, q \in Seq(S), NEW e \in S, NEW pos \in 1 .. Len(q) + 1,
           NEW T, e \in T
    PROVE  Without(InsertAt(q, pos, e), T) = Without(q, T)
  <1> DEFINE p == InsertAt(q, pos, e)
             n == Len(q)
             V == WithoutUpTo(p, T)
             W == WithoutUpTo(q, T)
             m == n + 1 - pos
             P == {j \in 0 .. m : V[pos + j] = W[pos + j - 1]}
  <1>1. /\ p \in Seq(S) /\ Len(p) = n + 1 /\ n \in Nat
        /\ \A k \in 1 .. n + 1 :
              p[k] = IF k < pos THEN q[k] ELSE IF k = pos THEN e ELSE q[k - 1]
    BY InsertAtLemma
  <1> HIDE DEF p, n
  <1>2. \A i \in 0 .. Len(p) : V[i] = IF i = 0 THEN <<>>
                                      ELSE IF p[i] \in T THEN V[i - 1] ELSE Append(V[i - 1], p[i])
    BY <1>1, WithoutSteps
  <1>3. \A i \in 0 .. n : W[i] = IF i = 0 THEN <<>>
                                 ELSE IF q[i] \in T THEN W[i - 1] ELSE Append(W[i - 1], q[i])
    BY WithoutSteps DEF n
  <1>4. pos \in Nat /\ pos >= 1 /\ pos - 1 \in Nat /\ pos <= n + 1 /\ m \in Nat
        /\ pos - 1 <= n /\ pos - 1 <= Len(p)
    BY <1>1 DEF n
  <1>5. \A i \in 0 .. pos - 1 : V[i] = W[i]
    <2>1. \A k \in 1 .. pos - 1 : p[k] = q[k] /\ (p[k] \in T <=> q[k] \in T)
      BY <1>1, <1>4
    <2>2. pos - 1 <= Len(q)
      BY <1>4 DEF n
    <2> DEFINE l == pos - 1
    <2>3. l \in Nat /\ l <= Len(p) /\ l <= Len(q)
      BY <1>4, <2>2
    <2>4. \A k \in 1 .. l : p[k] = q[k] /\ (p[k] \in T <=> q[k] \in T)
      BY <2>1
    <2> HIDE DEF l
    <2>5. \A i \in 0 .. l : WithoutUpTo(p, T)[i] = WithoutUpTo(q, T)[i]
      <3>1. p \in Seq(S)
        BY <1>1
      <3> HIDE DEF V, W, m, P
      <3> QED
        BY <3>1, <2>3, <2>4, WithoutAgree
    <2> QED
      BY <2>5 DEF l
  <1> HIDE DEF V, W
  <1>6. 0 \in P
    <2>1. pos \in 0 .. Len(p) /\ pos # 0 /\ p[pos] = e /\ pos - 1 \in 0 .. pos - 1
      BY <1>1, <1>4
    <2>2. V[pos] = V[pos - 1]
      BY <2>1, <1>2
    <2> QED
      BY <2>1, <2>2, <1>4, <1>5
  <1>7. ASSUME NEW j \in 0 .. m - 1, j \in P PROVE j + 1 \in P
    <2> DEFINE i == pos + j
    <2>1. /\ i \in Nat /\ i > 0 /\ i + 1 \in 0 .. Len(p) /\ i \in 0 .. n /\ i # 0 /\ i + 1 # 0
          /\ (i + 1) - 1 = i /\ pos + (j + 1) = i + 1 /\ pos + (j + 1) - 1 = i
          /\ j + 1 \in 0 .. m /\ i + 1 \in 1 .. n + 1 /\ i + 1 > pos
      BY <1>1, <1>4
    <2>2. V[i] = W[i - 1]
      <3>1. V[pos + j] = W[pos + j - 1]
        BY <1>7
      <3> QED
        BY <3>1
    <2> HIDE DEF i
    <2>3. p[i + 1] = q[i]
      <3>1. p[i + 1] = q[(i + 1) - 1]
        <4>1. ~(i + 1 < pos) /\ i + 1 # pos
          BY <2>1, <1>4
        <4> QED
          BY <4>1, <2>1, <1>1
      <3> QED
        BY <3>1, <2>1
    <2>4. V[i + 1] = IF q[i] \in T THEN V[i] ELSE Append(V[i], q[i])
      BY <2>1, <2>3, <1>2
    <2>5. W[i] = IF q[i] \in T THEN W[i - 1] ELSE Append(W[i - 1], q[i])
      BY <2>1, <1>3
    <2>6. V[i + 1] = W[i]
      BY <2>2, <2>4, <2>5
    <2> QED
      BY <2>1, <2>6
  <1> HIDE DEF P
  <1>8. \A j \in 0 .. m : j \in P
    BY <1>4, <1>6, <1>7, InductionUpTo
  <1>9. V[n + 1] = W[n]
    <2>1. m \in 0 .. m /\ pos + m = n + 1 /\ pos + m - 1 = n
      BY <1>1, <1>4
    <2> QED
      BY <2>1, <1>8 DEF P
  <1> QED
    BY <1>1, <1>9 DEF Without, V, W, p, n

\* What comes first in the rest is the first that is not taken out.
LEMMA WithoutFirst ==
    ASSUME NEW S, NEW q, q \in Seq(S), NEW T, Without(q, T) # <<>>
    PROVE  \E k \in 1 .. Len(q) : /\ q[k] = Head(Without(q, T)) /\ q[k] \notin T
                                  /\ \A j \in 1 .. k - 1 : q[j] \in T
  <1> DEFINE W == WithoutUpTo(q, T)
             n == Len(q)
             None(i) == W[i] = <<>> /\ \A j \in 1 .. i : q[j] \in T
             Some(i) == /\ W[i] # <<>>
                        /\ \E k \in 1 .. i : /\ q[k] = Head(W[i]) /\ q[k] \notin T
                                             /\ \A j \in 1 .. k - 1 : q[j] \in T
             P == {i \in 0 .. n : None(i) \/ Some(i)}
  <1>1. n \in Nat /\ n \in 0 .. n
    OBVIOUS
  <1>2. \A i \in 0 .. n : W[i] = IF i = 0 THEN <<>>
                                 ELSE IF q[i] \in T THEN W[i - 1] ELSE Append(W[i - 1], q[i])
    BY WithoutSteps
  <1>3. \A i \in 0 .. n : W[i] \in Seq(S)
    BY WithoutPrefix
  <1>4. \A i \in 1 .. n : q[i] \in S
    OBVIOUS
  <1> HIDE DEF W, n
  <1>5. 0 \in P
    BY <1>1, <1>2
  <1>6. ASSUME NEW i \in 0 .. n - 1, i \in P PROVE i + 1 \in P
    <2>1. /\ i \in Nat /\ i + 1 \in 0 .. n /\ i + 1 # 0 /\ (i + 1) - 1 = i /\ i + 1 \in 1 .. n
          /\ i \in 0 .. n
      BY <1>1
    <2>2. W[i + 1] = IF q[i + 1] \in T THEN W[i] ELSE Append(W[i], q[i + 1])
      BY <2>1, <1>2
    <2>3. W[i] \in Seq(S) /\ q[i + 1] \in S
      BY <2>1, <1>3, <1>4
    <2>4. CASE q[i + 1] \in T /\ None(i)
      <3>1. None(i + 1)
        BY <2>1, <2>2, <2>4
      <3> QED
        BY <3>1, <2>1
    <2>5. CASE q[i + 1] \in T /\ Some(i)
      <3>1. Some(i + 1)
        BY <2>1, <2>2, <2>5
      <3> QED
        BY <3>1, <2>1
    <2>6. CASE q[i + 1] \notin T /\ None(i)
      <3>1. W[i + 1] # <<>> /\ Head(W[i + 1]) = q[i + 1]
        <4>1. W[i + 1] = Append(<<>>, q[i + 1])
          BY <2>2, <2>6
        <4> QED
          BY <4>1, <2>3
      <3>2. \A j \in 1 .. (i + 1) - 1 : q[j] \in T
        BY <2>1, <2>6
      <3>3. i + 1 \in 1 .. i + 1
        BY <2>1
      <3>4. Some(i + 1)
        BY <3>1, <3>2, <3>3, <2>6
      <3> QED
        BY <3>4, <2>1
    <2>7. CASE q[i + 1] \notin T /\ Some(i)
      <3>1. W[i + 1] # <<>> /\ Head(W[i + 1]) = Head(W[i])
        <4>1. W[i + 1] = Append(W[i], q[i + 1]) /\ W[i] # <<>>
          BY <2>2, <2>7
        <4>2. \A s \in Seq(S), x \in S : s # <<>> => Append(s, x) # <<>> /\ Head(Append(s, x)) = Head(s)
          OBVIOUS
        <4> QED
          BY <4>1, <4>2, <2>3
      <3>2. PICK k \in 1 .. i : /\ q[k] = Head(W[i]) /\ q[k] \notin T
                                /\ \A j \in 1 .. k - 1 : q[j] \in T
        BY <2>7
      <3>3. k \in 1 .. i + 1
        BY <2>1
      <3>4. Some(i + 1)
        BY <3>1, <3>2, <3>3
      <3> QED
        BY <3>4, <2>1
    <2> HIDE DEF None, Some
    <2>8. None(i) \/ Some(i)
      BY <1>6
    <2> QED
      BY <2>4, <2>5, <2>6, <2>7, <2>8
  <1> HIDE DEF P
  <1>7. \A i \in 0 .. n : i \in P
    BY <1>1, <1>5, <1>6, InductionUpTo
  <1>8. W[n] # <<>>
    BY DEF Without, W, n
  <1>9. Some(n)
    BY <1>1, <1>7, <1>8 DEF P
  <1> QED
    BY <1>9 DEF Without, W, n


-----------------------------------------------------------------------------
\* A queue is its head and the rest.
LEMMA SetOfHeadTail ==
    ASSUME NEW S, NEW q \in Seq(S), q # <<>>
    PROVE  ToSet(q) = {Head(q)} \cup ToSet(Tail(q))
  <1>1. /\ Head(q) = q[1] /\ Len(Tail(q)) = Len(q) - 1 /\ Len(q) \in Nat /\ Len(q) > 0
        /\ \A k \in 1 .. Len(q) - 1 : Tail(q)[k] = q[k + 1]
        /\ DOMAIN q = 1 .. Len(q) /\ DOMAIN Tail(q) = 1 .. Len(q) - 1
    OBVIOUS
  <1>2. ToSet(Tail(q)) \subseteq ToSet(q) /\ Head(q) \in ToSet(q)
    BY SetOfTail
  <1>3. ASSUME NEW k \in 1 .. Len(q) PROVE q[k] = Head(q) \/ q[k] \in ToSet(Tail(q))
    <2>1. CASE k = 1
      BY <2>1, <1>1
    <2>2. CASE k # 1
      <3>1. k - 1 \in 1 .. Len(q) - 1 /\ (k - 1) + 1 = k
        BY <2>2, <1>1
      <3>2. Tail(q)[k - 1] = q[k]
        BY <3>1, <1>1
      <3> QED
        BY <3>1, <3>2, <1>1 DEF ToSet
    <2> QED
      BY <2>1, <2>2
  <1>4. ToSet(q) = {q[k] : k \in 1 .. Len(q)}
    BY <1>1 DEF ToSet
  <1> QED
    BY <1>2, <1>3, <1>4

\* An element is put in front.
LEMMA SetOfPush ==
    ASSUME NEW S, NEW q \in Seq(S), NEW e \in S
    PROVE  /\ <<e>> \o q \in Seq(S)
           /\ ToSet(<<e>> \o q) = {e} \cup ToSet(q)
           /\ <<e>> \o q # <<>> /\ Head(<<e>> \o q) = e /\ Tail(<<e>> \o q) = q
  <1>1. /\ <<e>> \o q \in Seq(S) /\ Len(<<e>> \o q) = Len(q) + 1
        /\ (<<e>> \o q)[1] = e
        /\ \A k \in 1 .. Len(q) : (<<e>> \o q)[k + 1] = q[k]
    OBVIOUS
  <1>2. <<e>> \o q # <<>> /\ Head(<<e>> \o q) = e
    BY <1>1
  <1>3. Tail(<<e>> \o q) = q
    OBVIOUS
  <1> DEFINE p == <<e>> \o q
  <1>4. p \in Seq(S) /\ p # <<>>
    BY <1>1, <1>2
  <1>5. ToSet(p) = {Head(p)} \cup ToSet(Tail(p))
    <2> HIDE DEF p
    <2> QED
      BY <1>4, SetOfHeadTail
  <1> QED
    BY <1>1, <1>2, <1>3, <1>5

\* Nothing comes after anything in an empty queue.
LEMMA NoneAfterEmpty == ASSUME NEW A, NEW B PROVE NoneAfter(<<>>, A, B)
  BY DEF NoneAfter

\* The order of the rest is that of the queue; what must not follow the head does not.
LEMMA NoneAfterTail ==
    ASSUME NEW S, NEW q \in Seq(S), q # <<>>, NEW A, NEW B, NoneAfter(q, A, B)
    PROVE  /\ NoneAfter(Tail(q), A, B)
           /\ Head(q) \in A => ToSet(Tail(q)) \cap B = {}
  <1>1. /\ Head(q) = q[1] /\ Len(q) \in Nat /\ Len(q) > 0
        /\ \A k \in 1 .. Len(q) - 1 : Tail(q)[k] = q[k + 1]
        /\ DOMAIN q = 1 .. Len(q) /\ DOMAIN Tail(q) = 1 .. Len(q) - 1
    OBVIOUS
  <1>2. \A i, j \in 1 .. Len(q) : i < j /\ q[i] \in A => q[j] \notin B
    BY <1>1 DEF NoneAfter
  <1>3. ASSUME NEW i \in 1 .. Len(q) - 1, NEW j \in 1 .. Len(q) - 1, i < j, Tail(q)[i] \in A
        PROVE  Tail(q)[j] \notin B
    <2>1. i + 1 \in 1 .. Len(q) /\ j + 1 \in 1 .. Len(q) /\ i + 1 < j + 1
      BY <1>1, <1>3
    <2> QED
      BY <2>1, <1>1, <1>2, <1>3
  <1>4. NoneAfter(Tail(q), A, B)
    BY <1>1, <1>3 DEF NoneAfter
  <1>5. ASSUME Head(q) \in A, NEW j \in 1 .. Len(q) - 1 PROVE Tail(q)[j] \notin B
    <2>1. j + 1 \in 1 .. Len(q) /\ 1 \in 1 .. Len(q) /\ 1 < j + 1
      BY <1>1
    <2> QED
      BY <2>1, <1>1, <1>2, <1>5
  <1>6. ToSet(Tail(q)) = {Tail(q)[j] : j \in 1 .. Len(q) - 1}
    BY <1>1 DEF ToSet
  <1> QED
    BY <1>4, <1>5, <1>6

\* An element is put in front of a queue that has nothing that must not follow it.
LEMMA NoneAfterPush ==
    ASSUME NEW S, NEW q \in Seq(S), NEW e \in S, NEW A, NEW B, NoneAfter(q, A, B),
           e \in A => ToSet(q) \cap B = {}
    PROVE  NoneAfter(<<e>> \o q, A, B)
  <1> DEFINE p == <<e>> \o q
  <1>1. /\ p[1] = e /\ Len(q) \in Nat
        /\ \A k \in 1 .. Len(q) : p[k + 1] = q[k]
        /\ DOMAIN q = 1 .. Len(q) /\ DOMAIN p = 1 .. Len(q) + 1
    OBVIOUS
  <1>2. \A i, j \in 1 .. Len(q) : i < j /\ q[i] \in A => q[j] \notin B
    BY <1>1 DEF NoneAfter
  <1>3. \A j \in 1 .. Len(q) : q[j] \in ToSet(q)
    BY <1>1 DEF ToSet
  <1> HIDE DEF p
  <1>4. ASSUME NEW i \in 1 .. Len(q) + 1, NEW j \in 1 .. Len(q) + 1, i < j, p[i] \in A
        PROVE  p[j] \notin B
    <2>1. j - 1 \in 1 .. Len(q) /\ (j - 1) + 1 = j
      BY <1>1, <1>4
    <2>2. p[j] = q[j - 1]
      BY <2>1, <1>1
    <2>3. CASE i = 1
      BY <2>1, <2>2, <2>3, <1>1, <1>3, <1>4
    <2>4. CASE i # 1
      <3>1. i - 1 \in 1 .. Len(q) /\ (i - 1) + 1 = i /\ i - 1 < j - 1
        BY <2>4, <1>1, <1>4
      <3>2. p[i] = q[i - 1]
        BY <3>1, <1>1
      <3> QED
        BY <3>1, <3>2, <2>1, <2>2, <1>2, <1>4
    <2> QED
      BY <2>3, <2>4
  <1> QED
    BY <1>1, <1>4 DEF NoneAfter, p

\* An element comes last that may follow the others.
LEMMA NoneAfterAppend ==
    ASSUME NEW S, NEW q \in Seq(S), NEW e \in S, NEW A, NEW B, NoneAfter(q, A, B),
           e \in B => ToSet(q) \cap A = {}
    PROVE  NoneAfter(Append(q, e), A, B)
  <1> DEFINE p == Append(q, e)
  <1>1. /\ p[Len(q) + 1] = e /\ Len(q) \in Nat
        /\ \A k \in 1 .. Len(q) : p[k] = q[k]
        /\ DOMAIN q = 1 .. Len(q) /\ DOMAIN p = 1 .. Len(q) + 1
    OBVIOUS
  <1>2. \A i, j \in 1 .. Len(q) : i < j /\ q[i] \in A => q[j] \notin B
    BY <1>1 DEF NoneAfter
  <1>3. \A j \in 1 .. Len(q) : q[j] \in ToSet(q)
    BY <1>1 DEF ToSet
  <1> HIDE DEF p
  <1>4. ASSUME NEW i \in 1 .. Len(q) + 1, NEW j \in 1 .. Len(q) + 1, i < j, p[i] \in A
        PROVE  p[j] \notin B
    <2>1. i \in 1 .. Len(q)
      BY <1>1, <1>4
    <2>2. CASE j = Len(q) + 1
      BY <2>1, <2>2, <1>1, <1>3, <1>4
    <2>3. CASE j # Len(q) + 1
      <3>1. j \in 1 .. Len(q)
        BY <2>3, <1>1
      <3> QED
        BY <3>1, <2>1, <1>1, <1>2, <1>4
    <2> QED
      BY <2>2, <2>3
  <1> QED
    BY <1>1, <1>4 DEF NoneAfter, p

\* Taking elements out keeps the order.
LEMMA NoneAfterWithout ==
    ASSUME NEW S, NEW q, q \in Seq(S), NEW T, NEW A, NEW B, NoneAfter(q, A, B)
    PROVE  NoneAfter(Without(q, T), A, B)
  <1> DEFINE w == Without(q, T)
             n == Len(q)
  <1>1. n \in Nat /\ n \in 0 .. n /\ DOMAIN q = 1 .. n
    OBVIOUS
  <1>2. /\ w \in Seq(S)
        /\ \A a, b \in 1 .. Len(w) : a < b =>
              \E j, k \in 1 .. n : j < k /\ w[a] = q[j] /\ w[b] = q[k]
    <2>1. w \in Seq(S) /\ IsPart(w, q, T, n)
      BY <1>1, WithoutPrefix DEF Without
    <2> QED
      BY <2>1 DEF IsPart
  <1> HIDE DEF w
  <1>3. DOMAIN w = 1 .. Len(w)
    BY <1>2
  <1>4. ASSUME NEW a \in 1 .. Len(w), NEW b \in 1 .. Len(w), a < b, w[a] \in A
        PROVE  w[b] \notin B
    <2>1. PICK j \in 1 .. n, k \in 1 .. n : j < k /\ w[a] = q[j] /\ w[b] = q[k]
      BY <1>2, <1>4
    <2> QED
      BY <2>1, <1>1, <1>4 DEF NoneAfter
  <1> QED
    BY <1>3, <1>4 DEF NoneAfter, w


\* A queue that has an element of T has a last one.
LEMMA LastOfLemma ==
    ASSUME NEW S, NEW q, q \in Seq(S), NEW T, ToSet(q) \cap T # {}
    PROVE  /\ LastOf(q, T) \in 1 .. Len(q) /\ q[LastOf(q, T)] \in T
           /\ \A j \in 1 .. Len(q) : q[j] \in T => j <= LastOf(q, T)
  <1> DEFINE n == Len(q)
             D == {m \in Nat : \E k \in 1 .. n : q[k] \in T /\ m = n - k}
  <1>1. n \in Nat /\ DOMAIN q = 1 .. n
    OBVIOUS
  <1>2. \E k \in 1 .. n : q[k] \in T
    BY <1>1 DEF ToSet
  <1>3. D # {} /\ D \subseteq Nat
    <2>1. PICK k \in 1 .. n : q[k] \in T
      BY <1>2
    <2>2. n - k \in Nat
      <3> HIDE DEF n
      <3> QED
        BY <1>1
    <2>3. n - k \in D
      BY <2>1, <2>2
    <2> QED
      BY <2>3
  <1>4. PICK x \in D : \A y \in D : x <= y
    <2> HIDE DEF D
    <2> QED
      BY <1>3, LeastNumber
  <1>5. PICK k \in 1 .. n : q[k] \in T /\ x = n - k
    BY <1>4
  <1>6. ASSUME NEW j \in 1 .. n, q[j] \in T PROVE j <= k
    <2>1. n - j \in Nat
      <3> HIDE DEF n
      <3> QED
        BY <1>1
    <2>2. n - j \in D
      BY <2>1, <1>6
    <2>3. n - k <= n - j
      BY <2>2, <1>4, <1>5
    <2> HIDE DEF n
    <2> QED
      BY <2>3, <1>1
  <1>7. \E l \in DOMAIN q : q[l] \in T /\ \A j \in DOMAIN q : q[j] \in T => j <= l
    BY <1>1, <1>5, <1>6
  <1>8. /\ LastOf(q, T) \in DOMAIN q /\ q[LastOf(q, T)] \in T
        /\ \A j \in DOMAIN q : q[j] \in T => j <= LastOf(q, T)
    BY <1>7 DEF LastOf
  <1> QED
    BY <1>8, <1>1

\* DropLast takes out one element, of T, and keeps the order of the others.
LEMMA DropLastLemma ==
    ASSUME NEW S, NEW q, q \in Seq(S), NEW T
    PROVE  /\ DropLast(q, T) \in Seq(S)
           /\ ToSet(DropLast(q, T)) \subseteq ToSet(q)
           /\ ToSet(q) \ T \subseteq ToSet(DropLast(q, T))
           /\ Once(q, T) => ToSet(DropLast(q, T)) \cap T = {}
           /\ \A U : Once(q, U) => Once(DropLast(q, T), U)
           /\ \A A, B : NoneAfter(q, A, B) => NoneAfter(DropLast(q, T), A, B)
  <1>1. CASE ToSet(q) \cap T = {}
    BY <1>1 DEF DropLast
  <1>2. CASE ToSet(q) \cap T # {}
    <2> DEFINE pos == LastOf(q, T)
               d == RemoveAt(q, pos)
               n == Len(q)
               old(k) == IF k < pos THEN k ELSE k + 1
    <2>1. pos \in 1 .. n /\ q[pos] \in T /\ n \in Nat /\ DOMAIN q = 1 .. n
      BY <1>2, LastOfLemma
    <2> HIDE DEF pos
    <2>2. /\ d \in Seq(S) /\ Len(d) = n - 1
          /\ \A k \in 1 .. n - 1 : d[k] = IF k < pos THEN q[k] ELSE q[k + 1]
      BY <2>1, RemoveAtLemma
    <2> HIDE DEF d
    <2>3. DOMAIN d = 1 .. n - 1
      BY <2>1, <2>2
    <2>4. \A k \in 1 .. n - 1 : old(k) \in 1 .. n /\ old(k) # pos /\ d[k] = q[old(k)]
      BY <2>1, <2>2
    <2>5. \A a, b \in 1 .. n - 1 : a < b => old(a) < old(b)
      BY <2>1
    <2>6. ASSUME NEW j \in 1 .. n, j # pos PROVE \E k \in 1 .. n - 1 : d[k] = q[j]
      <3>1. CASE j < pos
        BY <3>1, <2>1, <2>2
      <3>2. CASE j > pos
        <4>1. j - 1 \in 1 .. n - 1 /\ ~(j - 1 < pos) /\ (j - 1) + 1 = j
          BY <3>2, <2>1
        <4>2. d[j - 1] = q[j]
          BY <4>1, <2>2
        <4> QED
          BY <4>1, <4>2
      <3> QED
        BY <3>1, <3>2, <2>1, <2>6
    <2> HIDE DEF old
    <2>7. ToSet(d) = {d[k] : k \in 1 .. n - 1} /\ ToSet(q) = {q[k] : k \in 1 .. n}
      BY <2>1, <2>3 DEF ToSet
    <2>8. ToSet(d) \subseteq ToSet(q)
      BY <2>4, <2>7
    <2>9. ToSet(q) \ T \subseteq ToSet(d)
      BY <2>1, <2>6, <2>7
    <2>10. ASSUME Once(q, T) PROVE ToSet(d) \cap T = {}
      <3>1. ASSUME NEW k \in 1 .. n - 1, d[k] \in T PROVE FALSE
        BY <3>1, <2>1, <2>4, <2>10 DEF Once
      <3> QED
        BY <3>1, <2>7
    <2>11. ASSUME NEW U, Once(q, U) PROVE Once(d, U)
      <3> SUFFICES ASSUME NEW a \in 1 .. n - 1, NEW b \in 1 .. n - 1, d[a] \in U, d[b] \in U,
                          a < b
                   PROVE  FALSE
        BY <2>1, <2>3 DEF Once
      <3>1. old(a) = old(b)
        BY <2>1, <2>4, <2>11 DEF Once
      <3>2. old(a) < old(b) /\ old(a) \in Int
        BY <2>1, <2>4, <2>5
      <3> QED
        BY <3>1, <3>2
    <2>12. ASSUME NEW A, NEW B, NoneAfter(q, A, B) PROVE NoneAfter(d, A, B)
      <3> SUFFICES ASSUME NEW a \in 1 .. n - 1, NEW b \in 1 .. n - 1, d[a] \in A, a < b
                   PROVE  d[b] \notin B
        BY <2>1, <2>3 DEF NoneAfter
      <3>1. old(a) < old(b)
        BY <2>5
      <3> QED
        BY <3>1, <2>1, <2>4, <2>12 DEF NoneAfter
    <2>13. DropLast(q, T) = d
      BY <1>2 DEF DropLast, d, pos
    <2> QED
      BY <2>2, <2>8, <2>9, <2>10, <2>11, <2>12, <2>13
  <1> QED
    BY <1>1, <1>2


=============================================================================
