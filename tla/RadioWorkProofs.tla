-------------------------- MODULE RadioWorkProofs --------------------------
(***************************************************************************)
(* The radio work queue keeps its promises for any number of items and     *)
(* insertions: proofs of the invariants of RadioWork.                      *)
(*                                                                         *)
(* The actions change the queue in two ways only, InsertAt and RemoveAt;   *)
(* the two lemmas on them are all that the other proofs know of sequences. *)
(***************************************************************************)
EXTENDS RadioWork, QueueTheorems

\* Removing one item (Release) keeps the queue free of duplicates, ordered and
\* exclusive, and leaves the head alone unless the head is what it removes.
LEMMA ReleaseLemma ==
    ASSUME IInv, NEW pos \in DOMAIN queue, Release(pos),
           UNCHANGED <<prio, work_ids, started>>
    PROVE  /\ queue' \in Seq(Items)
           /\ id' \in [Items -> 0 .. work_ids']
           /\ destroyed' \in [Items -> Nat]
           /\ NoDuplicates'
           /\ RadioExclusive'
           /\ ServiceOrder'
           /\ StartedPinned'
           /\ pos # 1 => queue # <<>> /\ Head(queue') = Head(queue)
  <1> DEFINE old(k) == IF k < pos THEN k ELSE k + 1
  <1>1. /\ queue \in Seq(Items)
        /\ pos \in 1 .. Len(queue)
        /\ queue[pos] \in Items
    BY DEF IInv, TypeOK
  <1>2. /\ queue' \in Seq(Items)
        /\ Len(queue') = Len(queue) - 1
        /\ \A k \in 1 .. Len(queue) - 1 :
              queue'[k] = IF k < pos THEN queue[k] ELSE queue[k + 1]
    BY <1>1, RemoveAtLemma DEF Release
  <1>3. \A k \in DOMAIN queue' :
            /\ k \in 1 .. Len(queue) - 1
            /\ old(k) \in DOMAIN queue
            /\ old(k) # pos
            /\ queue'[k] = queue[old(k)]
    BY <1>1, <1>2
  <1>4. \A a, b \in DOMAIN queue' :
            /\ a < b => old(a) < old(b)
            /\ old(a) = old(b) => a = b
            /\ old(a) = 1 => a = 1
    BY <1>1, <1>3
  <1>5. /\ id' \in [Items -> 0 .. work_ids']
        /\ destroyed' \in [Items -> Nat]
    <2>1. /\ id \in [Items -> 0 .. work_ids]
          /\ destroyed \in [Items -> Nat]
          /\ work_ids \in Nat
          /\ work_ids' = work_ids
      BY DEF IInv, TypeOK
    <2>2. /\ id' = [id EXCEPT ![queue[pos]] = 0]
          /\ destroyed' = [destroyed EXCEPT ![queue[pos]] = @ + 1]
      BY DEF Release
    <2> QED
      BY <1>1, <2>1, <2>2
  <1>6. \A k \in DOMAIN queue' :
            /\ queue'[k] \in Items
            /\ queue'[k] # queue[pos]
            /\ id'[queue'[k]] = id[queue'[k]]
    <2> SUFFICES ASSUME NEW k \in DOMAIN queue'
                 PROVE  /\ queue'[k] \in Items
                        /\ queue'[k] # queue[pos]
                        /\ id'[queue'[k]] = id[queue'[k]]
      OBVIOUS
    <2>1. queue[old(k)] # queue[pos]
      BY <1>3 DEF IInv, NoDuplicates
    <2>2. queue[old(k)] \in Items
      BY <1>1, <1>3
    <2>3. id \in [Items -> 0 .. work_ids]
      BY DEF IInv, TypeOK
    <2>4. id' = [id EXCEPT ![queue[pos]] = 0]
      BY DEF Release
    <2> HIDE DEF old
    <2> QED
      BY <1>1, <1>3, <2>1, <2>2, <2>3, <2>4
  <1> HIDE DEF old
  <1>7. NoDuplicates'
    BY <1>3, <1>4 DEF IInv, NoDuplicates
  <1>8. RadioExclusive'
    BY <1>3, <1>4 DEF IInv, RadioExclusive
  <1>9. ServiceOrder'
    BY <1>3, <1>4, <1>6 DEF IInv, ServiceOrder
  <1>10. StartedPinned'
    BY <1>3 DEF IInv, StartedPinned, INT_MIN
  <1>11. pos # 1 => queue # <<>> /\ Head(queue') = Head(queue)
    <2> SUFFICES ASSUME pos # 1
                 PROVE  queue # <<>> /\ Head(queue') = Head(queue)
      OBVIOUS
    <2>1. queue'[1] = queue[1] /\ Len(queue') >= 1 /\ Len(queue) >= 1
      BY <1>1, <1>2
    <2> QED
      BY <1>1, <1>2, <2>1
  <1> QED
    BY <1>2, <1>5, <1>7, <1>8, <1>9, <1>10, <1>11

\* wiphy_radio_work_insert() preserves the invariant.  The interesting case is
\* an item that goes first: then the old head is not started.
LEMMA InsertLemma ==
    ASSUME IInv, NEW i \in Items, Insert(i)
    PROVE  IInv'
  <1>1. PICK pos \in 1 .. Len(queue) + 1 :
            InsertPosition(i, pos) /\ queue' = InsertAt(queue, pos, i)
    BY DEF Insert
  <1> DEFINE old(k) == IF k < pos THEN k ELSE k - 1
  <1>2. /\ queue \in Seq(Items)
        /\ prio \in [Items -> Int]
        /\ id \in [Items -> 0 .. work_ids]
        /\ work_ids \in Nat
        /\ stack \in Seq(Frames)
        /\ started \in [Items -> Nat]
        /\ destroyed \in [Items -> Nat]
        /\ Priority[i] \in Nat
    BY PriorityAssumption DEF IInv, TypeOK
  <1>0. /\ DOMAIN queue = 1 .. Len(queue)
        /\ Len(queue) \in Nat
        /\ pos \in Int /\ 1 <= pos /\ pos <= Len(queue) + 1
        /\ Priority[i] \in Nat
    <2>1. DOMAIN queue = 1 .. Len(queue) /\ Len(queue) \in Nat
      BY <1>2
    <2> QED
      BY <1>2, <2>1
  <1>3. /\ queue' \in Seq(Items)
        /\ Len(queue') = Len(queue) + 1
        /\ \A k \in 1 .. Len(queue) + 1 : queue'[k] =
              IF k < pos THEN queue[k] ELSE IF k = pos THEN i ELSE queue[k - 1]
    <2>1. /\ InsertAt(queue, pos, i) \in Seq(Items)
          /\ Len(InsertAt(queue, pos, i)) = Len(queue) + 1
          /\ \A k \in 1 .. Len(queue) + 1 : InsertAt(queue, pos, i)[k] =
                IF k < pos THEN queue[k] ELSE IF k = pos THEN i ELSE queue[k - 1]
      BY <1>2, InsertAtLemma
    <2> QED
      BY <1>1, <2>1
  <1>4. /\ prio' = [prio EXCEPT ![i] = Priority[i]]
        /\ id' = [id EXCEPT ![i] = work_ids + 1]
        /\ started' = [started EXCEPT ![i] = 0]
        /\ destroyed' = [destroyed EXCEPT ![i] = 0]
        /\ work_ids' = work_ids + 1
        /\ stack' = IF Len(queue) = 0 THEN <<NextCall>> \o stack ELSE stack
        /\ \A k \in DOMAIN queue : queue[k] # i
    BY DEF Insert, Queued, AdvancedCounter, InsertionStarts
  <1>5. \A k \in DOMAIN queue' :
            \/ k = pos /\ queue'[k] = i
            \/ /\ k # pos
               /\ old(k) \in DOMAIN queue
               /\ queue'[k] = queue[old(k)]
    <2> SUFFICES ASSUME NEW k \in DOMAIN queue'
                 PROVE  \/ k = pos /\ queue'[k] = i
                        \/ /\ k # pos
                           /\ old(k) \in DOMAIN queue
                           /\ queue'[k] = queue[old(k)]
      OBVIOUS
    <2>1. /\ k \in 1 .. Len(queue) + 1
          /\ DOMAIN queue = 1 .. Len(queue)
          /\ Len(queue) \in Nat
      BY <1>2, <1>3
    <2>2. k # pos => old(k) \in 1 .. Len(queue)
      BY <1>1, <2>1
    <2>3. queue'[k] = IF k < pos THEN queue[k]
                      ELSE IF k = pos THEN i ELSE queue[k - 1]
      BY <1>3, <2>1
    <2> QED
      BY <1>1, <2>1, <2>2, <2>3
  <1>6. \A a, b \in DOMAIN queue' : a # pos /\ b # pos =>
            /\ a < b => old(a) < old(b)
            /\ old(a) = old(b) => a = b
    BY <1>1, <1>3
  <1>7. \A k \in DOMAIN queue :
            /\ queue[k] \in Items
            /\ queue[k] # i
            /\ prio'[queue[k]] = prio[queue[k]]
            /\ id'[queue[k]] = id[queue[k]]
            /\ started'[queue[k]] = started[queue[k]]
    BY <1>2, <1>4
  <1>8. /\ prio'[i] = Priority[i]
        /\ id'[i] = work_ids + 1
        /\ started'[i] = 0
    BY <1>2, <1>4
  <1>9. NextCall \in Frames
    BY DEF Frames
  <1>10. TypeOK'
    <2>1. stack' \in Seq(Frames)
      BY <1>2, <1>4, <1>9
    <2>2. /\ prio' \in [Items -> Int]
          /\ work_ids' \in Nat
          /\ id' \in [Items -> 0 .. work_ids']
          /\ started' \in [Items -> Nat]
          /\ destroyed' \in [Items -> Nat]
      BY <1>2, <1>4
    <2> QED
      BY <1>3, <2>1, <2>2 DEF TypeOK
  <1>11. NoDuplicates'
    BY <1>5, <1>6, <1>7 DEF IInv, NoDuplicates
  <1>12. \A k \in DOMAIN queue :
             /\ k < pos => prio[queue[k]] <= Priority[i]
             /\ k >= pos => prio[queue[k]] > Priority[i]
    <2> SUFFICES ASSUME NEW k \in DOMAIN queue
                 PROVE  /\ k < pos => prio[queue[k]] <= Priority[i]
                        /\ k >= pos => prio[queue[k]] > Priority[i]
      OBVIOUS
    <2>1. k \in 1 .. Len(queue) /\ Len(queue) \in Nat /\ pos \in Int
      BY <1>0
    <2>2. k < pos => prio[queue[k]] <= Priority[i]
      BY <1>1, <2>1 DEF InsertPosition
    <2>3. ASSUME k >= pos PROVE prio[queue[k]] > Priority[i]
      <3>1. pos \in DOMAIN queue /\ prio[queue[pos]] > Priority[i]
        BY <1>0, <1>1, <2>1, <2>3 DEF InsertPosition
      <3>2. prio[queue[pos]] \in Int /\ prio[queue[k]] \in Int
        BY <1>2, <1>7, <3>1
      <3>3. CASE k = pos
        BY <3>1, <3>3
      <3>4. CASE k > pos
        <4>1. prio[queue[pos]] <= prio[queue[k]]
          BY <3>1, <3>2, <3>4 DEF IInv, ServiceOrder
        <4> QED
          BY <1>0, <3>1, <3>2, <4>1
      <3> QED
        BY <2>1, <2>3, <3>3, <3>4
    <2> QED
      BY <2>2, <2>3
  <1>13. \A k \in DOMAIN queue : started[queue[k]] > 0 => k = 1 /\ pos > 1
    <2> SUFFICES ASSUME NEW k \in DOMAIN queue, started[queue[k]] > 0
                 PROVE  k = 1 /\ pos > 1
      OBVIOUS
    <2>1. k = 1 /\ prio[queue[k]] = INT_MIN
      BY DEF IInv, RadioExclusive, StartedPinned
    <2> QED
      <3>1. prio[queue[1]] = -1 /\ 1 \in DOMAIN queue
        BY <2>1 DEF INT_MIN
      <3>2. ~(1 >= pos)
        BY <1>0, <1>12, <3>1
      <3> QED
        BY <2>1, <3>2
  <1>14. RadioExclusive'
    BY <1>1, <1>5, <1>7, <1>8, <1>13 DEF RadioExclusive
  <1>15. ServiceOrder'
    <2> SUFFICES ASSUME NEW a \in DOMAIN queue', NEW b \in DOMAIN queue', a < b
                 PROVE  \/ prio'[queue'[a]] < prio'[queue'[b]]
                        \/ /\ prio'[queue'[a]] = prio'[queue'[b]]
                           /\ id'[queue'[a]] < id'[queue'[b]]
      BY DEF ServiceOrder
    <2>1. CASE a # pos /\ b # pos
      BY <2>1, <1>5, <1>6, <1>7 DEF IInv, ServiceOrder
    <2>2. CASE a = pos
      <3>1. b # pos /\ old(b) >= pos /\ a \in Int /\ b \in Int
        BY <1>1, <1>3, <2>2
      <3> QED
        BY <1>5, <1>7, <1>8, <1>12, <2>2, <3>1
    <2>3. CASE b = pos
      <3>1. a # pos /\ old(a) < pos
        BY <1>1, <1>3, <2>3
      <3>2. /\ old(a) \in DOMAIN queue
            /\ queue'[a] = queue[old(a)]
        BY <1>5, <3>1
      <3>3. /\ prio'[queue'[a]] <= Priority[i]
            /\ prio'[queue'[a]] \in Int
            /\ id'[queue'[a]] \in 0 .. work_ids
        BY <1>2, <1>7, <1>12, <3>1, <3>2
      <3>4. queue'[b] = i
        BY <1>5, <2>3
      <3> QED
        BY <1>2, <1>8, <3>3, <3>4
    <2> QED
      BY <2>1, <2>2, <2>3
  <1>16. StartedPinned'
    <2> SUFFICES ASSUME NEW k \in DOMAIN queue'
                 PROVE  IF started'[queue'[k]] > 0
                          THEN prio'[queue'[k]] = INT_MIN
                          ELSE prio'[queue'[k]] = Priority[queue'[k]]
      BY DEF StartedPinned, INT_MIN
    <2>1. CASE k = pos
      BY <1>2, <1>5, <1>8, <2>1
    <2>2. CASE k # pos
      <3>1. old(k) \in DOMAIN queue /\ queue'[k] = queue[old(k)]
        BY <1>5, <2>2
      <3> HIDE DEF old
      <3> QED
        BY <1>7, <3>1 DEF IInv, StartedPinned
    <2> QED
      BY <2>1, <2>2
  <1>17. NextPending'
    <2>1. CASE Len(queue) = 0
      <3>1. stack'[1] = NextCall /\ 1 \in DOMAIN stack'
        BY <1>2, <1>4, <1>9, <2>1
      <3> QED
        BY <3>1 DEF NextPending
    <2>2. CASE Len(queue) # 0 /\ started[queue[1]] = 0
      BY <1>2, <1>4, <2>2 DEF IInv, NextPending
    <2>3. CASE Len(queue) # 0 /\ started[queue[1]] # 0
      <3>1. queue'[1] = queue[1]
        <4>1. 1 \in DOMAIN queue /\ started[queue[1]] > 0
          BY <1>2, <1>7, <2>3
        <4>2. pos > 1
          BY <1>13, <4>1
        <4> QED
          BY <1>0, <1>3, <4>2
      <3>2. started'[queue'[1]] # 0
        <4>1. 1 \in DOMAIN queue
          BY <1>2, <2>3
        <4>2. started'[queue[1]] = started[queue[1]]
          BY <1>7, <4>1
        <4> QED
          BY <2>3, <3>1, <4>2
      <3> QED
        BY <1>3, <3>2 DEF NextPending
    <2> QED
      BY <2>1, <2>2, <2>3
  <1> QED
    BY <1>10, <1>11, <1>14, <1>15, <1>16, <1>17 DEF IInv

\* A step that removes an item and leaves an active call of
\* wiphy_radio_work_next() behind if it removed the head preserves the
\* invariant: wiphy_radio_work_done(), called by anybody.
LEMMA RemovalLemma ==
    ASSUME IInv, NEW pos \in DOMAIN queue, Release(pos),
           UNCHANGED <<prio, work_ids, started>>,
           stack' \in Seq(Frames),
           \/ \E k \in DOMAIN stack' : stack'[k] = NextCall
           \/ /\ pos # 1
              /\ \A k \in DOMAIN stack : stack[k] # NextCall
    PROVE  IInv'
  <1>1. TypeOK'
    BY ReleaseLemma DEF IInv, TypeOK
  <1>2. NextPending'
    <2>1. CASE \E k \in DOMAIN stack' : stack'[k] = NextCall
      BY <2>1 DEF NextPending
    <2>2. CASE /\ pos # 1
               /\ \A k \in DOMAIN stack : stack[k] # NextCall
      <3>1. queue # <<>> /\ Head(queue') = Head(queue)
        BY <2>2, ReleaseLemma
      <3>2. started[Head(queue)] # 0
        BY <2>2, <3>1 DEF IInv, NextPending
      <3> QED
        BY <3>1, <3>2 DEF NextPending
    <2> QED
      BY <2>1, <2>2
  <1> QED
    BY <1>1, <1>2, ReleaseLemma DEF IInv

\* Replacing the top of the call stack, or pushing on it, keeps the calls of
\* wiphy_radio_work_next() below.
LEMMA StackLemma ==
    ASSUME NEW S, NEW s \in Seq(S), NEW t \in Seq(S), NEW k \in 2 .. Len(s)
    PROVE  /\ Len(t) + (k - 1) \in DOMAIN (t \o Tail(s))
           /\ (t \o Tail(s))[Len(t) + (k - 1)] = s[k]
  <1>1. /\ Tail(s) \in Seq(S)
        /\ Len(Tail(s)) = Len(s) - 1
        /\ Tail(s)[k - 1] = s[k]
    OBVIOUS
  <1>2. /\ Len(t \o Tail(s)) = Len(t) + Len(s) - 1
        /\ t \o Tail(s) \in Seq(S)
    BY <1>1, ConcatProperties
  <1>3. (t \o Tail(s))[Len(t) + (k - 1)] = Tail(s)[k - 1]
    BY <1>1, ConcatProperties
  <1>4. Len(t) + (k - 1) \in DOMAIN (t \o Tail(s))
    BY <1>2
  <1> QED
    BY <1>1, <1>3, <1>4

\* The three kinds of stack frame are frames and tell each other apart.
LEMMA FrameLemma ==
    ASSUME NEW i \in Items
    PROVE  /\ NextCall \in Frames
           /\ WorkCall(i) \in Frames
           /\ FailedCall(i) \in Frames
           /\ WorkCall(i) # NextCall
           /\ FailedCall(i) # NextCall
  BY DEF Frames, NextCall, WorkCall, FailedCall

-----------------------------------------------------------------------------
\* wiphy_radio_work_done() preserves the invariant.
LEMMA WorkDoneLemma ==
    ASSUME IInv, NEW d, WorkDone(d)
    PROVE  IInv'
  <1>1. PICK pos \in DOMAIN queue :
            /\ Release(pos)
            /\ stack' = IF RemovalStarts(pos) THEN <<NextCall>> \o stack ELSE stack
    BY DEF WorkDone
  <1>2. stack \in Seq(Frames) /\ NextCall \in Frames
    BY DEF IInv, TypeOK, Frames
  <1>3. UNCHANGED <<prio, work_ids, started>>
    BY DEF WorkDone
  <1>4. stack' \in Seq(Frames)
    BY <1>1, <1>2
  <1>5. CASE pos = 1
    <2>1. stack'[1] = NextCall /\ 1 \in DOMAIN stack'
      BY <1>1, <1>2, <1>5 DEF RemovalStarts
    <2> QED
      BY <1>1, <1>3, <1>4, <2>1, RemovalLemma
  <1>6. CASE pos # 1
    <2>1. stack' = stack
      BY <1>1, <1>6 DEF RemovalStarts
    <2> QED
      BY <1>1, <1>3, <1>4, <1>6, <2>1, RemovalLemma
  <1> QED
    BY <1>5, <1>6

\* do_work() reporting its own item done preserves the invariant.
LEMMA GiveUpLemma ==
    ASSUME IInv, NEW i \in Items, GiveUp(i)
    PROVE  IInv'
  <1> DEFINE pushed(pos) == IF RemovalStarts(pos) THEN <<NextCall, FailedCall(i)>>
                                                  ELSE <<FailedCall(i)>>
  <1>1. PICK pos \in DOMAIN queue :
            /\ Release(pos)
            /\ stack' = pushed(pos) \o Tail(stack)
    BY DEF GiveUp
  <1>2. /\ stack \in Seq(Frames)
        /\ stack # <<>>
        /\ Head(stack) # NextCall
        /\ UNCHANGED <<prio, work_ids, started>>
    BY FrameLemma DEF IInv, TypeOK, GiveUp, Running
  <1>3. pushed(pos) \in Seq(Frames)
    BY FrameLemma
  <1>4. CASE pos = 1
    <2>1. pushed(pos) = <<NextCall, FailedCall(i)>>
      BY <1>4 DEF RemovalStarts
    <2>2. stack'[1] = NextCall /\ 1 \in DOMAIN stack' /\ stack' \in Seq(Frames)
      <3>1. Tail(stack) \in Seq(Frames)
        BY <1>2
      <3> QED
        BY <1>1, <2>1, <3>1, FrameLemma
    <2> QED
      BY <1>1, <1>2, <2>2, RemovalLemma
  <1>5. CASE pos # 1
    <2>1. stack' \in Seq(Frames)
      BY <1>1, <1>2, <1>3
    <2>2. CASE \E k \in DOMAIN stack : stack[k] = NextCall
      <3>1. \E k \in DOMAIN stack' : stack'[k] = NextCall
        <4>1. stack' = <<FailedCall(i)>> \o Tail(stack)
          BY <1>1, <1>5 DEF RemovalStarts
        <4>2. <<FailedCall(i)>> \in Seq(Frames)
          BY FrameLemma
        <4> DEFINE t == <<FailedCall(i)>>
        <4>3. t \in Seq(Frames) /\ stack' = t \o Tail(stack)
          BY <4>1, <4>2
        <4> HIDE DEF t
        <4>4. PICK k \in DOMAIN stack : stack[k] = NextCall
          BY <2>2
        <4>5. k \in 2 .. Len(stack)
          BY <1>2, <4>4
        <4>6. /\ Len(t) + (k - 1) \in DOMAIN stack'
              /\ stack'[Len(t) + (k - 1)] = stack[k]
          BY <1>2, <4>3, <4>5, StackLemma
        <4> QED
          BY <4>4, <4>6
      <3> QED
        BY <1>1, <1>2, <2>1, <3>1, RemovalLemma
    <2>3. CASE \A k \in DOMAIN stack : stack[k] # NextCall
      BY <1>1, <1>2, <1>5, <2>1, <2>3, RemovalLemma
    <2> QED
      BY <2>2, <2>3
  <1> QED
    BY <1>4, <1>5

\* wiphy_radio_work_next() preserves the invariant: it consumes a pending call,
\* and starts the head.
LEMMA WorkNextLemma ==
    ASSUME IInv, WorkNext
    PROVE  IInv'
  <1>1. /\ stack \in Seq(Frames) /\ stack # <<>>
        /\ queue \in Seq(Items)
        /\ prio \in [Items -> Int]
        /\ started \in [Items -> Nat]
        /\ UNCHANGED <<queue, id, work_ids, destroyed>>
    BY DEF IInv, TypeOK, WorkNext, Running
  <1>2. CASE queue = <<>>
    <2>1. stack' \in Seq(Frames) /\ UNCHANGED <<prio, started>>
      <3>1. stack' = Tail(stack) /\ UNCHANGED <<prio, started>>
        BY <1>2 DEF WorkNext
      <3> QED
        BY <1>1, <3>1
    <2> QED
      BY <1>1, <1>2, <2>1 DEF IInv, TypeOK, NoDuplicates, RadioExclusive,
                              ServiceOrder, StartedPinned, NextPending
  <1>3. CASE queue # <<>>
    <2> DEFINE h == Head(queue)
    <2>1. h \in Items /\ h = queue[1] /\ 1 \in DOMAIN queue
      BY <1>1, <1>3
    <2>2. /\ prio' = [prio EXCEPT ![h] = -1]
          /\ started' = [started EXCEPT ![h] = @ + 1]
          /\ stack' = <<WorkCall(h)>> \o Tail(stack)
      BY <1>3 DEF WorkNext, RunningPriority, INT_MIN
    <2>3. stack' \in Seq(Frames)
      BY <1>1, <2>1, <2>2, FrameLemma
    <2>4. \A k \in DOMAIN queue :
              /\ queue[k] \in Items
              /\ k # 1 => queue[k] # h
      BY <1>1, <2>1 DEF IInv, NoDuplicates
    <2> HIDE DEF h
    <2>5. /\ prio'[h] = -1
          /\ started'[h] > 0
          /\ prio' \in [Items -> Int]
          /\ started' \in [Items -> Nat]
          /\ \A x \in Items : x # h => /\ prio'[x] = prio[x]
                                      /\ started'[x] = started[x]
      BY <1>1, <2>1, <2>2
    <2>6. TypeOK'
      BY <1>1, <2>3, <2>5 DEF IInv, TypeOK
    <2>7. NoDuplicates'
      BY <1>1 DEF IInv, NoDuplicates
    <2>8. RadioExclusive'
      BY <1>1, <2>4, <2>5 DEF IInv, RadioExclusive
    <2>9. \A k \in DOMAIN queue : k # 1 => prio[queue[k]] >= 0
      <3> SUFFICES ASSUME NEW k \in DOMAIN queue, k # 1 PROVE prio[queue[k]] >= 0
        OBVIOUS
      <3>1. ~(started[queue[k]] > 0) /\ queue[k] \in Items
        BY <2>4 DEF IInv, RadioExclusive
      <3>2. prio[queue[k]] = Priority[queue[k]]
        BY <3>1 DEF IInv, StartedPinned
      <3> QED
        BY <3>1, <3>2, PriorityAssumption
    <2>10. ServiceOrder'
      <3> SUFFICES ASSUME NEW a \in DOMAIN queue, NEW b \in DOMAIN queue, a < b
                   PROVE  \/ prio'[queue[a]] < prio'[queue[b]]
                          \/ /\ prio'[queue[a]] = prio'[queue[b]]
                             /\ id[queue[a]] < id[queue[b]]
        BY <1>1 DEF ServiceOrder
      <3>0. a \in Nat /\ b \in Nat /\ a >= 1
        BY <1>1
      <3>1. b # 1 /\ prio'[queue[b]] = prio[queue[b]]
        BY <2>4, <2>5, <3>0
      <3>2. CASE a = 1
        <4>1. prio'[queue[a]] = -1
          BY <2>1, <2>5, <3>2
        <4>2. prio'[queue[b]] \in Int /\ prio'[queue[b]] >= 0
          BY <1>1, <2>4, <2>9, <3>1
        <4> QED
          BY <4>1, <4>2
      <3>3. CASE a # 1
        BY <2>4, <2>5, <3>1, <3>3 DEF IInv, ServiceOrder
      <3> QED
        BY <3>2, <3>3
    <2>11. StartedPinned'
      <3> SUFFICES ASSUME NEW k \in DOMAIN queue
                   PROVE  IF started'[queue[k]] > 0
                            THEN prio'[queue[k]] = INT_MIN
                            ELSE prio'[queue[k]] = Priority[queue[k]]
        BY <1>1 DEF StartedPinned, INT_MIN
      <3>1. CASE queue[k] = h
        BY <2>5, <3>1 DEF INT_MIN
      <3>2. CASE queue[k] # h
        BY <2>4, <2>5, <3>2 DEF IInv, StartedPinned
      <3> QED
        BY <3>1, <3>2
    <2>12. NextPending'
      BY <1>1, <2>5 DEF NextPending, h
    <2> QED
      BY <2>6, <2>7, <2>8, <2>10, <2>11, <2>12 DEF IInv
  <1> QED
    BY <1>2, <1>3

\* A do_work() that returns false preserves the invariant.
LEMMA ReturnFalseLemma ==
    ASSUME IInv, NEW i \in Items, ReturnFalse(i)
    PROVE  IInv'
  <1>1. /\ stack \in Seq(Frames)
        /\ stack # <<>>
        /\ Head(stack) # NextCall
        /\ stack' = Tail(stack)
        /\ UNCHANGED <<queue, prio, id, work_ids, started, destroyed>>
    BY FrameLemma DEF IInv, TypeOK, ReturnFalse, Running
  <1>2. stack' \in Seq(Frames)
    BY <1>1
  <1>3. NextPending'
    <2>1. (\E k \in DOMAIN stack : stack[k] = NextCall)
            => \E k \in DOMAIN stack' : stack'[k] = NextCall
      <3> SUFFICES ASSUME NEW k \in DOMAIN stack, stack[k] = NextCall
                   PROVE  \E j \in DOMAIN stack' : stack'[j] = NextCall
        OBVIOUS
      <3>1. k \in 2 .. Len(stack)
        BY <1>1
      <3>2. k - 1 \in DOMAIN stack' /\ stack'[k - 1] = stack[k]
        BY <1>1, <3>1
      <3> QED
        BY <3>2
    <2> QED
      BY <1>1, <2>1 DEF IInv, NextPending
  <1> QED
    BY <1>1, <1>2, <1>3 DEF IInv, TypeOK, NoDuplicates, RadioExclusive,
                            ServiceOrder, StartedPinned

\* A do_work() that returns true preserves the invariant.
LEMMA ReturnTrueLemma ==
    ASSUME IInv, NEW i \in Items, ReturnTrue(i)
    PROVE  IInv'
  <1>1. /\ stack \in Seq(Frames)
        /\ stack # <<>>
        /\ stack' = <<NextCall>> \o Tail(stack)
        /\ UNCHANGED <<prio, work_ids, started>>
    BY DEF IInv, TypeOK, ReturnTrue, Running
  <1>2. stack'[1] = NextCall /\ 1 \in DOMAIN stack' /\ stack' \in Seq(Frames)
    BY <1>1, FrameLemma
  <1>3. CASE \E pos \in DOMAIN queue : queue[pos] = i /\ Release(pos)
    BY <1>1, <1>2, <1>3, RemovalLemma
  <1>4. CASE /\ ~Queued(i)
             /\ id' = [id EXCEPT ![i] = 0]
             /\ destroyed' = [destroyed EXCEPT ![i] = @ + 1]
             /\ UNCHANGED queue
    <2>1. TypeOK'
      BY <1>1, <1>2, <1>4 DEF IInv, TypeOK
    <2>2. \A k \in DOMAIN queue : id'[queue[k]] = id[queue[k]]
      BY <1>4 DEF IInv, TypeOK, Queued
    <2>3. NextPending'
      BY <1>2 DEF NextPending
    <2> QED
      BY <1>1, <1>4, <2>1, <2>2, <2>3 DEF IInv, NoDuplicates, RadioExclusive,
                                          ServiceOrder, StartedPinned
  <1> QED
    BY <1>3, <1>4 DEF ReturnTrue

\* Every step of the specification preserves the inductive invariant.
LEMMA NextLemma == IInv /\ [Next]_vars => IInv'
  <1> SUFFICES ASSUME IInv, [Next]_vars PROVE IInv'
    OBVIOUS
  <1>1. CASE \E i \in Items : Insert(i)
    BY <1>1, InsertLemma
  <1>2. CASE \E d \in 1 .. MaxIds : WorkDone(d)
    BY <1>2, WorkDoneLemma
  <1>3. CASE WorkNext
    BY <1>3, WorkNextLemma
  <1>4. CASE \E i \in Items : GiveUp(i)
    BY <1>4, GiveUpLemma
  <1>5. CASE \E i \in Items : ReturnFalse(i)
    BY <1>5, ReturnFalseLemma
  <1>6. CASE \E i \in Items : ReturnTrue(i)
    BY <1>6, ReturnTrueLemma
  <1>7. CASE UNCHANGED vars
    BY <1>7 DEF vars, IInv, TypeOK, NoDuplicates, RadioExclusive,
                ServiceOrder, StartedPinned, NextPending
  <1> QED
    BY <1>1, <1>2, <1>3, <1>4, <1>5, <1>6, <1>7 DEF Next

-----------------------------------------------------------------------------
\* The invariant IInv holds in every reachable state of the radio work queue,
\* for any set of items, any priorities and any number of insertions.
THEOREM Invariance == Spec => []IInv
  <1>1. Init => IInv
    BY DEF Init, IInv, TypeOK, NoDuplicates, RadioExclusive, ServiceOrder,
           StartedPinned, NextPending
  <1> QED
    BY <1>1, NextLemma, PTL DEF Spec

\* Every variable keeps its type, and no item has an id that was not yet given.
THEOREM TypeCorrect == Spec => []TypeOK
  <1>1. IInv => TypeOK
    BY DEF IInv
  <1> QED
    BY <1>1, Invariance, PTL

\* At most the head of the queue has been started: the radio is exclusive.
THEOREM Exclusive == Spec => []RadioExclusive
  <1>1. IInv => RadioExclusive
    BY DEF IInv
  <1> QED
    BY <1>1, Invariance, PTL

\* Whenever control is back in the main loop the head of a non-empty queue has
\* been started: no re-entrant call sequence leaves the radio idle with work
\* waiting.
THEOREM NeverStalls == Spec => []NoStall
  <1>1. IInv => NoStall
    <2> SUFFICES ASSUME IInv, stack = <<>>, queue # <<>>
                 PROVE  started[Head(queue)] > 0
      BY DEF NoStall
    <2>1. started[Head(queue)] # 0
      BY DEF IInv, NextPending
    <2>2. started[Head(queue)] \in Nat
      BY DEF IInv, TypeOK
    <2> QED
      BY <2>1, <2>2
  <1> QED
    BY <1>1, Invariance, PTL

\* Work is served by priority, and in insertion order within a priority.
THEOREM ServedInOrder == Spec => []ServiceOrder
  <1>1. IInv => ServiceOrder
    BY DEF IInv
  <1> QED
    BY <1>1, Invariance, PTL

\* An item keeps the count of its starts as long as it stays queued: only an
\* insertion clears it, and a queued item is not inserted.
LEMMA StartsKept ==
  ASSUME IInv, [Next]_vars, NEW i \in Items, Queued(i), started[i] > 0
  PROVE  started'[i] > 0
  <1>1. started \in [Items -> Nat]
    BY DEF IInv, TypeOK
  <1>2. CASE \E j \in Items : Insert(j)
    <2>1. PICK j \in Items : Insert(j)
      BY <1>2
    <2>2. j # i
      BY <2>1 DEF Insert
    <2>3. started' = [started EXCEPT ![j] = 0]
      BY <2>1 DEF Insert
    <2> QED
      BY <1>1, <2>2, <2>3
  <1>3. CASE WorkNext
    <2>1. CASE queue = <<>>
      BY <2>1, <1>3 DEF WorkNext
    <2>2. CASE started' = [started EXCEPT ![Head(queue)] = @ + 1]
      BY <2>2, <1>1
    <2> QED
      BY <1>3, <2>1, <2>2 DEF WorkNext
  <1>4. CASE UNCHANGED started
    BY <1>4
  <1> QED
    BY <1>2, <1>3, <1>4
       DEF Next, WorkDone, GiveUp, ReturnFalse, ReturnTrue, vars

\* Work that holds the radio keeps it until it is reported done: no insertion
\* by wiphy_radio_work_insert() and no removal of another item displaces a
\* started item from the head of the queue.
THEOREM RadioIsKept == Spec => KeepsRadio
  <1>1. IInv /\ [Next]_vars
          => [\A i \in Items :
                Queued(i) /\ started[i] > 0 /\ Queued(i)' /\ id'[i] = id[i]
                   => Head(queue') = i]_vars
    <2> SUFFICES ASSUME IInv, [Next]_vars,
                        NEW i \in Items, Queued(i), started[i] > 0, Queued(i)'
                 PROVE  Head(queue') = i
      OBVIOUS
    <2>1. started'[i] > 0
      BY StartsKept
    <2>2. PICK k \in DOMAIN queue' : queue'[k] = i
      BY DEF Queued
    <2>3. RadioExclusive' /\ TypeOK'
      BY NextLemma DEF IInv
    <2>4. k = 1
      BY <2>1, <2>2, <2>3 DEF RadioExclusive
    <2>5. queue' \in Seq(Items)
      BY <2>3 DEF TypeOK
    <2> QED
      BY <2>2, <2>4, <2>5
  <1> QED
    BY <1>1, Invariance, PTL DEF Spec, KeepsRadio

-----------------------------------------------------------------------------
(* The queue implements the abstract radio.                                 *)

\* The radio has one holder, the head of the queue, and those that wait are the rest.
LEMMA HolderIsHead ==
    ASSUME IInv, NEW i \in Holding
    PROVE  Holding = {i}
  <1>1. \A j \in Holding : j = queue[1]
    BY DEF Holding, Queued, IInv, RadioExclusive
  <1> QED
    BY <1>1

\* An insertion makes its item wait, after all that wait already.
LEMMA InsertAsks ==
    ASSUME IInv, NEW i \in Items, Insert(i)
    PROVE  Contract!Ask(i)
  <1>1. /\ queue \in Seq(Items) /\ id \in [Items -> 0 .. work_ids] /\ work_ids \in Nat
        /\ started \in [Items -> Nat]
    BY DEF IInv, TypeOK
  <1>2. PICK pos \in 1 .. Len(queue) + 1 : queue' = InsertAt(queue, pos, i)
    BY DEF Insert
  <1>3. ToSet(queue') = ToSet(queue) \cup {i}
    BY <1>1, <1>2, InsertAtElements
  <1>4. \A j \in Items : Queued(j)' <=> Queued(j) \/ j = i
    BY <1>3 DEF Queued, ToSet
  <1>5. /\ ~Queued(i) /\ started' = [started EXCEPT ![i] = 0]
        /\ id' = [id EXCEPT ![i] = work_ids + 1]
    BY DEF Insert
  <1>6. Holding' = Holding
    BY <1>1, <1>4, <1>5 DEF Holding
  <1>7. Waiting' = Waiting \cup {i} /\ i \notin Waiting /\ i \notin Holding
    BY <1>1, <1>4, <1>5 DEF Waiting, Holding
  <1>8. Waiting \subseteq Items
    BY DEF Waiting
  <1>9. /\ \A j \in Waiting : id[j] \in Nat /\ id'[j] = id[j] /\ id[j] < id'[i]
        /\ id'[i] \in Nat
    BY <1>1, <1>5, <1>7, <1>8
  <1>10. Turns' = [j \in Waiting \cup {i} |-> id'[j]]
    BY <1>7 DEF Turns
  <1>11. DOMAIN Turns = Waiting /\ \A j \in Waiting : Turns[j] = id[j]
    BY DEF Turns
  <1>12. Turns' \in [Waiting \cup {i} -> Nat]
    BY <1>9, <1>10
  <1>13. \A j \in Waiting : Turns'[j] = Turns[j] /\ Turns[j] < Turns'[i]
    BY <1>9, <1>10, <1>11
  <1> QED
    BY <1>6, <1>7, <1>11, <1>12, <1>13 DEF Contract!Ask, Contract!Waiting

\* Work that is removed has finished, if it had the radio, or gives up waiting.
LEMMA ReleaseEnds ==
    ASSUME IInv, NEW pos \in DOMAIN queue, Release(pos), UNCHANGED started
    PROVE  Contract!Finish(queue[pos]) \/ Contract!Withdraw(queue[pos])
  <1> DEFINE x == queue[pos]
  <1>1. /\ queue \in Seq(Items) /\ id \in [Items -> 0 .. work_ids]
        /\ started \in [Items -> Nat] /\ x \in Items /\ Queued(x)
    BY DEF IInv, TypeOK, Queued
  <1>2. \A j \in Items : Queued(j)' <=> Queued(j) /\ j # x
    <2>0. pos \in 1 .. Len(queue) /\ queue' = RemoveAt(queue, pos)
      BY <1>1 DEF Release
    <2>1. /\ Len(queue') = Len(queue) - 1 /\ queue' \in Seq(Items)
          /\ \A k \in 1 .. Len(queue) - 1 :
                queue'[k] = IF k < pos THEN queue[k] ELSE queue[k + 1]
      BY <1>1, <2>0, RemoveAtLemma
    <2>2. \A a \in DOMAIN queue : queue[a] = x => a = pos
      BY DEF IInv, NoDuplicates
    <2>3. /\ DOMAIN queue = 1 .. Len(queue) /\ DOMAIN queue' = 1 .. Len(queue) - 1
          /\ Len(queue) \in Nat /\ pos \in 1 .. Len(queue)
      BY <1>1, <2>1
    <2> HIDE DEF x
    <2>4. ASSUME NEW j \in Items, Queued(j)' PROVE Queued(j) /\ j # x
      <3>1. PICK k \in 1 .. Len(queue) - 1 : queue'[k] = j
        BY <2>3, <2>4 DEF Queued
      <3>2. CASE k < pos
        BY <2>1, <2>2, <2>3, <3>1, <3>2 DEF Queued
      <3>3. CASE ~(k < pos)
        <4>1. queue[k + 1] = j /\ k + 1 \in DOMAIN queue /\ k + 1 # pos
          BY <2>1, <2>3, <3>1, <3>3
        <4> QED
          BY <2>2, <4>1 DEF Queued
      <3> QED
        BY <3>2, <3>3
    <2>5. ASSUME NEW j \in Items, Queued(j), j # x PROVE Queued(j)'
      <3>1. PICK k \in DOMAIN queue : queue[k] = j
        BY <2>5 DEF Queued
      <3>2. k # pos
        BY <2>5, <3>1 DEF x
      <3>3. CASE k < pos
        <4>1. k \in 1 .. Len(queue) - 1 /\ queue'[k] = j
          BY <2>1, <2>3, <3>1, <3>3
        <4> QED
          BY <2>3, <4>1 DEF Queued
      <3>4. CASE k > pos
        <4>1. k - 1 \in 1 .. Len(queue) - 1 /\ ~(k - 1 < pos) /\ (k - 1) + 1 = k
          BY <2>3, <3>1, <3>4
        <4>2. queue'[k - 1] = j
          BY <2>1, <3>1, <4>1
        <4> QED
          BY <2>3, <4>1, <4>2 DEF Queued
      <3> QED
        BY <2>3, <3>1, <3>2, <3>3, <3>4
    <2> QED
      BY <2>4, <2>5
  <1>3. id' = [id EXCEPT ![x] = 0] /\ started' = started
    BY DEF Release
  <1>4. DOMAIN Turns = Waiting /\ \A j \in Waiting : Turns[j] = id[j]
    BY DEF Turns
  <1> HIDE DEF x
  <1>5. CASE started[x] > 0
    <2>1. x \in Holding
      BY <1>1, <1>5 DEF Holding
    <2>2. Holding = {x}
      BY <2>1, HolderIsHead
    <2>3. Holding' = {}
      BY <1>2, <1>3, <2>2 DEF Holding
    <2>4. Waiting' = Waiting /\ x \notin Waiting
      BY <1>1, <1>2, <1>3, <1>5 DEF Waiting
    <2>5. \A j \in Waiting : id'[j] = id[j]
      BY <1>1, <1>3, <2>4 DEF Waiting
    <2>6. Turns' = Turns
      BY <2>4, <2>5 DEF Turns
    <2> QED
      BY <2>1, <2>3, <2>6 DEF Contract!Finish, x
  <1>6. CASE ~(started[x] > 0)
    <2>1. started[x] = 0
      BY <1>1, <1>6
    <2>2. x \in Waiting
      BY <1>1, <2>1 DEF Waiting
    <2>3. Holding' = Holding
      BY <1>2, <1>3, <1>6 DEF Holding
    <2>4. Waiting' = Waiting \ {x}
      BY <1>2, <1>3 DEF Waiting
    <2>5. \A j \in Waiting \ {x} : id'[j] = id[j]
      BY <1>1, <1>3 DEF Waiting
    <2>6. Turns' = [j \in Waiting \ {x} |-> Turns[j]]
      BY <1>4, <2>4, <2>5 DEF Turns
    <2> QED
      BY <1>4, <2>2, <2>3, <2>6 DEF Contract!Withdraw, Contract!Waiting, Contract!Restrict, Restrict, x
  <1> QED
    BY <1>5, <1>6

\* Starting the head gives it the radio.  It is the most urgent, and among equals the
\* first that asked; when it has the radio already nothing changes.
LEMMA WorkNextGrants ==
    ASSUME IInv, WorkNext
    PROVE  \/ \E i \in Items : Contract!Grant(i)
           \/ UNCHANGED <<Holding, Turns>>
  <1>1. /\ queue \in Seq(Items) /\ started \in [Items -> Nat]
        /\ UNCHANGED <<queue, id>>
    BY DEF IInv, TypeOK, WorkNext
  <1>2. \A j \in Items : Queued(j)' <=> Queued(j)
    BY <1>1 DEF Queued
  <1>3. CASE queue = <<>>
    <2>1. started' = started
      BY <1>3 DEF WorkNext
    <2>2. Holding' = Holding /\ Waiting' = Waiting
      BY <1>2, <2>1 DEF Holding, Waiting
    <2> QED
      BY <1>1, <2>2 DEF Turns
  <1>4. CASE queue # <<>>
    <2> DEFINE h == Head(queue)
    <2>1. started' = [started EXCEPT ![h] = @ + 1]
      BY <1>4 DEF WorkNext
    <2>2. h \in Items /\ h = queue[1] /\ 1 \in DOMAIN queue /\ Queued(h)
      BY <1>1, <1>4 DEF Queued
    <2> HIDE DEF h
    <2>3. started'[h] > 0 /\ \A j \in Items \ {h} : started'[j] = started[j]
      BY <1>1, <2>1, <2>2
    <2>4. CASE started[h] > 0
      <3>1. Holding' = Holding /\ Waiting' = Waiting
        BY <1>2, <2>2, <2>3, <2>4 DEF Holding, Waiting
      <3> QED
        BY <1>1, <3>1 DEF Turns
    <2>5. CASE ~(started[h] > 0)
      <3>1. started[h] = 0 /\ h \in Waiting
        BY <1>1, <2>2, <2>5 DEF Waiting
      <3>2. Holding = {}
        BY <2>2, <2>5 DEF Holding, Queued, IInv, RadioExclusive
      <3>3. Holding' = {h}
        BY <1>2, <2>2, <2>3, <3>2 DEF Holding
      <3>4. Waiting' = Waiting \ {h}
        BY <1>2, <2>2, <2>3 DEF Waiting
      <3>5. DOMAIN Turns = Waiting /\ \A j \in Waiting : Turns[j] = id[j]
        BY DEF Turns
      <3>6. Turns' = [j \in Waiting \ {h} |-> Turns[j]]
        BY <1>1, <3>4, <3>5 DEF Turns
      <3>7. ASSUME NEW j \in Waiting \ {h}
            PROVE  Contract!Before(h, j)
        <4>1. PICK k \in DOMAIN queue : queue[k] = j
          BY <3>7 DEF Waiting, Queued
        <4>2. k > 1 /\ 1 < k
          BY <1>1, <2>2, <3>7, <4>1
        <4>3. \/ prio[queue[1]] < prio[queue[k]]
              \/ prio[queue[1]] = prio[queue[k]] /\ id[queue[1]] < id[queue[k]]
          BY <2>2, <4>2 DEF IInv, ServiceOrder
        <4>4. prio[h] = Priority[h]
          BY <2>2, <2>5 DEF IInv, StartedPinned
        <4>5. ~(started[j] > 0)
          BY <3>7, <1>1 DEF Waiting
        <4>6. prio[j] = Priority[j]
          BY <4>1, <4>5 DEF IInv, StartedPinned
        <4> QED
          BY <2>2, <3>1, <3>5, <3>7, <4>1, <4>3, <4>4, <4>6 DEF Contract!Before
      <3>8. Contract!Grant(h)
        BY <3>1, <3>2, <3>3, <3>5, <3>6, <3>7
           DEF Contract!Grant, Contract!Waiting, Contract!Restrict, Restrict
      <3> QED
        BY <2>2, <3>8
    <2> QED
      BY <2>4, <2>5
  <1> QED
    BY <1>3, <1>4

\* Every step of the queue is a step of the abstract radio, or none.
LEMMA StepSimulation ==
    IInv /\ [Next]_vars => [Contract!Next]_(Contract!vars)
  <1> SUFFICES ASSUME IInv, [Next]_vars
               PROVE  Contract!Next \/ UNCHANGED <<Holding, Turns>>
    BY DEF Contract!vars
  <1>1. CASE \E i \in Items : Insert(i)
    BY <1>1, InsertAsks DEF Contract!Next
  <1>2. ASSUME NEW pos \in DOMAIN queue, Release(pos), UNCHANGED started
        PROVE  Contract!Next
    <2>1. queue[pos] \in Items
      BY DEF IInv, TypeOK
    <2> QED
      BY <1>2, <2>1, ReleaseEnds DEF Contract!Next
  <1>3. CASE WorkNext
    BY <1>3, WorkNextGrants DEF Contract!Next
  <1>4. CASE \E d \in 1 .. MaxIds : WorkDone(d)
    BY <1>2, <1>4 DEF WorkDone
  <1>5. CASE \E i \in Items : GiveUp(i)
    BY <1>2, <1>5 DEF GiveUp
  <1>6. ASSUME UNCHANGED <<queue, started>>,
               \A j \in Items : Queued(j) => id'[j] = id[j]
        PROVE  UNCHANGED <<Holding, Turns>>
    <2>1. \A j \in Items : Queued(j)' <=> Queued(j)
      BY <1>6 DEF Queued
    <2>2. Holding' = Holding /\ Waiting' = Waiting
      BY <1>6, <2>1 DEF Holding, Waiting
    <2>3. \A j \in Waiting : id'[j] = id[j]
      BY <1>6 DEF Waiting
    <2> QED
      BY <2>2, <2>3 DEF Turns
  <1>7. CASE \E i \in Items : ReturnFalse(i)
    <2>1. UNCHANGED <<queue, started, id>>
      BY <1>7 DEF ReturnFalse
    <2> QED
      BY <1>6, <2>1
  <1>8. ASSUME NEW i \in Items, ReturnTrue(i)
        PROVE  Contract!Next \/ UNCHANGED <<Holding, Turns>>
    <2>1. CASE \E pos \in DOMAIN queue : queue[pos] = i /\ Release(pos)
      BY <1>2, <1>8, <2>1 DEF ReturnTrue
    <2>2. CASE ~Queued(i) /\ id' = [id EXCEPT ![i] = 0] /\ UNCHANGED queue
      <3>1. \A j \in Items : Queued(j) => id'[j] = id[j]
        BY <2>2 DEF IInv, TypeOK
      <3> QED
        BY <1>6, <1>8, <2>2, <3>1 DEF ReturnTrue
    <2> QED
      BY <1>8, <2>1, <2>2 DEF ReturnTrue
  <1>9. CASE UNCHANGED vars
    <2>1. UNCHANGED <<queue, started, id>>
      BY <1>9 DEF vars
    <2> QED
      BY <1>6, <2>1
  <1> QED
    BY <1>1, <1>3, <1>4, <1>5, <1>7, <1>8, <1>9 DEF Next

\* The queue of wiphy.c, with its positions, pinned priorities and re-entrant calls,
\* implements the radio of module Radio: one user at a time, who keeps it until done,
\* and then the most urgent and oldest of those that wait.
THEOREM ImplementsRadio == Spec => KeepsContract
  <1>1. Init => Contract!Init
    <2> SUFFICES ASSUME Init PROVE Contract!Init
      OBVIOUS
    <2>1. \A i \in Items : ~Queued(i)
      BY DEF Init, Queued
    <2>2. Holding = {} /\ Waiting = {}
      BY <2>1 DEF Holding, Waiting
    <2>3. Turns = [i \in {} |-> 0]
      BY <2>2 DEF Turns
    <2> QED
      BY <2>2, <2>3 DEF Contract!Init
  <1> QED
    BY <1>1, StepSimulation, Invariance, PTL DEF Spec, KeepsContract, Contract!Spec


=============================================================================
