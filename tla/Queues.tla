------------------------------- MODULE Queues -------------------------------
(* Queues with elements taken out of their middle, as l_queue_remove(),       *)
(* l_queue_foreach_remove() and l_genl_family_cancel() of ell do.             *)
EXTENDS Integers, Sequences, SequencesExt

\* The first elements of q that are not in T, by how many are looked at.
WithoutUpTo(q, T) ==
    LET kept[i \in 0 .. Len(q)] ==
            IF i = 0 THEN <<>>
            ELSE IF q[i] \in T THEN kept[i - 1] ELSE Append(kept[i - 1], q[i])
    IN  kept

\* q without the elements of T; the others keep their order.
Without(q, T) == WithoutUpTo(q, T)[Len(q)]

\* At most one place of q holds an element of T.
Once(q, T) == \A i, j \in DOMAIN q : q[i] \in T /\ q[j] \in T => i = j

\* The place of the last element of q that is in T, and q without that one.
LastOf(q, T) ==
    CHOOSE k \in DOMAIN q : q[k] \in T /\ \A j \in DOMAIN q : q[j] \in T => j <= k
DropLast(q, T) == IF ToSet(q) \cap T = {} THEN q ELSE RemoveAt(q, LastOf(q, T))

\* Nothing of B comes anywhere after an element of A.
NoneAfter(q, A, B) == \A i, j \in DOMAIN q : i < j /\ q[i] \in A => q[j] \notin B

=============================================================================
