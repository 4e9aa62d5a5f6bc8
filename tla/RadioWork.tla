----------------------------- MODULE RadioWork -----------------------------
(***************************************************************************)
(* The radio work queue of a wiphy (src/src/wiphy.c, radio_work functions).  *)
(*                                                                         *)
(* Scans, connection attempts and off-channel frames all need the radio    *)
(* for themselves.  Each is a work item: it is inserted in priority order, *)
(* the head of the queue is started by calling its do_work(), and the      *)
(* owner reports the end of the work with wiphy_radio_work_done().         *)
(*                                                                         *)
(* iwd is single threaded, but the queue functions re-enter each other:    *)
(* do_work() runs owner code which may insert or finish other items, or    *)
(* report itself as done, before it returns.  The variable stack holds the *)
(* C call stack of the queue functions that are still active, its head     *)
(* being the innermost call.  Nothing outside runs while it is not empty.  *)
(***************************************************************************)
EXTENDS Integers, Sequences, SequencesExt

CONSTANTS
    Items,          \* struct wiphy_radio_work_item objects
    Priority,       \* the priority each item is inserted with (0, 1 or 2)
    FailSync,       \* items whose do_work() may fail at once: it then calls
                    \* wiphy_radio_work_done() for itself and returns true
    MaxIds          \* bound: number of insertions explored

ASSUME PriorityAssumption == Priority \in [Items -> Nat]
ASSUME FailSyncAssumption == FailSync \subseteq Items
ASSUME MaxIdsAssumption == MaxIds \in Nat

VARIABLES
    queue,      \* wiphy->work
    prio,       \* item->priority
    id,         \* item->id, 0 when the item is not queued
    work_ids,   \* the static counter ids are taken from
    stack,      \* active calls of the queue functions, innermost first
    started,    \* history: do_work() calls since the item was last inserted
    destroyed   \* history: destroy() calls since the item was last inserted

vars == <<queue, prio, id, work_ids, stack, started, destroyed>>

INT_MIN == -1   \* below every priority that is ever inserted

\* Stack frames: wiphy_radio_work_next() about to look at the head of the
\* queue; do_work() of an item running in the owner's code; the same call after
\* the owner gave up and reported its own item done.
NextCall == [fn |-> "next"]
WorkCall(i) == [fn |-> "do_work", item |-> i]
FailedCall(i) == [fn |-> "do_work_failed", item |-> i]
Frames == {NextCall} \cup {WorkCall(i) : i \in Items}
                     \cup {FailedCall(i) : i \in Items}

Queued(i) == \E k \in DOMAIN queue : queue[k] = i

Init ==
    /\ queue = <<>>
    /\ prio = [i \in Items |-> 0]
    /\ id = [i \in Items |-> 0]
    /\ work_ids = 0
    /\ stack = <<>>
    /\ started = [i \in Items |-> 0]
    /\ destroyed = [i \in Items |-> 0]

-----------------------------------------------------------------------------
Running(f) == stack # <<>> /\ Head(stack) = f

(* Owner code runs at the top level of the main loop or inside do_work().   *)
OwnerRuns == ~Running(NextCall)

\* Mutated form: a new item goes before the items of its own priority.
InsertPositionTieFirst(i, pos) ==
    /\ \A k \in 1 .. pos - 1 : prio[queue[k]] < Priority[i]
    /\ pos <= Len(queue) => prio[queue[pos]] >= Priority[i]

\* l_queue_insert() with insert_by_priority(): after every entry whose
\* priority is not larger, before the first entry whose priority is.
InsertPosition(i, pos) ==
    /\ \A k \in 1 .. pos - 1 : prio[queue[k]] <= Priority[i]
    /\ pos <= Len(queue) => prio[queue[pos]] > Priority[i]

\* Mutated form: the id is taken without advancing the counter.
CounterNotAdvanced == work_ids

\* ++work_ids
AdvancedCounter == work_ids + 1

\* if (l_queue_length(wiphy->work) == 1), after the insertion
InsertionStarts == Len(queue) = 0

\* wiphy_radio_work_insert().  An item is only inserted by its owner, and not
\* while it is queued: scan requests and frame exchanges are freshly allocated
\* and a netdev has no second connection attempt.
Insert(i) ==
    /\ OwnerRuns
    /\ ~Queued(i)
    /\ work_ids < MaxIds
    /\ prio' = [prio EXCEPT ![i] = Priority[i]]
    /\ work_ids' = AdvancedCounter
    /\ id' = [id EXCEPT ![i] = work_ids + 1]
    /\ \E pos \in 1 .. Len(queue) + 1 :
           InsertPosition(i, pos) /\ queue' = InsertAt(queue, pos, i)
    /\ stack' = IF InsertionStarts THEN <<NextCall>> \o stack ELSE stack
    /\ started' = [started EXCEPT ![i] = 0]
    /\ destroyed' = [destroyed EXCEPT ![i] = 0]

\* An item leaves the queue at position pos: its id is cleared and its
\* destroy operation is called.
Release(pos) ==
    /\ id' = [id EXCEPT ![queue[pos]] = 0]
    /\ destroyed' = [destroyed EXCEPT ![queue[pos]] = @ + 1]
    /\ queue' = RemoveAt(queue, pos)

\* Mutated form: the end of the running work starts nothing.
RemovalNeverStarts(pos) == FALSE

\* next = true, when the removed item was the head of the queue
RemovalStarts(pos) == pos = 1

\* wiphy_radio_work_done(): the head is popped and the next item started, any
\* other queued item is only removed.  An id that is not queued is ignored.
WorkDone(d) ==
    /\ OwnerRuns
    /\ \E pos \in DOMAIN queue :
           /\ id[queue[pos]] = d
           /\ ~Running(WorkCall(queue[pos]))
           /\ Release(pos)
           /\ stack' = IF RemovalStarts(pos) THEN <<NextCall>> \o stack ELSE stack
    /\ UNCHANGED <<prio, work_ids, started>>

\* The same call made for an item by its own do_work(), which is giving up:
\* scan_request_failed(), frame_xchg_done(), netdev_connect_failed().
GiveUp(i) ==
    /\ i \in FailSync
    /\ Running(WorkCall(i))
    /\ \E pos \in DOMAIN queue :
           /\ queue[pos] = i
           /\ Release(pos)
           /\ stack' = (IF RemovalStarts(pos) THEN <<NextCall, FailedCall(i)>>
                                              ELSE <<FailedCall(i)>>) \o Tail(stack)
    /\ UNCHANGED <<prio, work_ids, started>>

\* Mutated form: started work keeps the priority it was inserted with.
PriorityUnchanged(i) == prio[i]

\* work->priority = INT_MIN
RunningPriority(i) == INT_MIN

\* wiphy_radio_work_next() up to its call of do_work().
WorkNext ==
    /\ Running(NextCall)
    /\ \/ /\ queue = <<>>
          /\ stack' = Tail(stack)
          /\ UNCHANGED <<prio, started>>
       \/ /\ queue # <<>>
          /\ prio' = [prio EXCEPT ![Head(queue)] = RunningPriority(Head(queue))]
          /\ started' = [started EXCEPT ![Head(queue)] = @ + 1]
          /\ stack' = <<WorkCall(Head(queue))>> \o Tail(stack)
    /\ UNCHANGED <<queue, id, work_ids, destroyed>>

\* do_work() returns false: the work goes on in the background.
ReturnFalse(i) ==
    /\ Running(WorkCall(i))
    /\ stack' = Tail(stack)
    /\ UNCHANGED <<queue, prio, id, work_ids, started, destroyed>>

\* do_work() returns true: id cleared, the item removed from the queue wherever
\* it is by now, destroyed, and wiphy_radio_work_next() called again.
ReturnTrue(i) ==
    /\ Running(FailedCall(i))
    /\ \/ \E pos \in DOMAIN queue : queue[pos] = i /\ Release(pos)
       \/ /\ ~Queued(i)
          /\ id' = [id EXCEPT ![i] = 0]
          /\ destroyed' = [destroyed EXCEPT ![i] = @ + 1]
          /\ UNCHANGED queue
    /\ stack' = <<NextCall>> \o Tail(stack)
    /\ UNCHANGED <<prio, work_ids, started>>

Next ==
    \/ \E i \in Items : Insert(i)
    \/ \E d \in 1 .. MaxIds : WorkDone(d)
    \/ WorkNext
    \/ \E i \in Items : GiveUp(i)
    \/ \E i \in Items : ReturnFalse(i)
    \/ \E i \in Items : ReturnTrue(i)

Spec == Init /\ [][Next]_vars

\* Calls that have been entered return, and an owner whose work holds the
\* radio eventually reports it done: every started operation of iwd ends with
\* an answer of the kernel or a timeout.
HeadDone ==
    /\ stack = <<>> /\ queue # <<>>
    /\ started[Head(queue)] > 0
    /\ WorkDone(id[Head(queue)])

Fairness ==
    /\ WF_vars(WorkNext)
    /\ \A i \in Items : WF_vars(ReturnFalse(i) \/ ReturnTrue(i))
    /\ WF_vars(HeadDone)

FairSpec == Spec /\ Fairness

-----------------------------------------------------------------------------
TypeOK ==
    /\ queue \in Seq(Items)
    /\ prio \in [Items -> Int]
    /\ work_ids \in Nat
    /\ id \in [Items -> 0 .. work_ids]
    /\ stack \in Seq(Frames)
    /\ started \in [Items -> Nat]
    /\ destroyed \in [Items -> Nat]

\* The radio is exclusive: of the items in the queue only the head has been
\* started, whatever is inserted, finished or re-entered meanwhile.
RadioExclusive ==
    \A k \in DOMAIN queue : started[queue[k]] > 0 => k = 1

\* The queue never stalls: between two events of the main loop the head of a
\* non-empty queue has been started, so somebody will report it done.
NoStall ==
    stack = <<>> /\ queue # <<>> => started[Head(queue)] > 0

\* Items are served by priority and, within a priority, in the order of
\* insertion (insert_by_priority returns 1 on a tie).
ServiceOrder ==
    \A a, b \in DOMAIN queue :
        a < b =>
            \/ prio[queue[a]] < prio[queue[b]]
            \/ prio[queue[a]] = prio[queue[b]] /\ id[queue[a]] < id[queue[b]]

\* The inductive strengthening of the invariants above: no item is queued
\* twice; started work has the priority nothing can be inserted before, waiting
\* work has the one it was inserted with; and when the head of the queue has
\* not been started a call of wiphy_radio_work_next() is still active.
NoDuplicates ==
    \A a, b \in DOMAIN queue : queue[a] = queue[b] => a = b

StartedPinned ==
    \A k \in DOMAIN queue :
        IF started[queue[k]] > 0 THEN prio[queue[k]] = INT_MIN
                                 ELSE prio[queue[k]] = Priority[queue[k]]

NextPending ==
    queue # <<>> /\ started[Head(queue)] = 0
        => \E k \in DOMAIN stack : stack[k] = NextCall

IInv ==
    /\ TypeOK
    /\ NoDuplicates
    /\ RadioExclusive
    /\ ServiceOrder
    /\ StartedPinned
    /\ NextPending

\* Work that holds the radio keeps it until it is reported done: no insertion
\* and no removal of another item displaces it from the head.
KeepsRadio ==
    [][\A i \in Items :
          Queued(i) /\ started[i] > 0 /\ Queued(i)' /\ id'[i] = id[i]
             => Head(queue') = i]_vars

\* Who has the radio, and who waits for it since when.
Holding == {i \in Items : Queued(i) /\ started[i] > 0}
Waiting == {i \in Items : Queued(i) /\ started[i] = 0}
Turns == [i \in Waiting |-> id[i]]

\* The queue, with its positions, its moving priorities and its nested calls, does what
\* module Radio promises: one user at a time has the radio until it is done, and an idle
\* radio goes to the most urgent and, of equally urgent ones, to the first that asked.
Contract == INSTANCE Radio WITH
    holders <- Holding,
    turn <- Turns
KeepsContract == Contract!Spec

\* Insertions being finitely many (MaxIds; endless work of a higher priority
\* does starve the rest), every queued item is eventually started and finished,
\* or cancelled, and leaves the queue.
Drains == \A i \in Items : Queued(i) ~> ~Queued(i)

=============================================================================
