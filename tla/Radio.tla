--------------------------------- MODULE Radio ---------------------------------
(***************************************************************************)
(* What the radio work queue of src/wiphy.c promises its users, scans,     *)
(* connections and frame exchanges: the abstract specification that        *)
(* RadioWork implements.                                                   *)
(*                                                                         *)
(* One user has the radio at a time, and keeps it until it reports its     *)
(* work done.  An idle radio goes to the most urgent of those that wait    *)
(* and, of two that are equally urgent, to the one that asked first.  Who  *)
(* waits may give up.  There is no queue, no position and no call stack.   *)
(***************************************************************************)
EXTENDS Naturals, Functions

CONSTANTS
    Items,          \* the users of the radio
    Priority        \* how urgent their work is, 0 most

VARIABLES
    holders,        \* who has the radio: nobody, or one
    turn            \* when those that wait asked: a function of the waiting
vars == <<holders, turn>>

Waiting == DOMAIN turn

Init == holders = {} /\ turn = [i \in {} |-> 0]

\* wiphy_radio_work_insert().
Ask(i) ==
    /\ i \notin Waiting \cup holders
    /\ turn' \in [Waiting \cup {i} -> Nat]
    /\ \A j \in Waiting : turn'[j] = turn[j] /\ turn[j] < turn'[i]
    /\ UNCHANGED holders

\* i is served before j.
Before(i, j) ==
    \/ Priority[i] < Priority[j]
    \/ Priority[i] = Priority[j] /\ turn[i] < turn[j]

\* do_work() is called: i leaves the waiting.
Grant(i) ==
    /\ holders = {}
    /\ i \in Waiting
    /\ \A j \in Waiting \ {i} : Before(i, j)
    /\ holders' = {i}
    /\ turn' = Restrict(turn, Waiting \ {i})

\* wiphy_radio_work_done(), or do_work() returned true.
Finish(i) ==
    /\ i \in holders
    /\ holders' = {}
    /\ UNCHANGED turn

\* wiphy_radio_work_done() of work that has not begun.
Withdraw(i) ==
    /\ i \in Waiting
    /\ turn' = Restrict(turn, Waiting \ {i})
    /\ UNCHANGED holders

Next == \E i \in Items : Ask(i) \/ Grant(i) \/ Finish(i) \/ Withdraw(i)

Spec == Init /\ [][Next]_vars
=============================================================================
