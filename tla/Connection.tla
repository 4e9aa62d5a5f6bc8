------------------------------ MODULE Connection ------------------------------
(***************************************************************************)
(* What src/netdev.c promises the client of an interface, and all that a   *)
(* client such as src/station.c may rely on: the abstract specification    *)
(* between modules Netdev and Station, which both implement it.            *)
(*                                                                         *)
(* A client asks for one connection at a time.  It is told exactly once    *)
(* whether it came up; one that came up lasts until the client leaves,     *)
(* moves to another access point, or is told that it was lost.  netdev may *)
(* decide by itself that a connection has to end; until that is done the   *)
(* client cannot leave it (netdev_disconnect() returns -EINPROGRESS).      *)
(* A callback may ask again at once.                                       *)
(***************************************************************************)
EXTENDS Naturals

CONSTANTS
    Targets         \* what a client connects to: access points, or attempts (never 0)

VARIABLES
    conn,       \* the connection asked for and not answered, or 0
    up,         \* the connection the client was told it has, or 0
    disc,       \* netdev_disconnect() was called and is not answered
    ending      \* netdev ends the connection by itself
vars == <<conn, up, disc, ending>>

Maybe == {0} \cup Targets

Init == conn = 0 /\ up = 0 /\ disc = FALSE /\ ending = FALSE

\* netdev_connect(), or netdev_reassociate() and the fast transitions, which give
\* up the connection there is.
Ask(t) ==
    /\ conn = 0 /\ ~disc
    /\ conn' = t /\ up' = 0
    /\ UNCHANGED <<disc, ending>>

\* connect_cb(NETDEV_RESULT_OK).
Succeed ==
    /\ conn # 0 /\ ~disc
    /\ conn' = 0 /\ up' = conn
    /\ UNCHANGED <<disc, ending>>

\* connect_cb with another result, or the event that a connection was lost.
Fail ==
    /\ conn # 0 \/ up # 0
    /\ ~disc
    /\ conn' \in Maybe /\ up' = 0 /\ ending' = FALSE
    /\ UNCHANGED disc

\* A failed handshake, failed keys, an SA query without an answer.
StartEnding ==
    /\ conn # 0 \/ up # 0
    /\ ~disc /\ ~ending
    /\ ending' = TRUE
    /\ UNCHANGED <<conn, up, disc>>

\* netdev_disconnect(): connect_cb(NETDEV_RESULT_ABORTED) comes first.
Leave ==
    /\ conn # 0 \/ up # 0
    /\ ~disc /\ ~ending
    /\ conn' = 0 /\ up' = 0 /\ disc' = TRUE
    /\ UNCHANGED ending

\* disconnect_cb.
Left ==
    /\ disc
    /\ disc' = FALSE /\ conn' \in Maybe
    /\ UNCHANGED <<up, ending>>

Next ==
    \/ \E t \in Targets : Ask(t)
    \/ Succeed \/ Fail \/ StartEnding \/ Leave \/ Left

\* Every request is answered, and an end that was begun is reported.
Fairness ==
    /\ WF_vars(conn # 0 /\ (Succeed \/ Fail))
    /\ WF_vars(ending /\ Fail)
    /\ WF_vars(Left)

Spec == Init /\ [][Next]_vars /\ Fairness
=============================================================================
