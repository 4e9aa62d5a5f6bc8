-------------------------------- MODULE Station --------------------------------
(***************************************************************************)
(* The state machine of a station interface, src/station.c: it finds the   *)
(* networks in range, connects to them by itself or for a user, keeps the  *)
(* connection by roaming between the access points of a network, and       *)
(* gives it up.                                                            *)
(*                                                                         *)
(* Every action is one callback of the main loop: a D-Bus call, the result *)
(* of a scan (module Scan), an answer or event of the interface (module    *)
(* Netdev, here by what it promises: module Connection), a neighbour       *)
(* report, a timer.  Callbacks call each other: netdev_disconnect() calls  *)
(* connect_cb before it returns, a failed roam may start a scan from       *)
(* within the callback of the last one.  The handlers below are functions  *)
(* of the state they may change, composed as the code composes them.       *)
(*                                                                         *)
(* A null or freed pointer that is followed sets "fault".                  *)
(*                                                                         *)
(* Left out: the Scanning property, ANQP (off by default), roaming by the  *)
(* firmware, signal agents, diagnostics, the handshake settings of a       *)
(* network (a BSS is usable or not) and the agent that asks for its        *)
(* passphrase (module Agent).                                              *)
(***************************************************************************)
EXTENDS Naturals, FiniteSets

CONSTANTS
    Bsses,          \* access points; a smaller number has the better rank
    NetworkOf,      \* the network of an access point
    Envs            \* the sets of features of users, drivers and access points

ASSUME BssAssumption ==
    /\ Bsses \subseteq Nat \ {0} /\ NetworkOf \in [Bsses -> Nat \ {0}]
    /\ \E b \in Bsses : NetworkOf[b] = 1      \* the network that is known at the start
ASSUME EnvsAssumption == \A e \in Envs : e \subseteq
    {"connect", "disconnect", "forget", "scan", "hidden", "down",   \* users
     "range",       \* access points come and go
     "scanfail",    \* scans may fail
     "temporary",   \* an access point refuses for a while
     "refuse",      \* an access point refuses, or the handshake fails
     "badpass",     \* the passphrase is wrong
     "abort",       \* netdev cannot start a connection
     "expire",      \* the blacklist entries time out
     "unusable",    \* one access point needs what we have not
     "drop",        \* connections are lost
     "ending",      \* netdev ends a connection by itself
     "rekey",       \* keys cannot be renewed safely: reconnect
     "netconfig",   \* iwd sets the IP addresses
     "low", "btm",  \* roams: for a low signal, told by the access point
     "poor",        \* a roam scan may find nothing better
     "nr",          \* access points have neighbour reports
     "nofreqs",     \* the frequencies of the network are not known
     "ftds", "preauth",   \* ways to roam, next to the plain ones
     "hasty"}       \* users and access points that do not wait for an end

VARIABLES
    env,        \* the features of this behaviour
    st,         \* struct station
    net,        \* external: the interface; conn waits for the callback cb
    sc,         \* external: the scan requests of this station
    nets        \* what is known of networks: struct network, blacklist.c,
                \* knownnetworks.c
vars == <<env, st, net, sc, nets>>

Has(f) == f \in env
Networks == {NetworkOf[b] : b \in Bsses}
Scans == {"quick", "roam", "dbus", "hidden"}
Subsets == 2        \* scan_freqs_order: the bands a user's scan takes in turn

Autoconnecting == {"quick", "full"}
Idle == Autoconnecting \cup {"disconnected"}

\* The handlers are functions of this state.
World == [st |-> st, net |-> net, sc |-> sc, nets |-> nets]
Become(w) ==
    /\ st' = w.st /\ net' = w.net /\ sc' = w.sc /\ nets' = w.nets
    /\ UNCHANGED env

\* A null or freed pointer is followed.
Fault(w) == [w EXCEPT !.st.fault = TRUE]

-----------------------------------------------------------------------------
(* Scans (module Scan).  A request that is finished is off the queue before *)
(* its callback runs, and its destroy function runs after it.               *)

\* scan_active_full(), scan_passive_full().
ScanStart(w, k) == [w EXCEPT !.sc[k] = "queued", !.st.id[k] = TRUE]

\* scan_cancel(): finds nothing from within the request's own callback;
\* otherwise the destroy function forgets the id.
ScanCancel(w, k) ==
    IF w.sc[k] = "none" THEN w
    ELSE [w EXCEPT !.sc[k] = "none", !.st.id[k] = FALSE]

\* station_quick_scan_destroy(), station_roam_scan_destroy() and
\* station_hidden_network_scan_destroy(); a user's scan has none.
ScanDestroy(w, k) == IF k = "dbus" THEN w ELSE [w EXCEPT !.st.id[k] = FALSE]

-----------------------------------------------------------------------------
(* States.                                                                  *)

\* station_enter_state(), station_quick_scan_trigger(): without a frequency of a
\* known network the full scan comes at once.
EnterState(w, s) ==
    LET full == s = "full" \/ (s = "quick" /\ w.nets.known = {})
        in == [w EXCEPT !.st.state = IF full THEN "full" ELSE s]
    IN  IF full THEN [in EXCEPT !.sc.periodic = "on"]
        ELSE IF s = "quick" THEN ScanStart(in, "quick")
        ELSE IF s \in {"disconnecting", "roaming"} THEN in
        ELSE [in EXCEPT !.sc.periodic = "none"]

\* Mutated form: a scan that is under way may still connect.
OffLater(w) == [w EXCEPT !.st.autoconnect = FALSE]

\* station_set_autoconnect(station, false): nothing, if it is off already.
AutoconnectOff(w) ==
    LET off == [w EXCEPT !.st.autoconnect = FALSE]
    IN  IF w.st.autoconnect /\ w.st.state \in Autoconnecting
        THEN EnterState(off, "disconnected") ELSE off

\* station_roam_state_clear(); ap_directed_roaming is not reset.
RoamStateClear(w) ==
    LET clear == [w EXCEPT !.st = [@ EXCEPT !.timer = FALSE, !.preparing_roam = FALSE,
                                            !.roam_scan_full = FALSE, !.signal_low = FALSE,
                                            !.roam_freqs = FALSE]]
    IN  IF w.st.id.roam THEN ScanCancel(clear, "roam") ELSE clear

\* netconfig_reset(): its event does not come any more.
NetconfigReset(w) == [w EXCEPT !.st.netconfig = FALSE]

\* station_reset_connection_state().
ResetConnectionState(w) ==
    IF w.st.network = 0 THEN w
    ELSE [RoamStateClear(w) EXCEPT !.st = [@ EXCEPT !.network = 0, !.bss = 0]]

\* station_disassociated().
Disassociated(w) ==
    LET off == EnterState(ResetConnectionState(NetconfigReset(w)), "disconnected")
    IN  IF w.st.autoconnect THEN EnterState(off, "quick") ELSE off

-----------------------------------------------------------------------------
(* Connecting.                                                              *)

Least(S) == CHOOSE b \in S : \A c \in S : b <= c

\* network_bss_select(): the best that is not blacklisted, or just the best.
Select(w, n, fallback) ==
    LET seen == {b \in w.nets.seen : NetworkOf[b] = n}
        good == seen \ (w.nets.blacklist \cup w.nets.temporary)
    IN  IF good # {} THEN Least(good)
        ELSE IF fallback /\ seen # {} THEN Least(seen)
        ELSE 0

\* station_handshake_setup() and netdev_connect() accept.
Usable(b) == ~(Has("unusable") /\ b = 2)
CanConnect(w, b) == Usable(b) /\ w.net.conn = 0 /\ w.net.up = 0

\* __station_connect_network().
ConnectNetwork(w, b) ==
    [w EXCEPT !.net = [@ EXCEPT !.conn = b, !.cb = "connect"],
              !.st = [@ EXCEPT !.bss = b, !.network = NetworkOf[b]]]

\* station_autoconnect_next(), network_autoconnect(): the first in rank whose
\* network is known and has its passphrase, and that is not blacklisted.
AutoconnectNext(w) ==
    LET good == {b \in w.nets.seen \ w.nets.blacklist :
                    /\ NetworkOf[b] \in w.nets.known \ w.nets.ask_passphrase
                    /\ CanConnect(w, b)}
        on == EnterState(ConnectNetwork(w, Least(good)), "connecting")
    IN  IF good = {} THEN w
        ELSE IF w.st.id.quick THEN [ScanCancel(on, "quick") EXCEPT !.st.id.quick = FALSE]
        ELSE on

\* station_set_scan_results(): every BSS is a new object, so that the temporary
\* blacklists match nothing any more and connect_pending_bss is freed.
SetScanResults(w, seen) ==
    LET set == [w EXCEPT !.nets = [@ EXCEPT !.seen = seen, !.temporary = {}],
                         !.st.pending_freed = w.st.connect_pending_bss # 0]
    IN  IF w.st.state \in Autoconnecting THEN AutoconnectNext(set) ELSE set

\* What a scan can find: the connected BSS does not expire.
Found(w) ==
    IF Has("range") THEN {S \in SUBSET Bsses : w.st.bss # 0 => w.st.bss \in S}
    ELSE {Bsses}

\* netdev_neighbor_report_req(): one at a time.
NeighborReportReq(w, cb) ==
    IF Has("nr") /\ w.net.nr = "none" /\ w.net.up # 0 THEN [w EXCEPT !.net.nr = cb] ELSE w

\* station_retry_with_reason(), station_retry_with_status().
Blacklist(w, result) ==
    CASE result = "temporary" -> [w EXCEPT !.nets.temporary = @ \cup {w.st.bss}]
      [] result \in {"refused", "handshake"} -> [w EXCEPT !.nets.blacklist = @ \cup {w.st.bss}]
      [] OTHER -> w

\* network_connect_failed().
NetworkConnectFailed(w, result) ==
    [w EXCEPT !.nets =
        [w.nets EXCEPT !.temporary = {b \in @ : NetworkOf[b] # w.st.network},
                       !.ask_passphrase = IF result \in {"handshake", "badpass"}
                                          THEN @ \cup {w.st.network} ELSE @]]

\* network_connected().
NetworkConnected(w) ==
    [w EXCEPT !.nets =
        [w.nets EXCEPT !.known = @ \cup {w.st.network},
                       !.temporary = {b \in @ : NetworkOf[b] # w.st.network}]]

\* station_connect_dbus_reply().
ConnectReply(w, result) == [w EXCEPT !.st.connect_pending = FALSE]

\* station_connect_cb(), for a result that is not "ok".
ConnectFailed(w, result) ==
    LET listed == Blacklist(w, result)
        next == Select(listed, w.st.network, FALSE)
        told == ConnectReply(listed, result)
    IN  IF result = "aborted" THEN told
        ELSE IF w.st.bss = 0 THEN Fault(w)
        ELSE IF result # "badpass" /\ next # 0 /\ CanConnect(w, next)
             THEN ConnectNetwork(listed, next)
        ELSE Disassociated(NetworkConnectFailed(told, result))

\* station_connect_cb(NETDEV_RESULT_OK); with netconfig the state stays as it is
\* until the addresses are set.
ConnectOk(w) ==
    LET told == NeighborReportReq(ConnectReply(w, "ok"), "early")
        on == NetworkConnected([told EXCEPT !.nets.blacklist = @ \ {w.st.bss}])
    IN  IF w.st.bss = 0 THEN Fault(w)
        ELSE IF Has("netconfig") THEN [on EXCEPT !.st.netconfig = TRUE]
        ELSE EnterState(on, "connected")

-----------------------------------------------------------------------------
(* Roaming.                                                                 *)

\* station_roam_timeout_rearm(): a timer that is armed would be lost.
RoamTimeoutRearm(w) == IF w.st.timer THEN Fault(w) ELSE [w EXCEPT !.st.timer = TRUE]

\* station_roam_retry().
RoamRetry(w) ==
    LET idle == [w EXCEPT !.st = [@ EXCEPT !.preparing_roam = FALSE, !.roam_scan_full = FALSE,
                                           !.ap_directed_roaming = FALSE]]
    IN  IF w.st.signal_low THEN RoamTimeoutRearm(idle) ELSE idle

\* station_roam_scan().
RoamScan(w, full) ==
    ScanStart([w EXCEPT !.st.roam_scan_full = @ \/ full], "roam")

\* station_roam_failed().
RoamFailed(w) ==
    IF w.st.state = "roaming" THEN Disassociated(w)
    ELSE IF ~w.st.ap_directed_roaming /\ w.st.signal_low /\ ~w.st.roam_scan_full
         THEN RoamScan(ScanCancel(w, "roam"), TRUE)
    ELSE RoamRetry(w)

\* station_roamed().
Roamed(w) ==
    LET again == IF w.st.signal_low THEN RoamTimeoutRearm(w) ELSE w
        on == [again EXCEPT !.st = [@ EXCEPT !.roam_scan_full = FALSE, !.roam_freqs = FALSE]]
    IN  IF w.st.bss = 0 THEN Fault(w)
        ELSE EnterState(NeighborReportReq(on, "early"), "connected")

\* station_reassociate_cb(), station_fast_transition_cb().
RoamCb(w, result) ==
    IF w.st.state # "roaming" THEN w
    ELSE IF result = "ok" THEN Roamed(w)
    ELSE RoamFailed(w)

\* station_roam_scan_known_freqs(), and what its callers do when it fails.
RoamScanKnown(w) ==
    IF w.st.bss = 0 THEN Fault(w)
    ELSE IF Has("nofreqs") THEN RoamFailed(w)
    ELSE RoamScan(w, FALSE)

\* Mutated form: no report, no roam.
OnlyReports(w, result) ==
    IF ~w.st.preparing_roam \/ result = "error" THEN w ELSE RoamScan(w, result = "empty")

\* station_neighbor_report_cb(); the reports may name no frequency at all.
\* parse_neighbor_report() looks at connected_bss in any case.
NeighborReportCb(w, result) ==
    IF ~w.st.preparing_roam THEN w
    ELSE IF result = "error" THEN RoamScanKnown(w)
    ELSE IF w.st.bss = 0 THEN Fault(w)
    ELSE RoamScan(w, result = "empty")

\* Mutated form: connected_bss is not updated.
MoveBlind(w, b) ==
    IF w.net.up = 0 THEN RoamFailed(w)
    ELSE EnterState([w EXCEPT !.net = [@ EXCEPT !.conn = b, !.cb = "roam", !.up = 0],
                              !.st.preparing_roam = FALSE], "roaming")

\* netdev_reassociate() and the fast transitions, and what follows.
Move(w, b) ==
    IF w.net.up = 0 THEN RoamFailed(w)
    ELSE EnterState([w EXCEPT !.net = [@ EXCEPT !.conn = b, !.cb = "roam", !.up = 0],
                              !.st = [@ EXCEPT !.bss = b, !.preparing_roam = FALSE]], "roaming")

\* station_transition_start(): preauthentication is for networks without fast
\* transitions, and comes before the new handshake is set up.
TransitionStart(w, b) ==
    LET go == [w EXCEPT !.st.ap_directed_roaming = FALSE]
    IN  IF Has("preauth") /\ ~Has("ftds") /\ w.net.up # 0 THEN [go EXCEPT !.net.preauth = b]
        ELSE IF ~Usable(b) THEN RoamFailed(go)
        ELSE IF Has("ftds") /\ w.st.signal_low THEN
            IF w.net.ds = 0 /\ w.net.up # 0 THEN [go EXCEPT !.net.ds = b] ELSE RoamRetry(go)
        ELSE Move(go, b)

\* station_roam_scan_notify(): the best BSS of the network is b, or none that is
\* better than ours is left.
RoamScanNotify(w, b) ==
    IF w.st.network = 0 \/ (w.net.conn = 0 /\ w.net.up = 0) THEN Fault(w)
    ELSE IF b = 0 THEN RoamFailed(w)
    ELSE TransitionStart([w EXCEPT !.nets.seen = @ \cup {b}], b)

RoamTargets(w) ==
    {b \in Bsses : NetworkOf[b] = w.st.network} \ (w.nets.blacklist \cup {w.st.bss})

-----------------------------------------------------------------------------
(* The end of a connection.                                                 *)

\* In netdev.c, netdev_connect_free().  A neighbour report that was asked for is
\* answered, the others are not.
NetFree(w) ==
    LET free == [w EXCEPT !.net = [@ EXCEPT !.conn = 0, !.up = 0, !.ending = FALSE,
                                            !.nr = "none", !.ds = 0, !.parsed = FALSE,
                                            !.preauth = 0]]
    IN  IF w.net.nr = "roam" THEN NeighborReportCb(free, "error") ELSE free

\* In netdev.c, connect_cb of the connection, once it is freed.
Callback(w, cb, result) ==
    IF cb = "connect" THEN
        IF result = "ok" THEN ConnectOk(w) ELSE ConnectFailed(w, result)
    ELSE RoamCb(w, result)

\* In netdev.c, netdev_disconnect().
CanLeave(w) ==
    w.net.disc = "none" /\ ~w.net.ending /\ (w.net.conn # 0 \/ w.net.up # 0)
NetdevDisconnect(w, cb) ==
    LET free == NetFree(w)
        told == IF w.net.conn # 0 THEN Callback(free, w.net.cb, "aborted") ELSE free
    IN  IF CanLeave(w) THEN [told EXCEPT !.net.disc = cb] ELSE w

\* station_disconnect_event().
DisconnectEvent(w) ==
    IF w.st.connect_pending THEN ConnectFailed(w, "handshake") ELSE Disassociated(w)

\* station_disconnect(), refused unless CanDisconnect.
CanDisconnect(w) == w.st.state # "disconnecting" /\ w.st.bss # 0
StationDisconnect(w) ==
    NetdevDisconnect(EnterState(ResetConnectionState(NetconfigReset(w)), "disconnecting"),
                     "user")

\* station_disconnect_cb().
DisconnectCb(w) ==
    LET off == EnterState([w EXCEPT !.st.disconnect_pending = FALSE], "disconnected")
    IN  IF w.st.autoconnect THEN EnterState(off, "quick") ELSE off

\* station_disconnect_onconnect_cb().
OnconnectCb(w) ==
    LET b == w.st.connect_pending_bss
        off == [EnterState(w, "disconnected")
                    EXCEPT !.st = [@ EXCEPT !.connect_pending_bss = 0, !.pending_freed = FALSE]]
    IN  IF w.st.pending_freed THEN Fault(w)
        ELSE IF CanConnect(w, b) THEN EnterState(ConnectNetwork(off, b), "connecting")
        ELSE ConnectReply(off, "aborted")

\* station_disconnect_reconnect_cb().
ReconnectCb(w) ==
    IF w.st.network = 0 THEN Fault(w)
    ELSE IF CanConnect(w, w.st.bss) THEN ConnectNetwork(w, w.st.bss)
    ELSE Disassociated(w)

\* Mutated form: the new connection does not wait for the end of the old.
ConnectNow(w, b) ==
    LET left == ResetConnectionState(NetconfigReset(NetdevDisconnect(w, "onconnect")))
    IN  IF ~CanLeave(w) THEN w
        ELSE [EnterState(ConnectNetwork(left, b), "connecting")
                EXCEPT !.st.connect_pending = TRUE, !.net.disc = "free"]

\* station_disconnect_onconnect().
DisconnectOnconnect(w, b) ==
    LET left == NetdevDisconnect(w, "onconnect")
        off == EnterState(ResetConnectionState(NetconfigReset(left)), "disconnecting")
    IN  IF ~CanLeave(w) THEN w
        ELSE [off EXCEPT !.st = [@ EXCEPT !.connect_pending_bss = b, !.connect_pending = TRUE]]

\* The scans that station_connect_network() gives up, with the caller of one.
CancelScans(w) ==
    LET hidden == IF w.st.id.hidden
                  THEN [ScanCancel(w, "hidden") EXCEPT !.st.hidden_pending = FALSE] ELSE w
    IN  IF w.st.id.quick THEN [ScanCancel(hidden, "quick") EXCEPT !.st.id.quick = FALSE]
        ELSE hidden

\* station_connect_network().
StationConnect(w, b) ==
    LET free == CancelScans(w)
    IN  IF w.st.state \notin Idle THEN DisconnectOnconnect(free, b)
        ELSE IF ~CanConnect(free, b) THEN free
        ELSE [EnterState(ConnectNetwork(free, b), "connecting")
                EXCEPT !.st = [@ EXCEPT !.connect_pending = TRUE, !.autoconnect = TRUE]]

-----------------------------------------------------------------------------
(* Users: calls over D-Bus, and the interface that is taken down.           *)

Alive == st.state # "gone"

\* network_connect(): not for the network we are connected to.  The passphrase
\* is asked for first if it has to be (module Agent).
Connect(n) ==
    /\ Has("connect") /\ Alive /\ n # st.network
    /\ st.state = "roaming" => Has("hasty")
    /\ LET b == Select(World, n, TRUE)
       IN  b # 0 /\ Become(StationConnect([World EXCEPT !.nets.ask_passphrase = @ \ {n}], b))

\* station_dbus_disconnect().
DbusDisconnect(w) ==
    LET off == AutoconnectOff(w)
    IN  IF w.st.id.hidden
        THEN [ScanCancel(off, "hidden") EXCEPT !.st.hidden_pending = FALSE]
        ELSE IF w.st.state \in Idle \/ ~CanDisconnect(w) THEN off
        ELSE LET gone == StationDisconnect(off)
             IN  [gone EXCEPT !.st.disconnect_pending = gone.net.disc = "user"]

\* netdev is about to end or to renew a connection, and will call back for it:
\* connect_cb, the callback of the reconnect or that of an early neighbour report
\* (a report that comes after connected_bss is cleared is a fault).
CallbackDue ==
    \/ net.disc = "reconnect"
    \/ net.ending /\ (net.conn # 0 \/ net.nr = "early")

Disconnect ==
    /\ Has("disconnect") /\ Alive
    /\ CallbackDue => Has("hasty")
    /\ Become(DbusDisconnect(World))

\* emit_known_network_removed(): when the station sees the network that is
\* forgotten, it leaves its own if that is not known, be it another one.
Forget(n) ==
    /\ Has("forget") /\ Alive /\ n \in nets.known
    /\ CallbackDue => Has("hasty")
    /\ LET w == [World EXCEPT !.nets.known = @ \ {n}]
           found == \E b \in nets.seen : NetworkOf[b] = n
       IN  Become(IF found /\ st.network \notin w.nets.known /\ CanDisconnect(w)
                  THEN StationDisconnect(w) ELSE w)

\* station_dbus_scan(), station_dbus_scan_subset().
DbusScan ==
    /\ Has("scan") /\ Alive
    /\ ~st.id.dbus /\ st.state # "connecting"
    /\ Become([ScanStart(World, "dbus")
                 EXCEPT !.st = [@ EXCEPT !.subset = 0, !.scan_pending = TRUE]])

\* station_dbus_connect_hidden_network(), for a network that is not known.
ConnectHidden ==
    /\ Has("hidden") /\ Alive
    /\ ~st.hidden_pending
    /\ Become([ScanStart(World, "hidden") EXCEPT !.st.hidden_pending = TRUE])

\* The scans that station_free() cancels.
CancelAllScans(w) ==
    LET Cancelled(v, k) == IF v.st.id[k] THEN ScanCancel(v, k) ELSE v
    IN  RoamStateClear(Cancelled(Cancelled(Cancelled(w, "dbus"), "quick"), "hidden"))

\* station_netdev_watch(), station_free(): nobody is told when the disconnect is
\* done.
Down ==
    /\ Has("down") /\ Alive
    /\ net.disc # "none" \/ net.ending => Has("hasty")
    /\ LET left == IF st.bss # 0 THEN NetdevDisconnect(World, "free") ELSE World
           free == CancelAllScans([left EXCEPT !.sc.periodic = "none"])
       IN  Become([free EXCEPT
              !.st = [@ EXCEPT !.state = "gone", !.network = 0, !.bss = 0,
                      !.netconfig = FALSE, !.connect_pending = FALSE,
                      !.hidden_pending = FALSE, !.disconnect_pending = FALSE,
                      !.scan_pending = FALSE, !.autoconnect = FALSE]])

-----------------------------------------------------------------------------
(* Scans.                                                                   *)

\* One request at a time has the radio.
IsNext(k) == sc[k] = "queued" /\ \A j \in Scans : sc[j] # "triggered"

\* station_dbus_scan_triggered(); the others only log.
ScanTriggered(k) ==
    /\ IsNext(k)
    /\ Become([World EXCEPT !.sc[k] = "triggered",
                            !.st.scan_pending = @ /\ k # "dbus"])

\* station_quick_scan_triggered(), station_roam_scan_triggered(),
\* station_dbus_scan_triggered(), station_hidden_network_scan_triggered().
ScanTriggerFails(k) ==
    /\ Has("scanfail") /\ IsNext(k)
    /\ LET w == [World EXCEPT !.sc[k] = "none"]
           told == CASE k = "quick"  -> EnterState(w, "full")
                     [] k = "roam"   -> RoamFailed(w)
                     [] k = "dbus"   -> [w EXCEPT !.st = [@ EXCEPT !.scan_pending = FALSE,
                                                                   !.id.dbus = FALSE]]
                     [] k = "hidden" -> [w EXCEPT !.st.hidden_pending = FALSE]
       IN  Become(ScanDestroy(told, k))

Finished(k) == sc[k] = "triggered"
Done(k) == [World EXCEPT !.sc[k] = "none"]

\* Mutated form: without a candidate the station stays as it is.
QuickEnough(w) == w

\* The end of station_quick_scan_results().
QuickScanOver(w) == IF w.st.state = "quick" THEN EnterState(w, "full") ELSE w

\* station_quick_scan_results().
QuickScanResults ==
    /\ Finished("quick")
    /\ LET w == Done("quick")
       IN  \/ \E seen \in Found(w) :
                  Become(ScanDestroy(QuickScanOver(SetScanResults(w, seen)), "quick"))
           \/ Has("scanfail") /\ Become(ScanDestroy(QuickScanOver(w), "quick"))

\* new_scan_results(), of the periodic scan.
NewScanResults ==
    /\ sc.periodic = "on"
    /\ \E seen \in Found(World) : Become(SetScanResults(World, seen))

\* last_subset of station_dbus_scan_results().
MoreSubsets(idx) == idx < Subsets

\* station_dbus_scan_results(): the next band, unless it failed.
DbusScanResults ==
    /\ Finished("dbus")
    /\ LET w == Done("dbus")
           over == [w EXCEPT !.st.id.dbus = FALSE]
       IN  \/ \E seen \in Found(w) :
                  LET set == [SetScanResults(w, seen) EXCEPT !.st.subset = @ + 1]
                  IN  Become(IF MoreSubsets(set.st.subset) THEN ScanStart(set, "dbus")
                             ELSE [set EXCEPT !.st.id.dbus = FALSE])
           \/ Has("scanfail") /\ Become(over)

\* station_hidden_network_scan_results(): an open network is connected to at once.
HiddenScanResults ==
    /\ Finished("hidden")
    /\ LET w == [Done("hidden") EXCEPT !.st = [@ EXCEPT !.hidden_pending = FALSE,
                                                         !.id.hidden = FALSE]]
       IN  \/ \E b \in Bsses :
                  LET found == [w EXCEPT !.nets.seen = @ \cup {b}]
                  IN  /\ NetworkOf[b] \notin nets.known \cup {st.network}
                      /\ st.state = "roaming" => Has("hasty")
                      /\ Become(StationConnect(found, Select(found, NetworkOf[b], TRUE)))
           \/ Become(w)

\* station_roam_scan_notify(), station_roam_scan_destroy().
RoamScanResults ==
    /\ Finished("roam")
    /\ LET w == Done("roam")
       IN  \E b \in RoamTargets(w) \cup {0} :
              /\ b = 0 => Has("poor") \/ Has("scanfail") \/ RoamTargets(w) = {}
              /\ Become(ScanDestroy(RoamScanNotify(w, b), "roam"))

-----------------------------------------------------------------------------
(* External: answers and events of the interface (module Netdev).           *)

\* connect_cb(NETDEV_RESULT_OK).
NetOk ==
    /\ net.conn # 0 /\ ~net.ending
    /\ Become(Callback([World EXCEPT !.net = [@ EXCEPT !.conn = 0, !.up = net.conn]],
                       net.cb, "ok"))

\* connect_cb with another result.
NetFails ==
    /\ net.conn # 0
    /\ \E result \in {"temporary", "refused", "handshake", "badpass", "aborted"} :
          /\ net.ending => result = "handshake" \/ (result = "badpass" /\ Has("badpass"))
          /\ CASE result = "temporary" -> Has("temporary")
               [] result = "badpass"   -> Has("badpass")
               [] result = "aborted"   -> Has("abort")
               [] OTHER                -> Has("refuse") \/ net.ending
          /\ Become(Callback(NetFree(World), net.cb, result))

\* NETDEV_EVENT_DISCONNECT_BY_AP and NETDEV_EVENT_DISCONNECT_BY_SME.
NetLost ==
    /\ net.up # 0
    /\ Has("drop") \/ net.ending
    /\ Become(DisconnectEvent(NetFree(World)))

\* netdev ends the connection by itself.
NetEnds ==
    /\ Has("ending") /\ ~net.ending /\ net.disc = "none"
    /\ net.conn # 0 \/ net.up # 0
    /\ Become([World EXCEPT !.net.ending = TRUE])

\* disconnect_cb.
NetLeft ==
    /\ net.disc # "none"
    /\ LET w == [World EXCEPT !.net.disc = "none"]
       IN  Become(CASE net.disc = "user"      -> DisconnectCb(w)
                    [] net.disc = "onconnect" -> OnconnectCb(w)
                    [] net.disc = "reconnect" -> ReconnectCb(w)
                    [] net.disc = "free"      -> w)

\* station_handshake_event(HANDSHAKE_EVENT_REKEY_FAILED), station_reconnect().
RekeyFailed ==
    /\ Has("rekey") /\ net.up # 0
    /\ Become(NetdevDisconnect(EnterState(World, "roaming"), "reconnect"))

\* station_early_neighbor_report_cb(): reports that name nothing clear roam_freqs.
EarlyReportCb(w, result) ==
    IF result = "error" THEN w
    ELSE IF w.st.bss = 0 THEN Fault(w)
    ELSE [w EXCEPT !.st.roam_freqs = result = "report"]

NeighborReport(result) ==
    /\ net.nr # "none"
    /\ LET w == [World EXCEPT !.net.nr = "none"]
       IN  Become(IF net.nr = "roam" THEN NeighborReportCb(w, result)
                  ELSE EarlyReportCb(w, result))

\* station_fast_transition_ds_cb().
FastTransitionDs ==
    /\ net.ds # 0 /\ ~net.parsed
    /\ \/ /\ net.ds \in nets.seen
          /\ Become(Move([World EXCEPT !.net.ds = 0], net.ds))
       \/ /\ net.ds \notin nets.seen
          /\ Become(RoamRetry([World EXCEPT !.net.parsed = TRUE]))
       \/ Become(RoamRetry([World EXCEPT !.net.ds = 0]))

\* station_preauthenticate_cb(): with or without a key.
Preauthenticated ==
    /\ net.preauth # 0
    /\ LET w == [World EXCEPT !.net.preauth = 0]
       IN  Become(IF ~st.preparing_roam THEN w
                  ELSE IF net.preauth \in nets.seen /\ Usable(net.preauth)
                       THEN Move(w, net.preauth)
                  ELSE RoamFailed(w))

-----------------------------------------------------------------------------
(* Signals, timers, and other events.                                       *)

\* station_cannot_roam().
CannotRoam == st.preparing_roam \/ st.state = "roaming"

\* station_low_rssi(), station_ok_rssi().
LowRssi ==
    /\ Has("low") /\ net.up # 0 /\ ~st.signal_low
    /\ LET w == [World EXCEPT !.st.signal_low = TRUE]
       IN  Become(IF CannotRoam THEN w ELSE RoamTimeoutRearm(w))
OkRssi ==
    /\ net.up # 0 /\ st.signal_low
    /\ Become([World EXCEPT !.st = [@ EXCEPT !.timer = FALSE, !.signal_low = FALSE]])

\* station_roam_trigger_cb().
RoamTrigger ==
    /\ st.timer
    /\ LET w == [World EXCEPT !.st = [@ EXCEPT !.timer = FALSE, !.preparing_roam = TRUE]]
           asked == NeighborReportReq(w, "roam")
       IN  Become(IF st.roam_freqs THEN RoamScan(w, FALSE)
                  ELSE IF st.bss = 0 THEN Fault(w)
                  ELSE IF asked # w THEN asked
                  ELSE RoamScanKnown(w))

\* station_ap_directed_roam(): a BSS transition request, with or without a list
\* of candidates.
ApDirectedRoam ==
    /\ Has("btm") /\ Alive /\ ~CannotRoam
    /\ (net.up # 0 /\ st.bss # 0) \/ Has("hasty")
    /\ LET w == [World EXCEPT !.st = [@ EXCEPT !.ap_directed_roaming = TRUE,
                                               !.preparing_roam = TRUE, !.timer = FALSE]]
       IN  \/ Become(NeighborReportCb(w, "report"))
           \/ Become(RoamScan(w, TRUE))

\* station_netconfig_event_handler(): once for every configuration.
NetconfigEvent ==
    /\ st.netconfig
    /\ Become(EnterState(NetconfigReset(World), "connected"))

\* blacklist.c: an entry lasts for a while.
BlacklistExpires ==
    /\ Has("expire")
    /\ \E b \in nets.blacklist : Become([World EXCEPT !.nets.blacklist = @ \ {b}])

-----------------------------------------------------------------------------
(* The specification.                                                       *)

\* station_create(): autoconnect is on.
Created ==
    [st |-> [state |-> "disconnected", network |-> 0, bss |-> 0, autoconnect |-> TRUE,
             connect_pending |-> FALSE, connect_pending_bss |-> 0, pending_freed |-> FALSE,
             disconnect_pending |-> FALSE, scan_pending |-> FALSE, hidden_pending |-> FALSE,
             id |-> [k \in Scans |-> FALSE], subset |-> 0, preparing_roam |-> FALSE,
             roam_scan_full |-> FALSE, signal_low |-> FALSE, ap_directed_roaming |-> FALSE,
             timer |-> FALSE, roam_freqs |-> FALSE, netconfig |-> FALSE, fault |-> FALSE],
     net |-> [conn |-> 0, cb |-> "connect", up |-> 0, disc |-> "none", ending |-> FALSE,
              nr |-> "none", ds |-> 0, parsed |-> FALSE, preauth |-> 0],
     sc |-> [k \in Scans \cup {"periodic"} |-> "none"],
     nets |-> [seen |-> {}, known |-> {1}, blacklist |-> {}, temporary |-> {},
               ask_passphrase |-> {}]]

Init ==
    /\ env \in Envs
    /\ LET w == EnterState(Created, "quick")
       IN  st = w.st /\ net = w.net /\ sc = w.sc /\ nets = w.nets

User ==
    \/ \E n \in Networks : Connect(n) \/ Forget(n)
    \/ Disconnect \/ DbusScan \/ ConnectHidden \/ Down

ScanStep ==
    \/ \E k \in Scans : ScanTriggered(k) \/ ScanTriggerFails(k)
    \/ QuickScanResults \/ DbusScanResults \/ HiddenScanResults \/ RoamScanResults

NetAnswer == NetOk \/ NetFails
RoamAnswer ==
    \/ \E result \in {"report", "empty", "error"} : NeighborReport(result)
    \/ FastTransitionDs \/ Preauthenticated

Next ==
    \/ User \/ ScanStep \/ NewScanResults
    \/ NetAnswer \/ NetLost \/ NetEnds \/ NetLeft \/ RekeyFailed
    \/ RoamAnswer \/ LowRssi \/ OkRssi \/ RoamTrigger \/ ApDirectedRoam
    \/ NetconfigEvent \/ BlacklistExpires

Spec == Init /\ [][Next]_vars

\* Every scan has its turn, in the order of the requests, and ends by itself or by
\* the kernel (module Scan); the interface
\* answers (module Connection); neighbour reports, action frames and
\* preauthentications have timers.  Users and access points need do nothing.
Fairness ==
    /\ \A k \in Scans : SF_vars(ScanTriggered(k) \/ ScanTriggerFails(k))
    /\ WF_vars(QuickScanResults) /\ WF_vars(DbusScanResults)
    /\ WF_vars(HiddenScanResults) /\ WF_vars(RoamScanResults)
    /\ WF_vars(NetAnswer) /\ WF_vars(net.ending /\ NetLost) /\ WF_vars(NetLeft)
    /\ WF_vars(\E result \in {"report", "empty", "error"} : NeighborReport(result))
    /\ WF_vars(FastTransitionDs) /\ WF_vars(Preauthenticated)
FairSpec == Spec /\ Fairness

-----------------------------------------------------------------------------
(* Properties.                                                              *)

\* The state stays within the types the code gives it.
TypeOK ==
    /\ env \in Envs
    /\ st.state \in Idle \cup {"connecting", "connected", "disconnecting", "roaming", "gone"}
    /\ st.network \in Networks \cup {0} /\ st.bss \in Bsses \cup {0}
    /\ st.connect_pending_bss \in Bsses \cup {0}
    /\ st.id \in [Scans -> BOOLEAN] /\ st.subset \in 0..Subsets
    /\ net.conn \in Bsses \cup {0} /\ net.up \in Bsses \cup {0}
    /\ net.cb \in {"connect", "roam"} /\ net.nr \in {"none", "early", "roam"}
    /\ net.disc \in {"none", "user", "onconnect", "reconnect", "free"}
    /\ \A k \in Scans : sc[k] \in {"none", "queued", "triggered"}
    /\ nets.seen \subseteq Bsses /\ nets.known \subseteq Networks
    /\ nets.blacklist \subseteq Bsses /\ nets.temporary \subseteq Bsses
    /\ nets.ask_passphrase \subseteq Networks

\* No callback follows a pointer to a network or an access point that is gone, or
\* loses a timer, in whatever order scans, answers and users come.
NoFault == ~st.fault

\* The state that station.c shows is the one its interface is in.
StatesAgree ==
    /\ st.bss # 0 <=> st.network # 0
    /\ st.bss # 0 => st.network = NetworkOf[st.bss]
    /\ st.state \in Idle => st.bss = 0 /\ net.conn = 0 /\ net.up = 0
    /\ st.state = "connecting" =>
          \/ net.conn = st.bss /\ net.cb = "connect"
          \/ net.up = st.bss /\ st.netconfig
    /\ st.state = "connected" => net.up = st.bss /\ st.bss # 0
    /\ st.state = "roaming" => net.conn = st.bss \/ net.disc = "reconnect" \/ net.ending
    /\ st.state = "disconnecting" =>
          st.bss = 0 /\ (net.disc \in {"user", "onconnect"} \/ net.ending)

\* A station that may connect by itself never stops looking for a network: it has
\* a scan under way that will lead on.
AutoconnectAlive ==
    /\ st.state = "quick" => sc.quick # "none"
    /\ st.state = "full" => sc.periodic = "on"
    /\ st.state = "disconnected" => ~st.autoconnect
    /\ st.state \in {"connected", "connecting"} => sc.periodic = "none"

\* Every D-Bus call that waits for its reply has a callback coming that sends it.
RepliesKept ==
    /\ st.connect_pending =>
          (net.conn # 0 /\ net.cb = "connect") \/ net.disc = "onconnect"
    /\ st.disconnect_pending => net.disc = "user"
    /\ st.scan_pending => sc.dbus = "queued"
    /\ st.hidden_pending <=> sc.hidden # "none"

\* A roam is prepared only for a connection that is up, by one thing at a time,
\* and its timer does not run meanwhile.
RoamOwned ==
    /\ st.preparing_roam => net.up # 0 /\ ~st.timer
    /\ st.timer => st.signal_low
    /\ st.preparing_roam =>
          Cardinality({x \in {"scan", "nr", "ds", "preauth"} :
              CASE x = "scan" -> sc.roam # "none"
                [] x = "nr"   -> net.nr = "roam"
                [] x = "ds"   -> net.ds # 0 /\ ~net.parsed
                [] OTHER      -> net.preauth # 0}) = 1
    /\ sc.roam # "none" => st.preparing_roam

\* Nothing can call back a station that was freed.
NothingOutlives ==
    st.state = "gone" =>
        /\ \A k \in Scans \cup {"periodic"} : sc[k] = "none"
        /\ net.conn = 0 /\ net.nr = "none" /\ net.ds = 0 /\ net.preauth = 0
        /\ net.disc \in {"none", "free"} /\ ~st.timer

\* "Disconnect was triggered by the user, don't autoconnect. Wait for the user's
\* explicit instructions to scan and connect to the network"
\* (src/src/station.c:2957): no connection starts without a user's Connect, unless
\* autoconnect is on or a connection is being moved or retried.
NoUnaskedConnect ==
    [][(net.conn # net'.conn /\ net'.conn # 0) =>
          st.autoconnect \/ st'.connect_pending \/ st.network # 0]_vars

\* Every Connect, Disconnect, Scan and ConnectHiddenNetwork is replied to (a Connect
\* may be aborted by the next, which then waits for the disconnect).
Replied ==
    /\ st.connect_pending ~> ~st.connect_pending \/ net.disc = "onconnect"
    /\ net.disc = "onconnect" ~> net.disc # "onconnect"
    /\ st.disconnect_pending ~> ~st.disconnect_pending
    /\ st.scan_pending ~> ~st.scan_pending
    /\ st.hidden_pending ~> ~st.hidden_pending

\* Whatever is begun ends: calls are replied to, the states that are only passed through
\* are left, and a roam that is being prepared is made or given up.
Settles ==
    /\ Replied
    /\ st.state \in {"quick", "disconnecting", "roaming"} ~>
          st.state \notin {"disconnecting", "roaming"} /\ sc.quick = "none"
    /\ st.preparing_roam ~> ~st.preparing_roam

\* The station asks of the interface what the contract of module Connection
\* allows: one connection at a time, and none before a disconnect is answered.
Contract == INSTANCE Connection WITH
    Targets <- Bsses,
    conn <- net.conn, up <- net.up, disc <- net.disc # "none", ending <- net.ending
KeepsContract == Contract!Spec

\* The station is consistent between two events: its state is the interface's, every
\* pointer its callbacks follow is valid, every call that waits has a reply coming, a
\* roam has one owner, and a station that was freed has left nothing behind.
Inv ==
    /\ TypeOK
    /\ NoFault
    /\ StatesAgree
    /\ RepliesKept
    /\ RoamOwned
    /\ NothingOutlives

-----------------------------------------------------------------------------
(* The inductive invariant, as a predicate on worlds.  It holds in every    *)
(* calm environment.                                                        *)

\* Users and access points that wait for an end, nothing that ends a connection while a
\* low signal makes the station look for another access point (the second scan of a roam
\* loses its id), one reason at a time for a state to be left (a roam, new keys, IP
\* addresses), no scan of a user that frees the BSS of a Connect, and no Connect to an
\* access point that cannot be used.
Calm ==
    /\ env \cap {"hasty", "abort"} = {}
    /\ Has("low") => env \cap {"connect", "hidden", "disconnect", "forget", "down", "drop",
                               "ending", "rekey", "netconfig"} = {}
    /\ Has("btm") => ~Has("rekey") /\ ~Has("netconfig")
    /\ Has("rekey") => ~Has("netconfig")
    /\ Has("connect") \/ Has("hidden") => ~Has("scan") /\ ~Has("unusable")

Maybe == Bsses \cup {0}
States == Idle \cup {"connecting", "connected", "disconnecting", "roaming", "gone"}

Worlds ==
    [st : [state : States, network : Networks \cup {0}, bss : Maybe, autoconnect : BOOLEAN,
           connect_pending : BOOLEAN, connect_pending_bss : Maybe, pending_freed : BOOLEAN,
           disconnect_pending : BOOLEAN, scan_pending : BOOLEAN, hidden_pending : BOOLEAN,
           id : [Scans -> BOOLEAN], subset : 0..Subsets, preparing_roam : BOOLEAN,
           roam_scan_full : BOOLEAN, signal_low : BOOLEAN, ap_directed_roaming : BOOLEAN,
           timer : BOOLEAN, roam_freqs : BOOLEAN, netconfig : BOOLEAN, fault : BOOLEAN],
     net : [conn : Maybe, cb : {"connect", "roam"}, up : Maybe,
            disc : {"none", "user", "onconnect", "reconnect", "free"}, ending : BOOLEAN,
            nr : {"none", "early", "roam"}, ds : Maybe, parsed : BOOLEAN, preauth : Maybe],
     sc : [Scans \cup {"periodic"} -> {"none", "queued", "triggered", "on"}],
     nets : [seen : SUBSET Bsses, known : SUBSET Networks, blacklist : SUBSET Bsses,
             temporary : SUBSET Bsses, ask_passphrase : SUBSET Networks]]

\* One connection at a time, and what netdev holds for one.
Interface(w) ==
    LET n == w.net
    IN  /\ n.conn # 0 => n.up = 0
        /\ n.disc # "none" => n.conn = 0 /\ n.up = 0 /\ ~n.ending
        /\ n.ending => (n.conn # 0 \/ n.up # 0) /\ Has("ending")
        /\ n.nr # "none" \/ n.ds # 0 \/ n.preauth # 0 => n.conn # 0 \/ n.up # 0
        /\ n.parsed => n.ds # 0

\* Where the interface is in every state, and the state in which it is left.
Placed(w) ==
    LET s == w.st
        n == w.net
    IN  /\ ~s.fault
        /\ s.bss # 0 <=> s.network # 0
        /\ s.bss # 0 => s.network = NetworkOf[s.bss]
        /\ s.state \in Idle => s.bss = 0 /\ n.conn = 0 /\ n.up = 0 /\ n.disc = "none"
        /\ s.state = "connecting" =>
              s.bss # 0 /\ n.disc = "none"
              /\ ((n.conn = s.bss /\ n.cb = "connect") \/ (n.up = s.bss /\ s.netconfig))
        /\ s.state = "connected" => s.bss # 0 /\ n.up = s.bss
        /\ s.state = "roaming" =>
              \/ s.bss # 0 /\ (n.conn = s.bss \/ n.disc = "reconnect")
              \/ n.up # 0 /\ n.ending /\ s.bss \in {0, n.up}
        /\ s.state = "roaming" /\ n.conn # 0 /\ n.cb = "connect" => Has("rekey")
        /\ s.state = "disconnecting" =>
              /\ s.bss = 0 /\ n.conn = 0
              /\ n.disc \in {"user", "onconnect"} \/ (n.up # 0 /\ n.ending)
        /\ s.state = "gone" => s.bss = 0 /\ n.conn = 0 /\ n.up = 0
        /\ n.disc = "reconnect" => s.state = "roaming" /\ Has("rekey")
        /\ n.disc \in {"user", "onconnect"} => s.state = "disconnecting"
        /\ n.disc = "free" => s.state = "gone"
        /\ s.netconfig => s.state = "connecting" /\ n.up # 0 /\ Has("netconfig")
        /\ n.nr # "none" => s.bss # 0

\* What waits for the replies.
Waiting(w) ==
    LET s == w.st
        n == w.net
    IN  /\ s.connect_pending => (n.conn # 0 /\ n.cb = "connect") \/ n.disc = "onconnect"
        /\ n.disc = "onconnect" <=> s.connect_pending_bss # 0
        /\ n.disc = "onconnect" => s.connect_pending /\ (Has("connect") \/ Has("hidden"))
        /\ ~s.pending_freed
        /\ s.disconnect_pending => n.disc = "user"
        /\ s.scan_pending => w.sc.dbus = "queued"
        /\ s.hidden_pending <=> w.sc.hidden # "none"

\* The ids of scans, and the states that have them.
Scanning(w) ==
    LET s == w.st
    IN  /\ "on" \notin {w.sc.quick, w.sc.roam, w.sc.dbus, w.sc.hidden}
        /\ s.id.quick <=> w.sc.quick # "none"
        /\ s.id.dbus <=> w.sc.dbus # "none"
        /\ s.id.hidden <=> w.sc.hidden # "none"
        /\ w.sc.quick # "none" => s.state \in Idle
        /\ w.sc.dbus # "none" => Has("scan") /\ s.subset < Subsets /\ s.state # "gone"
        /\ w.sc.hidden # "none" => Has("hidden") /\ s.state # "gone"
        /\ s.state = "quick" => w.sc.quick # "none"
        /\ w.sc.periodic = IF s.state = "full" THEN "on" ELSE "none"
        /\ s.state = "disconnected" => ~s.autoconnect
        /\ ~s.autoconnect => Has("disconnect") \/ s.state = "gone"
        /\ s.state \in Autoconnecting => s.autoconnect \/ (Has("disconnect") /\ Has("scanfail"))

\* The second scan of a roam, for a low signal, has lost its id.
RoamId(w) == Has("low") \/ (w.st.id.roam <=> w.sc.roam # "none")

\* What a roam that is being prepared waits for.
ScanOwner(w) == w.sc.roam # "none"
ReportOwner(w) == w.net.nr = "roam"
DsOwner(w) == w.net.ds # 0 /\ ~w.net.parsed
PreauthOwner(w) == w.net.preauth # 0

\* A roam that is being prepared waits for one thing.
Roaming(w) ==
    LET s == w.st
        n == w.net
    IN  /\ s.preparing_roam =>
              /\ s.state = "connected" /\ ~s.timer /\ (Has("low") \/ Has("btm"))
              /\ ScanOwner(w) \/ ReportOwner(w) \/ DsOwner(w) \/ PreauthOwner(w)
              /\ ScanOwner(w) => ~ReportOwner(w) /\ ~DsOwner(w) /\ ~PreauthOwner(w)
              /\ ReportOwner(w) => ~DsOwner(w) /\ ~PreauthOwner(w)
              /\ DsOwner(w) => ~PreauthOwner(w) /\ NetworkOf[n.ds] = s.network
              /\ PreauthOwner(w) => NetworkOf[n.preauth] = s.network
        /\ ~s.preparing_roam =>
              /\ ~ScanOwner(w) /\ ~ReportOwner(w) /\ ~DsOwner(w)
              /\ PreauthOwner(w) => s.state = "disconnecting"
        /\ s.timer => s.signal_low /\ s.state = "connected"
        /\ s.signal_low => Has("low") /\ s.state \in {"connected", "roaming"}
        /\ n.ds # 0 \/ n.nr = "roam" => Has("low")
        /\ n.preauth # 0 => Has("low") \/ Has("btm")

Sound(w) ==
    /\ w \in Worlds
    /\ Interface(w) /\ Placed(w) /\ Waiting(w) /\ Scanning(w) /\ Roaming(w)
    /\ RoamId(w)

IInv == env \in Envs /\ (Calm => Sound(World))

=============================================================================
