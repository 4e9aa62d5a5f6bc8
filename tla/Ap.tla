---------------------------------- MODULE Ap ----------------------------------
(***************************************************************************)
(* An access point of iwd (src/ap.c) with its D-Bus interface: Start and   *)
(* Stop, the stations that authenticate, associate and leave, the handshake*)
(* with each of them, and what the kernel is told of them.                 *)
(*                                                                         *)
(* Everything goes through one netlink socket.  Commands are executed in   *)
(* the order in which they were sent, and answers, transmission reports,   *)
(* received frames and notifications are read in the order in which the    *)
(* kernel wrote them.  A callback that is given a station or the AP may    *)
(* outlive it: freeing a station cancels some of its commands and not      *)
(* others, which is modelled as the code does it.                          *)
(*                                                                         *)
(* Only WPA2-Personal is modelled; push-button registration is started by  *)
(* Wi-Fi Direct alone.  The 4-way handshake is one step that ends with the *)
(* station being authorized, or fails (module Eapol has its messages).     *)
(***************************************************************************)
EXTENDS Integers, Sequences, FiniteSets

CONSTANTS
    Stations,   \* MAC addresses
    Subnets,    \* of the IP pool
    MaxFrames,  \* bound: frames of the stations
    MaxUp,      \* bound: frames received and not handled
    MaxStarts,  \* bound: calls of Start and StartProfile
    Envs        \* the features of the kernel, the stations and the user

ASSUME SubnetsAssumption == Subnets \subseteq Nat
ASSUME BoundAssumption == MaxFrames \in Nat /\ MaxUp \in Nat /\ MaxStarts \in Nat
ASSUME EnvsAssumption == \A e \in Envs : e \subseteq
    {"dhcp",        \* an address of the pool is used
     "profile",     \* a profile that the DHCP server does not accept
     "noserver",    \* the DHCP server may not start
     "fullmac",     \* association is done by the firmware
     "bad",         \* association requests that are refused
     "refuse",      \* the kernel refuses to start, keys and authorizations
     "refuse_new",  \* the kernel refuses stations
     "down",        \* the interface goes down, or the kernel stops the AP
     "early",       \* a station leaves, or the user stops, during an association
     "twice",       \* Stop is called again while stopping
     "gone"}        \* the interface goes down while stopping

VARIABLES
    env,
    user,       \* struct ap_if_data, and the stations that were announced
    ap,         \* struct ap_state
    sta,        \* ap->sta_states: struct sta_state of an address
    used,       \* pool.used
    air,        \* association responses given to frame-xchg.c
    down, up,   \* the netlink socket
    kernel,     \* external: the AP and the stations in the kernel
    fault,      \* what went wrong in memory
    frames, starts
vars == <<env, user, ap, sta, used, air, down, up, kernel, fault, frames, starts>>

Has(f) == f \in env

NoAp == [exists |-> FALSE, reset |-> FALSE, started |-> FALSE, cmd |-> "none",
         addr |-> FALSE, gtk_set |-> FALSE, ip |-> -1, last_aid |-> 0]
NoSta == [exists |-> FALSE, associated |-> FALSE, rsna |-> FALSE, aid |-> 0,
          resp |-> FALSE, gtkq |-> FALSE, hs |-> "none"]

Init ==
    /\ env \in Envs
    /\ user = [ap |-> FALSE, pending |-> "none", up |-> TRUE, sees |-> {}]
    /\ ap = NoAp
    /\ sta = [s \in Stations |-> NoSta]
    /\ used = {}
    /\ air = <<>> /\ down = <<>> /\ up = <<>>
    /\ kernel = [beacon |-> FALSE, gtk |-> FALSE, address |-> FALSE,
                 sta |-> [s \in Stations |-> "none"]]
    /\ fault = {}
    /\ frames = 0 /\ starts = 0

-----------------------------------------------------------------------------
(* The handlers are functions of the state of iwd and of its socket.        *)

World == [user |-> user, ap |-> ap, sta |-> sta, used |-> used, air |-> air,
          down |-> down, up |-> up, fault |-> fault]

Become(w) ==
    /\ user' = w.user /\ ap' = w.ap /\ sta' = w.sta /\ used' = w.used /\ air' = w.air
    /\ down' = w.down /\ up' = w.up /\ fault' = w.fault

\* l_genl_family_send(): cb names the callback.
Send(w, cmd, s, cb) ==
    [w EXCEPT !.down = Append(@, [cmd |-> cmd, sta |-> s, cb |-> cb])]

\* The AP's own station, for commands that are not about one.
Self == "self"

\* l_genl_family_cancel(): a command that was not written yet is dropped, an answer
\* that comes is ignored.
Cancel(w, S, cbs) ==
    LET Of(c) == c.sta \in S /\ c.cb \in cbs
    IN  [w EXCEPT !.down = SelectSeq(@, LAMBDA c : ~Of(c)),
                  !.up = [i \in DOMAIN @ |-> IF Of(@[i]) THEN [@[i] EXCEPT !.cb = "none"]
                                             ELSE @[i]]]

\* The callbacks that have a pointer to a station of S when it is freed: those of a
\* command and of a frame exchange.
Freed == [assoc |-> "freed_assoc", resp |-> "freed_resp"]
Dangle(w, S) ==
    LET D(q) == [i \in DOMAIN q |-> IF q[i].sta \in S /\ q[i].cb \in DOMAIN Freed
                                    THEN [q[i] EXCEPT !.cb = Freed[@]] ELSE q[i]]
    IN  [w EXCEPT !.down = D(@), !.up = D(@), !.air = D(@)]

\* ap_stop_handshake(): the handshake state cancels its commands.
StopHandshake(w, S) ==
    Cancel([w EXCEPT !.sta = [s \in Stations |-> IF s \in S THEN [@[s] EXCEPT !.hs = "none"]
                                                 ELSE @[s]]], S, {"keys"})

\* Mutated form: the query of the group key is not cancelled.
FreeKeepingQuery(w, S) ==
    LET v == StopHandshake(w, S)
        q == \E s \in S : w.sta[s].gtkq
    IN  Dangle([v EXCEPT !.sta = [s \in Stations |-> IF s \in S THEN NoSta ELSE @[s]],
                         !.fault = IF q THEN @ \cup {"freed"} ELSE @], S)

\* ap_sta_free(): assoc_resp_cmd_id is the number of a frame exchange, and cancelling
\* the netlink command of that number does not end the exchange; the command of
\* ap_associate_sta() has no number.
StaFree(w, S) ==
    Dangle([StopHandshake(Cancel(w, S, {"gtk"}), S)
              EXCEPT !.sta = [s \in Stations |-> IF s \in S THEN NoSta ELSE @[s]]], S)

\* AP_EVENT_STATION_REMOVED.
Removed(w, s) == [w EXCEPT !.user.sees = @ \ {s}]

\* Mutated form: the kernel is not told.
DelStationQuietly(w, s) ==
    LET v == StopHandshake(Cancel(w, {s}, {"gtk"}), {s})
        gone == [v EXCEPT !.sta[s].associated = FALSE, !.sta[s].rsna = FALSE,
                          !.sta[s].gtkq = FALSE]
    IN  IF w.sta[s].rsna THEN Removed(gone, s) ELSE gone

\* ap_del_station().
DelStation(w, s) ==
    LET v == StopHandshake(Cancel(Send(w, "del_station", s, "none"), {s}, {"gtk"}), {s})
        gone == [v EXCEPT !.sta[s].associated = FALSE, !.sta[s].rsna = FALSE,
                          !.sta[s].gtkq = FALSE]
    IN  IF w.sta[s].rsna THEN Removed(gone, s) ELSE gone

\* ap_drop_rsna().
DropRsna(w, s) ==
    Removed(StopHandshake(Send([w EXCEPT !.sta[s].rsna = FALSE], "unauthorize", s, "none"),
                          {s}), s)

\* ap_start_rsna(): the handshake that is there is forgotten.
StartRsna(w, s) ==
    [w EXCEPT !.sta[s].hs = "running",
              !.fault = IF w.sta[s].hs # "none" THEN @ \cup {"orphan"} ELSE @]

-----------------------------------------------------------------------------
(* Association.                                                             *)

\* ap_associate_sta().
AssociateSta(w, s) ==
    Send([w EXCEPT !.sta[s].associated = TRUE, !.sta[s].rsna = FALSE],
         IF w.sta[s].associated THEN "set_station" ELSE "new_station", s, "assoc")

\* ap_associate_sta_cb(): the first station has the group key made.
AssociateStaCb(w, s, ok) ==
    LET gtk == Send(Send([w EXCEPT !.ap.gtk_set = TRUE], "new_key", Self, "none"),
                    "set_key", Self, "none")
        v == IF w.ap.gtk_set THEN w ELSE gtk
    IN  IF ~ok THEN w
        ELSE Send([v EXCEPT !.sta[s].gtkq = TRUE], "get_key", s, "gtk")

\* Mutated form: the station is left alone after an error.
GtkQueryLost(w, s, ok) ==
    LET v == [w EXCEPT !.sta[s].gtkq = FALSE]
    IN  IF ok THEN StartRsna(v, s) ELSE v

\* ap_gtk_query_cb().
GtkQueryCb(w, s, ok) ==
    LET v == [w EXCEPT !.sta[s].gtkq = FALSE]
    IN  IF ok THEN StartRsna(v, s) ELSE DelStation(v, s)

\* ap_success_assoc_resp_cb().
SuccessAssocRespCb(w, s, ok) ==
    LET v == [w EXCEPT !.sta[s].resp = FALSE]
    IN  IF ok THEN AssociateSta(v, s)
        ELSE IF v.sta[s].associated THEN DelStation(v, s) ELSE v

\* Back to the state before the handshake.
Unsecure(w, s) ==
    IF w.sta[s].rsna THEN DropRsna(w, s)
    ELSE IF w.sta[s].associated THEN StopHandshake(w, {s})
    ELSE w

\* ap_assoc_reassoc(): good for an acceptable request.  The response that refuses has
\* no callback that does anything.  frame_xchg_start() takes every frame that is long
\* enough, so that the response is always sent.
AssocReassoc(w, s, re, good) ==
    LET v == Unsecure(w, s)
        new == ~w.sta[s].associated
    IN  IF w.sta[s].resp THEN w
        ELSE IF ~good \/ (re /\ new) THEN v
        ELSE [v EXCEPT !.ap.last_aid = IF new THEN @ + 1 ELSE @,
                       !.sta[s].aid = IF new THEN v.ap.last_aid + 1 ELSE @,
                       !.sta[s].resp = TRUE,
                       !.air = Append(@, [sta |-> s, cb |-> "resp"])]

\* ap_assoc_req_cb(), ap_reassoc_req_cb(): a station that did not authenticate is
\* refused.
AssocReq(w, s, re, good) == IF w.sta[s].exists THEN AssocReassoc(w, s, re, good) ELSE w

\* ap_auth_cb().
Auth(w, s) == IF w.sta[s].exists THEN w ELSE [w EXCEPT !.sta[s] = [NoSta EXCEPT !.exists = TRUE]]

\* ap_disassoc_cb().
Disassoc(w, s) ==
    LET v == [w EXCEPT !.sta[s].resp = FALSE]
    IN  IF ~w.sta[s].exists THEN w
        ELSE IF w.sta[s].associated THEN DelStation(v, s) ELSE v

\* ap_deauth_cb().
Deauth(w, s) == IF w.sta[s].exists THEN StaFree(DelStation(w, s), {s}) ELSE w

\* ap_handle_new_station(): a station that the firmware associated.
HandleNewStation(w, s) ==
    IF w.sta[s].exists THEN w
    ELSE Send([w EXCEPT !.ap.last_aid = @ + 1,
                        !.sta[s] = [NoSta EXCEPT !.exists = TRUE, !.associated = TRUE,
                                                 !.aid = w.ap.last_aid + 1]],
              "unauthorize", s, "assoc")

\* ap_handle_del_station().
HandleDelStation(w, s) == IF w.sta[s].exists THEN StaFree(DelStation(w, s), {s}) ELSE w

-----------------------------------------------------------------------------
(* Start and stop.                                                          *)

\* AP_EVENT_START_FAILED and AP_EVENT_STOPPING in ap_if_event_func().
StartFailedEvent(w) == [w EXCEPT !.user.pending = "none", !.user.ap = FALSE]
StoppingEvent(w) == [w EXCEPT !.user.sees = {}, !.user.ap = w.user.pending # "none"]

\* ap_reset(): frees what the AP has, and does not forget it: a second time it is freed
\* again.
ApReset(w) ==
    IF w.ap.reset THEN [w EXCEPT !.fault = @ \cup {"twice"}]
    ELSE [StaFree(Cancel(w, {Self}, {"start", "stop"}), Stations)
            EXCEPT !.ap = [@ EXCEPT !.reset = TRUE, !.started = FALSE, !.cmd = "none",
                                    !.addr = FALSE, !.ip = -1],
                   !.used = @ \ {w.ap.ip}]

\* l_genl_family_free() and l_free(): cancels the commands, not the frame exchanges.
Free(w) ==
    [Cancel(w, Stations \cup {Self}, {"assoc", "freed_assoc", "gtk", "start", "stop"})
        EXCEPT !.ap = NoAp]

\* ap_free().
ApFree(w) == Free(ApReset(w))

\* ap_start_failed().
StartFailed(w) == Free(ApReset(StartFailedEvent(w)))

\* ap_start_cb(): a DHCP server that does not start (~served) counts as a failure, but
\* the kernel is not told to stop.
StartCb(w, ok, served) ==
    IF ok /\ served
    THEN [w EXCEPT !.ap.cmd = "none", !.ap.started = TRUE, !.user.pending = "none"]
    ELSE StartFailed([w EXCEPT !.ap.cmd = "none"])

\* Mutated form: the call is not answered.
StopCbSilent(w) == Free([w EXCEPT !.user.ap = FALSE])

\* ap_stop_cb() and ap_dbus_stop_cb().
StopCb(w) == Free([w EXCEPT !.user.pending = "none", !.user.ap = FALSE])

\* ap_shutdown().
Shutdown(w) ==
    LET v == ApReset(IF w.ap.started THEN StoppingEvent(w) ELSE w)
        k == IF v.ap.gtk_set THEN Send([v EXCEPT !.ap.gtk_set = FALSE], "del_key", Self, "none")
             ELSE v
    IN  Send([k EXCEPT !.ap.cmd = "stop"], "stop_ap", Self, "stop")

\* NL80211_CMD_STOP_AP in ap_mlme_notify().
HandleStopAp(w) ==
    ApFree(IF w.ap.cmd = "start" THEN StartFailedEvent(w)
           ELSE IF w.ap.started THEN StoppingEvent(w)
           ELSE w)

-----------------------------------------------------------------------------
(* The actions of iwd.                                                      *)

\* The address goes when the AP that has set it does (ap_reset()).
Finish(w) ==
    /\ Become(w)
    /\ kernel' = [kernel EXCEPT !.address = @ /\ w.ap.ip # -1]

SendStart(w) == Send([w EXCEPT !.ap.cmd = "start"], "start_ap", Self, "start")

\* ap_dbus_start(), ap_dbus_start_profile() and ap_start(): an address of the pool is
\* given to the interface first; without one the call fails.  ap_setup_dhcp() keeps the
\* address in a variable of its own until the DHCP server has accepted its settings.
Start(good) ==
    LET new == [NoAp EXCEPT !.exists = TRUE]
        w == [World EXCEPT !.ap = new, !.user.ap = TRUE, !.user.pending = "start"]
        free == Subnets \ used
        ip == CHOOSE i \in free : \A j \in free : i <= j
    IN  /\ user.up /\ ~user.ap /\ user.pending = "none"
        /\ starts < MaxStarts /\ starts' = starts + 1
        /\ good \/ (Has("dhcp") /\ Has("profile"))
        /\ Has("dhcp") => free # {}
        /\ IF ~Has("dhcp") THEN Become(SendStart(w))
           ELSE IF ~good THEN Become([World EXCEPT !.used = @ \cup {ip}])
           ELSE Become([w EXCEPT !.ap.addr = TRUE, !.ap.ip = ip, !.used = @ \cup {ip}])
        /\ UNCHANGED <<env, kernel, frames>>

\* ap_ifaddr4_added_cb().
AddrAdded(ok) ==
    LET w == [World EXCEPT !.ap.addr = FALSE]
    IN  /\ ap.addr
        /\ ok \/ Has("refuse")
        /\ IF ok THEN Become(SendStart(w)) /\ kernel' = [kernel EXCEPT !.address = TRUE]
           ELSE Finish(StartFailed(w))
        /\ UNCHANGED <<env, frames, starts>>

\* A callback that has a pointer to a station is under way.
Associating ==
    \/ air # <<>>
    \/ \E i \in DOMAIN up : up[i].cb \in {"resp", "assoc"}
    \/ \E i \in DOMAIN down : down[i].cb = "assoc"

\* ap_dbus_stop(): a call that waits is aborted.
Stop ==
    /\ user.ap
    /\ ~ap.reset \/ Has("twice")
    /\ ~Associating \/ Has("early")
    /\ Finish(Shutdown([World EXCEPT !.user.pending = "stop"]))
    /\ UNCHANGED <<env, frames, starts>>

\* ap_netdev_watch(), ap_destroy_interface(): the interface went down.
Down ==
    /\ Has("down") /\ user.up
    /\ ~ap.reset \/ Has("gone")
    /\ ~Associating \/ Has("early")
    /\ LET w == [World EXCEPT !.user.up = FALSE, !.user.pending = "none", !.user.sees = {},
                               !.user.ap = FALSE]
       IN  Become(IF user.ap THEN ApFree(w) ELSE w)
    /\ kernel' = [kernel EXCEPT !.beacon = FALSE, !.gtk = FALSE, !.address = FALSE,
                                !.sta = [s \in Stations |-> "none"]]
    /\ UNCHANGED <<env, frames, starts>>

\* The EAPoL state machine finished: the keys are set and the station is to be
\* authorized (netdev.c).  A station that sends its last message sent nothing before it
\* that is not handled.
HandshakeKeys(s) ==
    /\ sta[s].hs = "running"
    /\ Has("early") \/ \A i \in DOMAIN up : up[i].sta # s
    /\ Become(Send([World EXCEPT !.sta[s].hs = "keys"], "authorize", s, "keys"))
    /\ UNCHANGED <<env, kernel, frames, starts>>

\* HANDSHAKE_EVENT_FAILED in ap_handshake_event().
HandshakeFailed(s) ==
    /\ sta[s].hs = "running"
    /\ Become(StaFree(Send(World, "del_station", s, "none"), {s}))
    /\ UNCHANGED <<env, kernel, frames, starts>>

\* ap_new_rsna(), or HANDSHAKE_EVENT_SETTING_KEYS_FAILED, after
\* netdev_setting_keys_failed().
KeysCb(w, s, ok) ==
    IF ok THEN [w EXCEPT !.sta[s].hs = "done", !.sta[s].rsna = TRUE,
                         !.user.sees = @ \cup {s}]
    ELSE StaFree(Send(w, "del_station", s, "none"), {s})

\* The frames, while the watches of ap_start() are there.
Frame(w, m) ==
    IF ~w.ap.exists \/ w.ap.reset THEN w
    ELSE IF m.ev = "auth" THEN Auth(w, m.sta)
    ELSE IF m.ev = "disassoc" THEN Disassoc(w, m.sta)
    ELSE IF m.ev = "deauth" THEN Deauth(w, m.sta)
    ELSE IF m.ev = "new" THEN HandleNewStation(w, m.sta)
    ELSE IF m.ev = "del" THEN HandleDelStation(w, m.sta)
    ELSE IF m.ev = "stop" THEN HandleStopAp(w)
    ELSE AssocReq(w, m.sta, m.ev = "reassoc", m.ok)

\* An answer or a report with its callback.
Callback(w, m, served) ==
    IF m.cb \in {"freed_assoc", "freed_resp"} THEN [w EXCEPT !.fault = @ \cup {"freed"}]
    ELSE IF m.cb = "resp" THEN SuccessAssocRespCb(w, m.sta, m.ok)
    ELSE IF m.cb = "assoc" THEN AssociateStaCb(w, m.sta, m.ok)
    ELSE IF m.cb = "gtk" THEN GtkQueryCb(w, m.sta, m.ok)
    ELSE IF m.cb = "keys" THEN KeysCb(w, m.sta, m.ok)
    ELSE IF m.cb = "start" THEN StartCb(w, m.ok, served)
    ELSE IF m.cb = "stop" THEN StopCb(w)
    ELSE w

\* The main loop reads the socket.
Dispatch ==
    /\ up # <<>>
    /\ \E served \in BOOLEAN :
        LET w == [World EXCEPT !.up = Tail(@)]
        IN  /\ served \/ (Has("dhcp") /\ Has("noserver"))
            /\ Finish(IF Head(up).ev = "answer" THEN Callback(w, Head(up), served)
                      ELSE Frame(w, Head(up)))
    /\ UNCHANGED <<env, frames, starts>>

-----------------------------------------------------------------------------
(* External: the kernel, the air and the stations.                          *)

Event(ev, s, cb, ok) == [ev |-> ev, sta |-> s, cb |-> cb, ok |-> ok]

\* Whether a command can be executed, and what it does.
Possible(c) ==
    IF c.cmd \in {"set_station", "unauthorize", "authorize", "del_station"}
    THEN kernel.sta[c.sta] # "none"
    ELSE (c.cmd = "new_station" => kernel.beacon /\ kernel.sta[c.sta] = "none")
         /\ (c.cmd = "get_key" => kernel.gtk) /\ (c.cmd = "start_ap" => ~kernel.beacon)

Executed(c) ==
    CASE c.cmd \in {"new_station", "unauthorize"} -> [kernel EXCEPT !.sta[c.sta] = "associated"]
      [] c.cmd = "authorize" -> [kernel EXCEPT !.sta[c.sta] = "authorized"]
      [] c.cmd = "del_station" -> [kernel EXCEPT !.sta[c.sta] = "none"]
      [] c.cmd = "new_key" -> [kernel EXCEPT !.gtk = TRUE]
      [] c.cmd = "del_key" -> [kernel EXCEPT !.gtk = FALSE]
      [] c.cmd = "start_ap" -> [kernel EXCEPT !.beacon = TRUE]
      [] c.cmd = "stop_ap" -> [kernel EXCEPT !.beacon = FALSE,
                                             !.sta = [s \in Stations |-> "none"]]
      [] OTHER -> kernel

Refused(c) ==
    \/ Has("refuse") /\ c.cmd \in {"start_ap", "new_key", "get_key", "authorize"}
    \/ Has("refuse_new") /\ c.cmd = "new_station"

\* A station that is deleted is announced before the answer.
KernelStep ==
    /\ down # <<>>
    /\ down' = Tail(down)
    /\ \E ok \in BOOLEAN :
        LET c == Head(down)
            told == IF ok /\ c.cmd = "del_station"
                    THEN Append(up, Event("del", c.sta, "none", TRUE)) ELSE up
        IN  /\ IF ok THEN Possible(c) ELSE ~Possible(c) \/ Refused(c)
            /\ kernel' = IF ok THEN Executed(c) ELSE kernel
            /\ up' = Append(told, Event("answer", c.sta, c.cb, ok))
    /\ UNCHANGED <<env, user, ap, sta, used, air, fault, frames, starts>>

\* A response is acknowledged, or given up.
AirDone(ok) ==
    /\ air # <<>>
    /\ air' = Tail(air)
    /\ up' = Append(up, Event("answer", Head(air).sta, Head(air).cb, ok))
    /\ UNCHANGED <<env, user, ap, sta, used, down, kernel, fault, frames, starts>>

\* A station sends when nothing that concerns it is under way, except that it may
\* repeat a request that is not answered yet, and not to the beacons that an AP without
\* its DHCP server left behind.
MaySend(s, f) ==
    \/ Has("early")
    \/ /\ Has("noserver") => ap.started
       /\ \A i \in DOMAIN up : up[i].sta # s
       /\ \A i \in DOMAIN air : air[i].sta = s => f \in {"auth", "assoc"}

StationSends(s, f, good) ==
    /\ kernel.beacon /\ ~Has("fullmac")
    /\ down = <<>> /\ Len(up) < MaxUp /\ MaySend(s, f)
    /\ good \/ (Has("bad") /\ f \in {"assoc", "reassoc"})
    /\ frames < MaxFrames /\ frames' = frames + 1
    /\ up' = Append(up, Event(f, s, "none", good))
    /\ UNCHANGED <<env, user, ap, sta, used, air, down, kernel, fault, starts>>

\* The firmware associates a station, or loses it.
Joins(s) ==
    /\ kernel.beacon /\ Has("fullmac") /\ kernel.sta[s] = "none"
    /\ down = <<>> /\ Len(up) < MaxUp /\ MaySend(s, "assoc")
    /\ frames < MaxFrames /\ frames' = frames + 1
    /\ kernel' = [kernel EXCEPT !.sta[s] = "associated"]
    /\ up' = Append(up, Event("new", s, "none", TRUE))
    /\ UNCHANGED <<env, user, ap, sta, used, air, down, fault, starts>>

Leaves(s) ==
    /\ Has("fullmac") /\ kernel.sta[s] # "none"
    /\ down = <<>> /\ Len(up) < MaxUp /\ MaySend(s, "deauth")
    /\ frames < MaxFrames /\ frames' = frames + 1
    /\ kernel' = [kernel EXCEPT !.sta[s] = "none"]
    /\ up' = Append(up, Event("del", s, "none", TRUE))
    /\ UNCHANGED <<env, user, ap, sta, used, air, down, fault, starts>>

\* The kernel stops the AP by itself.
KernelStops ==
    /\ Has("down") /\ kernel.beacon /\ down = <<>>
    /\ (up = <<>> /\ air = <<>>) \/ Has("early")
    /\ kernel' = [kernel EXCEPT !.beacon = FALSE, !.gtk = FALSE,
                                !.sta = [s \in Stations |-> "none"]]
    /\ up' = Append(up, Event("stop", Self, "none", TRUE))
    /\ UNCHANGED <<env, user, ap, sta, used, air, down, fault, frames, starts>>

Next ==
    \/ \E ok \in BOOLEAN : Start(ok) \/ AddrAdded(ok) \/ AirDone(ok)
    \/ Stop \/ Down \/ Dispatch \/ KernelStep \/ KernelStops
    \/ \E s \in Stations : HandshakeKeys(s) \/ HandshakeFailed(s) \/ Joins(s) \/ Leaves(s)
    \/ \E s \in Stations, f \in {"auth", "assoc", "reassoc", "disassoc", "deauth"},
          good \in BOOLEAN : StationSends(s, f, good)

\* The main loop runs, the kernel answers, an exchange of frames ends, and so does a
\* handshake (module Eapol: every message has its timeout).
Fairness ==
    /\ WF_vars(Dispatch) /\ WF_vars(KernelStep)
    /\ WF_vars(\E ok \in BOOLEAN : AirDone(ok)) /\ WF_vars(\E ok \in BOOLEAN : AddrAdded(ok))
    /\ \A s \in Stations : WF_vars(HandshakeKeys(s) \/ HandshakeFailed(s))

Spec == Init /\ [][Next]_vars /\ Fairness

-----------------------------------------------------------------------------
\* Every variable has its type; the AP has at most one of the two commands that
\* ap_start() waits for, and neither once it has started.
TypeOK ==
    /\ env \in Envs
    /\ user \in [ap : BOOLEAN, pending : {"none", "start", "stop"}, up : BOOLEAN,
                 sees : SUBSET Stations]
    /\ ap.cmd \in {"none", "start", "stop"} /\ ap.ip \in Subnets \cup {-1}
    /\ ap.addr => ap.cmd = "none" /\ ~ap.started
    /\ ap.started => ap.cmd = "none"
    /\ sta \in [Stations -> [exists : BOOLEAN, associated : BOOLEAN, rsna : BOOLEAN,
                             aid : 0..MaxFrames, resp : BOOLEAN, gtkq : BOOLEAN,
                             hs : {"none", "running", "keys", "done"}]]
    /\ used \subseteq Subnets
    /\ fault \subseteq {"freed", "orphan", "twice"}
    /\ frames \in 0..MaxFrames /\ starts \in 0..MaxStarts

\* No callback is given a station or an AP that was freed, no handshake is left without
\* its station, and nothing is freed twice.
NoFault == fault = {}

\* What is freed by ap_reset() is freed once, in whatever order the AP is shut down and
\* its user goes away ("If the user_data ends up being destroyed before that, ap_free(ap)
\* should be used").
ReleasedOnce == "twice" \notin fault

\* When nothing is under way the kernel has the stations that are associated, and those
\* that have an RSNA, and no others, are authorized.
StationsAgree ==
    ap.started /\ down = <<>> /\ up = <<>> /\ air = <<>> =>
        \A s \in Stations :
            /\ sta[s].associated <=> kernel.sta[s] # "none"
            /\ sta[s].rsna <=> kernel.sta[s] = "authorized"

\* The user was told of a station that has an RSNA, and that it is gone when it is gone.
UserAgrees == user.sees = {s \in Stations : sta[s].rsna}

\* Stations that are associated have different AIDs.
AidsDistinct ==
    \A s, t \in Stations :
        s # t /\ sta[s].associated /\ sta[t].associated => sta[s].aid # sta[t].aid

\* A handshake, which hands out the group key, is under way only when the kernel has it.
GroupKeyThere ==
    \A s \in Stations : sta[s].hs = "running" /\ kernel.beacon => kernel.gtk

\* Subnets of the pool, and the address of the interface, are held by an AP: they are
\* given back when it fails to start, is stopped, or goes with the interface.
PoolReturned ==
    /\ used = IF ap.ip = -1 THEN {} ELSE {ap.ip}
    /\ kernel.address => ap.exists

\* A kernel that beacons does it for an AP of iwd, when nothing is under way: whatever
\* fails or goes away, nobody is left who could not be stopped.  (Not so after a DHCP
\* server that did not start.)
BeaconOwned ==
    kernel.beacon /\ down = <<>> /\ up = <<>> => ap.exists \/ Has("noserver")

\* Start and Stop are answered.
Answered == user.pending # "none" ~> user.pending = "none"

\* A station that is associated gets its handshake, and is authorized or removed.
Served ==
    env \cap {"bad", "refuse_new"} = {} =>
        \A s \in Stations : sta[s].associated /\ ~sta[s].rsna
                               ~> (sta[s].rsna \/ ~sta[s].associated)

\* What the AP keeps of its stations is owned: no callback finds a station freed, the user
\* sees the stations that have an RSNA, AIDs are distinct, the group key is there when a
\* handshake hands it out, an AP that is gone holds no subnet and no address, and the
\* kernel does not beacon for it.
Inv ==
    /\ TypeOK
    /\ NoFault
    /\ UserAgrees
    /\ AidsDistinct
    /\ GroupKeyThere
    /\ PoolReturned
    /\ BeaconOwned

=============================================================================
