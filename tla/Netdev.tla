-------------------------------- MODULE Netdev --------------------------------
(***************************************************************************)
(* The connection of one station interface: src/netdev.c between its       *)
(* clients (station.c, p2p.c, wsc.c) above and the kernel's nl80211 below. *)
(*                                                                         *)
(* A client starts a connection with netdev_connect(), moves it with       *)
(* netdev_reassociate() or netdev_fast_transition(), ends it with          *)
(* netdev_disconnect(), and is answered by a callback each time.  The      *)
(* connection waits for the radio, then sends requests that the kernel     *)
(* answers in order (ell/genl.c writes the next request when the last one  *)
(* is answered), while events of the kernel come in between.  Some         *)
(* requests can be cancelled, others (CMD_AUTHENTICATE, CMD_ASSOCIATE and  *)
(* CMD_TRIGGER_SCAN of the authentication protocols) cannot.               *)
(*                                                                         *)
(* Connections are numbered; the number stands for the access point, the   *)
(* handshake object and the callback.  The handshake and its keys are one  *)
(* request here: module Eapol has the messages, module Sae the frames of   *)
(* the authentication protocol.  The kernel and the client are external.   *)
(*                                                                         *)
(* Left out: the timer of the WPA1 group handshake (in module Eapol),      *)
(* rekey offload, preauthentication, neighbour reports, RSSI monitoring,   *)
(* firmware roaming, and an interface that is removed or brought down.     *)
(* A client acts after its callback has returned: a call made from inside  *)
(* connect_cb is not modelled (netdev_connect_failed() frees the state     *)
(* first, so that there it is like a later call; for calls from inside     *)
(* do_work() see module RadioWork).                                        *)
(***************************************************************************)
EXTENDS Naturals, Sequences, FiniteSets

CONSTANTS
    MaxConnects,    \* bound: connections a client asks for
    MaxRounds,      \* bound: extra rounds an authentication protocol asks for
    Envs            \* the sets of features of clients, drivers and access points

ASSUME BoundsAssumption == MaxConnects \in Nat /\ MaxRounds \in Nat
ASSUME EnvsAssumption == \A e \in Envs : e \subseteq
    {"eapol", "open", "ap", "reassoc", "ft", "ftds",   \* ways to connect and roam
     "twice",       \* the client asks for two connections at most
     "abort",       \* the client disconnects
     "early",       \* a driver sends the connect event before the acknowledgement
     "refuse",      \* the kernel or the authentication protocol may refuse
     "hsfail",      \* the handshake may fail
     "rekey",       \* the access point renews the keys
     "enoent",      \* CMD_AUTHENTICATE may find the BSS gone from the kernel's cache
     "retry",       \* SAE has more rounds, and associates again after a timeout
     "owe",         \* OWE associates again when the access point refuses the group
     "picky",       \* the access point refuses every group
     "drop",        \* the access point disconnects us
     "saquery",     \* unprotected deauthentications start an SA query
     "mac",         \* the MAC address is changed for every network
     "nostart",     \* the authentication protocol cannot start
     "noeapol"}     \* eapol_start() fails

VARIABLES
    env,        \* the features of this behaviour
    nd,         \* struct netdev
    out,        \* requests not written yet (request_queue of ell/genl.c)
    in,         \* what the kernel sent and netdev has not read: answers and events
    kern,       \* external: the connection as the kernel has it
    client      \* external: the client; conn waits for connect_cb, disc for
                \* disconnect_cb, up is the connection it believes in
vars == <<env, nd, out, in, kern, client>>

Has(f) == f \in env
Ways == {"eapol", "open", "ap", "reassoc", "ft", "ftds"}

\* Requests, their answers and events.  prev: CMD_CONNECT names the BSS we leave.
Message(kind, n, id, prev, res) ==
    [kind |-> kind, n |-> n, id |-> id, prev |-> prev, res |-> res]
Event(kind, n, res) == Message(kind, n, 0, FALSE, res)

Requests == {"connect", "ftauth", "ftassoc", "auth", "assoc", "scan", "keys",
             "disconnect", "fail_disconnect"}

Init ==
    /\ env \in Envs
    /\ nd = [work |-> "none", type |-> "none", connect_cmd |-> FALSE,
             connect_cmd_id |-> "none", disconnect_cmd_id |-> 0, connect_cb |-> 0,
             disconnect_cb |-> FALSE, disconnect_idle |-> FALSE,
             event_filter |-> FALSE, handshake |-> 0, complete |-> FALSE,
             sm |-> "none", ap |-> FALSE, connected |-> FALSE,
             associated |-> FALSE, operational |-> FALSE, in_ft |-> FALSE,
             ignore_connect_event |-> FALSE, expect_connect_failure |-> FALSE,
             aborting |-> FALSE, retry_auth |-> FALSE, auth_cmd |-> FALSE,
             result |-> "ok", sa_query |-> FALSE, mac |-> "none", rounds |-> 0]
    /\ out = <<>> /\ in = <<>>
    /\ kern = [st |-> "idle", n |-> 0, by |-> "connect", keyed |-> FALSE]
    /\ client = [conn |-> 0, up |-> 0, disc |-> FALSE, n |-> 0]

\* The handlers below are functions of the state they may change.
World == [nd |-> nd, out |-> out, in |-> in, client |-> client]
Become(w) ==
    /\ nd' = w.nd /\ out' = w.out /\ in' = w.in /\ client' = w.client
    /\ UNCHANGED env

-----------------------------------------------------------------------------
(* Helpers of netdev.c.                                                     *)

\* l_genl_family_send().
Send(w, kind, id) ==
    [w EXCEPT !.out = Append(@, Message(kind, w.nd.handshake, id,
                                        w.nd.type = "reassoc", ""))]

\* l_genl_family_cancel(): the request is not written, or its answer finds none.
Cancel(w, kind, id) ==
    LET Kept(m) == m.kind # kind \/ m.id # id
    IN  [w EXCEPT !.out = SelectSeq(@, Kept), !.in = SelectSeq(@, Kept)]

\* An identifier no disconnect request in flight has.
DisconnectId(w) ==
    LET used == {w.out[i].id : i \in DOMAIN w.out} \cup {w.in[i].id : i \in DOMAIN w.in}
    IN  CHOOSE i \in 1..3 : i \notin used

\* wiphy_radio_work_done(), netdev_connection_work_destroy(): the items of the
\* fast transitions have no destroy function.
WorkDone(w) ==
    LET own == w.nd.work # "none" /\ w.nd.type \notin {"ft", "ftds"}
    IN  [w EXCEPT !.nd.work = "none",
                  !.nd.auth_cmd = @ /\ ~own,
                  !.nd.retry_auth = @ /\ ~own]

\* Mutated form: the requests of the handshake are left to answer later.
KeepKeys(w) == w

\* handshake_state_free(), netdev_handshake_state_cancel_all().
HandshakeFree(w) == Cancel(w, "keys", 0)

\* Mutated form: the command is left to be answered later.
LeaveCommand(w) == w

\* The command netdev_connect_free() cancels, one of the two.
CancelCommand(w) ==
    IF w.nd.connect_cmd_id # "none" THEN
        [Cancel(w, w.nd.connect_cmd_id, 0) EXCEPT !.nd.connect_cmd_id = "none"]
    ELSE IF w.nd.disconnect_cmd_id # 0 THEN
        [Cancel(Cancel(w, "disconnect", w.nd.disconnect_cmd_id),
                "fail_disconnect", w.nd.disconnect_cmd_id)
            EXCEPT !.nd.disconnect_cmd_id = 0]
    ELSE w

\* netdev_connect_free().
ConnectFree(w) ==
    LET done == HandshakeFree(CancelCommand(WorkDone(w)))
    IN  [done EXCEPT !.nd = [@ EXCEPT
            !.type = "none", !.sm = "none", !.ap = FALSE, !.handshake = 0,
            !.complete = FALSE, !.sa_query = FALSE, !.associated = FALSE,
            !.operational = FALSE, !.connected = FALSE, !.connect_cb = 0,
            !.event_filter = FALSE, !.result = "ok", !.in_ft = FALSE,
            !.ignore_connect_event = FALSE, !.expect_connect_failure = FALSE,
            !.connect_cmd = FALSE, !.rounds = 0]]

\* External: connect_cb, and the DISCONNECT_BY events of event_filter.
ConnectCb(w, n, result) ==
    [w EXCEPT !.client.conn = 0, !.client.up = IF result = "ok" THEN n ELSE 0]
EventFilter(w) == [w EXCEPT !.client.conn = 0, !.client.up = 0]

\* Mutated form: a connection that ends after connect_cb ends unsaid.
TellOnlyConnectCb(w, result) ==
    IF w.nd.connect_cb # 0 THEN ConnectCb(ConnectFree(w), w.nd.connect_cb, result)
    ELSE ConnectFree(w)

\* netdev_connect_failed(): free first, then tell.
ConnectFailed(w, result) ==
    LET free == ConnectFree(w)
    IN  IF w.nd.connect_cb # 0 THEN ConnectCb(free, w.nd.connect_cb, result)
        ELSE IF w.nd.event_filter THEN EventFilter(free)
        ELSE free

Operational(w) ==
    LET told == IF w.nd.connect_cb = 0 THEN w
                ELSE ConnectCb(w, w.nd.connect_cb, "ok")
    IN  [told EXCEPT !.nd.operational = TRUE, !.nd.connect_cb = 0]

\* netdev_connect_ok(): connect_cb, then the radio is given back.
ConnectOk(w) == WorkDone(Operational(w))

\* The disconnect or deauthentication of netdev_handshake_failed(),
\* netdev_setting_keys_failed(), netdev_sa_query_timeout(), netdev_connect_event()
\* and netdev_cmd_ft_reassociate_cb(), answered by netdev_disconnect_cb().
FailDisconnect(w) ==
    LET id == DisconnectId(w)
    IN  [Send(w, "fail_disconnect", id) EXCEPT !.nd.disconnect_cmd_id = id]

\* netdev_setting_keys_failed().
SettingKeysFailed(w) ==
    [FailDisconnect(HandshakeFree(w)) EXCEPT !.nd.result = "keys"]

\* netdev_handshake_failed().
HandshakeFailed(w) ==
    WorkDone([FailDisconnect(w) EXCEPT !.nd.sm = "none", !.nd.result = "handshake"])

\* The tx functions of the authentication protocols: netdev_sae_tx_authenticate()
\* and netdev_sae_tx_associate() and those of OWE and FILS.
TxAuthenticate(w) == [Send(w, "auth", 0) EXCEPT !.nd.auth_cmd = TRUE]
TxAssociate(w) == Send(w, "assoc", 0)
\* netdev_ft_tx_authenticate(), netdev_ft_tx_associate().
FtTx(w, kind) == [Send(w, kind, 0) EXCEPT !.nd.connect_cmd_id = kind]

-----------------------------------------------------------------------------
(* Requests of the client.                                                  *)

MayAsk == client.n < MaxConnects /\ (Has("twice") => client.n < 2)

\* netdev_connect(), netdev_connect_common().
Connect(way) ==
    /\ Has(way) /\ way \in {"eapol", "open", "ap"}
    /\ client.conn = 0 /\ client.up = 0 /\ ~client.disc /\ MayAsk
    /\ ~nd.connected /\ nd.connect_cmd_id = "none" /\ nd.work = "none"
    /\ LET n == client.n + 1
       IN  Become([World EXCEPT
              !.nd = [@ EXCEPT !.work = "queued", !.type = way, !.handshake = n,
                      !.connect_cb = n, !.event_filter = TRUE, !.ap = way = "ap",
                      !.connect_cmd = way # "ap",
                      !.sm = IF way = "eapol" THEN "new" ELSE "none"],
              !.client.conn = n, !.client.n = n])
    /\ UNCHANGED kern

\* netdev_reassociate(), for a client that is connected: a new handshake and
\* state machine in place of the old.
Reassociate ==
    /\ Has("reassoc")
    /\ client.up # 0 /\ ~client.disc /\ MayAsk
    /\ LET n == client.n + 1
       IN  Become([HandshakeFree(World) EXCEPT
              !.nd = [@ EXCEPT !.work = "queued", !.type = "reassoc", !.handshake = n,
                      !.complete = FALSE, !.connect_cb = n, !.event_filter = TRUE,
                      !.connect_cmd = TRUE, !.sm = "new", !.associated = FALSE,
                      !.operational = FALSE, !.connected = FALSE],
              !.client.conn = n, !.client.up = 0, !.client.n = n])
    /\ UNCHANGED kern

\* prepare_ft(): the handshake object is kept, for the new access point.  Of the
\* requests for keys only those of the group are cancelled.
PrepareFt(w, n) ==
    [w EXCEPT !.nd = [@ EXCEPT !.handshake = n, !.complete = FALSE, !.sm = "none",
                               !.associated = FALSE, !.operational = FALSE,
                               !.in_ft = TRUE]]

\* netdev_fast_transition(), netdev_fast_transition_over_ds().
FastTransition(way) ==
    /\ Has(way) /\ way \in {"ft", "ftds"}
    /\ client.up # 0 /\ ~client.disc /\ MayAsk
    /\ nd.operational
    /\ LET n == client.n + 1
       IN  Become([PrepareFt(World, n) EXCEPT
              !.nd = [@ EXCEPT !.work = "queued", !.type = way, !.connect_cb = n,
                               !.ap = TRUE],
              !.client.conn = n, !.client.up = 0, !.client.n = n])
    /\ UNCHANGED kern

\* Mutated form: a running connect is not cancelled in the kernel.
NeverSent == nd.connect_cmd_id = "none"

\* The third case of netdev_disconnect()'s comment: nothing was sent.
OnlyQueued == nd.connect_cmd_id = "none" /\ nd.work = "queued"

\* netdev_disconnect(), with the callback of the connection it ends first.
Disconnect ==
    /\ Has("abort")
    /\ (client.conn # 0 \/ client.up # 0) /\ ~client.disc
    /\ nd.disconnect_cmd_id = 0
    /\ nd.operational \/ nd.work # "none"
    /\ LET ended == IF nd.operational THEN EventFilter(ConnectFree(World))
                    ELSE ConnectFailed(World, "aborted")
           id == DisconnectId(ended)
       IN  IF ~nd.operational /\ OnlyQueued
           THEN Become([ended EXCEPT !.nd.disconnect_cb = TRUE,
                                     !.nd.disconnect_idle = TRUE, !.client.disc = TRUE])
           ELSE Become([Send(ended, "disconnect", id) EXCEPT
                            !.nd.disconnect_cmd_id = id, !.nd.disconnect_cb = TRUE,
                            !.nd.aborting = TRUE, !.client.disc = TRUE])
    /\ UNCHANGED kern

\* disconnect_idle().
DisconnectIdle ==
    /\ nd.disconnect_idle
    /\ Become([World EXCEPT !.nd.disconnect_idle = FALSE, !.client.disc = FALSE])
    /\ UNCHANGED kern

-----------------------------------------------------------------------------
(* The radio work.                                                          *)

\* netdev_begin_connection().
Begin(w) ==
    LET sent == IF w.nd.connect_cmd
                THEN [Send(w, "connect", 0) EXCEPT !.nd.connect_cmd = FALSE,
                                                   !.nd.connect_cmd_id = "connect"]
                ELSE w
    IN  IF w.nd.ap THEN [TxAuthenticate(sent) EXCEPT !.nd.connected = TRUE] ELSE sent

\* netdev_connection_work_ready(): the MAC address may have to be changed first.
ConnectionWorkReady ==
    /\ nd.work = "queued" /\ nd.type \notin {"ft", "ftds"}
    /\ LET run == [World EXCEPT !.nd.work = "running", !.nd.retry_auth = FALSE]
       IN  \/ Become(Begin(run))
           \/ Has("mac") /\ Become([run EXCEPT !.nd.mac = "down"])
           \/ Has("nostart") /\ nd.ap /\ Become(ConnectFailed(run, "aborted"))
    /\ UNCHANGED kern

\* netdev_ft_work_ready(): over the air the protocol authenticates first.
FtWorkReady ==
    /\ nd.work = "queued" /\ nd.type \in {"ft", "ftds"}
    /\ LET run == [World EXCEPT !.nd.work = "running"]
       IN  \/ Become(FtTx(run, IF nd.type = "ft" THEN "ftauth" ELSE "ftassoc"))
           \/ Has("nostart") /\ Become(ConnectFailed(run, "aborted"))
    /\ UNCHANGED kern

\* mac_change_cmd_id is zero again.
MacChanged(w) == [w EXCEPT !.nd.mac = "none"]

\* netdev_mac_power_down_cb(), netdev_mac_power_up_cb(), netdev_mac_change_failed():
\* the interface goes down and comes back up, and the connection goes on.  When
\* one of these fails it goes on only with an interface that is up.
MacChange ==
    /\ nd.mac # "none"
    /\ LET done == MacChanged(World)
       IN  \/ nd.mac = "down" /\ Become([World EXCEPT !.nd.mac = "up"])
           \/ (nd.mac = "up" \/ Has("refuse")) /\ Become(Begin(done))
           \/ Has("refuse") /\ Become(ConnectFailed(done, "aborted"))
    /\ UNCHANGED kern

-----------------------------------------------------------------------------
(* Answers of the kernel.                                                   *)

\* The next message; the handlers work on the rest.
Reading(kind) == in # <<>> /\ Head(in).kind = kind
Read == [World EXCEPT !.in = Tail(@)]
Res == Head(in).res

\* netdev_cmd_connect_cb().
CmdConnectCb ==
    /\ Reading("connect")
    /\ LET w == [Read EXCEPT !.nd.connect_cmd_id = "none"]
       IN  Become(IF Res = "ok" THEN [w EXCEPT !.nd.connected = TRUE]
                  ELSE ConnectFailed(w, "assoc"))
    /\ UNCHANGED kern

\* netdev_cmd_authenticate_ft_cb().
CmdAuthenticateFtCb ==
    /\ Reading("ftauth")
    /\ LET w == [Read EXCEPT !.nd.connect_cmd_id = "none"]
       IN  Become(IF Res = "ok" THEN w ELSE ConnectFailed(w, "auth"))
    /\ UNCHANGED kern

\* netdev_cmd_ft_reassociate_cb().
CmdFtReassociateCb ==
    /\ Reading("ftassoc")
    /\ LET w == [Read EXCEPT !.nd.connect_cmd_id = "none"]
       IN  Become(IF Res = "ok" THEN w
                  ELSE [FailDisconnect(w) EXCEPT !.nd.result = "assoc"])
    /\ UNCHANGED kern

\* netdev_auth_cb(): a BSS the kernel has lost is scanned for, once.
AuthCb ==
    /\ Reading("auth")
    /\ Become(IF Res = "ok" THEN [Read EXCEPT !.nd.auth_cmd = FALSE]
              ELSE IF nd.auth_cmd /\ Res = "enoent" THEN Send(Read, "scan", 0)
              ELSE ConnectFailed(Read, "auth"))
    /\ UNCHANGED kern

\* netdev_scan_cb().
ScanCb ==
    /\ Reading("scan")
    /\ Become(IF Res = "ok" THEN [Read EXCEPT !.nd.retry_auth = TRUE]
              ELSE ConnectFailed(Read, "auth"))
    /\ UNCHANGED kern

\* netdev_assoc_cb().
AssocCb ==
    /\ Reading("assoc")
    /\ Become(IF Res = "ok" THEN Read ELSE ConnectFailed(Read, "assoc"))
    /\ UNCHANGED kern

\* netdev_cmd_disconnect_cb().
CmdDisconnectCb ==
    /\ Reading("disconnect")
    /\ Become([Read EXCEPT !.nd.disconnect_cmd_id = 0, !.nd.aborting = FALSE,
                           !.nd.disconnect_cb = FALSE, !.client.disc = FALSE])
    /\ UNCHANGED kern

\* netdev_disconnect_cb().
DisconnectCb ==
    /\ Reading("fail_disconnect")
    /\ Become(ConnectFailed([Read EXCEPT !.nd.disconnect_cmd_id = 0], nd.result))
    /\ UNCHANGED kern

\* The last answer of the key commands: netdev_set_station_cb(),
\* try_handshake_complete(), or netdev_setting_keys_failed().
KeysCb ==
    /\ Reading("keys")
    /\ Become(IF Res # "ok" THEN SettingKeysFailed(Read)
              ELSE IF nd.complete \/ ~nd.connected THEN Read
              ELSE ConnectOk([Read EXCEPT !.nd.complete = TRUE]))
    /\ UNCHANGED kern

-----------------------------------------------------------------------------
(* Events of the kernel.                                                    *)

\* Mutated form: a driver that is early is not waited for.
NoAcknowledgement(w) == w

\* netdev_driver_connected(), for a connect event that comes before the answer.
EarlyConnected(w) ==
    IF w.nd.connect_cmd_id = "none" THEN w ELSE [w EXCEPT !.nd.connected = TRUE]

\* The events of a connection that is being aborted, or of an association that
\* is tried again, are not looked at.
IgnoreConnectEvent == nd.aborting \/ nd.ignore_connect_event

\* netdev_connect_event().
ConnectEvent ==
    /\ Reading("connect_event")
    /\ LET w == EarlyConnected(Read)
       IN  IF IgnoreConnectEvent THEN Become(Read)
           ELSE IF ~w.nd.connected THEN Become(Read)
           ELSE IF Res # "ok" THEN Become(ConnectFailed(w, "assoc"))
           ELSE IF nd.expect_connect_failure THEN Become(FailDisconnect(w))
           ELSE IF nd.sm = "none" THEN Become(ConnectOk(w))
           ELSE \/ Become([w EXCEPT !.nd.sm = "started"])
                \/ Has("noeapol") /\ Become(ConnectFailed(w, "assoc"))
    /\ UNCHANGED kern

\* netdev_disconnect_event(): only event_filter is told.
DisconnectEvent ==
    /\ Reading("disconnect_event")
    /\ Become(IF ~nd.connected \/ nd.disconnect_cmd_id # 0 \/ nd.in_ft THEN Read
              ELSE EventFilter(ConnectFree(Read)))
    /\ UNCHANGED kern

\* netdev_deauthenticate_event().
DeauthenticateEvent ==
    /\ Reading("deauth_event")
    /\ Become(IF ~nd.connected \/ nd.associated THEN Read
              ELSE ConnectFailed(Read, "auth"))
    /\ UNCHANGED kern

\* netdev_authenticate_event(): the protocol goes on to associate, sends another
\* frame, or refuses.
AuthenticateEvent ==
    /\ Reading("auth_event")
    /\ IF nd.aborting \/ ~nd.connected \/ ~nd.ap THEN Become(Read)
       ELSE IF Res # "ok" THEN Become(ConnectFailed(Read, "auth"))
       ELSE \/ Become(IF nd.in_ft THEN FtTx(Read, "ftassoc") ELSE TxAssociate(Read))
            \/ /\ Has("retry") /\ ~nd.in_ft /\ nd.rounds < MaxRounds
               /\ Become(TxAuthenticate([Read EXCEPT !.nd.rounds = @ + 1]))
            \/ Has("refuse") /\ Become(ConnectFailed(Read, "auth"))
    /\ UNCHANGED kern

\* The association is accepted: the state machine of the handshake is made, and
\* the keys of a fast transition are set.
Associated(w) ==
    LET on == [w EXCEPT !.nd.ap = FALSE, !.nd.sm = "new", !.nd.in_ft = FALSE,
                        !.nd.ignore_connect_event = FALSE, !.nd.associated = TRUE]
    IN  IF w.nd.in_ft THEN Send(on, "keys", 0) ELSE on

\* netdev_associate_event(), sae_assoc_timeout(), owe_rx_associate().
AssociateEvent ==
    /\ Reading("assoc_event")
    /\ LET again == TxAssociate([Read EXCEPT !.nd.rounds = @ + 1])
           refused == [Read EXCEPT !.nd.result = "assoc", !.nd.expect_connect_failure = TRUE]
           mayRetry == ~nd.in_ft /\ nd.rounds < MaxRounds
       IN  IF ~nd.connected \/ nd.aborting THEN Become(Read)
           ELSE IF ~nd.ap THEN Become([Read EXCEPT !.nd.associated = TRUE])
           ELSE CASE Res = "timeout" ->
                        \/ Become(ConnectFailed(Read, "assoc"))
                        \/ Has("retry") /\ mayRetry /\ Become(again)
                  [] Res = "fail" ->
                        \/ Become(refused)
                        \/ /\ Has("owe") /\ mayRetry
                           /\ Become([again EXCEPT !.nd.ignore_connect_event = TRUE])
                  [] Res = "ok" ->
                        \/ Become(Associated(Read))
                        \/ Has("refuse") /\ Become(refused)
    /\ UNCHANGED kern

\* netdev_new_scan_results_event(): l_genl_family_send() refuses a message that
\* is not there.
NewScanResultsEvent ==
    /\ Reading("scan_event")
    /\ Become(IF ~nd.retry_auth THEN Read
              ELSE IF nd.auth_cmd THEN [Send(Read, "auth", 0) EXCEPT !.nd.auth_cmd = FALSE]
              ELSE ConnectFailed(Read, "auth"))
    /\ UNCHANGED kern

\* netdev_unprot_disconnect_event().
UnprotDisconnectEvent ==
    /\ Reading("unprot_event")
    /\ Become(IF ~nd.connected THEN Read ELSE [Read EXCEPT !.nd.sa_query = TRUE])
    /\ UNCHANGED kern

-----------------------------------------------------------------------------
(* The handshake (module Eapol) and the timers.                             *)

KeysInFlight ==
    \/ \E i \in DOMAIN out : out[i].kind = "keys"
    \/ \E i \in DOMAIN in : in[i].kind = "keys"

\* netdev_set_tk(): the handshake, or a later one for new keys, is done.
HandshakeKeys ==
    /\ nd.sm = "started" /\ nd.handshake # 0
    /\ nd.disconnect_cmd_id = 0 /\ ~KeysInFlight
    /\ nd.complete => Has("rekey")
    /\ Become(Send(World, "keys", 0))
    /\ UNCHANGED kern

\* The handshake fails or times out; the timer is stopped before the keys are
\* set, so that only a later handshake can fail while they are on their way.
HandshakeFails ==
    /\ nd.sm = "started" /\ Has("hsfail")
    /\ KeysInFlight \/ nd.complete \/ nd.disconnect_cmd_id # 0 => Has("rekey")
    /\ Become(HandshakeFailed(World))
    /\ UNCHANGED kern

\* netdev_sa_query_timeout(): a disconnect is answered long before the three
\* seconds of another query are over.
SaQueryTimeout ==
    /\ nd.sa_query /\ nd.disconnect_cmd_id = 0
    /\ Become(FailDisconnect([World EXCEPT !.nd.sa_query = FALSE]))
    /\ UNCHANGED kern

\* netdev_sa_query_resp_frame_event().
SaQueryResponse ==
    /\ nd.sa_query /\ kern.st = "up" /\ kern.n = nd.handshake
    /\ Become([World EXCEPT !.nd.sa_query = FALSE])
    /\ UNCHANGED kern

-----------------------------------------------------------------------------
(* External: the kernel.  It takes a request when the last one is answered. *)

Taking(kinds) ==
    /\ out # <<>> /\ Head(out).kind \in kinds
    /\ \A i \in DOMAIN in : in[i].kind \notin Requests
    /\ out' = Tail(out)
    /\ UNCHANGED <<env, nd, client>>
Taken == Head(out)
Answer(res) == [Taken EXCEPT !.res = res]
Say(msgs) == in' = in \o msgs

\* The old association, if there is one, ends when another one starts.
Leaving == IF kern.st = "up" THEN <<Event("disconnect_event", kern.n, "ok")>> ELSE <<>>

Kern(st, n, by) == [st |-> st, n |-> n, by |-> by, keyed |-> FALSE]
Refused == Say(<<Answer("err")>>) /\ UNCHANGED kern

\* CMD_CONNECT; an early driver has the result before the answer.
KernelConnect ==
    /\ Taking({"connect"})
    /\ LET free == kern.st # "connecting" /\ (kern.st = "up" => Taken.prev)
       IN  \/ free /\ Say(<<Answer("ok")>>) /\ kern' = Kern("connecting", Taken.n, "connect")
           \/ /\ Has("early") /\ free
              /\ \/ /\ Say(<<Event("connect_event", Taken.n, "ok"), Answer("ok")>>)
                    /\ kern' = Kern("up", Taken.n, "connect")
                 \/ /\ Say(<<Event("connect_event", Taken.n, "fail"), Answer("ok")>>)
                    /\ kern' = Kern("idle", 0, "connect")
           \/ (~free \/ Has("refuse")) /\ Refused

\* CMD_AUTHENTICATE.
KernelAuthenticate ==
    /\ Taking({"auth", "ftauth"})
    /\ \/ /\ Say(Leaving \o <<Answer("ok")>>)
          /\ kern' = Kern("authenticating", Taken.n, "assoc")
       \/ Has("enoent") /\ Say(<<Answer("enoent")>>) /\ UNCHANGED kern
       \/ Has("refuse") /\ Refused

\* CMD_ASSOCIATE; an access point that has sent us away will not accept it.
KernelAssociate ==
    /\ Taking({"assoc", "ftassoc"})
    /\ \/ /\ Say(Leaving \o <<Answer("ok")>>)
          /\ kern' = Kern("connecting", Taken.n,
                          IF kern.st = "idle" THEN "stale" ELSE "assoc")
       \/ Has("refuse") /\ Refused

\* CMD_TRIGGER_SCAN, and its results.
KernelScan ==
    /\ Taking({"scan"})
    /\ \/ Say(<<Answer("ok"), Event("scan_event", 0, "ok")>>) /\ UNCHANGED kern
       \/ Has("refuse") /\ Refused

\* CMD_NEW_KEY and CMD_SET_STATION.
KernelKeys ==
    /\ Taking({"keys"})
    /\ \/ /\ kern.st = "up" /\ Say(<<Answer("ok")>>)
          /\ kern' = [kern EXCEPT !.keyed = TRUE]
       \/ (kern.st # "up" \/ Has("refuse")) /\ Refused

\* CMD_DISCONNECT and CMD_DEAUTHENTICATE; a driver may report the end of a
\* connection it had not made yet.
KernelDisconnect ==
    /\ Taking({"disconnect", "fail_disconnect"})
    /\ \/ Say(Leaving \o <<Answer("ok")>>)
       \/ /\ kern.st = "connecting"
          /\ Say(<<Event("connect_event", kern.n, "fail"), Answer("ok")>>)
    /\ kern' = Kern("idle", 0, "connect")

KernelTakes ==
    \/ KernelConnect \/ KernelAuthenticate \/ KernelAssociate
    \/ KernelScan \/ KernelKeys \/ KernelDisconnect

NotAssociated ==
    IF kern.by = "assoc" THEN [kern EXCEPT !.st = "authenticated"]
    ELSE Kern("idle", 0, "connect")

\* The frames of an association are answered, or not: then there is no connect
\* event for CMD_ASSOCIATE.  We stay authenticated when it fails.
KernelAssociated ==
    /\ kern.st = "connecting"
    /\ \/ /\ kern.by # "stale"
          /\ Say(<<Event("assoc_event", kern.n, "ok"), Event("connect_event", kern.n, "ok")>>)
          /\ kern' = [kern EXCEPT !.st = "up"]
       \/ /\ Has("owe") /\ nd.rounds > 0 => Has("picky")
          /\ Say(<<Event("assoc_event", kern.n, "fail"), Event("connect_event", kern.n, "fail")>>)
          /\ kern' = NotAssociated
       \/ /\ Say(IF kern.by = "connect" THEN <<Event("connect_event", kern.n, "fail")>>
                 ELSE <<Event("assoc_event", kern.n, "timeout")>>)
          /\ kern' = NotAssociated
    /\ UNCHANGED <<env, nd, out, client>>

KernelAuthenticated ==
    /\ kern.st = "authenticating"
    /\ \/ /\ Say(<<Event("auth_event", kern.n, "ok")>>)
          /\ kern' = [kern EXCEPT !.st = "authenticated"]
       \/ /\ Say(<<Event("auth_event", kern.n, "timeout")>>)
          /\ kern' = Kern("idle", 0, "connect")
    /\ UNCHANGED <<env, nd, out, client>>

\* The access point sends us away.
ApDrops ==
    /\ Has("drop")
    /\ \/ /\ kern.st = "up"
          /\ Say(<<Event("disconnect_event", kern.n, "ok")>>)
       \/ /\ kern.st = "authenticated"
          /\ Say(<<Event("deauth_event", kern.n, "ok")>>)
    /\ kern' = Kern("idle", 0, "connect")
    /\ UNCHANGED <<env, nd, out, client>>

\* An unprotected deauthentication for a connection with keys.
Unprotected ==
    /\ Has("saquery") /\ kern.st = "up" /\ kern.keyed /\ ~nd.sa_query
    /\ \A i \in DOMAIN in : in[i].kind # "unprot_event"
    /\ Say(<<Event("unprot_event", kern.n, "ok")>>)
    /\ UNCHANGED <<env, nd, out, kern, client>>

-----------------------------------------------------------------------------
(* The specification.                                                       *)

Reads ==
    \/ CmdConnectCb \/ CmdAuthenticateFtCb \/ CmdFtReassociateCb \/ AuthCb \/ ScanCb
    \/ AssocCb \/ CmdDisconnectCb \/ DisconnectCb \/ KeysCb \/ ConnectEvent
    \/ DisconnectEvent \/ DeauthenticateEvent \/ AuthenticateEvent \/ AssociateEvent
    \/ NewScanResultsEvent \/ UnprotDisconnectEvent

WorkReady == ConnectionWorkReady \/ FtWorkReady

Next ==
    \/ \E way \in Ways : Connect(way) \/ FastTransition(way)
    \/ Reassociate \/ Disconnect \/ DisconnectIdle
    \/ WorkReady \/ MacChange \/ Reads
    \/ HandshakeKeys \/ HandshakeFails \/ SaQueryTimeout \/ SaQueryResponse
    \/ KernelTakes \/ KernelAssociated \/ KernelAuthenticated
    \/ ApDrops \/ Unprotected

Spec == Init /\ [][Next]_vars

\* The main loop runs and the kernel answers; the radio becomes free; a handshake
\* ends one way or the other (module Eapol).  Nothing is asked of the client.
Fairness ==
    /\ WF_vars(Reads) /\ WF_vars(KernelTakes) /\ WF_vars(KernelAssociated)
    /\ WF_vars(KernelAuthenticated) /\ WF_vars(WorkReady) /\ WF_vars(MacChange)
    /\ WF_vars(DisconnectIdle) /\ WF_vars(HandshakeKeys \/ HandshakeFails)
FairSpec == Spec /\ Fairness

-----------------------------------------------------------------------------
(* Properties.                                                              *)

Numbers == 0..MaxConnects

\* The state stays within the types the code gives it.
TypeOK ==
    /\ env \in Envs
    /\ nd.work \in {"none", "queued", "running"}
    /\ nd.type \in Ways \cup {"none"}
    /\ nd.connect_cmd_id \in {"none", "connect", "ftauth", "ftassoc"}
    /\ nd.disconnect_cmd_id \in 0..3
    /\ nd.connect_cb \in Numbers /\ nd.handshake \in Numbers
    /\ nd.sm \in {"none", "new", "started"}
    /\ nd.result \in {"ok", "handshake", "keys", "assoc"}
    /\ nd.mac \in {"none", "down", "up"} /\ nd.rounds \in 0..MaxRounds
    /\ kern.st \in {"idle", "authenticating", "authenticated", "connecting", "up"}
    /\ client.conn \in Numbers /\ client.up \in Numbers /\ client.disc \in BOOLEAN

\* A client that was told its connection is up (NETDEV_RESULT_OK) has it in the
\* kernel, unless the end of it is on its way: an event to read, or a disconnect
\* that netdev itself has sent.
OkMeansConnected ==
    client.up # 0 =>
        \/ kern.st = "up" /\ kern.n = client.up
        \/ \E i \in DOMAIN in : in[i].kind = "disconnect_event"
        \/ nd.disconnect_cmd_id # 0

\* Known exceptions: netdev_connect_failed() does not disconnect, so that a roam
\* refused at once leaves the old association to the kernel, and a handshake that
\* cannot start the new one.
Abandons ==
    \/ Has("noeapol")
    \/ (Has("refuse") \/ Has("nostart")) /\ (Has("reassoc") \/ Has("ft") \/ Has("ftds"))

\* Once netdev_disconnect() or a failure is over, the kernel has no connection
\* that nobody knows of; netdev_disconnect() sends no CMD_DISCONNECT only when
\* "we do not need to send a disconnect" (src/src/netdev.c:3362).
NothingLeftBehind ==
    (/\ client.conn = 0 /\ client.up = 0 /\ ~client.disc
     /\ nd.disconnect_cmd_id = 0 /\ in = <<>> /\ out = <<>>)
        => kern.st # "up" \/ Abandons

\* A client that waits for connect_cb or disconnect_cb will be answered: netdev
\* has the callback and something in flight that ends in calling it.
CallbackKept ==
    /\ client.conn # 0 =>
        /\ nd.connect_cb = client.conn /\ nd.handshake = client.conn
        /\ ~nd.operational
    /\ client.disc =>
        /\ nd.disconnect_cb
        /\ nd.disconnect_idle \/ nd.disconnect_cmd_id # 0

\* The radio is held only for a connection that is being made.
RadioReleased == nd.work # "none" => client.conn # 0

\* A MAC address change goes on only for the connection it was started for.
MacChangeOwned == nd.mac # "none" => nd.handshake # 0

\* The interface keeps the contract of module Connection: one answer for every
\* request, no connection without a request, no end of it that the client is not
\* told of, and never an end to the client's own disconnect but disconnect_cb.
Contract == INSTANCE Connection WITH
    Targets <- 1..MaxConnects,
    conn <- client.conn, up <- client.up, disc <- client.disc,
    ending <- nd.disconnect_cmd_id # 0 /\ ~client.disc
KeepsContract == Contract!Spec

\* Every netdev_connect(), netdev_reassociate() and netdev_fast_transition() has
\* its connect_cb called, and every netdev_disconnect() its callback, whatever the
\* kernel and the access point do.
Answered ==
    /\ client.conn # 0 ~> client.conn = 0
    /\ client.disc ~> ~client.disc

\* What netdev.c holds (callbacks, the radio, an address change) it holds for the
\* request that its client waits for, and gives back with it: on every path of
\* netdev_connect_free(), netdev_connect_ok() and netdev_disconnect().
Inv ==
    /\ TypeOK
    /\ CallbackKept
    /\ RadioReleased
    /\ MacChangeOwned

=============================================================================
