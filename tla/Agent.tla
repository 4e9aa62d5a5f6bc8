--------------------------------- MODULE Agent ---------------------------------
(***************************************************************************)
(* How a user is asked for the secrets of a network: src/agent.c, which    *)
(* queues questions to the agents that D-Bus clients register, and its     *)
(* user src/network.c, which asks from within Connect, goes on to the next *)
(* question or to the station from within the callback of an answer, and   *)
(* waits for ANQP before it asks at all.                                   *)
(*                                                                         *)
(* An agent has a queue of requests, the first of which is with the client *)
(* (pending_id, a timer).  A request carries the Connect call that         *)
(* triggered it, which must be replied to exactly once, and a pointer to   *)
(* its network, which is freed when it gets out of range.                  *)
(*                                                                         *)
(* Callbacks nest: an answer calls the network, which may queue the next   *)
(* question at the same agent before the agent looks at its queue again.   *)
(* The handlers are functions of the state they may change.  A null or     *)
(* freed pointer that is followed sets "fault".                            *)
(*                                                                         *)
(* The station is only what network.c sees of it: connected_network.       *)
(***************************************************************************)
EXTENDS Naturals, Sequences, SequencesExt

CONSTANTS
    Clients,        \* D-Bus clients: they call Connect and may be agents
    Networks,       \* networks of the station, numbers from 1
    Needs,          \* the secrets of a network: <<"psk">> or those of its EAP method
    MaxCalls,       \* bound: calls of Connect
    Envs            \* the sets of features of a behaviour

ASSUME NetworksAssumption ==
    /\ Networks \subseteq Nat \ {0} /\ MaxCalls \in Nat
    /\ Needs \in [Networks -> {<<"psk">>} \cup Seq({"local", "user", "password"})]
ASSUME EnvsAssumption == \A e \in Envs : e \subseteq
    {"timeout",     \* a client may take longer than 120 s
     "leave",       \* clients disconnect from the bus
     "abrupt",      \* clients unregister or disconnect with requests of several networks
     "stale",       \* clients disconnect after the last question timed out
     "range",       \* networks go out of range and come back
     "anqp",        \* access points with Hotspot 2.0
     "auto"}        \* the station connects by itself

VARIABLES
    env,        \* the features of this behaviour
    agents,     \* the registered agents by their owners, oldest first
    dying,      \* agents that agent_disconnect() left to the idle callback
    ag,         \* struct agent of a client
    bus,        \* external: requests whose reply callback l_dbus holds
    nets,       \* struct network
    anqp,       \* station->anqp_pending, newest first
    station,    \* external: connected_network, or 0
    calls,      \* the Connect calls; done counts replies and hand-overs to the station
    next_id,
    fault
vars == <<env, agents, dying, ag, bus, nets, anqp, station, calls, next_id, fault>>

Has(f) == f \in env
IsPsk(n) == Needs[n] = <<"psk">>

World == [agents |-> agents, ag |-> ag, bus |-> bus, nets |-> nets, anqp |-> anqp,
          station |-> station, calls |-> calls, next_id |-> next_id, fault |-> fault]
Become(w) ==
    /\ agents' = w.agents /\ ag' = w.ag /\ bus' = w.bus /\ nets' = w.nets
    /\ anqp' = w.anqp /\ station' = w.station /\ calls' = w.calls
    /\ next_id' = w.next_id /\ fault' = w.fault
    /\ UNCHANGED env

\* agent_create(): a new struct agent.
NewAgent == [requests |-> <<>>, pending_id |-> 0, timeout |-> FALSE]

\* network_create(): info is the settings file, settings its open copy.
Created(known) == [exists |-> TRUE, info |-> known, settings |-> FALSE, ask |-> FALSE,
                   agent_request |-> 0, secrets |-> {}, bad |-> FALSE,
                   anqp_pending |-> FALSE, connect_after_anqp |-> 0]

Init ==
    /\ env \in Envs
    /\ agents = <<>> /\ dying = {} /\ ag = [a \in Clients |-> NewAgent]
    /\ bus = {}
    /\ \E known \in SUBSET Networks : nets = [n \in Networks |-> Created(n \in known)]
    /\ anqp = <<>> /\ station = 0
    /\ calls = <<>> /\ next_id = 0 /\ fault = FALSE

\* A reply to the call c, or its hand-over to the station, which will reply.
Reply(w, c) == [w EXCEPT !.calls[c].done = @ + 1]

-----------------------------------------------------------------------------
(* agent.c: the queue of an agent.                                          *)

\* agent_send_next_request(): also starts the timer.
SendNext(w, a) ==
    IF w.ag[a].requests = <<>> THEN w
    ELSE LET id == Head(w.ag[a].requests).id
         IN  [w EXCEPT !.ag[a].timeout = TRUE, !.ag[a].pending_id = id,
                       !.ag[a].requests[1].sent = TRUE, !.bus = @ \cup {id}]

\* agent_queue_request(): the first one is sent at once.
QueueRequest(w, a, r) ==
    LET queued == [w EXCEPT !.next_id = r.id, !.ag[a].requests = Append(@, r)]
    IN  IF w.ag[a].requests = <<>> THEN SendNext(queued, a) ELSE queued

\* get_agent(): the agent of the caller, or the oldest one.
GetAgent(w, from) == IF Contains(w.agents, from) THEN from ELSE Head(w.agents)

\* agent_request_passphrase(), agent_request_pkey_passphrase(),
\* agent_request_user_name_password() and agent_request_user_password(): the id of
\* the request becomes network->agent_request, which is 0 without an agent.
RequestSecret(w, n, c, secret, pending) ==
    LET id == w.next_id + 1
        r == [id |-> id, net |-> n, call |-> c, secret |-> secret,
              pending |-> pending, sent |-> FALSE]
    IN  IF w.agents = <<>> THEN [w EXCEPT !.nets[n].agent_request = 0]
        ELSE [QueueRequest(w, GetAgent(w, w.calls[c].from), r)
                EXCEPT !.nets[n].agent_request = id]

\* agent_request_free() of a request that still has its trigger.
RequestFree(w, r) == Reply(w, r.call)

\* Mutated form: the client's answer is still awaited.
CancelQuietly(w, id) ==
    LET has(a) == \E i \in DOMAIN w.ag[a].requests : w.ag[a].requests[i].id = id
        a == CHOOSE x \in ToSet(w.agents) : has(x)
        r == CHOOSE x \in ToSet(w.ag[a].requests) : x.id = id
        out == [w EXCEPT !.ag[a].requests = SelectSeq(@, LAMBDA x : x.id # id)]
    IN  IF \A x \in ToSet(w.agents) : ~has(x) THEN w
        ELSE RequestFree(IF r.sent THEN SendNext(out, a) ELSE out, r)

\* agent_request_cancel(): an agent that is dying is not searched.
RequestCancel(w, id) ==
    LET has(a) == \E i \in DOMAIN w.ag[a].requests : w.ag[a].requests[i].id = id
        a == CHOOSE x \in ToSet(w.agents) : has(x)
        r == CHOOSE x \in ToSet(w.ag[a].requests) : x.id = id
        out == [w EXCEPT !.ag[a].requests = SelectSeq(@, LAMBDA x : x.id # id)]
        back == [out EXCEPT !.bus = @ \ {w.ag[a].pending_id}, !.ag[a].pending_id = 0,
                            !.ag[a].timeout = FALSE]
    IN  IF \A x \in ToSet(w.agents) : ~has(x) THEN w
        ELSE RequestFree(IF r.sent THEN SendNext(back, a) ELSE out, r)

\* agent_free(): the callbacks of the requests are not called.
AgentFree(w, a) ==
    LET off == [w EXCEPT !.bus = @ \ {w.ag[a].pending_id}]
    IN  [FoldLeft(RequestFree, off, w.ag[a].requests) EXCEPT !.ag[a] = NewAgent]

-----------------------------------------------------------------------------
(* network.c: what follows an answer.                                       *)

\* network_settings_close().
SettingsClose(w, n) == [w EXCEPT !.nets[n].settings = FALSE]

\* External: station_connect_network(); the network that was connected is left
\* (network_disconnected()).
StationConnect(w, n, c) ==
    LET left == IF w.station \in {0, n} THEN w ELSE SettingsClose(w, w.station)
    IN  Reply([left EXCEPT !.station = n], c)

\* Mutated form: agent_request is left alone.
StillAsking(w, r, res, usable) ==
    IF res = "ok" /\ usable THEN StationConnect(w, r.net, r.call)
    ELSE SettingsClose(Reply(w, r.call), r.net)

\* passphrase_callback(); res is "ok", "bad" for a passphrase of the wrong format,
\* "failed" for an error or no answer.  usable: a BSS is left.
PassphraseCallback(w, r, res, usable) ==
    LET told == [w EXCEPT !.nets[r.net].agent_request = 0]
    IN  IF res = "ok" /\ usable THEN StationConnect(told, r.net, r.call)
        ELSE SettingsClose(Reply(told, r.call), r.net)

\* eap_send_agent_req(): the passphrase of a private key first.  Without an agent
\* the call is replied to.
SendAgentReq(w, n, c, pending) ==
    LET secret == IF Contains(pending, "local") THEN "local" ELSE Head(pending)
    IN  RequestSecret(w, n, c, secret, SelectSeq(pending, LAMBDA s : s # secret))

\* network_connect_8021x(): a wrong private key passphrase fails the check of the
\* settings; the secrets are forgotten with every error.  The station follows the
\* pointer to the BSS, which is NULL unless usable.
Connect8021x(w, n, c, usable) ==
    LET net == w.nets[n]
        missing == SelectSeq(Needs[n], LAMBDA s : s \notin net.secrets)
        fail(v) == [SettingsClose(Reply(v, c), n) EXCEPT !.nets[n].secrets = {},
                                                         !.nets[n].bad = FALSE]
        asked == SendAgentReq(w, n, c, missing)
    IN  IF ~net.settings \/ net.bad THEN fail(w)
        ELSE IF missing = <<>> /\ ~usable THEN [w EXCEPT !.fault = TRUE]
        ELSE IF missing = <<>> THEN StationConnect(w, n, c)
        ELSE IF asked.nets[n].agent_request # 0 THEN asked
        ELSE fail(w)

\* eap_password_callback() and eap_user_password_callback() with eap_secret_done():
\* a password that is too long counts as no answer.
EapSecretDone(w, r, res, usable) ==
    LET n == r.net
        told == [w EXCEPT !.nets[n].agent_request = 0]
        have == [told EXCEPT !.nets[n].secrets = @ \cup {r.secret},
                             !.nets[n].bad = res = "bad"]
        asked == SendAgentReq(have, n, r.call, r.pending)
    IN  IF res = "failed" \/ ~usable \/ (res = "bad" /\ r.secret # "local")
        THEN SettingsClose(Reply(told, r.call), n)
        ELSE IF r.secret = "local" \/ r.pending = <<>>
        THEN Connect8021x(have, n, r.call, TRUE)
        ELSE IF asked.nets[n].agent_request # 0 THEN asked
        ELSE SettingsClose(Reply(have, r.call), n)

\* agent_finalize_pending(): the first request, whose network must still be there.
FinalizePending(w, a, res, usable) ==
    LET r == Head(w.ag[a].requests)
        off == [w EXCEPT !.ag[a].timeout = FALSE, !.ag[a].requests = Tail(@)]
    IN  IF w.ag[a].requests = <<>> THEN [w EXCEPT !.fault = TRUE]
        ELSE IF ~w.nets[r.net].exists THEN [off EXCEPT !.fault = TRUE]
        ELSE IF r.secret = "psk" THEN PassphraseCallback(off, r, res, usable)
        ELSE EapSecretDone(off, r, res, usable)

-----------------------------------------------------------------------------
(* Calls and messages of D-Bus clients.  One message is read in a round of  *)
(* the main loop, and the idle callbacks run at the end of the round.       *)
Dbus == dying = {} /\ ~fault

\* network_connect_psk(): the passphrase is asked for when it is not stored or
\* was wrong; the wish to ask again is forgotten.
ConnectPsk(w, n, c) ==
    LET open == [w EXCEPT !.nets[n].settings = TRUE, !.nets[n].ask = FALSE]
        asked == RequestSecret(open, n, c, "psk", <<>>)
    IN  IF w.nets[n].info /\ ~w.nets[n].ask THEN StationConnect(open, n, c)
        ELSE IF asked.nets[n].agent_request # 0 THEN asked
        ELSE Reply(asked, c)

\* network_connect().
NetworkConnect(w, n, c, usable) ==
    LET net == w.nets[n]
    IN  IF w.station = n \/ net.agent_request # 0 \/ ~usable THEN Reply(w, c)
        ELSE IF IsPsk(n) THEN ConnectPsk(w, n, c)
        ELSE IF net.connect_after_anqp # 0 THEN Reply(w, c)
        ELSE IF net.anqp_pending THEN [w EXCEPT !.nets[n].connect_after_anqp = c]
        ELSE IF ~(net.settings \/ net.info) THEN Reply(w, c)
        ELSE Connect8021x([w EXCEPT !.nets[n].settings = TRUE], n, c, TRUE)

Connect(a, n, usable) ==
    /\ Dbus /\ Len(calls) < MaxCalls /\ nets[n].exists
    /\ usable \/ Has("range")
    /\ LET c == Len(calls) + 1
       IN  Become(NetworkConnect([World EXCEPT !.calls =
                        Append(@, [from |-> a, net |-> n, done |-> 0])], n, c, usable))
    /\ UNCHANGED dying

\* agent_register().
Register(a) ==
    /\ Dbus /\ ~Contains(agents, a)
    /\ Become([World EXCEPT !.agents = Append(@, a), !.ag[a] = NewAgent])
    /\ UNCHANGED dying

\* A client that waits until its agent has answered.
Patient(a, n) == Has("abrupt") \/ Len(ag[a].requests) <= n

\* agent_unregister().
Unregister(a) ==
    /\ Dbus /\ Contains(agents, a) /\ Patient(a, 0)
    /\ Become(AgentFree([World EXCEPT !.agents = SelectSeq(@, LAMBDA x : x # a)], a))
    /\ UNCHANGED dying

\* agent_disconnect(): the client has left the bus.  The request it was asked is
\* finished, the agent is freed from an idle callback.  pending_id may be that of a
\* question that timed out.
Disconnect(a) ==
    /\ Dbus /\ Has("leave") /\ Contains(agents, a) /\ Patient(a, 1)
    /\ ag[a].pending_id # 0 /\ ag[a].requests = <<>> => Has("stale")
    /\ LET told == IF ag[a].pending_id # 0 THEN FinalizePending(World, a, "failed", TRUE)
                   ELSE World
       IN  Become([told EXCEPT !.agents = SelectSeq(@, LAMBDA x : x # a)])
    /\ dying' = {a}

\* agent_free() from l_idle_oneshot().
Idle(a) ==
    /\ a \in dying /\ ~fault
    /\ dying' = {}
    /\ Become(AgentFree(World, a))

\* agent_receive_reply(): the callback may have sent the next request already.
ReceiveReply(a, id, res, usable) ==
    /\ Dbus /\ id \in bus /\ ag[a].pending_id = id
    /\ usable \/ Has("range")
    /\ LET told == FinalizePending([World EXCEPT !.bus = @ \ {id}, !.ag[a].pending_id = 0],
                                   a, res, usable)
       IN  Become(IF told.ag[a].pending_id = 0 THEN SendNext(told, a) ELSE told)
    /\ UNCHANGED dying

-----------------------------------------------------------------------------
(* Timers, scan results, ANQP and connections.                              *)

\* Mutated form: the question stays first in the queue.
AskAgain(a) ==
    /\ Has("timeout") /\ ag[a].timeout /\ ~fault
    /\ Become(SendNext([World EXCEPT !.bus = @ \ {ag[a].pending_id}], a))
    /\ UNCHANGED dying

\* request_timeout(): pending_id keeps its value when nothing follows.
RequestTimeout(a) ==
    /\ Has("timeout") /\ ag[a].timeout /\ ~fault
    /\ LET off == [World EXCEPT !.bus = @ \ {ag[a].pending_id}]
       IN  Become(SendNext(FinalizePending(off, a, "failed", TRUE), a))
    /\ UNCHANGED dying

\* network_remove(), network_unregister(): an entry of ANQP keeps its pointer, a call
\* that waits for ANQP is dropped.
NetworkRemove(w, n) ==
    [RequestCancel(w, w.nets[n].agent_request)
        EXCEPT !.nets[n] = [Created(@.info) EXCEPT !.exists = FALSE],
               !.anqp = [i \in DOMAIN @ |-> IF @[i].net = n THEN [@[i] EXCEPT !.freed = TRUE]
                                            ELSE @[i]]]

\* process_network(): new scan results without a BSS of the network.
OutOfRange(n) ==
    /\ Has("range") /\ nets[n].exists /\ station # n /\ ~fault
    /\ Become(NetworkRemove(World, n))
    /\ UNCHANGED dying

\* station_add_seen_bss(): the network is seen again.
InRange(n) ==
    /\ Has("range") /\ ~nets[n].exists /\ ~fault
    /\ Become([World EXCEPT !.nets[n] = Created(@.info)])
    /\ UNCHANGED dying

\* station_start_anqp() for an unknown network; bound: one query of a network.
StartAnqp(n) ==
    /\ Has("anqp") /\ ~IsPsk(n) /\ nets[n].exists /\ ~nets[n].info /\ ~fault
    /\ \A i \in DOMAIN anqp : anqp[i].net # n
    /\ Become([World EXCEPT !.anqp = <<[net |-> n, pending |-> TRUE, freed |-> FALSE]>> \o @,
                            !.nets[n].anqp_pending = TRUE])
    /\ UNCHANGED dying

\* anqp_watch_changed(): the call that waited is resumed, whether or not a BSS is left.
AnqpFinished(w, e, usable) ==
    LET n == e.net
        c == w.nets[n].connect_after_anqp
        off == [w EXCEPT !.nets[n].anqp_pending = FALSE, !.nets[n].connect_after_anqp = 0]
    IN  IF e.freed THEN [w EXCEPT !.fault = TRUE]
        ELSE IF c = 0 THEN off
        ELSE IF ~(w.nets[n].settings \/ w.nets[n].info) THEN Reply(off, c)
        ELSE Connect8021x([off EXCEPT !.nets[n].settings = TRUE], n, c, usable)

\* station_anqp_response_cb(): the realm may match a hotspot profile.  The watches
\* are told when no query is left.
AnqpResponse(n, match) ==
    /\ ~fault
    /\ \E i \in DOMAIN anqp, unusable \in SUBSET Networks :
        /\ anqp[i].net = n /\ anqp[i].pending
        /\ unusable # {} => Has("range")
        /\ LET Told(v, e) == AnqpFinished(v, e, e.net \notin unusable)
               w == [World EXCEPT !.anqp[i].pending = FALSE, !.nets[n].info = @ \/ match,
                                      !.fault = match /\ anqp[i].freed]
           IN  Become(IF \E j \in DOMAIN anqp : w.anqp[j].pending THEN w
                      ELSE [FoldLeft(Told, w, w.anqp) EXCEPT !.anqp = <<>>])
    /\ UNCHANGED dying

\* network_autoconnect(): without every secret the settings are closed again.
NetworkAutoconnect(w, n) ==
    IF w.nets[n].agent_request # 0 \/ w.nets[n].ask \/ ~w.nets[n].info THEN w
    ELSE IF ~IsPsk(n) /\ ToSet(Needs[n]) \ w.nets[n].secrets # {}
    THEN SettingsClose(w, n)
    ELSE [w EXCEPT !.nets[n].settings = TRUE, !.station = n]

\* External: station_autoconnect_next().
Autoconnect(n) ==
    /\ Has("auto") /\ station = 0 /\ nets[n].exists /\ nets[n].info /\ ~fault
    /\ Become(NetworkAutoconnect(World, n))
    /\ UNCHANGED dying

\* External: the connection is up.  network_sync_psk(), network_connected(): the
\* network is known from now on; secrets that must not be kept are forgotten.
Connected(keep) ==
    /\ station # 0 /\ ~fault
    /\ keep \subseteq nets[station].secrets
    /\ Become([World EXCEPT !.nets[station].info = TRUE, !.nets[station].secrets = keep])
    /\ UNCHANGED dying

\* External: the connection failed or ended.  network_connect_failed(),
\* network_disconnected().
ConnectFailed(in_handshake) ==
    /\ station # 0 /\ ~fault
    /\ Become([SettingsClose(World, station)
                EXCEPT !.nets[station].ask = @ \/ (in_handshake /\ IsPsk(station)),
                       !.nets[station].secrets = {}, !.nets[station].bad = FALSE,
                       !.station = 0])
    /\ UNCHANGED dying

Answers == {"ok", "bad", "failed"}
Next ==
    \/ \E a \in Clients :
        \/ \E n \in Networks, usable \in BOOLEAN : Connect(a, n, usable)
        \/ Register(a) \/ Unregister(a) \/ Disconnect(a) \/ Idle(a)
        \/ \E id \in bus, res \in Answers, usable \in BOOLEAN :
            ReceiveReply(a, id, res, usable)
        \/ RequestTimeout(a)
    \/ \E n \in Networks :
        \/ OutOfRange(n) \/ InRange(n) \/ StartAnqp(n)
        \/ \E match \in BOOLEAN : AnqpResponse(n, match)
        \/ Autoconnect(n)
    \/ \E keep \in SUBSET {"local", "user", "password"} : Connected(keep)
    \/ \E h \in BOOLEAN : ConnectFailed(h)

\* Timers fire, frame exchanges end, idle callbacks run: the main loop.  A client
\* need not answer.
Fairness ==
    /\ \A a \in Clients : WF_vars(Idle(a)) /\ WF_vars(RequestTimeout(a))
    /\ \A n \in Networks : WF_vars(\E match \in BOOLEAN : AnqpResponse(n, match))

Spec == Init /\ [][Next]_vars /\ Fairness

-----------------------------------------------------------------------------
Requests == [id : Nat \ {0}, net : Networks, call : Nat \ {0},
             secret : {"psk", "local", "user", "password"},
             pending : Seq({"local", "user", "password"}), sent : BOOLEAN]

\* Every variable has its type; a client has at most one agent.
TypeOK ==
    /\ env \in Envs /\ fault \in BOOLEAN
    /\ agents \in Seq(Clients) /\ IsInjective(agents) /\ dying \subseteq Clients
    /\ ag \in [Clients -> [requests : Seq(Requests), pending_id : Nat, timeout : BOOLEAN]]
    /\ bus \subseteq 1..next_id
    /\ nets \in [Networks -> [exists : BOOLEAN, info : BOOLEAN, settings : BOOLEAN,
                    ask : BOOLEAN, agent_request : 0..next_id,
                    secrets : SUBSET {"local", "user", "password"}, bad : BOOLEAN,
                    anqp_pending : BOOLEAN, connect_after_anqp : 0..Len(calls)]]
    /\ anqp \in Seq([net : Networks, pending : BOOLEAN, freed : BOOLEAN])
    /\ station \in {0} \cup Networks
    /\ calls \in Seq([from : Clients, net : Networks, done : Nat])

\* No freed network and no missing request is followed: agent_finalize_pending() has
\* a request to finish, and the callbacks of agents and ANQP find their network.
NoFault == ~fault

\* A Connect call is replied to, or handed to the station, at most once, however the
\* answer, the timer, the cancellation and the end of the agent meet: request->trigger
\* has one owner at a time.
RepliedOnce == \A c \in DOMAIN calls : calls[c].done <= 1

\* A question that an agent holds belongs to the network that waits for it, which is
\* not freed and has its settings open, and to a call that is not replied to: the
\* callback can rely on all of them.
QuestionsOwned ==
    \A a \in Clients : \A i \in DOMAIN ag[a].requests :
        LET r == ag[a].requests[i]
        IN  a \notin dying =>
                /\ nets[r.net].exists /\ nets[r.net].agent_request = r.id
                /\ nets[r.net].settings
                /\ calls[r.call].done = 0 /\ calls[r.call].net = r.net

\* An agent asks one question at a time, the first of its queue: it is the one whose
\* reply l_dbus waits for and whose timer runs, so that an answer is never taken for
\* the answer to another question and no question is forgotten in the queue.
OneQuestion ==
    \A a \in ToSet(agents) :
        LET q == ag[a].requests
        IN  /\ \A i \in DOMAIN q : q[i].sent <=> i = 1
            /\ ag[a].timeout <=> q # <<>>
            /\ q # <<>> => ag[a].pending_id = q[1].id
            /\ \A i \in DOMAIN q : q[i].id \in bus <=> i = 1

\* A network whose agent_request is set waits for an agent ("already waiting for an
\* agent request, connect in progress"): otherwise Connect is busy for ever.
WaitsForAgent ==
    \A n \in Networks : nets[n].agent_request # 0 =>
        \E a \in Clients : \E i \in DOMAIN ag[a].requests :
            ag[a].requests[i].id = nets[n].agent_request

\* Every Connect call is answered, whether its agent answers, is left to the timer or
\* leaves the bus, and whatever becomes of its network.
Answered ==
    \A c \in 1..MaxCalls :
        Has("timeout") /\ Len(calls) >= c ~> (Len(calls) >= c /\ calls[c].done > 0)

\* Questions, networks and calls belong together while answers, timers, cancellations and
\* agents that leave meet: the callback of a question finds its network and its call, an
\* agent is asked one question at a time, and a call is replied to once.  Not for clients
\* that leave in the cases "stale" and "abrupt", nor for ANQP out of range.
Inv ==
    /\ TypeOK
    /\ NoFault
    /\ RepliedOnce
    /\ QuestionsOwned
    /\ OneQuestion

=============================================================================
