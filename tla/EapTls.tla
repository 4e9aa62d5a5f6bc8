-------------------------------- MODULE EapTls --------------------------------
(***************************************************************************)
(* An EAP authentication through a TLS tunnel, on the side of the peer:    *)
(* the state machine of src/eap.c, the fragmentation and retransmission of *)
(* src/eap-tls-common.c, and the two methods that end it differently,      *)
(* EAP-TLS (src/eap-tls.c: the tunnel is all) and PEAPv0 (src/eap-peap.c:  *)
(* a second authentication inside the tunnel and a protected result).      *)
(*                                                                         *)
(* EAP is lock-step: the server repeats a request until it is answered,    *)
(* with the same identifier.  Requests, responses, and the final Success   *)
(* or Failure, which is never repeated, may be lost.  A TLS message that   *)
(* does not fit the MTU goes in fragments, each acknowledged by an empty   *)
(* packet, in both directions.                                             *)
(*                                                                         *)
(* A TLS message is a name and a size; a fragment is a part of it.  What   *)
(* TLS does with a message is external: it answers with the next one, or   *)
(* with an alert.  The octet counts are those of the code, with a small    *)
(* MTU: 6 octets of header, 4 of the length field.                         *)
(***************************************************************************)
EXTENDS Integers, Sequences

CONSTANTS
    Mtu,        \* eap->mtu
    Chunk,      \* external: the octets of a message that the server sends at once
    ClientSizes, ServerSizes,   \* sizes of the TLS messages
    IdMod,      \* identifiers are counted modulo this (256)
    MaxLost,    \* bound: packets that are lost
    MaxExtra,   \* bound: requests repeated too early
    Envs        \* the features of servers and methods

ASSUME MtuAssumption == Mtu \in Nat /\ Mtu > 14 /\ Chunk \in Nat \ {0}
ASSUME SizesAssumption == ClientSizes \cup ServerSizes \subseteq 1..100 /\ IdMod \in 5..256
ASSUME BoundAssumption == MaxLost \in Nat /\ MaxExtra \in Nat
ASSUME EnvsAssumption == \A e \in Envs : e \subseteq
    {"peap",        \* PEAPv0, otherwise EAP-TLS
     "workaround",  \* PEAPv0 with messages for which the length field matters
     "redundant",   \* a server with the L flag on every message
     "noM",         \* a server without the M flag on the first fragment
     "incr",        \* a server that increments the identifier of Success
     "wrap",        \* one whose identifiers wrap around in this authentication
     "canned",      \* a Success before its time
     "badcert",     \* the peer rejects the server
     "reject",      \* the server rejects the peer
     "badinner",    \* the inner method fails, or the server says so in its result
     "badtlv",      \* a server whose result cannot be understood
     "nak",         \* a server that offers another method first
     "notify",      \* a server that sends a notification
     "ackloss",     \* answers that are not kept may be lost
     "slow"}        \* phase 2 may take longer than 5 s

Header == 6         \* EAP_TLS_HEADER_LEN
LenField == 4       \* the TLS Message Length field

ClientPdus == {"hello", "cfin", "p2resp", "result_ack", "alert"}
ServerPdus == {"shello", "sfin", "p2req", "result"}

VARIABLES
    env, size,      \* features; the sizes of the TLS messages
    eap,            \* struct eap_state
    tls,            \* struct eap_tls_state
    srv,            \* external: the authentication server
    down, up,       \* packets to the peer and to the server
    lost, extra     \* counted against the bounds
vars == <<env, size, eap, tls, srv, down, up, lost, extra>>

Has(f) == f \in env

None == [pdu |-> "none", from |-> 0, len |-> 0, total |-> 0, flags |-> {}]
NoBuf == [cap |-> -1, len |-> 0, pdu |-> "none", whole |-> TRUE]

\* __eap_tls_common_state_reset().
Reset == [negotiated |-> FALSE, tunnel |-> FALSE, ready |-> FALSE, completed |-> FALSE,
          failed |-> FALSE, tx |-> "none", off |-> 0, last_len |-> 0, ack |-> FALSE,
          rx |-> NoBuf]

Init ==
    /\ env \in Envs
    /\ \E h, c \in ClientSizes, s, f \in ServerSizes :
          size = [p \in ClientPdus \cup ServerPdus |->
                    IF p = "hello" THEN h ELSE IF p = "cfin" THEN c
                    ELSE IF p = "shello" THEN s ELSE IF p = "sfin" THEN f ELSE 1]
    /\ Has("peap") /\ ~Has("workaround") =>
          \A p \in {"hello", "cfin"} : size[p] \notin (Mtu - Header - LenField + 1)..(Mtu - Header)
    /\ eap = [last_id |-> -1, method_success |-> FALSE, timer |-> FALSE,
              discard |-> FALSE, done |-> "none", keys |-> FALSE]
    /\ tls = Reset
    /\ LET id == IF Has("wrap") THEN IdMod - 4 ELSE 0 IN
        /\ srv = [id |-> id, kind |-> "identity", req |-> None, off |-> 0, rx |-> NoBuf,
                  done |-> "none", session |-> FALSE, whole |-> TRUE, held |-> <<>>]
        /\ down = <<[code |-> "request", id |-> id, kind |-> "identity", part |-> None]>>
    /\ up = <<>> /\ lost = 0 /\ extra = 0

-----------------------------------------------------------------------------
(* Sending.  The handlers are functions of the peer's state.                *)

World == [eap |-> eap, tls |-> tls, up |-> up]
Become(w) == eap' = w.eap /\ tls' = w.tls /\ up' = w.up

\* eap_send_response().
Respond(w, kind, part) ==
    [w EXCEPT !.up = Append(@, [id |-> w.eap.last_id, kind |-> kind, part |-> part])]

\* eap_tls_common_send_empty_response().
SendEmpty(w) == Respond(w, "tls", None)

\* Mutated form: the length field is counted as a part of the message.
CountLengthField(w) ==
    LET left == size[w.tls.tx] - w.tls.off
        more == left > Mtu - Header
        first == w.tls.off = 0
        len == IF more THEN Mtu - Header ELSE left
        flags == (IF more THEN {"M"} ELSE {}) \cup (IF first THEN {"L"} ELSE {})
    IN  [Respond(w, "tls", [pdu |-> w.tls.tx, from |-> w.tls.off,
                            len |-> IF first THEN len - LenField ELSE len,
                            total |-> size[w.tls.tx], flags |-> flags])
            EXCEPT !.tls.ack = @ \/ more, !.tls.last_len = len]

\* eap_tls_send_fragment(): what is left, or as much as the MTU takes; the first one
\* has the length field.
SendFragment(w) ==
    LET left == size[w.tls.tx] - w.tls.off
        more == left > Mtu - Header
        first == w.tls.off = 0
        len == (IF more THEN Mtu - Header ELSE left) - (IF first THEN LenField ELSE 0)
        flags == (IF more THEN {"M"} ELSE {}) \cup (IF first THEN {"L"} ELSE {})
    IN  [Respond(w, "tls", [pdu |-> w.tls.tx, from |-> w.tls.off, len |-> len,
                            total |-> size[w.tls.tx], flags |-> flags])
            EXCEPT !.tls.ack = @ \/ more, !.tls.last_len = len]

\* needs_workaround(): the length field for Windows Server.
NeedsWorkaround(w) == Has("peap") /\ ~w.tls.ready

\* eap_tls_send_response().
SendResponse(w) ==
    LET n == size[w.tls.tx]
        l == NeedsWorkaround(w)
    IN  IF Header + n + (IF l THEN LenField ELSE 0) <= Mtu
        THEN Respond(w, "tls", [pdu |-> w.tls.tx, from |-> 0, len |-> n, total |-> n,
                                flags |-> IF l THEN {"L"} ELSE {}])
        ELSE SendFragment([w EXCEPT !.tls.off = 0])

\* eap_method_error(): the EAPoL state machine gives up.
MethodError(w) == [w EXCEPT !.eap.done = "fail", !.eap.timer = FALSE]

-----------------------------------------------------------------------------
(* The tunnel.                                                              *)

\* eap_method_success() and eap_set_key_material().
MethodSuccess(w) == [w EXCEPT !.eap.method_success = TRUE, !.eap.keys = TRUE]

\* Mutated form: without the timer.
ReadyNoTimer(w) ==
    LET ready == [w EXCEPT !.tls.ready = TRUE]
    IN  IF Has("peap") THEN SendEmpty([ready EXCEPT !.eap.discard = TRUE])
        ELSE SendEmpty(MethodSuccess([ready EXCEPT !.tls.completed = TRUE]))

\* eap_tls_tunnel_ready() with the tunnel_ready() of EAP-TLS and PEAP: starts the
\* timer for a lost Success.
TunnelReady(w) ==
    LET ready == [w EXCEPT !.tls.ready = TRUE, !.eap.timer = TRUE]
    IN  IF Has("peap") THEN SendEmpty([ready EXCEPT !.eap.discard = TRUE])
        ELSE SendEmpty(MethodSuccess([ready EXCEPT !.tls.completed = TRUE]))

\* eap_tls_tunnel_disconnected(), after an alert was written.
TunnelDisconnected(w) ==
    [w EXCEPT !.tls.completed = TRUE, !.tls.ready = FALSE, !.tls.tx = "alert"]

\* eap_peap_phase2_complete() of an inner method that failed.
Phase2Failed(w) ==
    [TunnelDisconnected(w) EXCEPT !.eap.discard = FALSE, !.tls.failed = TRUE]

\* eap_extensions_handle_request(): the protected result.  A result that is not
\* understood has no answer; after a failure the tunnel is closed.
HandleResult(w, good) ==
    IF Has("badtlv") THEN w
    ELSE IF ~good THEN Phase2Failed(w)
    ELSE MethodSuccess([w EXCEPT !.tls.tx = "result_ack", !.eap.discard = FALSE,
                                 !.tls.completed = TRUE])

\* External: l_tls_handle_rx() and what it calls.  good: the peer accepts what the
\* message says.
HandleRx(w, pdu, whole, good) ==
    IF ~w.tls.tunnel \/ ~whole THEN TunnelDisconnected(w)
    ELSE IF pdu = "shello"
         THEN IF good THEN [w EXCEPT !.tls.tx = "cfin"] ELSE TunnelDisconnected(w)
    ELSE IF pdu = "sfin" THEN TunnelReady(w)
    ELSE IF pdu = "p2req"
         THEN IF good THEN [w EXCEPT !.tls.tx = "p2resp"] ELSE Phase2Failed(w)
    ELSE HandleResult(w, good)

-----------------------------------------------------------------------------
(* Receiving.                                                               *)

\* eap_tls_init_request_assembly() and eap_tls_handle_fragmented_request(): "again"
\* for more fragments, "whole" for a message that has the L flag but one part.
Assembly(w, p) ==
    LET init == "L" \in p.flags /\ w.tls.rx = NoBuf
        buf == IF init THEN [cap |-> p.total, len |-> 0, pdu |-> p.pdu, whole |-> TRUE]
               ELSE w.tls.rx
        next == [buf EXCEPT !.len = @ + p.len,
                            !.whole = @ /\ buf.pdu = p.pdu /\ buf.len = p.from]
    IN  IF init /\ p.total = p.len THEN [r |-> "whole", rx |-> NoBuf]
        ELSE IF buf = NoBuf \/ (init /\ p.total < p.len) \/ next.len > buf.cap
        THEN [r |-> "error", rx |-> buf]
        ELSE IF "M" \in p.flags \/ (init /\ "M" \notin p.flags)
        THEN [r |-> "again", rx |-> next]
        ELSE [r |-> IF next.len = next.cap THEN "done" ELSE "error", rx |-> next]

\* From "proceed" on: a complete message, or the start.
Proceed(w, p, pdu, whole, good) ==
    LET clear == [w EXCEPT !.tls.tx = "none", !.tls.rx = NoBuf]
        start == [clear EXCEPT !.tls.tunnel = TRUE, !.tls.tx = "hello"]
        done == IF "S" \in p.flags THEN start
                ELSE IF pdu = "none" THEN clear
                ELSE HandleRx(clear, pdu, whole, good)
        sent == IF done.tls.tx = "none" THEN done ELSE SendResponse(done)
    IN  IF "S" \in p.flags /\ w.tls.tunnel THEN MethodError(clear)
        ELSE IF done.tls.failed THEN MethodError(sent)
        ELSE sent

\* eap_tls_validate_version().
BadVersion(w, p) == ~w.tls.negotiated /\ "S" \notin p.flags

\* eap_tls_handle_fragmented_response_ack().
FragmentAck(w) ==
    SendFragment([w EXCEPT !.tls.off = @ + w.tls.last_len, !.tls.last_len = 0,
                           !.tls.ack = FALSE])

\* eap_tls_common_handle_request().
HandleRequest(w, p, good) ==
    LET v == [w EXCEPT !.tls.negotiated = TRUE]
        a == Assembly(v, p)
    IN  IF w.tls.completed THEN w
        ELSE IF BadVersion(w, p) THEN MethodError(w)
        ELSE IF w.tls.ack
        THEN IF p.len # 0 \/ w.tls.last_len = 0 THEN MethodError(v) ELSE FragmentAck(v)
        ELSE IF "L" \notin p.flags /\ w.tls.rx = NoBuf
        THEN Proceed(v, p, p.pdu, p.from = 0 /\ p.len = p.total, good)
        ELSE IF a.r = "again" THEN SendEmpty([v EXCEPT !.tls.rx = a.rx])
        ELSE IF a.r = "error" THEN MethodError(v)
        ELSE IF a.r = "whole" THEN Proceed(v, p, p.pdu, TRUE, good)
        ELSE Proceed(v, p, a.rx.pdu, a.rx.whole, good)

\* Mutated form: a repeated request is not recognised.
RepeatIsNew(w, p, good) == HandleRequest(w, p, good)

\* eap_tls_common_handle_retransmit(): a fragment is acknowledged again, what was
\* sent is sent again; method_completed is not looked at.
HandleRetransmit(w, p, good) ==
    IF BadVersion(w, p) THEN MethodError(w)
    ELSE IF "M" \in p.flags
    THEN IF w.tls.rx = NoBuf THEN MethodError(w) ELSE SendEmpty(w)
    ELSE IF w.tls.tx = "none" THEN MethodError(w)
    ELSE IF Header + size[w.tls.tx] > Mtu THEN SendFragment(w)
    ELSE SendResponse(w)

\* __eap_handle_request(): the method does not see the other requests, which are
\* answered at once: identity, notification, and a NAK to another method.
HandleEapRequest(w, m, good) ==
    LET v == [w EXCEPT !.eap.last_id = m.id]
    IN  IF m.kind # "tls" THEN Respond(v, IF m.kind = "other" THEN "nak" ELSE m.kind, None)
        ELSE IF m.id = w.eap.last_id THEN HandleRetransmit(v, m.part, good)
        ELSE HandleRequest(v, m.part, good)

\* eapol_eap_complete_cb(), eap_reset(): the method is ready for a new start.
Complete(w) ==
    [w EXCEPT !.eap.done = "success", !.eap.method_success = FALSE, !.eap.timer = FALSE,
              !.tls = Reset]

\* Mutated form: a Success is believed whenever it comes.
BelieveSuccess(w, m) ==
    IF w.eap.discard \/ m.id \notin {w.eap.last_id, w.eap.last_id + 1} THEN w
    ELSE IF m.code = "success" THEN Complete(w)
    ELSE IF w.eap.method_success THEN w
    ELSE MethodError(w)

\* Success and Failure in eap_rx_packet(): the timer is removed first.
HandleResultPacket(w, m) ==
    LET off == [w EXCEPT !.eap.timer = FALSE]
    IN  IF w.eap.discard THEN w
        ELSE IF m.id \notin {w.eap.last_id, w.eap.last_id + 1} THEN off
        ELSE IF m.code = "success"
        THEN IF w.eap.method_success THEN Complete(w) ELSE off
        ELSE IF w.eap.method_success THEN off
        ELSE MethodError(off)

\* eap_rx_packet(): a peer that failed is freed.
RxPacket(good) ==
    /\ down # <<>>
    /\ good \/ (Has("badcert") /\ ~tls.ready) \/ (Has("badinner") /\ tls.ready)
    /\ down' = Tail(down)
    /\ IF eap.done = "fail" THEN UNCHANGED <<eap, tls, up>>
       ELSE IF Head(down).code = "request"
       THEN Become(HandleEapRequest(World, Head(down), good))
       ELSE Become(HandleResultPacket(World, Head(down)))
    /\ UNCHANGED <<env, size, srv, lost, extra>>

\* eap_complete_timeout().
CompleteTimeout ==
    /\ eap.timer /\ eap.done = "none"
    /\ Has("slow") \/ (down = <<>> /\ up = <<>> /\ srv.done # "none")
    /\ Become(IF eap.method_success THEN Complete(World) ELSE MethodError(World))
    /\ UNCHANGED <<env, size, srv, down, lost, extra>>

-----------------------------------------------------------------------------
(* External: the authentication server behind the access point.             *)

\* The next part of the message that is being sent.
PartOf(pdu, off) ==
    LET left == size[pdu] - off
        more == left > Chunk
        frag == size[pdu] > Chunk
        len == IF more THEN Chunk ELSE left
        first == off = 0
    IN  [pdu |-> pdu, from |-> off, len |-> len, total |-> size[pdu],
         flags |-> (IF more /\ ~(first /\ Has("noM")) THEN {"M"} ELSE {})
                   \cup (IF first /\ (frag \/ Has("redundant")) THEN {"L"} ELSE {})]

Request(kind, part) ==
    LET id == (srv.id + 1) % IdMod
    IN  /\ srv' = [srv EXCEPT !.id = id, !.kind = kind, !.req = part,
                              !.off = part.from + part.len, !.rx = NoBuf,
                              !.session = @ \/ part.pdu = "sfin"]
        /\ down' = Append(down, [code |-> "request", id |-> id, kind |-> kind,
                                 part |-> part])

Finish(code) ==
    /\ srv' = [srv EXCEPT !.done = code]
    /\ down' = Append(down, [code |-> code, kind |-> "result", part |-> None,
                             id |-> (srv.id + IF Has("incr") THEN 1 ELSE 0) % IdMod])

\* The message that follows one of the peer's.
Answer == [hello |-> "shello", cfin |-> "sfin", p2resp |-> "result"]

\* A complete TLS message of the peer; part of it missing is a TLS error.
ServerTls(pdu, whole) ==
    IF ~whole
    THEN /\ srv' = [srv EXCEPT !.done = "failure", !.whole = FALSE]
         /\ UNCHANGED down
    ELSE IF pdu = "alert" THEN Finish("failure")
    ELSE IF pdu = "result_ack" THEN Finish("success")
    ELSE Request("tls", PartOf(Answer[pdu], 0))

\* An answer to the request that is open.
ServerRx(m) ==
    LET p == m.part
        first == srv.rx = NoBuf
        buf == IF first THEN [NoBuf EXCEPT !.pdu = p.pdu] ELSE srv.rx
        next == [buf EXCEPT !.len = @ + p.len, !.whole = @ /\ buf.pdu = p.pdu /\ buf.len = p.from]
        sent == srv.req.pdu # "none" /\ srv.off = size[srv.req.pdu]
    IN  IF m.kind = "identity" /\ Has("nak") THEN Request("other", None)
        ELSE IF m.kind \in {"identity", "nak"}
        THEN Request("tls", [None EXCEPT !.flags = {"S"}])
        ELSE IF p.pdu = "none"
        THEN IF srv.req.pdu # "none" /\ ~sent
             THEN Request("tls", PartOf(srv.req.pdu, srv.off))
             ELSE IF srv.req.pdu = "sfin"
             THEN IF Has("peap") THEN Request("tls", PartOf("p2req", 0))
                  ELSE Finish("success")
             ELSE Finish("failure")
        ELSE IF "M" \in p.flags
        THEN /\ srv' = [srv EXCEPT !.id = (@ + 1) % IdMod, !.kind = "tls", !.req = None,
                                   !.rx = next]
             /\ down' = Append(down, [code |-> "request", id |-> (srv.id + 1) % IdMod,
                                      kind |-> "tls", part |-> None])
        ELSE ServerTls(p.pdu, next.whole /\ next.len = size[p.pdu])

\* A response with another identifier is dropped.
Answers(m) == m.id = srv.id /\ srv.done = "none"
ServerReceives ==
    /\ up # <<>>
    /\ up' = Tail(up)
    /\ IF ~Answers(Head(up)) THEN UNCHANGED <<srv, down>>
       ELSE ServerRx(IF Head(up).kind = "notify" THEN Head(srv.held) ELSE Head(up))
    /\ UNCHANGED <<env, size, eap, tls, lost, extra>>

\* The server sends a notification before it goes on.  Bound: one of them.
ServerNotifies ==
    /\ Has("notify") /\ srv.held = <<>>
    /\ up # <<>> /\ Answers(Head(up))
    /\ up' = Tail(up)
    /\ LET id == (srv.id + 1) % IdMod
       IN  /\ srv' = [srv EXCEPT !.id = id, !.kind = "notify", !.held = <<Head(up)>>]
           /\ down' = Append(down, [code |-> "request", id |-> id, kind |-> "notify",
                                    part |-> None])
    /\ UNCHANGED <<env, size, eap, tls, lost, extra>>

\* The server rejects the peer.
ServerRejects ==
    /\ Has("reject") /\ srv.done = "none" /\ up # <<>> /\ ~srv.session
    /\ Head(up).id = srv.id
    /\ up' = Tail(up)
    /\ Finish("failure")
    /\ UNCHANGED <<env, size, eap, tls, lost, extra>>

\* The requests whose answers the peer does not keep: the last one of the TLS handshake,
\* and a first fragment that is not recognised as a fragment.
Unrepeatable ==
    /\ ~Has("ackloss") /\ srv.kind = "tls"
    /\ \/ srv.req.pdu = "sfin" /\ srv.off = size["sfin"]
       \/ Has("noM") /\ srv.req.from = 0 /\ srv.req.len < srv.req.total

\* The server repeats its request: it got no answer, or is too early.
ServerRepeats ==
    /\ srv.done = "none" /\ Len(down) < 2
    /\ \/ down = <<>> /\ up = <<>> /\ UNCHANGED extra
          /\ (Unrepeatable => eap.last_id # srv.id)
       \/ extra < MaxExtra /\ extra' = extra + 1 /\ ~Unrepeatable
    /\ down' = Append(down, [code |-> "request", id |-> srv.id, kind |-> srv.kind,
                             part |-> srv.req])
    /\ UNCHANGED <<env, size, eap, tls, srv, up, lost>>

\* A Success that nobody asked for.
CannedSuccess ==
    /\ Has("canned") /\ extra < MaxExtra /\ Len(down) < 2 /\ ~srv.session
    /\ extra' = extra + 1
    /\ down' = Append(down, [code |-> "success", id |-> srv.id, kind |-> "result", part |-> None])
    /\ UNCHANGED <<env, size, eap, tls, srv, up, lost>>

Lose ==
    /\ lost < MaxLost /\ lost' = lost + 1
    /\ \/ down # <<>> /\ down' = Tail(down) /\ UNCHANGED up
       \/ up # <<>> /\ ~Unrepeatable /\ up' = Tail(up) /\ UNCHANGED down
    /\ UNCHANGED <<env, size, eap, tls, srv, extra>>

Next ==
    \/ \E good \in BOOLEAN : RxPacket(good)
    \/ CompleteTimeout
    \/ ServerReceives \/ ServerNotifies \/ ServerRejects \/ ServerRepeats \/ CannedSuccess
    \/ Lose

\* Packets that are not lost arrive, the server repeats what is not answered, the
\* timer of the main loop fires.
Fairness ==
    /\ WF_vars(\E good \in BOOLEAN : RxPacket(good)) /\ WF_vars(ServerReceives)
    /\ WF_vars(ServerRepeats /\ UNCHANGED extra) /\ WF_vars(CompleteTimeout)

Spec == Init /\ [][Next]_vars /\ Fairness

-----------------------------------------------------------------------------
Bufs == [cap : -1..100, len : 0..100, pdu : ClientPdus \cup ServerPdus \cup {"none"},
         whole : BOOLEAN]

\* Every variable has its type; a fragment that is to be acknowledged is not the last.
TypeOK ==
    /\ env \in Envs /\ lost \in 0..MaxLost /\ extra \in 0..MaxExtra
    /\ eap \in [last_id : -1..(IdMod - 1), method_success : BOOLEAN, timer : BOOLEAN,
                discard : BOOLEAN, done : {"none", "success", "fail"}, keys : BOOLEAN]
    /\ tls \in [negotiated : BOOLEAN, tunnel : BOOLEAN, ready : BOOLEAN,
                completed : BOOLEAN, failed : BOOLEAN, tx : ClientPdus \cup {"none"},
                off : 0..100, last_len : 0..100, ack : BOOLEAN, rx : Bufs]
    /\ tls.ack => tls.off + tls.last_len < size[tls.tx]
    /\ tls.rx # NoBuf => tls.rx.len <= tls.rx.cap
    /\ srv.rx \in Bufs /\ srv.done \in {"none", "success", "failure"}

\* TLS gets what TLS wrote: whatever is lost or repeated, and wherever the MTU cuts,
\* the message that is put together from fragments is the one that was taken apart,
\* on both sides ("The redundant TLS Message Length field in unfragmented packets
\* doesn't seem to effect the other server implementations").
Intact == srv.whole /\ tls.rx.whole

\* A peer that reports success has the keys of a tunnel that the server has too.
SuccessMeansKeys == eap.done = "success" => eap.keys /\ srv.session

\* Losses and repetitions are repaired: an authentication that both sides accept does
\* not fail.
NoFalseFailure ==
    env \cap {"badcert", "badinner", "badtlv", "reject", "slow"} = {} =>
        eap.done # "fail" /\ srv.done # "failure"

\* The authentication comes to an end on both sides, although Success and Failure are
\* sent once: after a Failure that is lost the access point ends the connection.
Ends ==
    /\ <>(srv.done # "none" \/ eap.done # "none")
    /\ (srv.done = "success") ~> (eap.done # "none")

\* The state of the peer is consistent, and a success it reports to eapol.c is backed by
\* the keys of a tunnel that the server has completed, whoever sends a Success packet.
Inv ==
    /\ TypeOK
    /\ SuccessMeansKeys

=============================================================================
