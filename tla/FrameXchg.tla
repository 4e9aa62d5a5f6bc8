----------------------------- MODULE FrameXchg ------------------------------
(***************************************************************************)
(* Frame exchanges on one wdev (src/src/frame-xchg.c): an action frame is  *)
(* transmitted off-channel, retried until it is acknowledged, and response *)
(* frames are awaited, all while the exchange is the head of the wiphy's   *)
(* radio work queue.                                                       *)
(*                                                                         *)
(* Three streams reach iwd from the kernel.  Answers of NL80211_CMD_FRAME  *)
(* and TX statuses share a socket and keep their order (evq), but a driver *)
(* may emit the status of a frame before the answer that carries its       *)
(* cookie.  Received frames use the socket of their watch group and come   *)
(* at any time (those of group 0 share the first socket: the model allows  *)
(* more orders for them).  The callback of an exchange runs client code,   *)
(* which may start and cancel exchanges; that calls no other callback, so  *)
(* one is active at most.                                                  *)
(***************************************************************************)
EXTENDS Integers, Sequences, SequencesExt, FiniteSets, Queues

CONSTANTS
    Fx,         \* struct frame_xchg_data objects, reused once they are freed
    Other,      \* a radio work item of another owner
    Kinds,      \* the parameters exchanges are started with, see KindSet
    MaxRetries, \* the retransmission limit, 15 in the code
    MaxBusy,    \* bound: EBUSY answers while a frame is being sent
    Cookies,    \* cookies of the kernel, reused once nobody refers to them;
                \* bound: transmissions in progress or with unread messages
    Envs        \* the environments explored, sets of EnvEvents

\* strange: the TX status may overtake the answer to the command; cancel:
\* clients cancel exchanges; busy, refused: CMD_FRAME may fail with EBUSY, or
\* with another error; frames: matching frames are received; other: other radio
\* work competes; oneshot: clients give no retry_interval, as anqp.c does.
EnvEvents == {"strange", "cancel", "busy", "refused", "frames", "other", "oneshot"}

\* retry_interval, resp_timeout: whether they are not 0
KindSet == [retry_interval : BOOLEAN, resp_timeout : BOOLEAN, retries_on_ack : Nat]

ASSUME KindsAssumption == Kinds \subseteq KindSet
ASSUME LimitAssumption == MaxRetries \in Nat \ {0} /\ MaxBusy \in Nat
ASSUME FxAssumption == Other \notin Fx /\ IsFiniteSet(Fx)
ASSUME CookieAssumption == Cookies \subseteq Nat \ {0} /\ IsFiniteSet(Cookies)
ASSUME EnvsAssumption == Envs \subseteq SUBSET EnvEvents

VARIABLES
    xchgs,      \* frame_xchgs, the exchanges that have not ended
    work,       \* wiphy->work, the head holds the radio
    fx,         \* the fields of each exchange
    call,       \* the active callback
    cmdq, evq,  \* the socket: commands to, messages from the kernel
    pend,       \* frames the kernel is transmitting, by cookie
    late,       \* cookies whose answer the driver has not sent yet
    busy,       \* EBUSY answers given to the current frame
    env,        \* what the environment does, chosen at the start
    own,        \* history: the cookie of the current transmission, 0: none yet
    heard,      \* history: that transmission was acknowledged
    outcome     \* history: how the exchange ended

kernelVars == <<pend, late, busy>>
histVars == <<own, heard, outcome>>
vars == <<xchgs, work, fx, call, cmdq, evq, kernelVars, env, histVars>>

\* l_new(): no field is set.
Blank == [kind |-> [retry_interval |-> FALSE, resp_timeout |-> FALSE,
                    retries_on_ack |-> 0],
          retry_cnt |-> 0, tx_cmd |-> FALSE, cookie |-> 0, have_cookie |-> FALSE,
          tx_acked |-> FALSE, early_status |-> FALSE, early_frame |-> FALSE,
          timeout |-> "none"]

Tx(f) == [cmd |-> "frame", fx |-> f]
WaitCancel(c) == [cmd |-> "wait_cancel", cookie |-> c]
Answer(f, err, c) == [ev |-> "answer", fx |-> f, err |-> err, cookie |-> c]
Status(c, ack) == [ev |-> "tx_status", cookie |-> c, ack |-> ack]

\* The answers to the frames of the exchanges of F.
AnswersTo(F) ==
    {Answer(f, err, c) : f \in F, err \in {"ok", "EBUSY", "error"}, c \in Cookies \cup {0}}

\* Callbacks: watch->cb of a response, which was saved early or not, and fx->cb,
\* after which the radio work is done.
NoCall == [fn |-> "none"]
RespCall(f, early) == [fn |-> "response", fx |-> f, early |-> early]
DoneCall(f) == [fn |-> "done", fx |-> f]
CallsOf(f) == {RespCall(f, TRUE), RespCall(f, FALSE), DoneCall(f)}

Init ==
    /\ xchgs = <<>> /\ work = <<>> /\ call = NoCall
    /\ fx = [f \in Fx |-> Blank]
    /\ cmdq = <<>> /\ evq = <<>>
    /\ pend = {} /\ late = {} /\ busy = 0
    /\ env \in Envs
    /\ own = [f \in Fx |-> 0]
    /\ heard = [f \in Fx |-> FALSE]
    /\ outcome = [f \in Fx |-> "free"]

-----------------------------------------------------------------------------
(* Building blocks.  The state of the exchanges is passed along as s, a      *)
(* record of fx, cmdq, own and heard, because one call may touch several.    *)

State == [fx |-> fx, cmdq |-> cmdq, own |-> own, heard |-> heard]

SetState(s) ==
    /\ fx' = s.fx /\ cmdq' = s.cmdq /\ own' = s.own /\ heard' = s.heard

\* The fields after a frame was handed to the kernel.
Transmitted(x) ==
    [x EXCEPT !.tx_cmd = TRUE, !.tx_acked = FALSE, !.have_cookie = FALSE,
              !.early_status = FALSE, !.retry_cnt = @ + 1]

\* frame_xchg_tx_retry(), also the do_work() of the radio work.  Its error path is
\* not reached: l_genl_family_send() fails without the nl80211 family only, and
\* there is no frame exchange before the module has it.
TxRetry(s, f) ==
    [fx |-> [s.fx EXCEPT ![f] = Transmitted(@)],
     cmdq |-> Append(s.cmdq, Tx(f)),
     own |-> [s.own EXCEPT ![f] = 0],
     heard |-> [s.heard EXCEPT ![f] = FALSE]]

\* frame_xchg_wait_cancel() for each of a set of exchanges: the commands it sends.
WaitCancelCmds(s, F) ==
    LET cookies == SetToSeq({s.fx[f].cookie : f \in {g \in F : s.fx[g].have_cookie}})
    IN  [k \in DOMAIN cookies |-> WaitCancel(cookies[k])]

\* frame_xchg_destroy(), with l_genl_family_cancel() of a pending command.
Destroy(s, F) ==
    [fx |-> [f \in Fx |-> IF f \in F THEN Blank ELSE s.fx[f]],
     cmdq |-> Without(s.cmdq, {Tx(f) : f \in F}) \o WaitCancelCmds(s, F),
     own |-> [f \in Fx |-> IF f \in F THEN 0 ELSE s.own[f]],
     heard |-> [f \in Fx |-> IF f \in F THEN FALSE ELSE s.heard[f]]]

\* wiphy_radio_work_done(): the item is destroyed and, if it held the radio,
\* the next one is started.
WorkDone(item) ==
    LET rest == Without(work, {item})
        s    == Destroy(State, {item} \cap Fx)
    IN  /\ work' = rest
        /\ SetState(IF work # <<>> /\ Head(work) = item
                          /\ rest # <<>> /\ Head(rest) \in Fx
                      THEN TxRetry(s, Head(rest)) ELSE s)
        /\ evq' = Without(evq, AnswersTo({item}))

\* Exactly one outcome is reported for an exchange.
Ends(f, how) ==
    outcome' = [outcome EXCEPT ![f] = IF @ = "none" THEN how ELSE "twice"]

\* frame_xchg_done() up to its call of fx->cb.
Done(s, f, how) ==
    /\ xchgs' = Without(xchgs, {f})
    /\ Ends(f, how)
    /\ call' = DoneCall(f)
    /\ SetState(s)

\* The fields before a frame is sent again although it was acknowledged.
OnceMore(x) ==
    [x EXCEPT !.kind.retries_on_ack = @ - 1, !.timeout = "none", !.retry_cnt = 0]

\* frame_xchg_listen_end_cb()
ListenEnd(s, f) ==
    \/ /\ s.fx[f].kind.retries_on_ack = 0
       /\ Done(s, f, "ok")
    \/ /\ s.fx[f].kind.retries_on_ack > 0
       /\ SetState(TxRetry([s EXCEPT !.fx[f] = OnceMore(@)], f))
       /\ call' = NoCall
       /\ UNCHANGED <<xchgs, outcome>>

RetryAllowed(x) == x.kind.retry_interval /\ x.retry_cnt < MaxRetries

\* Mutated form: the listen period has no end.
NoListenTimeout(x) == "none"

\* l_timeout_create_ms(fx->resp_timeout, frame_xchg_listen_end_cb, ...)
ListenTimeout(x) == "listen_end"

\* frame_xchg_tx_status(), called from the main loop.
TxStatus(s, f, acked) ==
    LET x == s.fx[f]
        over == [s EXCEPT !.fx[f].have_cookie = FALSE]
        cancelled == [over EXCEPT !.cmdq = @ \o WaitCancelCmds(s, {f})]
    IN  \/ /\ ~acked /\ ~RetryAllowed(x)
           /\ Done(cancelled, f, "ECOMM")
        \/ /\ ~acked /\ RetryAllowed(x)
           /\ SetState([cancelled EXCEPT !.fx[f] =
                           [@ EXCEPT !.early_frame = FALSE, !.timeout = "retry"]])
           /\ UNCHANGED <<xchgs, call, outcome>>
        \/ /\ acked /\ ~x.kind.resp_timeout
           /\ Done(over, f, "ok")
        \/ /\ acked /\ x.kind.resp_timeout /\ x.early_frame
           /\ SetState([over EXCEPT !.fx[f].tx_acked = TRUE])
           /\ call' = RespCall(f, TRUE)
           /\ UNCHANGED <<xchgs, outcome>>
        \/ /\ acked /\ x.kind.resp_timeout /\ ~x.early_frame
           /\ SetState([s EXCEPT !.fx[f] =
                           [@ EXCEPT !.tx_acked = TRUE, !.timeout = ListenTimeout(x)]])
           /\ UNCHANGED <<xchgs, call, outcome>>

-----------------------------------------------------------------------------
(* Clients: they run from the main loop and inside callbacks.               *)

\* wiphy_radio_work_insert() starts the work at once.
RadioFree == work = <<>>

\* frame_xchg_startv(): queued with the highest priority, so behind the running
\* work and the frames before it.  Memory freed by a callback is not allocated
\* again before the callback returns.  A frame that is shorter than its header is
\* answered at once and leaves no exchange; no caller builds one.
Start(f, kind) ==
    /\ outcome[f] = "free"
    /\ kind.retry_interval \/ "oneshot" \in env
    /\ call \notin CallsOf(f)
    /\ xchgs' = Append(xchgs, f)
    /\ outcome' = [outcome EXCEPT ![f] = "none"]
    /\ LET pos == IF Contains(work, Other) /\ Head(work) # Other
                    THEN Len(work) ELSE Len(work) + 1
           s == [State EXCEPT !.fx[f].kind = kind]
       IN  /\ work' = InsertAt(work, pos, f)
           /\ SetState(IF RadioFree THEN TxRetry(s, f) ELSE s)
    /\ UNCHANGED <<call, evq, kernelVars, env>>

\* frame_xchg_cancel(): an id that is not in the list is ignored.
Cancel(f) ==
    /\ "cancel" \in env
    /\ Contains(xchgs, f)
    /\ xchgs' = Without(xchgs, {f})
    /\ outcome' = [outcome EXCEPT ![f] = "free"]
    /\ WorkDone(f)
    /\ UNCHANGED <<call, kernelVars, env>>

\* frame_xchg_stop_wdev(): all exchanges are cancelled, from first to last.  A
\* waiting one that gets the radio meanwhile has its command withdrawn before
\* the socket is written.
StopWdev ==
    /\ "cancel" \in env
    /\ Len(xchgs) > 1
    /\ xchgs' = <<>>
    /\ work' = Without(work, ToSet(xchgs))
    /\ SetState(Destroy(State, ToSet(xchgs)))
    /\ evq' = Without(evq, AnswersTo(ToSet(xchgs)))
    /\ outcome' = [f \in Fx |-> IF Contains(xchgs, f) THEN "free" ELSE outcome[f]]
    /\ UNCHANGED <<call, kernelVars, env>>

OtherInsert ==
    /\ "other" \in env
    /\ ~Contains(work, Other)
    /\ work' = Append(work, Other)
    /\ UNCHANGED <<xchgs, fx, call, cmdq, evq, kernelVars, env, histVars>>

OtherDone ==
    /\ Contains(work, Other)
    /\ WorkDone(Other)
    /\ UNCHANGED <<xchgs, call, kernelVars, env, outcome>>

\* fx->cb returns: the rest of frame_xchg_done().
ReturnDone ==
    /\ call.fn = "done"
    /\ call' = NoCall
    /\ WorkDone(call.fx)
    /\ outcome' = [outcome EXCEPT ![call.fx] = IF @ = "none" THEN "lost" ELSE "free"]
    /\ UNCHANGED <<xchgs, kernelVars, env>>

\* Mutated form: an exchange that its own callback cancelled goes on.
AlwaysAlive(f) == TRUE

\* l_queue_find(frame_xchgs, frame_xchg_match_ptr, fx)
Alive(f) == Contains(xchgs, f)

\* watch->cb returns done: the rest of frame_xchg_resp_handle() and, for a frame
\* that was saved early, of frame_xchg_tx_status().
ReturnResponse(done) ==
    /\ call.fn = "response"
    /\ LET f == call.fx
       IN  \/ /\ ~Alive(f)
              /\ call' = NoCall
              /\ UNCHANGED <<xchgs, work, fx, cmdq, evq, histVars>>
           \/ /\ Alive(f) /\ done
              /\ xchgs' = Without(xchgs, {f})
              /\ outcome' = [outcome EXCEPT ![f] = "free"]
              /\ call' = NoCall
              /\ WorkDone(f)
           \/ /\ Alive(f) /\ ~done /\ call.early
              /\ ListenEnd(State, f)
              /\ UNCHANGED <<work, evq>>
           \/ /\ Alive(f) /\ ~done /\ ~call.early
              /\ call' = NoCall
              /\ UNCHANGED <<xchgs, work, fx, cmdq, evq, histVars>>
    /\ UNCHANGED <<kernelVars, env>>

-----------------------------------------------------------------------------
(* The main loop: messages, timers and received frames.                     *)

Idle == call = NoCall

\* Mutated form: the status that came early is taken for this frame's.
AnyEarlyStatus(x, c) == x.early_status

EarlyStatus(x, c) == x.early_status /\ c = x.cookie

\* frame_xchg_tx_cb()
TxCb ==
    /\ Idle /\ evq # <<>> /\ Head(evq).ev = "answer"
    /\ LET e == Head(evq)
           f == e.fx
           x == fx[f]
           s == [State EXCEPT !.fx[f].tx_cmd = FALSE]
           acked == EarlyStatus(x, e.cookie) /\ x.tx_acked
           known == [s EXCEPT !.fx[f] = [@ EXCEPT !.tx_acked = acked, !.have_cookie = TRUE,
                                                  !.cookie = e.cookie]]
       IN  \/ /\ e.err = "EBUSY"
              /\ SetState([s EXCEPT !.fx[f].timeout =
                                        IF x.kind.retry_interval THEN "retry" ELSE "disarmed"])
              /\ UNCHANGED <<xchgs, call, outcome>>
           \/ /\ e.err = "error"
              /\ Done(s, f, "error")
           \/ /\ e.err = "ok" /\ ~EarlyStatus(x, e.cookie)
              /\ SetState(known)
              /\ UNCHANGED <<xchgs, call, outcome>>
           \/ /\ e.err = "ok" /\ EarlyStatus(x, e.cookie)
              /\ TxStatus(known, f, acked)
    /\ evq' = Tail(evq)
    /\ UNCHANGED <<work, kernelVars, env>>

\* frame_xchg_match_running(), the first of the list that has transmitted
RunningXchgs == Without(xchgs, {f \in Fx : fx[f].retry_cnt = 0})

StatusExpected(x, c) == x.have_cookie /\ c = x.cookie /\ ~x.tx_acked

\* frame_xchg_mlme_notify()
MlmeNotify ==
    /\ Idle /\ evq # <<>> /\ Head(evq).ev = "tx_status"
    /\ evq' = Tail(evq)
    /\ LET e == Head(evq)
       IN  \/ /\ RunningXchgs = <<>>
              /\ UNCHANGED <<xchgs, call, fx, cmdq, histVars>>
           \/ /\ RunningXchgs # <<>>
              /\ LET f == Head(RunningXchgs)
                     x == fx[f]
                 IN  \/ StatusExpected(x, e.cookie) /\ TxStatus(State, f, e.ack)
                     \/ /\ ~x.have_cookie /\ ~x.tx_acked
                        /\ fx' = [fx EXCEPT ![f].tx_acked = e.ack,
                                            ![f].cookie = e.cookie,
                                            ![f].early_status = TRUE]
                        /\ UNCHANGED <<xchgs, call, cmdq, histVars>>
                     \/ /\ ~StatusExpected(x, e.cookie) /\ (x.have_cookie \/ x.tx_acked)
                        /\ UNCHANGED <<xchgs, call, fx, cmdq, histVars>>
    /\ UNCHANGED <<work, kernelVars, env>>

\* frame_xchg_timeout_cb() and frame_xchg_listen_end_cb()
RetryTimeout(f) ==
    /\ Idle /\ fx[f].timeout = "retry"
    /\ SetState(TxRetry([State EXCEPT !.fx[f].timeout = "none"], f))
    /\ UNCHANGED <<xchgs, work, call, evq, kernelVars, env, outcome>>

ListenTimeoutCb(f) ==
    /\ Idle /\ fx[f].timeout = "listen_end"
    /\ ListenEnd([State EXCEPT !.fx[f].timeout = "none"], f)
    /\ UNCHANGED <<work, evq, kernelVars, env>>

\* frame_xchg_resp_cb() of every exchange that has rx_watches, for a frame of
\* their peer: those without an ACK save the first such frame, whether or not
\* they have transmitted; the other one, which holds the radio, passes it on.
RxFrame ==
    LET watching == {f \in Fx : Contains(work, f) /\ fx[f].kind.resp_timeout}
        acked == {f \in watching : fx[f].tx_acked}
    IN  /\ Idle /\ "frames" \in env
        /\ watching # {}
        /\ fx' = [f \in Fx |-> IF f \in watching \ acked
                                 THEN [fx[f] EXCEPT !.early_frame = TRUE] ELSE fx[f]]
        /\ \/ acked = {} /\ UNCHANGED call
           \/ \E f \in acked : call' = RespCall(f, FALSE)
        /\ UNCHANGED <<xchgs, work, cmdq, evq, kernelVars, env, histVars>>

-----------------------------------------------------------------------------
(* The kernel, as frame-xchg.c uses it.  external                            *)

Reply(e) == evq' = Append(evq, e)

Referenced(c) ==
    \/ c \in pend \cup late
    \/ \E f \in Fx : c \in {own[f], fx[f].cookie}
    \/ \E k \in DOMAIN evq : c = evq[k].cookie
    \/ \E k \in DOMAIN cmdq : cmdq[k] = WaitCancel(c)

Unused == {c \in Cookies : ~Referenced(c)}

NextCookie == CHOOSE c \in Unused : TRUE

\* NL80211_CMD_FRAME: refused, or the frame is being transmitted.
KernelFrame ==
    /\ cmdq # <<>> /\ Head(cmdq).cmd = "frame"
    /\ Unused # {}
    /\ cmdq' = Tail(cmdq)
    /\ LET f == Head(cmdq).fx
       IN  \/ /\ "busy" \in env /\ busy < MaxBusy
              /\ Reply(Answer(f, "EBUSY", 0))
              /\ busy' = busy + 1
              /\ UNCHANGED <<pend, late, own>>
           \/ /\ "refused" \in env
              /\ Reply(Answer(f, "error", 0))
              /\ UNCHANGED <<pend, late, busy, own>>
           \/ /\ pend' = pend \cup {NextCookie}
              /\ own' = [own EXCEPT ![f] = NextCookie]
              /\ busy' = 0
              /\ \/ Reply(Answer(f, "ok", NextCookie)) /\ UNCHANGED late
                 \/ "strange" \in env /\ late' = late \cup {NextCookie} /\ UNCHANGED evq
    /\ UNCHANGED <<xchgs, work, fx, call, env, heard, outcome>>

\* The answer that the TX status overtook; nobody waits for that of a command
\* that was cancelled.
KernelLateAnswer(c) ==
    /\ c \in late \ pend
    /\ late' = late \ {c}
    /\ IF \E f \in Fx : own[f] = c
         THEN Reply(Answer(CHOOSE f \in Fx : own[f] = c, "ok", c))
         ELSE UNCHANGED evq
    /\ UNCHANGED <<xchgs, work, fx, call, cmdq, pend, busy, env, histVars>>

\* The transmission ends.
KernelStatus(c, ack) ==
    /\ c \in pend
    /\ pend' = pend \ {c}
    /\ Reply(Status(c, ack))
    /\ heard' = [f \in Fx |-> heard[f] \/ (ack /\ own[f] = c)]
    /\ UNCHANGED <<xchgs, work, fx, call, cmdq, late, busy, env, own, outcome>>

\* NL80211_CMD_FRAME_WAIT_CANCEL; a transmission that is cut short may still be
\* reported.
KernelWaitCancel ==
    /\ cmdq # <<>> /\ Head(cmdq).cmd = "wait_cancel"
    /\ LET c == Head(cmdq).cookie
       IN  /\ pend' = pend \ {c}
           /\ \/ c \in pend /\ Reply(Status(c, FALSE))
              \/ UNCHANGED evq
    /\ cmdq' = Tail(cmdq)
    /\ UNCHANGED <<xchgs, work, fx, call, late, busy, env, histVars>>

-----------------------------------------------------------------------------
Next ==
    \/ \E f \in Fx, kind \in Kinds : Start(f, kind)
    \/ \E f \in Fx : Cancel(f)
    \/ StopWdev
    \/ OtherInsert
    \/ OtherDone
    \/ ReturnDone
    \/ \E done \in BOOLEAN : ReturnResponse(done)
    \/ TxCb
    \/ MlmeNotify
    \/ \E f \in Fx : RetryTimeout(f)
    \/ \E f \in Fx : ListenTimeoutCb(f)
    \/ RxFrame
    \/ KernelFrame
    \/ \E c \in Cookies : KernelLateAnswer(c)
    \/ \E c \in Cookies, ack \in BOOLEAN : KernelStatus(c, ack)
    \/ KernelWaitCancel

Spec == Init /\ [][Next]_vars

\* Callbacks return and the main loop serves every source of events that stays
\* ready, however many frames are received (strong fairness: it is not ready to
\* while a callback runs); the kernel handles commands and reports every
\* transmission, and other work releases the radio.
Fairness ==
    /\ WF_vars(ReturnDone)
    /\ WF_vars(\E done \in BOOLEAN : ReturnResponse(done))
    /\ SF_vars(TxCb)
    /\ SF_vars(MlmeNotify)
    /\ SF_vars(\E f \in Fx : RetryTimeout(f) \/ ListenTimeoutCb(f))
    /\ WF_vars(KernelFrame)
    /\ WF_vars(KernelWaitCancel)
    /\ \A c \in Cookies : WF_vars(KernelLateAnswer(c))
    /\ \A c \in Cookies : WF_vars(\E ack \in BOOLEAN : KernelStatus(c, ack))
    /\ WF_vars(Idle /\ OtherDone)

FairSpec == Spec /\ Fairness

-----------------------------------------------------------------------------
CookieOr0 == Cookies \cup {0}
Timeouts == {"none", "retry", "listen_end", "disarmed"}
Outcomes == {"free", "none", "ok", "ECOMM", "error"}

Exchanges ==
    [kind : KindSet, retry_cnt : Nat, tx_cmd : BOOLEAN, cookie : CookieOr0,
     have_cookie : BOOLEAN, tx_acked : BOOLEAN, early_status : BOOLEAN,
     early_frame : BOOLEAN, timeout : Timeouts]
Commands == {Tx(f) : f \in Fx} \cup {WaitCancel(c) : c \in Cookies}
Messages == AnswersTo(Fx) \cup {Status(c, ack) : c \in Cookies, ack \in BOOLEAN}
Callbacks == {NoCall} \cup UNION {CallsOf(f) : f \in Fx}

TypeOK ==
    /\ xchgs \in Seq(Fx) /\ IsInjective(xchgs)
    /\ work \in Seq(Fx \cup {Other}) /\ IsInjective(work)
    /\ fx \in [Fx -> Exchanges]
    /\ call \in Callbacks
    /\ cmdq \in Seq(Commands)
    /\ evq \in Seq(Messages)
    /\ pend \subseteq Cookies /\ late \subseteq Cookies
    /\ busy \in 0 .. MaxBusy
    /\ env \in Envs
    /\ own \in [Fx -> CookieOr0]
    /\ heard \in [Fx -> BOOLEAN]
    /\ outcome \in [Fx -> Outcomes]

HoldsRadio(f) == work # <<>> /\ Head(work) = f

\* Only the exchange that holds the radio transmits: one that waits for its
\* turn has no command, no timer and no transmission, and what the running one
\* waits for is exactly one of a command, a TX status and a timer.
OneAtATime ==
    \A f \in Fx :
        LET x == fx[f]
        IN  /\ x.retry_cnt > 0 => HoldsRadio(f)
            /\ x.retry_cnt = 0 => ~x.tx_cmd /\ x.timeout = "none" /\ ~x.have_cookie
            /\ ~(x.tx_cmd /\ x.timeout # "none")

\* An exchange counts as acknowledged, and ends successfully, only on the
\* status of its own latest transmission: not on that of an earlier one, nor of
\* a cancelled exchange, in whatever order answers and statuses arrive.
OwnAck ==
    \A f \in Fx :
        /\ fx[f].have_cookie => fx[f].cookie = own[f]
        /\ fx[f].have_cookie /\ fx[f].tx_acked => heard[f]
        /\ outcome[f] = "ok" => heard[f]
        /\ outcome[f] = "ECOMM" => ~heard[f]

\* The client learns of one end of an exchange: never of a second one, and of
\* none after it cancelled the exchange, or answered true to a response.
OneOutcome == \A f \in Fx : outcome[f] # "twice"

\* An exchange does not hold the radio for ever: it ends.
ExchangesEnd == \A f \in Fx : Contains(work, f) ~> ~Contains(work, f)

-----------------------------------------------------------------------------
(* Why they hold.  What follows is inductive: FrameXchgProofs.               *)

\* The list, the radio work queue, the active callback and the outcome of an exchange
\* agree on whether it is free, under way or has ended.
Lifecycle ==
    \A f \in Fx :
        /\ outcome[f] = "free" <=> f \notin ToSet(work)
        /\ outcome[f] = "free" => fx[f] = Blank
        /\ outcome[f] = "none" <=> f \in ToSet(xchgs)
        /\ outcome[f] \notin {"free", "none"} <=> call = DoneCall(f)
        /\ call = DoneCall(f) => ~fx[f].tx_cmd /\ fx[f].retry_cnt > 0
        /\ call = RespCall(f, TRUE) /\ outcome[f] = "none" => heard[f] /\ ~fx[f].tx_cmd

\* What an exchange knows of its transmission is true of it: which cookie it has,
\* whether it has ended and how.
Knowledge ==
    \A f \in Fx :
        LET x == fx[f]
        IN  /\ x.retry_cnt = 0 => own[f] = 0 /\ ~x.tx_acked
            /\ own[f] = 0 => ~heard[f]
            /\ own[f] \in late => x.tx_cmd
            /\ own[f] \in pend => /\ ~heard[f]
                                  /\ ~(x.tx_cmd /\ x.early_status /\ x.cookie = own[f])
                                  /\ outcome[f] # "ECOMM"
            /\ x.have_cookie => ~x.tx_cmd /\ own[f] # 0
            /\ x.tx_cmd /\ x.early_status /\ x.cookie = own[f] /\ own[f] # 0 =>
                  x.tx_acked = heard[f]
            /\ x.timeout = "listen_end" => heard[f]

\* A command that was not read yet is the only one of its exchange, which awaits the
\* answer; so is an answer that was not read yet.
InFlight ==
    /\ \A f \in Fx :
          /\ Tx(f) \in ToSet(cmdq) => fx[f].tx_cmd /\ own[f] = 0
          /\ Once(cmdq, {Tx(f)})
          /\ Once(evq, AnswersTo({f}))
    /\ \A e \in ToSet(evq) : e.ev = "answer" =>
          /\ fx[e.fx].tx_cmd
          /\ Tx(e.fx) \notin ToSet(cmdq)
          /\ own[e.fx] \notin late
          /\ IF e.err = "ok" THEN own[e.fx] = e.cookie /\ e.cookie # 0 ELSE own[e.fx] = 0

\* A status that was not read yet says what happened to its transmission.
Statuses ==
    \A e \in ToSet(evq) : e.ev = "tx_status" =>
        /\ e.cookie \notin pend
        /\ \A f \in Fx : own[f] = e.cookie => heard[f] = e.ack

\* A frame is retransmitted up to the limit; only EBUSY answers add to that.
RetriesBounded ==
    /\ \A f \in Fx :
          /\ fx[f].retry_cnt <= MaxRetries + MaxBusy
          /\ Tx(f) \in ToSet(cmdq) => fx[f].retry_cnt <= MaxRetries + busy
          /\ fx[f].timeout = "retry" => fx[f].retry_cnt < MaxRetries + busy
    /\ \A e \in ToSet(evq) : e.ev = "answer" /\ e.err = "EBUSY" =>
          fx[e.fx].retry_cnt < MaxRetries + busy

\* The exchange on the air and the statuses that arrive belong together: what
\* frame_xchg_mlme_notify() and frame_xchg_tx_cb() conclude is about the transmission
\* of the exchange that holds the radio.
IInv ==
    /\ TypeOK
    /\ OneAtATime
    /\ OwnAck
    /\ Lifecycle
    /\ Knowledge
    /\ InFlight
    /\ Statuses
    /\ RetriesBounded

=============================================================================
