-------------------------- MODULE FrameXchgProofs ---------------------------
(***************************************************************************)
(* Acknowledgements are never taken from another transmission and every    *)
(* exchange ends once: proofs of the invariants of FrameXchg for any       *)
(* number of exchanges, cookies and retries, and in every environment.     *)
(*                                                                         *)
(* The invariant is split by exchange and by message.  A step changes one  *)
(* exchange (OneChanges) or removes some and starts the next one           *)
(* (RemovalLemma); the kernel's steps change the messages.                 *)
(***************************************************************************)
EXTENDS FrameXchg, QueueTheorems

\* The part of the invariant that is about one exchange.
XchgOk(f) ==
    LET x == fx[f]
    IN  /\ x.retry_cnt > 0 => HoldsRadio(f)
        /\ x.retry_cnt = 0 =>
              /\ ~x.tx_cmd /\ x.timeout = "none" /\ ~x.have_cookie
              /\ own[f] = 0 /\ ~x.tx_acked
        /\ ~(x.tx_cmd /\ x.timeout # "none")
        /\ x.have_cookie => x.cookie = own[f] /\ ~x.tx_cmd /\ own[f] # 0
        /\ x.have_cookie /\ x.tx_acked => heard[f]
        /\ outcome[f] = "ok" => heard[f]
        /\ outcome[f] = "ECOMM" => ~heard[f]
        /\ outcome[f] = "free" <=> f \notin ToSet(work)
        /\ outcome[f] = "free" => fx[f] = Blank
        /\ outcome[f] = "none" <=> f \in ToSet(xchgs)
        /\ outcome[f] \notin {"free", "none"} <=> call = DoneCall(f)
        /\ call = DoneCall(f) => ~x.tx_cmd /\ x.retry_cnt > 0
        /\ call = RespCall(f, TRUE) /\ outcome[f] = "none" => heard[f] /\ ~x.tx_cmd
        /\ own[f] = 0 => ~heard[f]
        /\ own[f] \in late => x.tx_cmd
        /\ own[f] \in pend => /\ ~heard[f]
                              /\ ~(x.tx_cmd /\ x.early_status /\ x.cookie = own[f])
                              /\ outcome[f] # "ECOMM"
        /\ x.tx_cmd /\ x.early_status /\ x.cookie = own[f] /\ own[f] # 0 =>
              x.tx_acked = heard[f]
        /\ x.timeout = "listen_end" => heard[f]
        /\ Tx(f) \in ToSet(cmdq) => x.tx_cmd /\ own[f] = 0

\* An exchange transmits a bounded number of times.
CountOk(f) ==
    /\ fx[f].retry_cnt <= MaxRetries + MaxBusy
    /\ Tx(f) \in ToSet(cmdq) => fx[f].retry_cnt <= MaxRetries + busy
    /\ fx[f].timeout = "retry" => fx[f].retry_cnt < MaxRetries + busy

\* It has one command and one answer under way.
OnceOk(f) == Once(cmdq, {Tx(f)}) /\ Once(evq, AnswersTo({f}))

\* The part of the invariant that is about an answer.
AnswerOk(e) ==
    /\ fx[e.fx].tx_cmd
    /\ Tx(e.fx) \notin ToSet(cmdq)
    /\ own[e.fx] \notin late
    /\ IF e.err = "ok" THEN own[e.fx] = e.cookie /\ e.cookie # 0 ELSE own[e.fx] = 0
    /\ e.err = "EBUSY" => fx[e.fx].retry_cnt < MaxRetries + busy

\* The part of the invariant that is about a status.
StatusOk(e) ==
    /\ e.cookie \notin pend
    /\ \A f \in Fx : own[f] = e.cookie => heard[f] = e.ack

MessageOk(e) ==
    /\ e.ev = "answer" => AnswerOk(e)
    /\ e.ev = "tx_status" => StatusOk(e)

Whole ==
    /\ TypeOK
    /\ \A f \in Fx : XchgOk(f) /\ CountOk(f) /\ OnceOk(f)
    /\ \A e \in ToSet(evq) : MessageOk(e)

\* The parts make the whole.
LEMMA Parts == IInv <=> Whole
  <1>1. (\A f \in Fx : XchgOk(f)) <=>
           /\ OneAtATime /\ OwnAck /\ Lifecycle /\ Knowledge
           /\ \A f \in Fx : Tx(f) \in ToSet(cmdq) => fx[f].tx_cmd /\ own[f] = 0
    BY DEF XchgOk, OneAtATime, OwnAck, Lifecycle, Knowledge
  <1>2. RetriesBounded <=> /\ \A f \in Fx : CountOk(f)
                           /\ \A e \in ToSet(evq) : e.ev = "answer" /\ e.err = "EBUSY" =>
                                 fx[e.fx].retry_cnt < MaxRetries + busy
    BY DEF RetriesBounded, CountOk
  <1>3. Statuses <=> \A e \in ToSet(evq) : e.ev = "tx_status" => StatusOk(e)
    BY DEF Statuses, StatusOk
  <1>4. InFlight /\ (\A e \in ToSet(evq) : e.ev = "answer" /\ e.err = "EBUSY" =>
                        fx[e.fx].retry_cnt < MaxRetries + busy)
        <=> /\ \A f \in Fx : Tx(f) \in ToSet(cmdq) => fx[f].tx_cmd /\ own[f] = 0
            /\ \A f \in Fx : OnceOk(f)
            /\ \A e \in ToSet(evq) : e.ev = "answer" => AnswerOk(e)
    BY DEF InFlight, OnceOk, AnswerOk
  <1> QED
    BY <1>1, <1>2, <1>3, <1>4 DEF IInv, Whole, MessageOk

\* In the next state, too.
LEMMA PartsNext == Whole' <=> IInv'
  BY Parts, PTL

-----------------------------------------------------------------------------
(* The fields of records.                                                   *)

\* Commands.
LEMMA CommandFields ==
    /\ \A f \in Fx : Tx(f) \in Commands /\ Tx(f).cmd = "frame" /\ Tx(f).fx = f
    /\ \A f, g \in Fx : Tx(f) = Tx(g) => f = g
    /\ \A c \in Cookies : WaitCancel(c) \in Commands /\ WaitCancel(c).cmd = "wait_cancel"
    /\ \A c \in Cookies, f \in Fx : WaitCancel(c) # Tx(f)
    /\ \A m \in Commands : m.cmd = "frame" => m.fx \in Fx /\ m = Tx(m.fx)
    /\ \A m \in Commands : m.cmd = "wait_cancel" => m.cookie \in Cookies /\ m = WaitCancel(m.cookie)
  <1>1. \A f \in Fx : Tx(f) \in Commands /\ Tx(f).cmd = "frame" /\ Tx(f).fx = f
    BY DEF Commands, Tx
  <1>2. \A c \in Cookies : /\ WaitCancel(c) \in Commands /\ WaitCancel(c).cmd = "wait_cancel"
                           /\ WaitCancel(c).cookie = c
    BY DEF Commands, WaitCancel
  <1>3. ASSUME NEW m \in Commands
        PROVE  (\E f \in Fx : m = Tx(f)) \/ (\E c \in Cookies : m = WaitCancel(c))
    BY DEF Commands
  <1> QED
    BY <1>1, <1>2, <1>3

\* Answers and statuses.
LEMMA MessageFields ==
    /\ \A e \in Messages : e.ev \in {"answer", "tx_status"}
    /\ \A e \in Messages : e.ev = "answer" =>
          /\ e.fx \in Fx /\ e.err \in {"ok", "EBUSY", "error"} /\ e.cookie \in CookieOr0
    /\ \A e \in Messages : \A F : e \in AnswersTo(F) <=> e.ev = "answer" /\ e.fx \in F
    /\ \A e \in Messages : e.ev = "tx_status" => e.cookie \in Cookies /\ e.ack \in BOOLEAN
  <1>1. \A e \in AnswersTo(Fx) :
           /\ e.ev = "answer" /\ e.fx \in Fx /\ e.err \in {"ok", "EBUSY", "error"}
           /\ e.cookie \in CookieOr0
    BY DEF AnswersTo, Answer, CookieOr0
  <1>2. \A e \in Messages : e \notin AnswersTo(Fx) =>
           e.ev = "tx_status" /\ e.cookie \in Cookies /\ e.ack \in BOOLEAN
    BY DEF Messages, Status
  <1>3. ASSUME NEW e \in Messages, NEW F PROVE e \in AnswersTo(F) <=> e.ev = "answer" /\ e.fx \in F
    <2>1. ASSUME e \in AnswersTo(F) PROVE e.ev = "answer" /\ e.fx \in F
      BY <2>1 DEF AnswersTo, Answer
    <2>2. ASSUME e.ev = "answer", e.fx \in F PROVE e \in AnswersTo(F)
      <3>1. e \in AnswersTo(Fx)
        BY <1>2, <2>2
      <3>2. PICK f \in Fx, err \in {"ok", "EBUSY", "error"}, c \in Cookies \cup {0} :
               e = Answer(f, err, c)
        BY <3>1 DEF AnswersTo
      <3>3. f = e.fx
        BY <3>2 DEF Answer
      <3> QED
        BY <3>2, <3>3, <2>2 DEF AnswersTo
    <2> QED
      BY <2>1, <2>2
  <1> QED
    BY <1>1, <1>2, <1>3

\* The messages the kernel sends.
LEMMA MessageTypes ==
    /\ \A f \in Fx, err \in {"ok", "EBUSY", "error"}, c \in CookieOr0 :
          /\ Answer(f, err, c) \in Messages
          /\ Answer(f, err, c).ev = "answer" /\ Answer(f, err, c).fx = f
          /\ Answer(f, err, c).err = err /\ Answer(f, err, c).cookie = c
    /\ \A c \in Cookies, ack \in BOOLEAN :
          /\ Status(c, ack) \in Messages
          /\ Status(c, ack).ev = "tx_status"
          /\ Status(c, ack).cookie = c /\ Status(c, ack).ack = ack
  <1>1. ASSUME NEW f \in Fx, NEW err \in {"ok", "EBUSY", "error"}, NEW c \in CookieOr0
        PROVE  /\ Answer(f, err, c) \in Messages
               /\ Answer(f, err, c).ev = "answer" /\ Answer(f, err, c).fx = f
               /\ Answer(f, err, c).err = err /\ Answer(f, err, c).cookie = c
    <2>1. Answer(f, err, c) \in AnswersTo(Fx)
      BY DEF AnswersTo, CookieOr0
    <2> QED
      BY <2>1 DEF Messages, Answer
  <1>2. ASSUME NEW c \in Cookies, NEW ack \in BOOLEAN
        PROVE  /\ Status(c, ack) \in Messages
               /\ Status(c, ack).ev = "tx_status"
               /\ Status(c, ack).cookie = c /\ Status(c, ack).ack = ack
    <2>1. Status(c, ack) \in Messages
      BY DEF Messages
    <2> QED
      BY <2>1 DEF Status
  <1> QED
    BY <1>1, <1>2

\* Callbacks.
LEMMA CallFields ==
    /\ NoCall.fn = "none" /\ NoCall \in Callbacks
    /\ \A f \in Fx : /\ CallsOf(f) \subseteq Callbacks
                     /\ NoCall \notin CallsOf(f)
                     /\ \A g \in Fx : g # f => CallsOf(f) \cap CallsOf(g) = {}
                     /\ DoneCall(f).fn = "done" /\ DoneCall(f).fx = f
                     /\ \A early \in BOOLEAN : RespCall(f, early) # DoneCall(f)
                     /\ RespCall(f, TRUE) # RespCall(f, FALSE)
                     /\ DoneCall(f) \in CallsOf(f)
                     /\ \A early \in BOOLEAN : RespCall(f, early) \in CallsOf(f)
    /\ \A c \in Callbacks : c.fn = "done" => c.fx \in Fx /\ c = DoneCall(c.fx)
    /\ \A c \in Callbacks : c.fn = "response" =>
          c.fx \in Fx /\ c.early \in BOOLEAN /\ c = RespCall(c.fx, c.early)
  <1>1. NoCall.fn = "none"
    BY DEF NoCall
  <1>2. \A f \in Fx : DoneCall(f).fn = "done" /\ DoneCall(f).fx = f
    BY DEF DoneCall
  <1>3. \A f \in Fx, early \in BOOLEAN :
           /\ RespCall(f, early).fn = "response" /\ RespCall(f, early).fx = f
           /\ RespCall(f, early).early = early
    BY DEF RespCall
  <1>4. \A f \in Fx : \A c : c \in CallsOf(f) <=>
           c = DoneCall(f) \/ \E early \in BOOLEAN : c = RespCall(f, early)
    BY DEF CallsOf
  <1>5. \A c : c \in Callbacks <=> c = NoCall \/ \E f \in Fx : c \in CallsOf(f)
    BY DEF Callbacks
  <1>6. ASSUME NEW f \in Fx
        PROVE  /\ CallsOf(f) \subseteq Callbacks
               /\ \A c \in CallsOf(f) : c.fx = f /\ c.fn # "none"
               /\ DoneCall(f) \in CallsOf(f)
               /\ \A early \in BOOLEAN : RespCall(f, early) \in CallsOf(f)
               /\ \A early \in BOOLEAN : RespCall(f, early) # DoneCall(f)
               /\ RespCall(f, TRUE) # RespCall(f, FALSE)
    <2>1. CallsOf(f) \subseteq Callbacks
      BY <1>5
    <2>2. ASSUME NEW c \in CallsOf(f) PROVE c.fx = f /\ c.fn # "none"
      BY <1>2, <1>3, <1>4
    <2>3. DoneCall(f) \in CallsOf(f) /\ \A early \in BOOLEAN : RespCall(f, early) \in CallsOf(f)
      BY <1>4
    <2>4. \A early \in BOOLEAN : RespCall(f, early) # DoneCall(f)
      BY <1>2, <1>3
    <2>5. RespCall(f, TRUE) # RespCall(f, FALSE)
      <3>1. RespCall(f, TRUE).early = TRUE /\ RespCall(f, FALSE).early = FALSE
        BY DEF RespCall
      <3> QED
        BY <3>1, Zenon
    <2> QED
      BY <2>1, <2>2, <2>3, <2>4, <2>5
  <1>7. ASSUME NEW f \in Fx
        PROVE  NoCall \notin CallsOf(f) /\ \A g \in Fx : g # f => CallsOf(f) \cap CallsOf(g) = {}
    <2>1. NoCall \notin CallsOf(f)
      BY <1>1, <1>6
    <2>2. ASSUME NEW g \in Fx, NEW c, c \in CallsOf(f), c \in CallsOf(g) PROVE f = g
      BY <1>6, <2>2
    <2> QED
      BY <2>1, <2>2
  <1>8. ASSUME NEW c \in Callbacks
        PROVE  /\ c.fn = "done" => c.fx \in Fx /\ c = DoneCall(c.fx)
               /\ c.fn = "response" =>
                     c.fx \in Fx /\ c.early \in BOOLEAN /\ c = RespCall(c.fx, c.early)
    BY <1>1, <1>2, <1>3, <1>4, <1>5
  <1>9. NoCall \in Callbacks
    BY <1>5
  <1> QED
    BY <1>1, <1>2, <1>6, <1>7, <1>8, <1>9

\* An exchange that was not started yet.
LEMMA BlankFields ==
    /\ Blank \in Exchanges
    /\ Blank.retry_cnt = 0 /\ ~Blank.tx_cmd /\ Blank.cookie = 0 /\ ~Blank.have_cookie
    /\ ~Blank.tx_acked /\ ~Blank.early_status /\ Blank.timeout = "none"
  BY DEF Blank, Exchanges, KindSet, CookieOr0, Timeouts

\* An exchange that hands a frame to the kernel.
LEMMA TransmittedFields ==
    ASSUME NEW x \in Exchanges
    PROVE  /\ Transmitted(x) \in Exchanges
           /\ Transmitted(x).retry_cnt = x.retry_cnt + 1 /\ Transmitted(x).retry_cnt > 0
           /\ Transmitted(x).tx_cmd /\ ~Transmitted(x).tx_acked
           /\ ~Transmitted(x).have_cookie /\ ~Transmitted(x).early_status
           /\ Transmitted(x).timeout = x.timeout
  <1>1. x.retry_cnt \in Nat /\ x.retry_cnt + 1 \in Nat
    BY DEF Exchanges
  <1> DEFINE y == Transmitted(x)
  <1>3. y \in Exchanges
    BY <1>1 DEF Exchanges, Transmitted
  <1>4. y.retry_cnt = x.retry_cnt + 1
    BY DEF Exchanges, Transmitted
  <1>5. y.tx_cmd = TRUE /\ y.tx_acked = FALSE /\ y.have_cookie = FALSE /\ y.early_status = FALSE
    BY DEF Exchanges, Transmitted
  <1>6. y.timeout = x.timeout
    BY DEF Exchanges, Transmitted
  <1> HIDE DEF y
  <1> QED
    BY <1>1, <1>3, <1>4, <1>5, <1>6 DEF y

-----------------------------------------------------------------------------
(* One exchange changes.                                                    *)

\* A callback of f, or none, is active.
CallOf(c, f) == c = NoCall \/ c \in CallsOf(f)

\* It is then no callback of another exchange.
LEMMA CallLemma ==
    ASSUME NEW f \in Fx, NEW g \in Fx, g # f, NEW c, CallOf(c, f)
    PROVE  c # DoneCall(g) /\ c # RespCall(g, TRUE) /\ c # RespCall(g, FALSE)
  <1>1. CallsOf(f) \cap CallsOf(g) = {} /\ NoCall \notin CallsOf(g)
    BY CallFields
  <1>2. DoneCall(g) \in CallsOf(g) /\ RespCall(g, TRUE) \in CallsOf(g) /\ RespCall(g, FALSE) \in CallsOf(g)
    BY CallFields
  <1> QED
    BY <1>1, <1>2 DEF CallOf

\* No callback is active.
LEMMA NoCallLemma ==
    /\ NoCall \in Callbacks
    /\ \A g \in Fx : NoCall # DoneCall(g) /\ NoCall # RespCall(g, TRUE) /\ NoCall # RespCall(g, FALSE)
  <1>1. NoCall \in Callbacks /\ \A g \in Fx : NoCall \notin CallsOf(g)
    BY CallFields
  <1>2. \A g \in Fx : DoneCall(g) \in CallsOf(g) /\ RespCall(g, TRUE) \in CallsOf(g)
                     /\ RespCall(g, FALSE) \in CallsOf(g)
    BY CallFields
  <1> QED
    BY <1>1, <1>2

\* Of the others nothing changes.
OthersSame(f) ==
    /\ UNCHANGED <<work, pend, late, busy, env>>
    /\ CallOf(call, f) /\ CallOf(call', f)
    /\ \A g \in Fx \ {f} :
          /\ fx'[g] = fx[g] /\ own'[g] = own[g] /\ heard'[g] = heard[g]
          /\ outcome'[g] = outcome[g]
          /\ g \in ToSet(xchgs') <=> g \in ToSet(xchgs)
          /\ Tx(g) \in ToSet(cmdq') <=> Tx(g) \in ToSet(cmdq)
          /\ Once(cmdq, {Tx(g)}) => Once(cmdq', {Tx(g)})
    /\ ToSet(evq') \subseteq ToSet(evq)
    /\ \A g \in Fx : Once(evq, AnswersTo({g})) => Once(evq', AnswersTo({g}))

\* The other exchanges keep the invariant.
LEMMA OthersLemma ==
    ASSUME NEW f \in Fx, OthersSame(f), NEW g \in Fx, g # f,
           XchgOk(g), CountOk(g), OnceOk(g)
    PROVE  XchgOk(g)' /\ CountOk(g)' /\ OnceOk(g)'
  <1>1. /\ fx'[g] = fx[g] /\ own'[g] = own[g] /\ heard'[g] = heard[g]
        /\ outcome'[g] = outcome[g]
        /\ g \in ToSet(xchgs') <=> g \in ToSet(xchgs)
        /\ Tx(g) \in ToSet(cmdq') <=> Tx(g) \in ToSet(cmdq)
        /\ work' = work /\ pend' = pend /\ late' = late /\ busy' = busy
    BY DEF OthersSame
  <1>2. call # DoneCall(g) /\ call' # DoneCall(g) /\ call # RespCall(g, TRUE) /\ call' # RespCall(g, TRUE)
    BY CallLemma DEF OthersSame
  <1>3. XchgOk(g)'
    BY <1>1, <1>2 DEF XchgOk, HoldsRadio
  <1>4. CountOk(g)'
    BY <1>1 DEF CountOk
  <1>5. OnceOk(g)'
    BY DEF OnceOk, OthersSame
  <1> QED
    BY <1>3, <1>4, <1>5

\* So do the messages, if the exchange itself keeps its transmission or has a new one.
LEMMA OneChanges ==
    ASSUME IInv, TypeOK', NEW f \in Fx, OthersSame(f),
           XchgOk(f)', CountOk(f)', Once(cmdq, {Tx(f)}) => Once(cmdq', {Tx(f)}),
           \/ own'[f] = own[f] /\ heard'[f] = heard[f]
           \/ own'[f] = 0,
           \A e \in ToSet(evq') : e.ev = "answer" /\ e.fx = f => AnswerOk(e)'
    PROVE  IInv'
  <1>1. /\ \A g \in Fx : XchgOk(g) /\ CountOk(g) /\ OnceOk(g)
        /\ \A e \in ToSet(evq) : /\ e.ev = "answer" => AnswerOk(e)
                                 /\ e.ev = "tx_status" => StatusOk(e)
    BY Parts DEF Whole, MessageOk
  <1>2. ASSUME NEW g \in Fx PROVE XchgOk(g)' /\ CountOk(g)' /\ OnceOk(g)'
    <2>1. CASE g # f
      BY <1>1, <2>1, OthersLemma
    <2>2. CASE g = f
      BY <1>1, <2>2 DEF OnceOk, OthersSame
    <2> QED
      BY <2>1, <2>2
  <1>3. ASSUME NEW e \in ToSet(evq') PROVE e \in ToSet(evq) /\ e \in Messages
    <2>1. ToSet(evq) \subseteq Messages
      BY SetOfSeq DEF IInv, TypeOK
    <2> QED
      BY <2>1 DEF OthersSame
  <1>4. ASSUME NEW e \in ToSet(evq'), e.ev = "answer" PROVE AnswerOk(e)'
    <2>1. CASE e.fx = f
      BY <1>4, <2>1
    <2>2. CASE e.fx # f
      <3>1. e.fx \in Fx \ {f} /\ AnswerOk(e)
        BY <1>1, <1>3, <1>4, <2>2, MessageFields
      <3> QED
        BY <3>1 DEF AnswerOk, OthersSame
    <2> QED
      BY <2>1, <2>2
  <1>5. ASSUME NEW e \in ToSet(evq'), e.ev = "tx_status" PROVE StatusOk(e)'
    <2>1. StatusOk(e) /\ e.cookie \in Cookies
      BY <1>1, <1>3, <1>5, MessageFields
    <2>2. e.cookie # 0
      BY <2>1, CookieAssumption
    <2> QED
      BY <2>1, <2>2 DEF StatusOk, OthersSame
  <1>6. Whole'
    BY <1>2, <1>4, <1>5 DEF Whole, MessageOk
  <1> QED
    BY <1>6, PartsNext

-----------------------------------------------------------------------------
(* Exchanges are destroyed and the next one starts.                         *)

\* The exchanges of F are destroyed, that of H, if any, gets the radio.
Removal(F, H) ==
    /\ UNCHANGED <<pend, late, busy, env>>
    /\ \A g \in Fx :
          /\ g \in ToSet(work') <=> g \in ToSet(work) /\ g \notin F
          /\ HoldsRadio(g) /\ g \notin F => HoldsRadio(g)'
    /\ \A g \in F :
          /\ fx'[g] = Blank /\ own'[g] = 0 /\ heard'[g] = FALSE /\ outcome'[g] = "free"
          /\ Tx(g) \notin ToSet(cmdq') /\ call' # DoneCall(g) /\ g \notin ToSet(xchgs')
    /\ \A g \in Fx \ F :
          /\ outcome'[g] = outcome[g]
          /\ g \in ToSet(xchgs') <=> g \in ToSet(xchgs)
          /\ call' = DoneCall(g) <=> call = DoneCall(g)
          /\ call' = RespCall(g, TRUE) => call = RespCall(g, TRUE)
    /\ \A g \in (Fx \ F) \ H :
          /\ fx'[g] = fx[g] /\ own'[g] = own[g] /\ heard'[g] = heard[g]
          /\ Tx(g) \in ToSet(cmdq') => Tx(g) \in ToSet(cmdq)
    /\ \A g \in H :
          /\ ~HoldsRadio(g) /\ HoldsRadio(g)' /\ g \in ToSet(work)
          /\ fx'[g] = Transmitted(fx[g]) /\ own'[g] = 0 /\ heard'[g] = FALSE
    /\ \A g \in Fx : Once(cmdq', {Tx(g)})
    /\ ToSet(evq') \subseteq ToSet(evq) \ AnswersTo(F)
    /\ \A g \in Fx : Once(evq, AnswersTo({g})) => Once(evq', AnswersTo({g}))

\* An exchange that is destroyed.
LEMMA RemovedOk ==
    ASSUME TypeOK, NEW F \in SUBSET Fx, NEW H \in SUBSET (Fx \ F), Removal(F, H), NEW g \in F
    PROVE  XchgOk(g)' /\ CountOk(g)'
  <1>1. /\ fx'[g] = Blank /\ own'[g] = 0 /\ heard'[g] = FALSE /\ outcome'[g] = "free"
        /\ Tx(g) \notin ToSet(cmdq') /\ call' # DoneCall(g) /\ g \notin ToSet(xchgs')
        /\ g \notin ToSet(work') /\ pend' = pend /\ late' = late
    BY DEF Removal
  <1>2. 0 \notin late /\ 0 \notin pend
    BY CookieAssumption DEF TypeOK
  <1>3. XchgOk(g)'
    BY <1>1, <1>2, BlankFields DEF XchgOk
  <1>4. CountOk(g)'
    BY <1>1, BlankFields, LimitAssumption DEF CountOk
  <1> QED
    BY <1>3, <1>4

\* Nothing that is about g changes, but g may get the radio.
SameXchg(g) ==
    /\ fx'[g] = fx[g] /\ own'[g] = own[g] /\ heard'[g] = heard[g]
    /\ outcome'[g] = outcome[g] /\ pend' \subseteq pend /\ late' \subseteq late
    /\ busy' = busy
    /\ Tx(g) \in ToSet(cmdq') => Tx(g) \in ToSet(cmdq)
    /\ g \in ToSet(xchgs') <=> g \in ToSet(xchgs)
    /\ g \in ToSet(work') <=> g \in ToSet(work)
    /\ call' = DoneCall(g) <=> call = DoneCall(g)
    /\ call' = RespCall(g, TRUE) => call = RespCall(g, TRUE)
    /\ HoldsRadio(g) => HoldsRadio(g)'

\* Such an exchange keeps the invariant.
LEMMA SameOk ==
    ASSUME NEW g \in Fx, SameXchg(g), XchgOk(g), CountOk(g)
    PROVE  XchgOk(g)' /\ CountOk(g)'
  <1>1. XchgOk(g)'
    BY DEF XchgOk, SameXchg
  <1>2. CountOk(g)'
    BY DEF CountOk, SameXchg
  <1> QED
    BY <1>1, <1>2

\* One that stays as it is.
LEMMA KeptOk ==
    ASSUME NEW F \in SUBSET Fx, NEW H \in SUBSET (Fx \ F), Removal(F, H),
           NEW g \in (Fx \ F) \ H, XchgOk(g), CountOk(g)
    PROVE  XchgOk(g)' /\ CountOk(g)'
  <1>1. SameXchg(g)
    BY DEF Removal, SameXchg
  <1> QED
    BY <1>1, SameOk

\* One that waited for the radio has nothing under way, and no callback.
LEMMA WaitingOk ==
    ASSUME TypeOK, NEW g \in Fx, XchgOk(g), ~HoldsRadio(g)
    PROVE  /\ fx[g] \in Exchanges /\ fx[g].retry_cnt = 0 /\ ~fx[g].tx_cmd
           /\ fx[g].timeout = "none" /\ own[g] = 0 /\ ~heard[g]
           /\ call # DoneCall(g) /\ Tx(g) \notin ToSet(cmdq)
           /\ outcome[g] = "none" => call # RespCall(g, TRUE)
           /\ g \in ToSet(work) => outcome[g] = "none"
  <1>1. fx[g] \in Exchanges /\ fx[g].retry_cnt \in Nat
    BY DEF TypeOK, Exchanges
  <1>2. fx[g].retry_cnt = 0
    BY <1>1 DEF XchgOk
  <1> QED
    BY <1>1, <1>2 DEF XchgOk

\* One that gets the radio.
LEMMA StartedOk ==
    ASSUME TypeOK, NEW F \in SUBSET Fx, NEW H \in SUBSET (Fx \ F), Removal(F, H),
           NEW g \in H, XchgOk(g)
    PROVE  XchgOk(g)' /\ CountOk(g)'
  <1>1. g \in Fx /\ g \in Fx \ F
    OBVIOUS
  <1>2. /\ ~HoldsRadio(g) /\ HoldsRadio(g)' /\ g \in ToSet(work) /\ g \in ToSet(work')
        /\ fx'[g] = Transmitted(fx[g]) /\ own'[g] = 0 /\ heard'[g] = FALSE
        /\ outcome'[g] = outcome[g] /\ pend' = pend /\ late' = late /\ busy' = busy
        /\ g \in ToSet(xchgs') <=> g \in ToSet(xchgs)
        /\ call' = DoneCall(g) <=> call = DoneCall(g)
        /\ call' = RespCall(g, TRUE) => call = RespCall(g, TRUE)
    BY <1>1 DEF Removal
  <1>3. /\ fx[g] \in Exchanges /\ fx[g].retry_cnt = 0 /\ fx[g].timeout = "none"
        /\ call # DoneCall(g) /\ call # RespCall(g, TRUE) /\ outcome[g] = "none"
    BY <1>1, <1>2, WaitingOk
  <1>4. /\ fx'[g].retry_cnt = 1 /\ fx'[g].tx_cmd /\ ~fx'[g].tx_acked
        /\ ~fx'[g].have_cookie /\ ~fx'[g].early_status /\ fx'[g].timeout = "none"
    BY <1>2, <1>3, TransmittedFields
  <1>5. 0 \notin late /\ 0 \notin pend
    BY CookieAssumption DEF TypeOK
  <1>6. g \in ToSet(xchgs)
    BY <1>1, <1>3 DEF XchgOk
  <1>7. XchgOk(g)'
    <2>1. /\ outcome'[g] = "none" /\ own'[g] = 0 /\ ~heard'[g]
          /\ g \in ToSet(xchgs') /\ g \in ToSet(work') /\ HoldsRadio(g)'
          /\ call' # DoneCall(g) /\ call' # RespCall(g, TRUE)
          /\ 0 \notin late' /\ 0 \notin pend'
      BY <1>2, <1>3, <1>5, <1>6
    <2>2. fx'[g].retry_cnt # 0 /\ ~(fx'[g].timeout = "listen_end")
      BY <1>4
    <2>3. /\ outcome'[g] # "ok" /\ outcome'[g] # "ECOMM" /\ outcome'[g] # "free"
          /\ outcome'[g] \in {"free", "none"}
      BY <2>1
    <2> QED
      BY <2>1, <2>2, <2>3, <1>4 DEF XchgOk
  <1>8. busy \in Nat /\ MaxRetries >= 1 /\ MaxRetries \in Nat /\ MaxBusy \in Nat
    BY LimitAssumption DEF TypeOK
  <1>9. CountOk(g)'
    BY <1>2, <1>4, <1>8 DEF CountOk
  <1> QED
    BY <1>7, <1>9

\* The invariant survives.
LEMMA RemovalLemma ==
    ASSUME IInv, TypeOK', NEW F \in SUBSET Fx, NEW H \in SUBSET (Fx \ F), Removal(F, H)
    PROVE  IInv'
  <1>1. /\ TypeOK
        /\ \A g \in Fx : XchgOk(g) /\ CountOk(g) /\ OnceOk(g)
        /\ \A e \in ToSet(evq) : /\ e.ev = "answer" => AnswerOk(e)
                                 /\ e.ev = "tx_status" => StatusOk(e)
    BY Parts DEF Whole, MessageOk
  <1>2. ASSUME NEW g \in Fx PROVE XchgOk(g)' /\ CountOk(g)' /\ OnceOk(g)'
    <2>1. XchgOk(g)' /\ CountOk(g)'
      <3>1. CASE g \in F
        BY <1>1, <3>1, RemovedOk
      <3>2. CASE g \in H
        BY <1>1, <3>2, StartedOk
      <3>3. CASE g \in (Fx \ F) \ H
        BY <1>1, <3>3, KeptOk
      <3> QED
        BY <3>1, <3>2, <3>3
    <2>2. OnceOk(g)'
      BY <1>1 DEF OnceOk, Removal
    <2> QED
      BY <2>1, <2>2
  <1>3. ASSUME NEW e \in ToSet(evq')
        PROVE  e \in ToSet(evq) /\ e \in Messages /\ e \notin AnswersTo(F)
    <2>1. ToSet(evq) \subseteq Messages
      BY <1>1, SetOfSeq DEF TypeOK
    <2> QED
      BY <2>1 DEF Removal
  <1>4. ASSUME NEW e \in ToSet(evq'), e.ev = "answer" PROVE AnswerOk(e)'
    <2>1. e.fx \in Fx \ F /\ AnswerOk(e)
      BY <1>1, <1>3, <1>4, MessageFields
    <2>2. fx[e.fx].tx_cmd
      BY <2>1 DEF AnswerOk
    <2>3. e.fx \notin H
      <3>1. ASSUME e.fx \in H PROVE FALSE
        <4>1. ~HoldsRadio(e.fx)
          BY <3>1 DEF Removal
        <4> QED
          BY <4>1, <2>1, <2>2, <1>1, WaitingOk
      <3> QED
        BY <3>1
    <2> DEFINE g == e.fx
    <2>4. g \in (Fx \ F) \ H
      BY <2>1, <2>3
    <2>5. /\ fx'[g] = fx[g] /\ own'[g] = own[g] /\ late' = late /\ busy' = busy
          /\ Tx(g) \in ToSet(cmdq') => Tx(g) \in ToSet(cmdq)
      BY <2>4 DEF Removal
    <2> QED
      BY <2>1, <2>5 DEF AnswerOk
  <1>5. ASSUME NEW e \in ToSet(evq'), e.ev = "tx_status" PROVE StatusOk(e)'
    <2>1. StatusOk(e) /\ e.cookie \in Cookies
      BY <1>1, <1>3, <1>5, MessageFields
    <2>2. e.cookie # 0
      BY <2>1, CookieAssumption
    <2>3. ASSUME NEW g \in Fx, own'[g] = e.cookie PROVE heard'[g] = e.ack
      <3>1. g \in (Fx \ F) \ H
        BY <2>2, <2>3 DEF Removal
      <3> QED
        BY <2>1, <2>3, <3>1 DEF Removal, StatusOk
    <2> QED
      BY <2>1, <2>3 DEF StatusOk, Removal
  <1>6. Whole'
    BY <1>2, <1>4, <1>5 DEF Whole, MessageOk
  <1> QED
    BY <1>6, PartsNext

\* The commands of frame_xchg_wait_cancel() carry cookies, and are no frames.
LEMMA WaitCancelLemma ==
    ASSUME NEW s, NEW F, \A f \in F : s.fx[f].have_cookie => s.fx[f].cookie \in Cookies
    PROVE  /\ WaitCancelCmds(s, F) \in Seq(Commands)
           /\ \A g \in Fx : Tx(g) \notin ToSet(WaitCancelCmds(s, F))
  <1> DEFINE C == {s.fx[f].cookie : f \in {g \in F : s.fx[g].have_cookie}}
             q == SetToSeq(C)
             w == WaitCancelCmds(s, F)
  <1>1. C \subseteq Cookies
    OBVIOUS
  <1>2. IsFiniteSet(C)
    BY <1>1, CookieAssumption, FS_Subset
  <1>3. q \in Seq(C)
    <2> HIDE DEF C
    <2> QED
      BY <1>2, SetToSeqLemma
  <1>4. w = [k \in DOMAIN q |-> WaitCancel(q[k])]
    BY DEF WaitCancelCmds
  <1> HIDE DEF C, q, w
  <1>5. DOMAIN q = 1 .. Len(q) /\ Len(q) \in Nat /\ \A k \in 1 .. Len(q) : q[k] \in Cookies
    BY <1>1, <1>3
  <1>6. w = [k \in 1 .. Len(q) |-> WaitCancel(q[k])]
    BY <1>4, <1>5
  <1>7. \A k \in 1 .. Len(q) : WaitCancel(q[k]) \in Commands
    BY <1>5, CommandFields
  <1>8. w \in Seq(Commands) /\ DOMAIN w = 1 .. Len(q)
    BY <1>5, <1>6, <1>7
  <1>9. ASSUME NEW g \in Fx, NEW k \in 1 .. Len(q) PROVE w[k] # Tx(g)
    BY <1>5, <1>6, CommandFields
  <1> QED
    BY <1>8, <1>9 DEF w, ToSet

\* What an exchange that has a cookie knows.
LEMMA CookieKnown ==
    ASSUME IInv, NEW f \in Fx, fx[f].have_cookie
    PROVE  fx[f].cookie \in Cookies /\ fx[f].cookie = own[f]
  <1>1. XchgOk(f) /\ own[f] \in CookieOr0
    BY Parts DEF Whole, TypeOK
  <1> QED
    BY <1>1 DEF XchgOk, CookieOr0

\* The exchanges of F are destroyed.
LEMMA DestroyLemma ==
    ASSUME IInv, NEW F \in SUBSET Fx
    PROVE  LET s == Destroy(State, F)
           IN  /\ s.fx \in [Fx -> Exchanges]
               /\ s.own \in [Fx -> CookieOr0]
               /\ s.heard \in [Fx -> BOOLEAN]
               /\ s.cmdq \in Seq(Commands)
               /\ \A g \in F : s.fx[g] = Blank /\ s.own[g] = 0 /\ s.heard[g] = FALSE
               /\ \A g \in Fx \ F : /\ s.fx[g] = fx[g] /\ s.own[g] = own[g]
                                    /\ s.heard[g] = heard[g]
               /\ \A g \in Fx : Tx(g) \in ToSet(s.cmdq) <=> Tx(g) \in ToSet(cmdq) /\ g \notin F
               /\ \A g \in Fx : Once(s.cmdq, {Tx(g)})
  <1> DEFINE s == Destroy(State, F)
             T == {Tx(f) : f \in F}
             v == Without(cmdq, T)
             w == WaitCancelCmds(State, F)
  <1>1. TypeOK /\ \A g \in Fx : OnceOk(g)
    BY Parts DEF Whole
  <1>2. /\ s.fx = [f \in Fx |-> IF f \in F THEN Blank ELSE fx[f]]
        /\ s.cmdq = v \o w
        /\ s.own = [f \in Fx |-> IF f \in F THEN 0 ELSE own[f]]
        /\ s.heard = [f \in Fx |-> IF f \in F THEN FALSE ELSE heard[f]]
    BY DEF Destroy, State
  <1>3. cmdq \in Seq(Commands) /\ fx \in [Fx -> Exchanges]
    BY <1>1 DEF TypeOK
  <1>4. w \in Seq(Commands) /\ \A g \in Fx : Tx(g) \notin ToSet(w)
    <2>1. State.fx = fx
      BY DEF State
    <2>2. \A f \in F : State.fx[f].have_cookie => State.fx[f].cookie \in Cookies
      BY <2>1, CookieKnown
    <2> HIDE DEF State
    <2> QED
      BY <2>2, WaitCancelLemma
  <1>5. /\ v \in Seq(Commands)
        /\ ToSet(v) = ToSet(cmdq) \ T
        /\ \A U : Once(cmdq, U) => Once(v, U)
    BY <1>3, WithoutLemma
  <1>6. \A g \in Fx : Tx(g) \in T <=> g \in F
    BY CommandFields
  <1> HIDE DEF s, T, v, w
  <1>7. s.cmdq \in Seq(Commands) /\ ToSet(s.cmdq) = ToSet(v) \cup ToSet(w)
    BY <1>2, <1>4, <1>5, SetOfConcat
  <1>8. \A g \in Fx : Tx(g) \in ToSet(s.cmdq) <=> Tx(g) \in ToSet(cmdq) /\ g \notin F
    BY <1>4, <1>5, <1>6, <1>7
  <1>9. ASSUME NEW g \in Fx PROVE Once(s.cmdq, {Tx(g)})
    <2>1. Once(v, {Tx(g)})
      BY <1>1, <1>5 DEF OnceOk
    <2>2. ToSet(w) \cap {Tx(g)} = {}
      BY <1>4
    <2> QED
      BY <2>1, <2>2, <1>2, <1>4, <1>5, OnceConcat
  <1>10. s.fx \in [Fx -> Exchanges]
    BY <1>2, <1>3, BlankFields
  <1>11. s.own \in [Fx -> CookieOr0] /\ s.heard \in [Fx -> BOOLEAN]
    BY <1>1, <1>2 DEF TypeOK, CookieOr0
  <1>12. /\ \A g \in F : s.fx[g] = Blank /\ s.own[g] = 0 /\ s.heard[g] = FALSE
         /\ \A g \in Fx \ F : s.fx[g] = fx[g] /\ s.own[g] = own[g] /\ s.heard[g] = heard[g]
    BY <1>2
  <1> QED
    BY <1>7, <1>8, <1>9, <1>10, <1>11, <1>12 DEF s

\* f hands a frame to the kernel.
LEMMA TxRetryLemma ==
    ASSUME NEW s, NEW f \in Fx, s.fx \in [Fx -> Exchanges], s.cmdq \in Seq(Commands),
           s.own \in [Fx -> CookieOr0], s.heard \in [Fx -> BOOLEAN]
    PROVE  LET t == TxRetry(s, f)
           IN  /\ t.fx \in [Fx -> Exchanges]
               /\ t.own \in [Fx -> CookieOr0]
               /\ t.heard \in [Fx -> BOOLEAN]
               /\ t.cmdq \in Seq(Commands)
               /\ t.fx[f] = Transmitted(s.fx[f]) /\ t.own[f] = 0 /\ t.heard[f] = FALSE
               /\ \A g \in Fx \ {f} : /\ t.fx[g] = s.fx[g] /\ t.own[g] = s.own[g]
                                      /\ t.heard[g] = s.heard[g]
                                      /\ Once(s.cmdq, {Tx(g)}) => Once(t.cmdq, {Tx(g)})
               /\ \A g \in Fx : Tx(g) \in ToSet(t.cmdq) <=> Tx(g) \in ToSet(s.cmdq) \/ g = f
               /\ Tx(f) \notin ToSet(s.cmdq) => Once(t.cmdq, {Tx(f)})
  <1> DEFINE t == TxRetry(s, f)
             q == s.cmdq
  <1>1. /\ t.fx = [s.fx EXCEPT ![f] = Transmitted(s.fx[f])]
        /\ t.cmdq = Append(q, Tx(f))
        /\ t.own = [s.own EXCEPT ![f] = 0]
        /\ t.heard = [s.heard EXCEPT ![f] = FALSE]
    BY DEF TxRetry
  <1>2. Transmitted(s.fx[f]) \in Exchanges
    BY TransmittedFields
  <1>3. Tx(f) \in Commands /\ \A g \in Fx : Tx(g) = Tx(f) => g = f
    BY CommandFields
  <1> HIDE DEF t
  <1>4. /\ t.fx \in [Fx -> Exchanges] /\ t.fx[f] = Transmitted(s.fx[f])
        /\ \A g \in Fx \ {f} : t.fx[g] = s.fx[g]
    BY <1>1, <1>2
  <1>5. /\ t.own \in [Fx -> CookieOr0] /\ t.own[f] = 0
        /\ t.heard \in [Fx -> BOOLEAN] /\ t.heard[f] = FALSE
        /\ \A g \in Fx \ {f} : t.own[g] = s.own[g] /\ t.heard[g] = s.heard[g]
    BY <1>1 DEF CookieOr0
  <1>6. q \in Seq(Commands)
    OBVIOUS
  <1> HIDE DEF q
  <1>7. t.cmdq \in Seq(Commands) /\ ToSet(t.cmdq) = ToSet(q) \cup {Tx(f)}
    BY <1>1, <1>3, <1>6, SetOfAppend
  <1>8. \A g \in Fx : Tx(g) \in ToSet(t.cmdq) <=> Tx(g) \in ToSet(q) \/ g = f
    BY <1>3, <1>7
  <1>9. ASSUME NEW g \in Fx \ {f}, Once(q, {Tx(g)}) PROVE Once(t.cmdq, {Tx(g)})
    <2>1. Tx(f) \notin {Tx(g)}
      BY <1>3
    <2> QED
      BY <1>1, <1>3, <1>6, <1>9, <2>1, OnceAppend
  <1>10. ASSUME Tx(f) \notin ToSet(q) PROVE Once(t.cmdq, {Tx(f)})
    <2>1. ToSet(q) \cap {Tx(f)} = {}
      BY <1>10
    <2> QED
      BY <1>1, <1>3, <1>6, <2>1, OnceAppend
  <1> QED
    BY <1>4, <1>5, <1>7, <1>8, <1>9, <1>10 DEF t, q

\* The lists and the callback when the exchanges of F go.
Forgotten(F) ==
    /\ xchgs' \in Seq(Fx) /\ IsInjective(xchgs')
    /\ call' \in Callbacks
    /\ outcome' \in [Fx -> Outcomes]
    /\ \A g \in F : /\ outcome'[g] = "free"
                    /\ call' # DoneCall(g) /\ g \notin ToSet(xchgs')
    /\ \A g \in Fx \ F : /\ outcome'[g] = outcome[g]
                         /\ g \in ToSet(xchgs') <=> g \in ToSet(xchgs)
                         /\ call' = DoneCall(g) <=> call = DoneCall(g)
                         /\ call' = RespCall(g, TRUE) => call = RespCall(g, TRUE)

\* The answers to the exchanges of F are not delivered.
LEMMA ForgetAnswers ==
    ASSUME TypeOK, NEW F, evq' = Without(evq, AnswersTo(F))
    PROVE  /\ evq' \in Seq(Messages)
           /\ ToSet(evq') = ToSet(evq) \ AnswersTo(F)
           /\ \A g \in Fx : Once(evq, AnswersTo({g})) => Once(evq', AnswersTo({g}))
  <1> DEFINE T == AnswersTo(F)
             v == Without(evq, T)
  <1>1. evq \in Seq(Messages)
    BY DEF TypeOK
  <1> HIDE DEF T
  <1>2. v \in Seq(Messages) /\ ToSet(v) = ToSet(evq) \ T /\ \A U : Once(evq, U) => Once(v, U)
    BY <1>1, WithoutLemma
  <1> HIDE DEF v
  <1>3. evq' = v
    BY DEF v, T
  <1> QED
    BY <1>2, <1>3 DEF T

\* wiphy_radio_work_done() keeps the invariant.
LEMMA WorkDoneLemma ==
    ASSUME IInv, NEW item \in Fx \cup {Other}, WorkDone(item),
           UNCHANGED <<pend, late, busy, env>>, Forgotten({item} \cap Fx)
    PROVE  IInv'
  <1> DEFINE F == {item} \cap Fx
             s == Destroy(State, F)
             rest == Without(work, {item})
             next == work # <<>> /\ Head(work) = item /\ rest # <<>> /\ Head(rest) \in Fx
             h == Head(rest)
             H == IF next THEN {h} ELSE {}
  <1>1. TypeOK /\ \A g \in Fx : XchgOk(g)
    BY Parts DEF Whole
  <1>2. /\ work' = rest
        /\ evq' = Without(evq, AnswersTo({item}))
        /\ next => SetState(TxRetry(s, h))
        /\ ~next => SetState(s)
    BY DEF WorkDone
  <1>3. work \in Seq(Fx \cup {Other}) /\ IsInjective(work)
    BY <1>1 DEF TypeOK
  <1>4. /\ rest \in Seq(Fx \cup {Other})
        /\ ToSet(rest) = ToSet(work) \ {item}
        /\ IsInjective(rest)
        /\ work # <<>> /\ Head(work) # item => rest # <<>> /\ Head(rest) = Head(work)
    BY <1>3, WithoutLemma
  <1>5. /\ s.fx \in [Fx -> Exchanges]
        /\ s.own \in [Fx -> CookieOr0]
        /\ s.heard \in [Fx -> BOOLEAN]
        /\ s.cmdq \in Seq(Commands)
        /\ \A g \in F : s.fx[g] = Blank /\ s.own[g] = 0 /\ s.heard[g] = FALSE
        /\ \A g \in Fx \ F : s.fx[g] = fx[g] /\ s.own[g] = own[g] /\ s.heard[g] = heard[g]
        /\ \A g \in Fx : Tx(g) \in ToSet(s.cmdq) <=> Tx(g) \in ToSet(cmdq) /\ g \notin F
        /\ \A g \in Fx : Once(s.cmdq, {Tx(g)})
    BY DestroyLemma
  <1> HIDE DEF s, rest
  <1>6. rest # <<>> => h \in ToSet(rest)
    BY <1>4, SetOfTail
  <1>7. H \in SUBSET (Fx \ F) /\ F \in SUBSET Fx
    BY <1>4, <1>6
  <1>8. /\ evq' \in Seq(Messages)
        /\ ToSet(evq') = ToSet(evq) \ AnswersTo({item})
        /\ \A g \in Fx : Once(evq, AnswersTo({g})) => Once(evq', AnswersTo({g}))
    BY <1>1, <1>2, ForgetAnswers
  <1>9. AnswersTo(F) \subseteq AnswersTo({item})
    BY DEF AnswersTo
  <1>10. \A g \in H : ~HoldsRadio(g) /\ HoldsRadio(g)' /\ g \in ToSet(work)
    BY <1>2, <1>4, <1>6 DEF HoldsRadio
  <1>11. \A g \in Fx : /\ g \in ToSet(work') <=> g \in ToSet(work) /\ g \notin F
                       /\ HoldsRadio(g) /\ g \notin F => HoldsRadio(g)'
    BY <1>2, <1>4 DEF HoldsRadio
  <1>12. /\ fx' \in [Fx -> Exchanges] /\ own' \in [Fx -> CookieOr0]
         /\ heard' \in [Fx -> BOOLEAN] /\ cmdq' \in Seq(Commands)
         /\ \A g \in F : /\ fx'[g] = Blank /\ own'[g] = 0 /\ heard'[g] = FALSE
                         /\ Tx(g) \notin ToSet(cmdq')
         /\ \A g \in (Fx \ F) \ H : /\ fx'[g] = fx[g] /\ own'[g] = own[g]
                                    /\ heard'[g] = heard[g]
                                    /\ Tx(g) \in ToSet(cmdq') => Tx(g) \in ToSet(cmdq)
         /\ \A g \in H : fx'[g] = Transmitted(fx[g]) /\ own'[g] = 0 /\ heard'[g] = FALSE
         /\ \A g \in Fx : Once(cmdq', {Tx(g)})
    <2>1. CASE ~next
      BY <1>2, <1>5, <2>1 DEF SetState
    <2>2. CASE next
      <3> DEFINE t == TxRetry(s, h)
      <3>1. h \in Fx \ F /\ H = {h} /\ ~HoldsRadio(h)
        BY <2>2, <1>7, <1>10
      <3>2. /\ t.fx \in [Fx -> Exchanges]
            /\ t.own \in [Fx -> CookieOr0]
            /\ t.heard \in [Fx -> BOOLEAN]
            /\ t.cmdq \in Seq(Commands)
            /\ t.fx[h] = Transmitted(s.fx[h]) /\ t.own[h] = 0 /\ t.heard[h] = FALSE
            /\ \A g \in Fx \ {h} : /\ t.fx[g] = s.fx[g] /\ t.own[g] = s.own[g]
                                   /\ t.heard[g] = s.heard[g]
                                   /\ Once(s.cmdq, {Tx(g)}) => Once(t.cmdq, {Tx(g)})
            /\ \A g \in Fx : Tx(g) \in ToSet(t.cmdq) <=> Tx(g) \in ToSet(s.cmdq) \/ g = h
            /\ Tx(h) \notin ToSet(s.cmdq) => Once(t.cmdq, {Tx(h)})
        <4> HIDE DEF h
        <4> QED
          BY <3>1, <1>5, TxRetryLemma
      <3>3. fx' = t.fx /\ own' = t.own /\ heard' = t.heard /\ cmdq' = t.cmdq
        BY <1>2, <2>2 DEF SetState
      <3>4. Tx(h) \notin ToSet(s.cmdq)
        BY <3>1, <1>1, <1>5, WaitingOk
      <3> HIDE DEF t, h, F, H, next
      <3>5. \A g \in F : g \in Fx \ {h}
        BY <3>1, <1>7
      <3>6. ASSUME NEW g \in F
            PROVE  /\ fx'[g] = Blank /\ own'[g] = 0 /\ heard'[g] = FALSE
                   /\ Tx(g) \notin ToSet(cmdq')
        BY <3>2, <3>3, <3>5, <1>5
      <3>7. ASSUME NEW g \in (Fx \ F) \ H
            PROVE  /\ fx'[g] = fx[g] /\ own'[g] = own[g] /\ heard'[g] = heard[g]
                   /\ Tx(g) \in ToSet(cmdq') => Tx(g) \in ToSet(cmdq)
        BY <3>1, <3>2, <3>3, <1>5
      <3>8. ASSUME NEW g \in H
            PROVE  fx'[g] = Transmitted(fx[g]) /\ own'[g] = 0 /\ heard'[g] = FALSE
        BY <3>1, <3>2, <3>3, <1>5
      <3>9. ASSUME NEW g \in Fx PROVE Once(cmdq', {Tx(g)})
        BY <3>2, <3>3, <3>4, <1>5
      <3> QED
        BY <3>2, <3>3, <3>6, <3>7, <3>8, <3>9
    <2> QED
      BY <2>1, <2>2
  <1>13. Removal(F, H)
    <2> HIDE DEF H, F
    <2> QED
      BY <1>7, <1>8, <1>9, <1>10, <1>11, <1>12 DEF Removal, Forgotten, F
  <1>14. TypeOK'
    <2> HIDE DEF H, F
    <2> QED
      BY <1>1, <1>2, <1>4, <1>8, <1>12 DEF TypeOK, Forgotten
  <1> HIDE DEF H, F
  <1> QED
    BY <1>7, <1>13, <1>14, RemovalLemma

-----------------------------------------------------------------------------
(* The clients.                                                             *)

\* The list without f.
LEMMA ListLemma ==
    ASSUME TypeOK, NEW f \in Fx, xchgs' = Without(xchgs, {f})
    PROVE  /\ xchgs' \in Seq(Fx) /\ IsInjective(xchgs')
           /\ ToSet(xchgs') = ToSet(xchgs) \ {f}
  BY WithoutLemma DEF TypeOK

\* Contains is membership.
LEMMA ContainsLemma ==
    ASSUME NEW S, NEW q \in Seq(S), NEW e
    PROVE  Contains(q, e) <=> e \in ToSet(q)
  BY DEF Contains, ToSet

\* An exchange of the list goes, from the list and from the radio work queue.
LEMMA DropLemma ==
    ASSUME IInv, NEW f \in Fx, f \in ToSet(xchgs), xchgs' = Without(xchgs, {f}),
           outcome' = [outcome EXCEPT ![f] = "free"], WorkDone(f),
           UNCHANGED <<pend, late, busy, env>>,
           call' = call \/ (call' = NoCall /\ CallOf(call, f))
    PROVE  IInv'
  <1>1. TypeOK /\ \A g \in Fx : XchgOk(g)
    BY Parts DEF Whole
  <1>2. call # DoneCall(f)
    BY <1>1 DEF XchgOk
  <1>3. /\ xchgs' \in Seq(Fx) /\ IsInjective(xchgs')
        /\ ToSet(xchgs') = ToSet(xchgs) \ {f}
    BY <1>1, ListLemma
  <1>4. /\ outcome' \in [Fx -> Outcomes] /\ outcome'[f] = "free"
        /\ \A g \in Fx \ {f} : outcome'[g] = outcome[g]
    BY <1>1 DEF TypeOK, Outcomes
  <1>5. call' \in Callbacks /\ \A g \in Fx : NoCall # DoneCall(g) /\ NoCall # RespCall(g, TRUE)
    BY <1>1, NoCallLemma DEF TypeOK
  <1>6. CallOf(call, f) => \A g \in Fx \ {f} : call # DoneCall(g)
    BY CallLemma
  <1>7. {f} \cap Fx = {f}
    OBVIOUS
  <1>8. Forgotten({f} \cap Fx)
    BY <1>2, <1>3, <1>4, <1>5, <1>6, <1>7 DEF Forgotten
  <1> QED
    BY <1>8, WorkDoneLemma

\* Cancel.
LEMMA CancelLemma == ASSUME IInv, NEW f \in Fx, Cancel(f) PROVE IInv'
  <1>1. f \in ToSet(xchgs)
    BY ContainsLemma DEF Cancel, IInv, TypeOK
  <1> QED
    BY <1>1, DropLemma DEF Cancel, kernelVars

\* Other radio work is done.
LEMMA OtherDoneLemma == ASSUME IInv, OtherDone PROVE IInv'
  <1>1. {Other} \cap Fx = {}
    BY FxAssumption
  <1>2. Forgotten({Other} \cap Fx)
    BY <1>1 DEF Forgotten, OtherDone, IInv, TypeOK
  <1> QED
    BY <1>2, WorkDoneLemma DEF OtherDone, kernelVars

\* fx->cb returns.
LEMMA ReturnDoneLemma == ASSUME IInv, ReturnDone PROVE IInv'
  <1> DEFINE f == call.fx
  <1>1. TypeOK /\ \A g \in Fx : XchgOk(g)
    BY Parts DEF Whole
  <1>2. f \in Fx /\ call = DoneCall(f)
    BY <1>1, CallFields DEF ReturnDone, TypeOK
  <1> HIDE DEF f
  <1>3. outcome[f] \notin {"free", "none"} /\ f \notin ToSet(xchgs)
    BY <1>1, <1>2 DEF XchgOk
  <1>4. outcome' = [outcome EXCEPT ![f] = "free"]
    BY <1>3 DEF ReturnDone, f
  <1>5. /\ outcome' \in [Fx -> Outcomes] /\ outcome'[f] = "free"
        /\ \A g \in Fx \ {f} : outcome'[g] = outcome[g]
    BY <1>1, <1>2, <1>4 DEF TypeOK, Outcomes
  <1>6. /\ call' = NoCall /\ call' \in Callbacks
        /\ \A g \in Fx : NoCall # DoneCall(g) /\ NoCall # RespCall(g, TRUE)
        /\ \A g \in Fx \ {f} : call # DoneCall(g)
    <2>1. call' = NoCall
      BY DEF ReturnDone
    <2>2. CallOf(call, f)
      BY <1>2, CallFields DEF CallOf
    <2> QED
      BY <1>2, <2>1, <2>2, NoCallLemma, CallLemma
  <1>7. {f} \cap Fx = {f}
    BY <1>2
  <1>8. xchgs' = xchgs /\ xchgs \in Seq(Fx) /\ IsInjective(xchgs)
    BY <1>1 DEF ReturnDone, TypeOK
  <1>9. Forgotten({f} \cap Fx)
    BY <1>3, <1>5, <1>6, <1>7, <1>8 DEF Forgotten
  <1>10. WorkDone(f) /\ UNCHANGED <<pend, late, busy, env>>
    BY DEF ReturnDone, kernelVars, f
  <1> QED
    BY <1>2, <1>9, <1>10, WorkDoneLemma

\* Other radio work is queued.
LEMMA OtherInsertLemma == ASSUME IInv, OtherInsert PROVE IInv'
  <1>1. TypeOK /\ \A g \in Fx : OnceOk(g)
    BY Parts DEF Whole
  <1>2. /\ UNCHANGED <<xchgs, fx, call, cmdq, evq, pend, late, busy, env, own, heard, outcome>>
        /\ work' = Append(work, Other) /\ Other \notin ToSet(work)
    BY <1>1, ContainsLemma DEF OtherInsert, TypeOK, kernelVars, histVars
  <1>3. work \in Seq(Fx \cup {Other}) /\ IsInjective(work)
    BY <1>1 DEF TypeOK
  <1>4. /\ work' \in Seq(Fx \cup {Other}) /\ ToSet(work') = ToSet(work) \cup {Other}
        /\ IsInjective(work')
    BY <1>2, <1>3, SetOfAppend, InjectiveAppend
  <1>5. \A g \in Fx : HoldsRadio(g) => HoldsRadio(g)'
    BY <1>2, <1>3 DEF HoldsRadio
  <1>6. TypeOK'
    BY <1>1, <1>2, <1>4 DEF TypeOK
  <1>7. \A g \in Fx : g \in ToSet(work') <=> g \in ToSet(work)
    BY <1>4, FxAssumption
  <1>8. AnswersTo({}) = {}
    BY DEF AnswersTo
  <1>9. Removal({}, {})
    BY <1>1, <1>2, <1>5, <1>7, <1>8 DEF Removal, OnceOk
  <1>10. {} \in SUBSET Fx /\ {} \in SUBSET (Fx \ {})
    OBVIOUS
  <1> QED
    BY <1>6, <1>9, <1>10, RemovalLemma

\* frame_xchg_stop_wdev().
LEMMA StopWdevLemma == ASSUME IInv, StopWdev PROVE IInv'
  <1> DEFINE F == ToSet(xchgs)
             s == Destroy(State, F)
  <1>1. TypeOK /\ \A g \in Fx : XchgOk(g)
    BY Parts DEF Whole
  <1>2. xchgs \in Seq(Fx) /\ work \in Seq(Fx \cup {Other}) /\ IsInjective(work)
    BY <1>1 DEF TypeOK
  <1>3. F \in SUBSET Fx /\ {} \in SUBSET (Fx \ F)
    BY <1>2, SetOfSeq
  <1>4. \A g \in Fx : Contains(xchgs, g) <=> g \in F
    BY <1>2, ContainsLemma
  <1>5. /\ s.fx \in [Fx -> Exchanges]
        /\ s.own \in [Fx -> CookieOr0]
        /\ s.heard \in [Fx -> BOOLEAN]
        /\ s.cmdq \in Seq(Commands)
        /\ \A g \in F : s.fx[g] = Blank /\ s.own[g] = 0 /\ s.heard[g] = FALSE
        /\ \A g \in Fx \ F : s.fx[g] = fx[g] /\ s.own[g] = own[g] /\ s.heard[g] = heard[g]
        /\ \A g \in Fx : Tx(g) \in ToSet(s.cmdq) <=> Tx(g) \in ToSet(cmdq) /\ g \notin F
        /\ \A g \in Fx : Once(s.cmdq, {Tx(g)})
    BY <1>3, DestroyLemma
  <1>6. fx' = s.fx /\ cmdq' = s.cmdq /\ own' = s.own /\ heard' = s.heard
    BY DEF StopWdev, SetState
  <1>7. /\ work' \in Seq(Fx \cup {Other}) /\ IsInjective(work')
        /\ ToSet(work') = ToSet(work) \ F
        /\ work # <<>> /\ Head(work) \notin F => work' # <<>> /\ Head(work') = Head(work)
    BY <1>2, WithoutLemma DEF StopWdev
  <1>8. /\ evq' \in Seq(Messages)
        /\ ToSet(evq') = ToSet(evq) \ AnswersTo(F)
        /\ \A g \in Fx : Once(evq, AnswersTo({g})) => Once(evq', AnswersTo({g}))
    BY <1>1, ForgetAnswers DEF StopWdev
  <1>9. /\ xchgs' = <<>> /\ xchgs' \in Seq(Fx) /\ ToSet(xchgs') = {} /\ IsInjective(xchgs')
    BY SetOfEmpty DEF StopWdev, IsInjective
  <1>10. /\ outcome' \in [Fx -> Outcomes]
         /\ \A g \in F : outcome'[g] = "free" /\ call # DoneCall(g)
         /\ \A g \in Fx \ F : outcome'[g] = outcome[g]
    BY <1>1, <1>3, <1>4 DEF StopWdev, TypeOK, Outcomes, XchgOk
  <1>11. UNCHANGED <<pend, late, busy, env, call>>
    BY DEF StopWdev, kernelVars
  <1> HIDE DEF F, s
  <1>12. TypeOK'
    BY <1>1, <1>5, <1>6, <1>7, <1>8, <1>9, <1>10, <1>11 DEF TypeOK
  <1>13. \A g \in Fx : HoldsRadio(g) /\ g \notin F => HoldsRadio(g)'
    BY <1>7 DEF HoldsRadio
  <1>14. Removal(F, {})
    BY <1>3, <1>5, <1>6, <1>7, <1>8, <1>9, <1>10, <1>11, <1>13 DEF Removal, F
  <1> QED
    BY <1>3, <1>12, <1>14, RemovalLemma

-----------------------------------------------------------------------------
(* The main loop.                                                           *)

\* Messages are read, none of them are answers to f that remain.
MessagesRead(f) ==
    /\ evq' \in Seq(Messages)
    /\ ToSet(evq') \subseteq ToSet(evq)
    /\ \A g \in Fx : Once(evq, AnswersTo({g})) => Once(evq', AnswersTo({g}))
    /\ \A e \in ToSet(evq') : ~(e.ev = "answer" /\ e.fx = f)

\* No frame is handed to the kernel.
NoFrames ==
    /\ cmdq' \in Seq(Commands)
    /\ \A g \in Fx : /\ Tx(g) \in ToSet(cmdq') <=> Tx(g) \in ToSet(cmdq)
                     /\ Once(cmdq, {Tx(g)}) => Once(cmdq', {Tx(g)})

\* What f knows after the kernel has answered.
Settled(f) ==
    LET y == fx'[f]
    IN  /\ fx' \in [Fx -> Exchanges] /\ \A g \in Fx \ {f} : fx'[g] = fx[g]
        /\ ~y.tx_cmd /\ y.retry_cnt = fx[f].retry_cnt
        /\ y.have_cookie => y.cookie = own[f] /\ own[f] # 0
        /\ y.have_cookie /\ y.tx_acked => heard[f]
        /\ y.timeout = "listen_end" => heard[f]
        /\ y.timeout = "retry" => y.retry_cnt < MaxRetries + busy

\* f goes on, with or without its response callback.
GoesOn(f) ==
    /\ UNCHANGED <<xchgs, outcome>>
    /\ \/ call' = NoCall
       \/ call' = RespCall(f, FALSE)
       \/ call' = RespCall(f, TRUE) /\ heard[f]

\* f ends.
Finishes(f) ==
    /\ xchgs' = Without(xchgs, {f}) /\ call' = DoneCall(f)
    /\ \E how \in {"ok", "ECOMM", "error"} :
          /\ Ends(f, how)
          /\ how = "ok" => heard[f]
          /\ how = "ECOMM" => ~heard[f] /\ own[f] \notin pend

\* What is known of an exchange of the list.
LEMMA ListedLemma ==
    ASSUME IInv, NEW f \in Fx, f \in ToSet(xchgs)
    PROVE  /\ outcome[f] = "none" /\ f \in ToSet(work) /\ call # DoneCall(f)
           /\ fx[f] \in Exchanges /\ fx[f].retry_cnt \in Nat
           /\ 0 \notin late /\ 0 \notin pend
  <1>1. TypeOK /\ XchgOk(f)
    BY Parts DEF Whole
  <1>2. fx[f] \in Exchanges /\ fx[f].retry_cnt \in Nat
    BY <1>1 DEF TypeOK, Exchanges
  <1>3. 0 \notin late /\ 0 \notin pend
    BY <1>1, CookieAssumption DEF TypeOK
  <1> QED
    BY <1>1, <1>2, <1>3 DEF XchgOk

\* The kernel has answered f, which goes on or ends: the invariant survives.
LEMMA SettledLemma ==
    ASSUME IInv, NEW f \in Fx, f \in ToSet(xchgs), CallOf(call, f), fx[f].retry_cnt # 0,
           own[f] \notin late, Tx(f) \notin ToSet(cmdq),
           Settled(f), NoFrames, MessagesRead(f), GoesOn(f) \/ Finishes(f),
           UNCHANGED <<work, pend, late, busy, env, own, heard>>
    PROVE  IInv'
  <1>1. TypeOK /\ XchgOk(f) /\ CountOk(f)
    BY Parts DEF Whole
  <1>2. /\ outcome[f] = "none" /\ f \in ToSet(work) /\ call # DoneCall(f)
        /\ 0 \notin late /\ 0 \notin pend
    BY ListedLemma
  <1>3. /\ work' = work /\ pend' = pend /\ late' = late /\ busy' = busy
        /\ own' = own /\ heard' = heard /\ env' = env
    OBVIOUS
  <1>4. HoldsRadio(f)'
    <2>1. fx[f].retry_cnt \in Nat
      BY ListedLemma
    <2>2. HoldsRadio(f)
      BY <2>1, <1>1 DEF XchgOk
    <2> QED
      BY <2>2, <1>3 DEF HoldsRadio
  <1>5. Tx(f) \notin ToSet(cmdq')
    BY DEF NoFrames
  <1>6. /\ xchgs' \in Seq(Fx) /\ IsInjective(xchgs')
        /\ \A g \in Fx \ {f} : g \in ToSet(xchgs') <=> g \in ToSet(xchgs)
    BY <1>1, ListLemma DEF GoesOn, Finishes, TypeOK
  <1>7. /\ outcome' \in [Fx -> Outcomes]
        /\ \A g \in Fx \ {f} : outcome'[g] = outcome[g]
    BY <1>1, <1>2 DEF GoesOn, Finishes, TypeOK, Outcomes, Ends
  <1>8. call' \in Callbacks /\ CallOf(call', f)
    <2>1. CallsOf(f) \subseteq Callbacks /\ NoCall \in Callbacks
      BY CallFields
    <2>2. DoneCall(f) \in CallsOf(f) /\ RespCall(f, TRUE) \in CallsOf(f) /\ RespCall(f, FALSE) \in CallsOf(f)
      BY CallFields
    <2> QED
      BY <2>1, <2>2 DEF GoesOn, Finishes, CallOf
  <1>9. TypeOK'
    BY <1>1, <1>3, <1>6, <1>7, <1>8 DEF TypeOK, Settled, NoFrames, MessagesRead
  <1>10. OthersSame(f)
    BY <1>3, <1>6, <1>7, <1>8 DEF OthersSame, Settled, NoFrames, MessagesRead
  <1> DEFINE y == fx'[f]
  <1>11. /\ ~y.tx_cmd /\ y.retry_cnt # 0
         /\ y.have_cookie => y.cookie = own[f] /\ own[f] # 0
         /\ y.have_cookie /\ y.tx_acked => heard[f]
         /\ y.timeout = "listen_end" => heard[f]
         /\ y.retry_cnt = fx[f].retry_cnt
         /\ y.timeout = "retry" => y.retry_cnt < MaxRetries + busy
    BY DEF Settled
  <1> HIDE DEF y
  <1>12. /\ own[f] = 0 => ~heard[f]
         /\ own[f] \in pend => ~heard[f]
    BY <1>1 DEF XchgOk
  <1>13. \/ /\ outcome'[f] = "none" /\ f \in ToSet(xchgs') /\ call' # DoneCall(f)
            /\ call' = RespCall(f, TRUE) => heard[f]
         \/ /\ outcome'[f] \in {"ok", "ECOMM", "error"} /\ f \notin ToSet(xchgs')
            /\ call' = DoneCall(f)
            /\ outcome'[f] = "ok" => heard[f]
            /\ outcome'[f] = "ECOMM" => ~heard[f] /\ own[f] \notin pend
    <2>1. CASE GoesOn(f)
      <3>1. outcome' = outcome /\ xchgs' = xchgs
        BY <2>1 DEF GoesOn
      <3>2. NoCall # DoneCall(f) /\ NoCall # RespCall(f, TRUE)
        BY NoCallLemma
      <3>3. RespCall(f, FALSE) # DoneCall(f) /\ RespCall(f, TRUE) # DoneCall(f)
        BY CallFields
      <3>4. RespCall(f, FALSE) # RespCall(f, TRUE)
        BY CallFields
      <3> QED
        BY <1>2, <2>1, <3>1, <3>2, <3>3, <3>4 DEF GoesOn
    <2>2. CASE Finishes(f)
      <3>1. PICK how \in {"ok", "ECOMM", "error"} :
               /\ Ends(f, how)
               /\ how = "ok" => heard[f]
               /\ how = "ECOMM" => ~heard[f] /\ own[f] \notin pend
        BY <2>2 DEF Finishes
      <3>2. outcome'[f] = how
        BY <3>1, <1>1, <1>2 DEF Ends, TypeOK
      <3>3. f \notin ToSet(xchgs') /\ call' = DoneCall(f)
        BY <2>2, <1>1, ListLemma DEF Finishes
      <3> QED
        BY <3>1, <3>2, <3>3
    <2> QED
      BY <2>1, <2>2
  <1>14. XchgOk(f)'
    <2>1. /\ outcome'[f] # "free" /\ f \in ToSet(work')
          /\ outcome'[f] = "none" <=> f \in ToSet(xchgs')
          /\ outcome'[f] \notin {"free", "none"} <=> call' = DoneCall(f)
          /\ outcome'[f] = "ok" => heard[f]
          /\ outcome'[f] = "ECOMM" => ~heard[f] /\ own[f] \notin pend
          /\ call' = RespCall(f, TRUE) /\ outcome'[f] = "none" => heard[f]
      <3>1. CASE outcome'[f] = "none"
        BY <3>1, <1>2, <1>3, <1>13
      <3>2. CASE outcome'[f] # "none"
        BY <3>2, <1>2, <1>3, <1>13
      <3> QED
        BY <3>1, <3>2
    <2>2. /\ ~fx'[f].tx_cmd /\ fx'[f].retry_cnt # 0
          /\ fx'[f].have_cookie => fx'[f].cookie = own'[f] /\ own'[f] # 0
          /\ fx'[f].have_cookie /\ fx'[f].tx_acked => heard'[f]
          /\ fx'[f].timeout = "listen_end" => heard'[f]
      BY <1>3, <1>11 DEF y
    <2>3. /\ own'[f] = 0 => ~heard'[f]
          /\ own'[f] \in pend' => ~heard'[f]
          /\ own'[f] \notin late'
          /\ outcome'[f] = "ok" => heard'[f]
          /\ outcome'[f] = "ECOMM" => ~heard'[f] /\ own'[f] \notin pend'
          /\ call' = RespCall(f, TRUE) /\ outcome'[f] = "none" => heard'[f]
      BY <1>3, <1>12, <2>1
    <2>4. call' = DoneCall(f) => ~fx'[f].tx_cmd /\ fx'[f].retry_cnt > 0
      BY <1>2, <1>11, ListedLemma DEF y
    <2> QED
      BY <2>1, <2>2, <2>3, <2>4, <1>4, <1>5 DEF XchgOk
  <1>15. CountOk(f)'
    BY <1>1, <1>3, <1>5, <1>11 DEF CountOk, y
  <1>16. Once(cmdq, {Tx(f)}) => Once(cmdq', {Tx(f)})
    BY DEF NoFrames
  <1>17. \A e \in ToSet(evq') : ~(e.ev = "answer" /\ e.fx = f)
    BY DEF MessagesRead
  <1>18. own'[f] = own[f] /\ heard'[f] = heard[f]
    BY <1>3
  <1> QED
    BY <1>9, <1>10, <1>14, <1>15, <1>16, <1>17, <1>18, OneChanges


\* A state in which only the fields of f were changed.
Variant(s, f) ==
    /\ s.fx \in [Fx -> Exchanges] /\ \A g \in Fx \ {f} : s.fx[g] = fx[g]
    /\ DOMAIN s = {"fx", "cmdq", "own", "heard"}
    /\ s.cmdq = cmdq /\ s.own = own /\ s.heard = heard

\* f, which has nothing under way, transmits again.
LEMMA RetransmitLemma ==
    ASSUME IInv, NEW f \in Fx, f \in ToSet(xchgs), CallOf(call, f), fx[f].retry_cnt # 0,
           ~fx[f].tx_cmd, NEW s, Variant(s, f), s.fx[f].timeout = "none",
           s.fx[f].retry_cnt < MaxRetries + busy, SetState(TxRetry(s, f)), call' = NoCall,
           UNCHANGED <<xchgs, outcome, work, evq, pend, late, busy, env>>
    PROVE  IInv'
  <1>1. /\ TypeOK /\ XchgOk(f) /\ CountOk(f)
        /\ \A e \in ToSet(evq) : e.ev = "answer" => AnswerOk(e)
    BY Parts DEF Whole, MessageOk
  <1>2. /\ outcome[f] = "none" /\ f \in ToSet(work) /\ fx[f].retry_cnt \in Nat
        /\ 0 \notin late /\ 0 \notin pend
    BY ListedLemma
  <1>3. /\ work' = work /\ pend' = pend /\ late' = late /\ busy' = busy /\ env' = env
        /\ xchgs' = xchgs /\ outcome' = outcome /\ evq' = evq
    OBVIOUS
  <1>4. HoldsRadio(f)'
    BY <1>1, <1>2, <1>3 DEF XchgOk, HoldsRadio
  <1>5. Tx(f) \notin ToSet(cmdq)
    BY <1>1 DEF XchgOk
  <1> DEFINE t == TxRetry(s, f)
  <1>6. /\ s.fx \in [Fx -> Exchanges] /\ s.cmdq \in Seq(Commands)
        /\ s.own \in [Fx -> CookieOr0] /\ s.heard \in [Fx -> BOOLEAN]
    BY <1>1 DEF Variant, TypeOK
  <1>7. /\ t.fx \in [Fx -> Exchanges]
        /\ t.own \in [Fx -> CookieOr0]
        /\ t.heard \in [Fx -> BOOLEAN]
        /\ t.cmdq \in Seq(Commands)
        /\ t.fx[f] = Transmitted(s.fx[f]) /\ t.own[f] = 0 /\ t.heard[f] = FALSE
        /\ \A g \in Fx \ {f} : /\ t.fx[g] = s.fx[g] /\ t.own[g] = s.own[g]
                               /\ t.heard[g] = s.heard[g]
                               /\ Once(s.cmdq, {Tx(g)}) => Once(t.cmdq, {Tx(g)})
        /\ \A g \in Fx : Tx(g) \in ToSet(t.cmdq) <=> Tx(g) \in ToSet(s.cmdq) \/ g = f
        /\ Tx(f) \notin ToSet(s.cmdq) => Once(t.cmdq, {Tx(f)})
    BY <1>6, TxRetryLemma
  <1>8. fx' = t.fx /\ cmdq' = t.cmdq /\ own' = t.own /\ heard' = t.heard
    BY DEF SetState
  <1> HIDE DEF t
  <1>9. /\ fx'[f].tx_cmd /\ ~fx'[f].tx_acked /\ ~fx'[f].have_cookie /\ ~fx'[f].early_status
        /\ fx'[f].timeout = "none" /\ fx'[f].retry_cnt = s.fx[f].retry_cnt + 1
        /\ fx'[f].retry_cnt > 0
    BY <1>6, <1>7, <1>8, TransmittedFields
  <1>10. s.fx[f].retry_cnt \in Nat /\ busy \in Nat /\ MaxRetries \in Nat /\ MaxBusy \in Nat /\ busy <= MaxBusy
    BY <1>1, <1>6, LimitAssumption DEF Exchanges, TypeOK
  <1>11. call' \in Callbacks /\ CallOf(call', f) /\ call' # DoneCall(f) /\ call' # RespCall(f, TRUE)
    BY NoCallLemma DEF CallOf
  <1>12. TypeOK'
    BY <1>1, <1>3, <1>7, <1>8, <1>11 DEF TypeOK
  <1>13. OthersSame(f)
    BY <1>3, <1>7, <1>8, <1>11 DEF OthersSame, Variant
  <1>14. own'[f] = 0 /\ heard'[f] = FALSE
    BY <1>7, <1>8
  <1>15. XchgOk(f)'
    <2>1. /\ outcome'[f] = "none" /\ f \in ToSet(xchgs') /\ f \in ToSet(work')
          /\ own'[f] \notin late' /\ own'[f] \notin pend' /\ ~heard'[f]
      BY <1>2, <1>3, <1>14
    <2>2. /\ outcome'[f] # "ok" /\ outcome'[f] # "ECOMM" /\ outcome'[f] # "free"
          /\ outcome'[f] \in {"free", "none"}
      BY <2>1
    <2>3. fx'[f].retry_cnt # 0 /\ fx'[f].timeout # "listen_end"
      BY <1>9
    <2> QED
      BY <2>1, <2>2, <2>3, <1>4, <1>9, <1>11, <1>14 DEF XchgOk
  <1>16. CountOk(f)'
    BY <1>3, <1>9, <1>10 DEF CountOk
  <1>17. Once(cmdq', {Tx(f)})
    BY <1>5, <1>7, <1>8 DEF Variant
  <1>18. \A e \in ToSet(evq') : ~(e.ev = "answer" /\ e.fx = f)
    BY <1>1, <1>3 DEF AnswerOk
  <1> QED
    BY <1>12, <1>13, <1>14, <1>15, <1>16, <1>17, <1>18, OneChanges

\* The retry timer.
LEMMA RetryTimeoutLemma == ASSUME IInv, NEW f \in Fx, RetryTimeout(f) PROVE IInv'
  <1> DEFINE s == [State EXCEPT !.fx[f].timeout = "none"]
             x == fx[f]
  <1>1. TypeOK /\ XchgOk(f) /\ CountOk(f) /\ x \in Exchanges /\ x.timeout = "retry"
    BY Parts DEF Whole, TypeOK, RetryTimeout
  <1>2. x.retry_cnt # 0 /\ ~x.tx_cmd
    BY <1>1 DEF XchgOk
  <1>3. /\ s.fx = [fx EXCEPT ![f] = [x EXCEPT !.timeout = "none"]]
        /\ s.cmdq = cmdq /\ s.own = own /\ s.heard = heard
        /\ DOMAIN s = {"fx", "cmdq", "own", "heard"}
    BY DEF State
  <1>4. [x EXCEPT !.timeout = "none"] \in Exchanges /\ [x EXCEPT !.timeout = "none"].timeout = "none"
        /\ [x EXCEPT !.timeout = "none"].retry_cnt = x.retry_cnt
    BY <1>1 DEF Exchanges, Timeouts
  <1>5. Variant(s, f) /\ s.fx[f].timeout = "none" /\ s.fx[f].retry_cnt = x.retry_cnt
    <2> HIDE DEF s
    <2>1. Variant(s, f) /\ s.fx[f] = [x EXCEPT !.timeout = "none"]
      BY <1>1, <1>3, <1>4 DEF Variant, TypeOK
    <2> QED
      BY <1>4, <2>1
  <1>6. x.retry_cnt < MaxRetries + busy
    BY <1>1 DEF CountOk
  <1>7. call = NoCall /\ CallOf(call, f)
    BY DEF RetryTimeout, Idle, CallOf
  <1>8. f \in ToSet(xchgs)
    <2>1. NoCall # DoneCall(f)
      BY NoCallLemma
    <2>2. outcome[f] # "free"
      BY <1>1, <1>2, BlankFields DEF XchgOk
    <2> QED
      BY <1>1, <1>7, <2>1, <2>2 DEF XchgOk
  <1>9. /\ SetState(TxRetry(s, f)) /\ call' = NoCall
        /\ UNCHANGED <<xchgs, outcome, work, evq, pend, late, busy, env>>
    BY <1>7 DEF RetryTimeout, kernelVars
  <1> HIDE DEF s
  <1> QED
    BY <1>2, <1>5, <1>6, <1>7, <1>8, <1>9, RetransmitLemma

\* The listen period ends, or the client wants no more of a frame saved early.
LEMMA ListenEndLemma ==
    ASSUME IInv, NEW f \in Fx, f \in ToSet(xchgs), CallOf(call, f), ~fx[f].tx_cmd, heard[f],
           NEW s, Variant(s, f), s.fx[f] \in {fx[f], [fx[f] EXCEPT !.timeout = "none"]},
           ListenEnd(s, f), UNCHANGED <<work, evq, pend, late, busy, env>>
    PROVE  IInv'
  <1> DEFINE x == fx[f]
             y == s.fx[f]
  <1>1. /\ TypeOK /\ XchgOk(f) /\ CountOk(f)
        /\ \A e \in ToSet(evq) : e.ev = "answer" => AnswerOk(e)
    BY Parts DEF Whole, MessageOk
  <1>2. x \in Exchanges /\ y \in Exchanges
    BY <1>1 DEF TypeOK, Variant
  <1>3. own[f] # 0 /\ x.retry_cnt # 0 /\ Tx(f) \notin ToSet(cmdq)
    BY <1>1 DEF XchgOk
  <1>4. own[f] \notin late
    BY <1>1 DEF XchgOk
  <1>5. /\ y.retry_cnt = x.retry_cnt /\ y.tx_cmd = x.tx_cmd /\ y.have_cookie = x.have_cookie
        /\ y.cookie = x.cookie /\ y.tx_acked = x.tx_acked /\ y.timeout \in {x.timeout, "none"}
    BY <1>2 DEF Exchanges
  <1>6. ASSUME Done(s, f, "ok") PROVE IInv'
    <2>1. fx' = s.fx /\ cmdq' = cmdq /\ own' = own /\ heard' = heard
      BY <1>6 DEF Done, SetState, Variant
    <2>2. Settled(f)
      <3>1. ~y.tx_cmd
        BY <1>5
      <3>2. y.have_cookie => y.cookie = own[f] /\ own[f] # 0
        BY <1>1, <1>3, <1>5 DEF XchgOk
      <3>3. y.timeout = "retry" => y.retry_cnt < MaxRetries + busy
        BY <1>1, <1>5 DEF CountOk
      <3> QED
        BY <2>1, <1>5, <3>1, <3>2, <3>3 DEF Settled, Variant
    <2>3. NoFrames /\ evq' = evq
      BY <2>1, <1>1 DEF NoFrames, TypeOK
    <2>4. MessagesRead(f)
      BY <1>1, <2>3 DEF MessagesRead, TypeOK, AnswerOk
    <2>5. Finishes(f)
      BY <1>6 DEF Finishes, Done
    <2> QED
      BY <1>3, <1>4, <2>1, <2>2, <2>3, <2>4, <2>5, SettledLemma
  <1>7. ASSUME y.kind.retries_on_ack > 0,
               SetState(TxRetry([s EXCEPT !.fx[f] = OnceMore(@)], f)),
               call' = NoCall, UNCHANGED <<xchgs, outcome>>
        PROVE  IInv'
    <2> DEFINE z == OnceMore(y)
               t == [s EXCEPT !.fx[f] = z]
    <2>1. z \in Exchanges
      <3>1. y.kind \in KindSet /\ y.kind.retries_on_ack - 1 \in Nat
        BY <1>2, <1>7 DEF Exchanges, KindSet
      <3>2. [y.kind EXCEPT !.retries_on_ack = @ - 1] \in KindSet
        BY <3>1 DEF KindSet
      <3> QED
        BY <1>2, <3>2 DEF Exchanges, Timeouts, OnceMore
    <2>2. z.timeout = "none" /\ z.retry_cnt = 0
      BY <1>2 DEF Exchanges, OnceMore
    <2>3. SetState(TxRetry(t, f))
      BY <1>7
    <2> HIDE DEF z
    <2>4. /\ t.fx = [s.fx EXCEPT ![f] = z] /\ t.cmdq = cmdq /\ t.own = own /\ t.heard = heard
          /\ DOMAIN t = {"fx", "cmdq", "own", "heard"}
      BY DEF Variant
    <2>5. Variant(t, f) /\ t.fx[f] = z
      <3> HIDE DEF t
      <3> QED
        BY <2>1, <2>4 DEF Variant
    <2>6. z.retry_cnt < MaxRetries + busy
      BY <2>2, <1>1, LimitAssumption DEF TypeOK
    <2> HIDE DEF t
    <2> QED
      BY <1>3, <1>7, <2>2, <2>3, <2>5, <2>6, RetransmitLemma
  <1> QED
    BY <1>6, <1>7 DEF ListenEnd

\* The listen timer.
LEMMA ListenTimeoutLemma == ASSUME IInv, NEW f \in Fx, ListenTimeoutCb(f) PROVE IInv'
  <1> DEFINE s == [State EXCEPT !.fx[f].timeout = "none"]
             x == fx[f]
  <1>1. TypeOK /\ XchgOk(f) /\ CountOk(f) /\ x \in Exchanges /\ x.timeout = "listen_end"
    BY Parts DEF Whole, TypeOK, ListenTimeoutCb
  <1>2. x.retry_cnt # 0 /\ ~x.tx_cmd /\ heard[f]
    BY <1>1 DEF XchgOk
  <1>3. /\ s.fx = [fx EXCEPT ![f] = [x EXCEPT !.timeout = "none"]]
        /\ s.cmdq = cmdq /\ s.own = own /\ s.heard = heard
        /\ DOMAIN s = {"fx", "cmdq", "own", "heard"}
    BY DEF State
  <1>4. [x EXCEPT !.timeout = "none"] \in Exchanges
    BY <1>1 DEF Exchanges, Timeouts
  <1> HIDE DEF s
  <1>5. Variant(s, f) /\ s.fx[f] = [x EXCEPT !.timeout = "none"]
    BY <1>1, <1>3, <1>4 DEF Variant, TypeOK
  <1>6. call = NoCall /\ CallOf(call, f)
    BY DEF ListenTimeoutCb, Idle, CallOf
  <1>7. f \in ToSet(xchgs)
    <2>1. NoCall # DoneCall(f)
      BY NoCallLemma
    <2>2. outcome[f] # "free"
      BY <1>1, <1>2, BlankFields DEF XchgOk
    <2> QED
      BY <1>1, <1>6, <2>1, <2>2 DEF XchgOk
  <1>8. ListenEnd(s, f) /\ UNCHANGED <<work, evq, pend, late, busy, env>>
    BY DEF ListenTimeoutCb, kernelVars, s
  <1> QED
    BY <1>2, <1>5, <1>6, <1>7, <1>8, ListenEndLemma


\* The status of f's transmission.
LEMMA TxStatusLemma ==
    ASSUME IInv, NEW f \in Fx, f \in ToSet(xchgs), call = NoCall, fx[f].retry_cnt # 0,
           NEW s, Variant(s, f), ~s.fx[f].tx_cmd, s.fx[f].have_cookie,
           s.fx[f].cookie = own[f], own[f] # 0,
           s.fx[f].retry_cnt = fx[f].retry_cnt, s.fx[f].timeout = fx[f].timeout,
           own[f] \notin pend, own[f] \notin late, NEW acked \in BOOLEAN, heard[f] = acked,
           TxStatus(s, f, acked), MessagesRead(f), UNCHANGED <<work, pend, late, busy, env>>
    PROVE  IInv'
  <1> DEFINE x == s.fx[f]
             over == [s EXCEPT !.fx[f].have_cookie = FALSE]
             cancelled == [over EXCEPT !.cmdq = @ \o WaitCancelCmds(s, {f})]
             x0 == [x EXCEPT !.have_cookie = FALSE]
             x1 == [x0 EXCEPT !.early_frame = FALSE, !.timeout = "retry"]
             x2 == [x0 EXCEPT !.tx_acked = TRUE]
             x3 == [x EXCEPT !.tx_acked = TRUE, !.timeout = ListenTimeout(x)]
  <1>1. TypeOK /\ XchgOk(f) /\ CountOk(f)
    BY Parts DEF Whole
  <1>2. /\ s.fx \in [Fx -> Exchanges] /\ x \in Exchanges
        /\ DOMAIN s = {"fx", "cmdq", "own", "heard"}
        /\ s.cmdq = cmdq /\ s.own = own /\ s.heard = heard
    BY DEF Variant
  <1>3. Tx(f) \notin ToSet(cmdq) /\ CallOf(call, f)
    BY <1>1 DEF XchgOk, CallOf
  <1>4. x0 \in Exchanges /\ x1 \in Exchanges /\ x2 \in Exchanges /\ x3 \in Exchanges
    BY <1>2 DEF Exchanges, Timeouts, ListenTimeout
  <1>5. /\ ~x0.tx_cmd /\ ~x0.have_cookie /\ x0.retry_cnt = fx[f].retry_cnt
        /\ x0.timeout = fx[f].timeout
        /\ ~x1.tx_cmd /\ ~x1.have_cookie /\ x1.retry_cnt = fx[f].retry_cnt
        /\ x1.timeout = "retry"
        /\ ~x2.tx_cmd /\ ~x2.have_cookie /\ x2.retry_cnt = fx[f].retry_cnt
        /\ x2.timeout = fx[f].timeout
        /\ ~x3.tx_cmd /\ x3.cookie = own[f] /\ x3.retry_cnt = fx[f].retry_cnt
        /\ x3.timeout = "listen_end"
    BY <1>2 DEF Exchanges, ListenTimeout
  <1> DEFINE fields == {"fx", "cmdq", "own", "heard"}
             W == WaitCancelCmds(s, {f})
  <1>6. /\ over.fx = [s.fx EXCEPT ![f] = x0] /\ over.cmdq = cmdq /\ over.own = own
        /\ over.heard = heard /\ DOMAIN over = fields
    <2>1. DOMAIN s = fields
      BY <1>2
    <2>2. /\ over.fx = [s.fx EXCEPT ![f].have_cookie = FALSE] /\ over.cmdq = cmdq
          /\ over.own = own /\ over.heard = heard /\ DOMAIN over = fields
      BY <1>2, <2>1
    <2>3. [s.fx EXCEPT ![f].have_cookie = FALSE] = [s.fx EXCEPT ![f] = x0]
      BY <1>2
    <2> HIDE DEF over, x0
    <2> QED
      BY <2>2, <2>3
  <1>7. /\ cancelled.fx = over.fx /\ cancelled.own = own /\ cancelled.heard = heard
        /\ cancelled.cmdq = cmdq \o W /\ DOMAIN cancelled = fields
    <2> HIDE DEF over, W
    <2> QED
      BY <1>6 DEF W
  <1>8. W \in Seq(Commands) /\ \A g \in Fx : Tx(g) \notin ToSet(W)
    <2>1. own[f] \in Cookies
      BY <1>1 DEF TypeOK, CookieOr0
    <2> QED
      BY <2>1, WaitCancelLemma
  <1> HIDE DEF W
  <1>9. ASSUME cmdq' \in {cmdq, cmdq \o W} PROVE NoFrames
    <2>1. CASE cmdq' = cmdq
      BY <2>1, <1>1 DEF NoFrames, TypeOK
    <2>2. CASE cmdq' = cmdq \o W
      <3>1. cmdq \in Seq(Commands)
        BY <1>1 DEF TypeOK
      <3>2. cmdq' \in Seq(Commands) /\ ToSet(cmdq') = ToSet(cmdq) \cup ToSet(W)
        BY <3>1, <2>2, <1>8, SetOfConcat
      <3>3. ASSUME NEW g \in Fx, Once(cmdq, {Tx(g)}) PROVE Once(cmdq', {Tx(g)})
        <4>1. ToSet(W) \cap {Tx(g)} = {}
          BY <1>8
        <4> QED
          BY <4>1, <3>1, <3>3, <2>2, <1>8, OnceConcat
      <3> QED
        BY <3>2, <3>3, <1>8 DEF NoFrames
    <2> QED
      BY <1>9, <2>1, <2>2
  <1>10. ASSUME NEW y \in Exchanges, fx' = [s.fx EXCEPT ![f] = y], cmdq' \in {cmdq, cmdq \o W},
                own' = own, heard' = heard, ~y.tx_cmd, y.retry_cnt = fx[f].retry_cnt,
                y.have_cookie => y.cookie = own[f],
                y.have_cookie /\ y.tx_acked => heard[f],
                y.timeout = fx[f].timeout
                   \/ (y.timeout = "listen_end" /\ heard[f])
                   \/ (y.timeout = "retry" /\ y.retry_cnt < MaxRetries),
                GoesOn(f) \/ Finishes(f)
         PROVE  IInv'
    <2>1. fx' \in [Fx -> Exchanges] /\ fx'[f] = y /\ \A g \in Fx \ {f} : fx'[g] = fx[g]
      BY <1>2, <1>10 DEF Variant
    <2>2. y.timeout = "listen_end" => heard[f]
      BY <1>1, <1>10 DEF XchgOk
    <2>3. y.timeout = "retry" => y.retry_cnt < MaxRetries + busy
      <3>1. y.retry_cnt \in Nat /\ MaxRetries \in Nat /\ busy \in Nat
        BY <1>1, LimitAssumption DEF Exchanges, TypeOK
      <3> QED
        BY <1>1, <1>10, <3>1 DEF CountOk
    <2>4. Settled(f)
      BY <1>10, <2>1, <2>2, <2>3 DEF Settled
    <2> QED
      BY <1>3, <1>9, <1>10, <2>4, SettledLemma
  <1> HIDE DEF x0, x1, x2, x3, over, cancelled
  <1>11. CASE ~acked /\ ~RetryAllowed(x) /\ Done(cancelled, f, "ECOMM")
    <2>1. /\ fx' = [s.fx EXCEPT ![f] = x0] /\ cmdq' = cmdq \o W /\ own' = own /\ heard' = heard
      BY <1>6, <1>7, <1>11 DEF Done, SetState
    <2>2. Finishes(f)
      BY <1>11 DEF Done, Finishes
    <2> QED
      BY <1>4, <1>5, <1>10, <2>1, <2>2
  <1>12. CASE /\ ~acked /\ RetryAllowed(x)
              /\ SetState([cancelled EXCEPT !.fx[f] =
                              [@ EXCEPT !.early_frame = FALSE, !.timeout = "retry"]])
              /\ UNCHANGED <<xchgs, call, outcome>>
    <2> DEFINE c == [cancelled EXCEPT !.fx[f] =
                        [@ EXCEPT !.early_frame = FALSE, !.timeout = "retry"]]
    <2>1. over.fx[f] = x0
      BY <1>2, <1>6
    <2>2. /\ c.fx = [over.fx EXCEPT ![f] = x1] /\ c.cmdq = cmdq \o W /\ c.own = own
          /\ c.heard = heard
      BY <1>7, <2>1 DEF x1
    <2>3. fx' = c.fx /\ cmdq' = c.cmdq /\ own' = c.own /\ heard' = c.heard
      BY <1>12 DEF SetState
    <2> HIDE DEF c
    <2>4. [over.fx EXCEPT ![f] = x1] = [s.fx EXCEPT ![f] = x1]
      BY <1>2, <1>6
    <2>5. GoesOn(f)
      BY <1>12 DEF GoesOn
    <2>6. x1.retry_cnt < MaxRetries
      BY <1>5, <1>12 DEF RetryAllowed
    <2> QED
      BY <1>4, <1>5, <1>10, <2>2, <2>3, <2>4, <2>5, <2>6
  <1>13. CASE acked /\ ~x.kind.resp_timeout /\ Done(over, f, "ok")
    <2>1. /\ fx' = [s.fx EXCEPT ![f] = x0] /\ cmdq' = cmdq /\ own' = own /\ heard' = heard
      BY <1>6, <1>13 DEF Done, SetState
    <2>2. Finishes(f)
      BY <1>13 DEF Done, Finishes
    <2> QED
      BY <1>4, <1>5, <1>10, <2>1, <2>2
  <1>14. CASE /\ acked /\ x.kind.resp_timeout /\ x.early_frame
              /\ SetState([over EXCEPT !.fx[f].tx_acked = TRUE])
              /\ call' = RespCall(f, TRUE)
              /\ UNCHANGED <<xchgs, outcome>>
    <2> DEFINE c == [over EXCEPT !.fx[f].tx_acked = TRUE]
    <2>1. over.fx[f] = x0
      BY <1>2, <1>6
    <2>2. /\ c.fx = [over.fx EXCEPT ![f] = x2] /\ c.cmdq = cmdq /\ c.own = own
          /\ c.heard = heard
      BY <1>6, <2>1 DEF x2
    <2>3. fx' = c.fx /\ cmdq' = c.cmdq /\ own' = c.own /\ heard' = c.heard
      BY <1>14 DEF SetState
    <2> HIDE DEF c
    <2>4. [over.fx EXCEPT ![f] = x2] = [s.fx EXCEPT ![f] = x2]
      BY <1>2, <1>6
    <2>5. GoesOn(f)
      BY <1>14 DEF GoesOn
    <2> QED
      BY <1>4, <1>5, <1>10, <2>2, <2>3, <2>4, <2>5
  <1>15. CASE /\ acked /\ x.kind.resp_timeout /\ ~x.early_frame
              /\ SetState([s EXCEPT !.fx[f] =
                              [@ EXCEPT !.tx_acked = TRUE, !.timeout = ListenTimeout(x)]])
              /\ UNCHANGED <<xchgs, call, outcome>>
    <2> DEFINE c == [s EXCEPT !.fx[f] =
                        [@ EXCEPT !.tx_acked = TRUE, !.timeout = ListenTimeout(x)]]
    <2>1. /\ c.fx = [s.fx EXCEPT ![f] = x3] /\ c.cmdq = cmdq /\ c.own = own
          /\ c.heard = heard
      BY <1>2 DEF x3
    <2>2. fx' = c.fx /\ cmdq' = c.cmdq /\ own' = c.own /\ heard' = c.heard
      BY <1>15 DEF SetState
    <2> HIDE DEF c
    <2>3. GoesOn(f)
      BY <1>15 DEF GoesOn
    <2>4. heard[f]
      BY <1>15
    <2> QED
      BY <1>4, <1>5, <1>10, <2>1, <2>2, <2>3, <2>4
  <1> QED
    BY <1>11, <1>12, <1>13, <1>14, <1>15 DEF TxStatus, over, cancelled


\* A message is read.
LEMMA ReadLemma ==
    ASSUME IInv, evq # <<>>, evq' = Tail(evq)
    PROVE  /\ Head(evq) \in Messages /\ Head(evq) \in ToSet(evq) /\ MessageOk(Head(evq))
           /\ evq' \in Seq(Messages)
           /\ ToSet(evq') \subseteq ToSet(evq)
           /\ \A g \in Fx : /\ Once(evq, AnswersTo({g})) => Once(evq', AnswersTo({g}))
                            /\ \/ Head(evq).ev = "answer" /\ Head(evq).fx = g
                               \/ ~fx[g].tx_cmd
                               => MessagesRead(g)
  <1>1. /\ TypeOK /\ \A g \in Fx : OnceOk(g)
        /\ \A e \in ToSet(evq) : MessageOk(e)
    BY Parts DEF Whole
  <1>2. evq \in Seq(Messages)
    BY <1>1 DEF TypeOK
  <1>3. /\ Head(evq) \in Messages /\ Head(evq) \in ToSet(evq)
        /\ evq' \in Seq(Messages) /\ ToSet(evq') \subseteq ToSet(evq)
    BY <1>2, SetOfTail
  <1>4. \A g \in Fx : Once(evq, AnswersTo({g})) => Once(evq', AnswersTo({g}))
    BY <1>2, OnceTail
  <1>5. ASSUME NEW g \in Fx, Head(evq).ev = "answer", Head(evq).fx = g PROVE MessagesRead(g)
    <2>1. Head(evq) \in AnswersTo({g})
      BY <1>3, <1>5, MessageFields
    <2>2. Once(evq, AnswersTo({g}))
      BY <1>1 DEF OnceOk
    <2>3. ToSet(evq') \cap AnswersTo({g}) = {}
      BY <1>2, <2>1, <2>2, OnceTail
    <2>4. ToSet(evq') \subseteq Messages
      BY <1>3, SetOfSeq
    <2>5. ASSUME NEW e \in ToSet(evq'), e.ev = "answer", e.fx = g PROVE FALSE
      <3>1. e \in AnswersTo({g})
        BY <2>4, <2>5, MessageFields
      <3> QED
        BY <2>3, <3>1
    <2> QED
      BY <1>3, <1>4, <2>5 DEF MessagesRead
  <1>6. ASSUME NEW g \in Fx, ~fx[g].tx_cmd PROVE MessagesRead(g)
    <2>1. ASSUME NEW e \in ToSet(evq'), e.ev = "answer", e.fx = g PROVE FALSE
      BY <1>1, <1>3, <1>6, <2>1 DEF MessageOk, AnswerOk
    <2> QED
      BY <1>3, <1>4, <2>1 DEF MessagesRead
  <1> QED
    BY <1>1, <1>3, <1>4, <1>5, <1>6

\* An exchange with a transmission under way, while no callback runs, is in the list.
LEMMA RunningListed ==
    ASSUME IInv, NEW f \in Fx, fx[f].retry_cnt # 0, call # DoneCall(f)
    PROVE  f \in ToSet(xchgs)
  <1>1. XchgOk(f)
    BY Parts DEF Whole
  <1>2. outcome[f] # "free"
    BY <1>1, BlankFields DEF XchgOk
  <1> QED
    BY <1>1, <1>2 DEF XchgOk

\* frame_xchg_tx_cb().
LEMMA TxCbLemma == ASSUME IInv, TxCb PROVE IInv'
  <1> DEFINE e == Head(evq)
             f == e.fx
             x == fx[f]
             s == [State EXCEPT !.fx[f].tx_cmd = FALSE]
             acked == EarlyStatus(x, e.cookie) /\ x.tx_acked
             known == [s EXCEPT !.fx[f] = [@ EXCEPT !.tx_acked = acked, !.have_cookie = TRUE,
                                                    !.cookie = e.cookie]]
             x0 == [x EXCEPT !.tx_cmd = FALSE]
             x1 == [x0 EXCEPT !.timeout = IF x.kind.retry_interval THEN "retry" ELSE "disarmed"]
             x2 == [x0 EXCEPT !.tx_acked = acked, !.have_cookie = TRUE, !.cookie = e.cookie]
  <1>1. /\ call = NoCall /\ evq # <<>> /\ e.ev = "answer" /\ evq' = Tail(evq)
        /\ UNCHANGED <<work, pend, late, busy, env>>
    BY DEF TxCb, Idle, kernelVars
  <1>2. e \in Messages /\ AnswerOk(e)
    BY <1>1, ReadLemma DEF MessageOk
  <1>3. f \in Fx /\ e.err \in {"ok", "EBUSY", "error"} /\ e.cookie \in CookieOr0
    BY <1>1, <1>2, MessageFields
  <1>4. MessagesRead(f)
    BY <1>1, <1>3, ReadLemma
  <1>5. TypeOK /\ XchgOk(f) /\ CountOk(f) /\ x \in Exchanges
    BY <1>3, Parts DEF Whole, TypeOK
  <1>6. /\ x.tx_cmd /\ Tx(f) \notin ToSet(cmdq) /\ own[f] \notin late
        /\ IF e.err = "ok" THEN own[f] = e.cookie /\ e.cookie # 0 ELSE own[f] = 0
        /\ e.err = "EBUSY" => x.retry_cnt < MaxRetries + busy
    BY <1>2 DEF AnswerOk
  <1>7. \/ /\ e.err = "EBUSY"
           /\ SetState([s EXCEPT !.fx[f].timeout =
                                     IF x.kind.retry_interval THEN "retry" ELSE "disarmed"])
           /\ UNCHANGED <<xchgs, call, outcome>>
        \/ /\ e.err = "error"
           /\ Done(s, f, "error")
        \/ /\ e.err = "ok" /\ ~EarlyStatus(x, e.cookie)
           /\ SetState(known)
           /\ UNCHANGED <<xchgs, call, outcome>>
        \/ /\ e.err = "ok" /\ EarlyStatus(x, e.cookie)
           /\ TxStatus(known, f, acked)
    BY DEF TxCb
  <1>8. /\ acked \in BOOLEAN
        /\ ~EarlyStatus(x, e.cookie) => acked = FALSE
        /\ EarlyStatus(x, e.cookie) => x.early_status /\ x.cookie = e.cookie /\ acked = x.tx_acked
    BY <1>5 DEF EarlyStatus, Exchanges
  <1> HIDE DEF e, f, acked
  <1>9. x.retry_cnt # 0 /\ x.timeout = "none"
    BY <1>5, <1>6 DEF XchgOk
  <1>10. f \in ToSet(xchgs) /\ CallOf(call, f)
    BY <1>1, <1>3, <1>9, RunningListed, NoCallLemma DEF CallOf
  <1>11. x0 \in Exchanges /\ x1 \in Exchanges /\ x2 \in Exchanges
    BY <1>3, <1>5, <1>8 DEF Exchanges, Timeouts
  <1>12. /\ ~x0.tx_cmd /\ x0.retry_cnt = x.retry_cnt /\ x0.timeout = "none"
         /\ x0.have_cookie = x.have_cookie
         /\ ~x1.tx_cmd /\ x1.retry_cnt = x.retry_cnt /\ x1.timeout \in {"retry", "disarmed"}
         /\ x1.have_cookie = x.have_cookie
         /\ ~x2.tx_cmd /\ x2.retry_cnt = x.retry_cnt /\ x2.timeout = "none"
         /\ x2.have_cookie = TRUE /\ x2.cookie = e.cookie /\ x2.tx_acked = acked
    BY <1>5, <1>9 DEF Exchanges
  <1>13. ~x.have_cookie
    BY <1>5, <1>6 DEF XchgOk
  <1> DEFINE fields == {"fx", "cmdq", "own", "heard"}
  <1>14. /\ s.fx = [fx EXCEPT ![f] = x0] /\ s.cmdq = cmdq /\ s.own = own
         /\ s.heard = heard /\ DOMAIN s = fields
    BY DEF State
  <1>15. ASSUME NEW y \in Exchanges, fx' = [fx EXCEPT ![f] = y], cmdq' = cmdq,
                own' = own, heard' = heard, ~y.tx_cmd, y.retry_cnt = x.retry_cnt,
                y.have_cookie => y.cookie = own[f] /\ own[f] # 0 /\ ~y.tx_acked,
                y.timeout # "listen_end", y.timeout = "retry" => y.retry_cnt < MaxRetries + busy,
                GoesOn(f) \/ Finishes(f)
         PROVE  IInv'
    <2>1. fx' \in [Fx -> Exchanges] /\ fx'[f] = y /\ \A g \in Fx \ {f} : fx'[g] = fx[g]
      BY <1>3, <1>5, <1>15 DEF TypeOK
    <2>2. Settled(f)
      BY <1>15, <2>1 DEF Settled
    <2>3. NoFrames
      BY <1>5, <1>15 DEF NoFrames, TypeOK
    <2> QED
      BY <1>1, <1>3, <1>4, <1>6, <1>9, <1>10, <1>15, <2>2, <2>3, SettledLemma
  <1>16. /\ known.fx = [fx EXCEPT ![f] = x2] /\ known.cmdq = cmdq /\ known.own = own
         /\ known.heard = heard /\ DOMAIN known = fields /\ known.fx[f] = x2
    <2> HIDE DEF s
    <2>1. s.fx[f] = x0 /\ [s.fx EXCEPT ![f] = x2] = [fx EXCEPT ![f] = x2] /\ [fx EXCEPT ![f] = x2][f] = x2
      <3>1. fx \in [Fx -> Exchanges]
        BY <1>5 DEF TypeOK
      <3> HIDE DEF x0, x2
      <3> QED
        BY <1>3, <1>14, <3>1
    <2>2. /\ known.fx = [s.fx EXCEPT ![f] = x2] /\ known.cmdq = cmdq /\ known.own = own
          /\ known.heard = heard /\ DOMAIN known = fields
      BY <1>14, <2>1
    <2> HIDE DEF known, x2
    <2> QED
      BY <2>1, <2>2
  <1>17. CASE /\ e.err = "EBUSY"
              /\ SetState([s EXCEPT !.fx[f].timeout =
                                     IF x.kind.retry_interval THEN "retry" ELSE "disarmed"])
              /\ UNCHANGED <<xchgs, call, outcome>>
    <2> DEFINE c == [s EXCEPT !.fx[f].timeout = IF x.kind.retry_interval THEN "retry" ELSE "disarmed"]
    <2>1. c.fx = [fx EXCEPT ![f] = x1] /\ c.cmdq = cmdq /\ c.own = own /\ c.heard = heard
      BY <1>3, <1>5 DEF State, TypeOK
    <2>2. fx' = c.fx /\ cmdq' = c.cmdq /\ own' = c.own /\ heard' = c.heard
      BY <1>17 DEF SetState
    <2>3. GoesOn(f)
      BY <1>1, <1>17 DEF GoesOn
    <2>4. x1.retry_cnt < MaxRetries + busy /\ x1.timeout # "listen_end" /\ ~x1.have_cookie
      BY <1>6, <1>12, <1>13, <1>17
    <2> HIDE DEF c, x1
    <2> QED
      BY <1>11, <1>12, <1>15, <2>1, <2>2, <2>3, <2>4
  <1>18. CASE e.err = "error" /\ Done(s, f, "error")
    <2>1. fx' = s.fx /\ cmdq' = s.cmdq /\ own' = s.own /\ heard' = s.heard
      BY <1>18 DEF SetState, Done
    <2>2. Finishes(f)
      BY <1>18 DEF Finishes, Done
    <2>3. x0.timeout # "listen_end" /\ x0.timeout # "retry" /\ ~x0.have_cookie
      BY <1>12, <1>13
    <2> HIDE DEF s, x0
    <2> QED
      BY <1>11, <1>12, <1>14, <1>15, <2>1, <2>2, <2>3
  <1>19. CASE /\ e.err = "ok" /\ ~EarlyStatus(x, e.cookie)
              /\ SetState(known)
              /\ UNCHANGED <<xchgs, call, outcome>>
    <2>1. fx' = known.fx /\ cmdq' = known.cmdq /\ own' = known.own /\ heard' = known.heard
      BY <1>19 DEF SetState
    <2>2. GoesOn(f)
      BY <1>1, <1>19 DEF GoesOn
    <2>3. x2.timeout # "listen_end" /\ x2.timeout # "retry" /\ ~x2.tx_acked
          /\ x2.cookie = own[f] /\ own[f] # 0
      BY <1>6, <1>8, <1>12, <1>19
    <2> HIDE DEF known, x2
    <2> QED
      BY <1>11, <1>12, <1>15, <1>16, <2>1, <2>2, <2>3
  <1>20. CASE /\ e.err = "ok" /\ EarlyStatus(x, e.cookie)
              /\ TxStatus(known, f, acked)
    <2>1. x.early_status /\ x.cookie = own[f] /\ own[f] # 0 /\ acked = x.tx_acked
      BY <1>6, <1>8, <1>20
    <2>2. own[f] \notin pend /\ heard[f] = acked
      BY <1>5, <1>6, <2>1 DEF XchgOk
    <2> HIDE DEF known, x2
    <2>3. [fx EXCEPT ![f] = x2] \in [Fx -> Exchanges] /\ \A g \in Fx \ {f} : [fx EXCEPT ![f] = x2][g] = fx[g]
      BY <1>3, <1>5, <1>11 DEF TypeOK
    <2>4. Variant(known, f)
      BY <1>16, <2>3 DEF Variant
    <2>5. /\ ~known.fx[f].tx_cmd /\ known.fx[f].have_cookie /\ known.fx[f].cookie = own[f]
          /\ known.fx[f].retry_cnt = fx[f].retry_cnt /\ known.fx[f].timeout = fx[f].timeout
      BY <1>6, <1>9, <1>12, <1>16, <1>20
    <2> QED
      BY <1>1, <1>3, <1>4, <1>6, <1>8, <1>9, <1>10, <1>20, <2>1, <2>2, <2>4, <2>5, TxStatusLemma
  <1> HIDE DEF s, known, x0, x1, x2
  <1> QED
    BY <1>7, <1>17, <1>18, <1>19, <1>20


\* Messages are dropped or a response callback returns: nothing else changes.
LEMMA QuietLemma ==
    ASSUME IInv, UNCHANGED <<xchgs, work, fx, cmdq, pend, late, busy, env, own, heard, outcome>>,
           evq' \in Seq(Messages), ToSet(evq') \subseteq ToSet(evq),
           \A g \in Fx : Once(evq, AnswersTo({g})) => Once(evq', AnswersTo({g})),
           \/ call' = call
           \/ call' = NoCall /\ \A g \in Fx : call # DoneCall(g)
    PROVE  IInv'
  <1>1. TypeOK /\ \A g \in Fx : OnceOk(g)
    BY Parts DEF Whole
  <1>2. /\ xchgs' = xchgs /\ work' = work /\ fx' = fx /\ cmdq' = cmdq /\ pend' = pend
        /\ late' = late /\ busy' = busy /\ env' = env /\ own' = own /\ heard' = heard
        /\ outcome' = outcome
    OBVIOUS
  <1>3. call' \in Callbacks
    BY <1>1, NoCallLemma DEF TypeOK
  <1>4. \A g \in Fx : /\ call' = DoneCall(g) <=> call = DoneCall(g)
                      /\ call' = RespCall(g, TRUE) => call = RespCall(g, TRUE)
    BY NoCallLemma
  <1>5. TypeOK'
    BY <1>1, <1>2, <1>3 DEF TypeOK
  <1>6. AnswersTo({}) = {}
    BY DEF AnswersTo
  <1>7. \A g \in Fx : HoldsRadio(g) => HoldsRadio(g)'
    BY <1>2 DEF HoldsRadio
  <1>8. Removal({}, {})
    BY <1>1, <1>2, <1>4, <1>6, <1>7 DEF Removal, OnceOk
  <1>9. {} \in SUBSET Fx /\ {} \in SUBSET (Fx \ {})
    OBVIOUS
  <1> QED
    BY <1>5, <1>8, <1>9, RemovalLemma

\* The state itself.
LEMMA StateVariant ==
    ASSUME TypeOK, NEW f \in Fx
    PROVE  Variant(State, f) /\ State.fx = fx
  BY DEF Variant, State, TypeOK

\* watch->cb returns.
LEMMA ReturnResponseLemma ==
    ASSUME IInv, NEW done \in BOOLEAN, ReturnResponse(done) PROVE IInv'
  <1> DEFINE f == call.fx
  <1>1. TypeOK /\ \A g \in Fx : XchgOk(g)
    BY Parts DEF Whole
  <1>2. f \in Fx /\ call.early \in BOOLEAN /\ call = RespCall(f, call.early)
    BY <1>1, CallFields DEF ReturnResponse, TypeOK
  <1>3. CallOf(call, f) /\ \A g \in Fx : call # DoneCall(g)
    <2> HIDE DEF f
    <2>1. call = RespCall(f, TRUE) \/ call = RespCall(f, FALSE)
      BY <1>2
    <2>2. call \in CallsOf(f)
      BY <2>1 DEF CallsOf
    <2>3. call # DoneCall(f)
      BY <1>2, <2>1, CallFields
    <2>4. CallOf(call, f)
      BY <2>2 DEF CallOf
    <2> QED
      BY <1>2, <2>3, <2>4, CallLemma
  <1>4. UNCHANGED <<pend, late, busy, env>>
    BY DEF ReturnResponse, kernelVars
  <1>5. ASSUME call' = NoCall, UNCHANGED <<xchgs, work, fx, cmdq, evq, own, heard, outcome>> PROVE IInv'
    BY <1>1, <1>3, <1>4, <1>5, QuietLemma DEF TypeOK
  <1>6. Alive(f) <=> f \in ToSet(xchgs)
    BY <1>1, ContainsLemma DEF Alive, TypeOK
  <1>7. ASSUME Alive(f), xchgs' = Without(xchgs, {f}), outcome' = [outcome EXCEPT ![f] = "free"],
               call' = NoCall, WorkDone(f)
        PROVE  IInv'
    <2> HIDE DEF f
    <2> QED
      BY <1>2, <1>3, <1>4, <1>6, <1>7, DropLemma
  <1>8. ASSUME Alive(f), call.early, ListenEnd(State, f), UNCHANGED <<work, evq>> PROVE IInv'
    <2>1. call = RespCall(f, TRUE)
      BY <1>2, <1>8
    <2>2. f \in ToSet(xchgs)
      BY <1>6, <1>8
    <2> HIDE DEF f
    <2>3. XchgOk(f) /\ outcome[f] = "none"
      BY <1>1, <1>2, <2>2, ListedLemma
    <2>4. heard[f] /\ ~fx[f].tx_cmd
      BY <2>1, <2>3 DEF XchgOk
    <2>5. Variant(State, f) /\ State.fx = fx
      BY <1>1, <1>2, StateVariant
    <2> QED
      BY <1>2, <1>3, <1>4, <1>8, <2>2, <2>4, <2>5, ListenEndLemma
  <1> QED
    BY <1>5, <1>7, <1>8 DEF ReturnResponse, histVars

\* The status of f's transmission, or of an earlier one, comes before f has its cookie.
LEMMA EarlyStatusLemma ==
    ASSUME IInv, NEW f \in Fx, f \in ToSet(xchgs), fx[f].retry_cnt # 0, call = NoCall,
           ~fx[f].have_cookie, NEW e, StatusOk(e), e.cookie \in Cookies, e.ack \in BOOLEAN,
           e.cookie \notin pend,
           fx' = [fx EXCEPT ![f].tx_acked = e.ack, ![f].cookie = e.cookie,
                            ![f].early_status = TRUE],
           evq' \in Seq(Messages), ToSet(evq') \subseteq ToSet(evq),
           \A g \in Fx : Once(evq, AnswersTo({g})) => Once(evq', AnswersTo({g})),
           UNCHANGED <<xchgs, call, cmdq, own, heard, outcome, work, pend, late, busy, env>>
    PROVE  IInv'
  <1> DEFINE x == fx[f]
  <1> DEFINE y == [x EXCEPT !.tx_acked = e.ack, !.cookie = e.cookie, !.early_status = TRUE]
  <1>1. TypeOK /\ x \in Exchanges /\ XchgOk(f) /\ CountOk(f)
    BY Parts DEF Whole, TypeOK
  <1>2. y \in Exchanges
    BY <1>1 DEF Exchanges, CookieOr0
  <1>3. /\ y.retry_cnt = x.retry_cnt /\ y.tx_cmd = x.tx_cmd /\ y.cookie = e.cookie
        /\ y.have_cookie = x.have_cookie /\ y.tx_acked = e.ack /\ y.timeout = x.timeout
    BY <1>1 DEF Exchanges
  <1>4. fx' = [fx EXCEPT ![f] = y]
    BY <1>1 DEF TypeOK
  <1> HIDE DEF y
  <1>5. fx' \in [Fx -> Exchanges] /\ fx'[f] = y /\ \A g \in Fx \ {f} : fx'[g] = fx[g]
    BY <1>1, <1>2, <1>4 DEF TypeOK
  <1>6. /\ xchgs' = xchgs /\ call' = call /\ cmdq' = cmdq /\ own' = own /\ heard' = heard
        /\ outcome' = outcome /\ work' = work /\ pend' = pend /\ late' = late /\ busy' = busy
        /\ env' = env
    OBVIOUS
  <1>7. TypeOK'
    BY <1>1, <1>5, <1>6 DEF TypeOK
  <1>8. OthersSame(f)
    BY <1>5, <1>6 DEF OthersSame, CallOf
  <1>9. HoldsRadio(f)' <=> HoldsRadio(f)
    BY <1>6 DEF HoldsRadio
  <1>10. XchgOk(f)'
    <2>1. ~x.have_cookie /\ outcome[f] # "free" /\ outcome[f] = "none"
      BY ListedLemma
    <2>2. own[f] = e.cookie => heard[f] = e.ack /\ own[f] \notin pend
      BY <1>1 DEF StatusOk
    <2>3. /\ fx'[f].retry_cnt = x.retry_cnt /\ fx'[f].tx_cmd = x.tx_cmd
          /\ fx'[f].cookie = e.cookie /\ ~fx'[f].have_cookie /\ fx'[f].tx_acked = e.ack
          /\ fx'[f].timeout = x.timeout
      BY <1>3, <1>5, <2>1
    <2>4. /\ own'[f] \in pend' => ~(own'[f] = fx'[f].cookie)
          /\ fx'[f].cookie = own'[f] => fx'[f].tx_acked = heard'[f]
      BY <1>6, <2>2, <2>3
    <2> QED
      BY <1>1, <1>6, <1>9, <2>1, <2>3, <2>4 DEF XchgOk
  <1>11. CountOk(f)'
    BY <1>1, <1>3, <1>5, <1>6 DEF CountOk
  <1>12. ASSUME NEW m \in ToSet(evq'), m.ev = "answer", m.fx = f PROVE AnswerOk(m)'
    <2>1. AnswerOk(m)
      BY <1>12, Parts DEF Whole, MessageOk
    <2> QED
      BY <1>3, <1>5, <1>6, <1>12, <2>1 DEF AnswerOk
  <1> QED
    BY <1>1, <1>6, <1>7, <1>8, <1>10, <1>11, <1>12, OneChanges

\* frame_xchg_mlme_notify().
LEMMA MlmeNotifyLemma == ASSUME IInv, MlmeNotify PROVE IInv'
  <1> DEFINE e == Head(evq)
             f == Head(RunningXchgs)
             x == fx[f]
             Z == {g \in Fx : fx[g].retry_cnt = 0}
  <1>1. /\ call = NoCall /\ evq # <<>> /\ e.ev = "tx_status" /\ evq' = Tail(evq)
        /\ UNCHANGED <<work, pend, late, busy, env>>
    BY DEF MlmeNotify, Idle, kernelVars
  <1>2. /\ e \in Messages /\ StatusOk(e)
        /\ evq' \in Seq(Messages) /\ ToSet(evq') \subseteq ToSet(evq)
        /\ \A g \in Fx : Once(evq, AnswersTo({g})) => Once(evq', AnswersTo({g}))
    BY <1>1, ReadLemma DEF MessageOk
  <1>3. e.cookie \in Cookies /\ e.ack \in BOOLEAN /\ e.cookie \notin pend
    BY <1>1, <1>2, MessageFields DEF StatusOk
  <1>4. TypeOK /\ \A g \in Fx : XchgOk(g) /\ CountOk(g)
    BY Parts DEF Whole
  <1>5. ASSUME UNCHANGED <<xchgs, call, fx, cmdq, own, heard, outcome>> PROVE IInv'
    BY <1>1, <1>2, <1>5, QuietLemma
  <1>6. ASSUME RunningXchgs # <<>>
        PROVE  f \in Fx /\ f \in ToSet(xchgs) /\ x.retry_cnt # 0 /\ x \in Exchanges
    <2>1. xchgs \in Seq(Fx)
      BY <1>4 DEF TypeOK
    <2>2. RunningXchgs = Without(xchgs, Z)
      BY DEF RunningXchgs
    <2> HIDE DEF Z
    <2>3. RunningXchgs \in Seq(Fx) /\ ToSet(RunningXchgs) = ToSet(xchgs) \ Z
      BY <2>1, <2>2, WithoutLemma
    <2>4. f \in Fx /\ f \in ToSet(RunningXchgs)
      BY <1>6, <2>3, SetOfTail
    <2> QED
      BY <1>4, <2>3, <2>4 DEF Z, TypeOK
  <1> HIDE DEF e, f
  <1>7. ASSUME RunningXchgs # <<>>, StatusExpected(x, e.cookie), TxStatus(State, f, e.ack)
        PROVE  IInv'
    <2>1. f \in Fx /\ f \in ToSet(xchgs) /\ x.retry_cnt # 0 /\ x \in Exchanges /\ XchgOk(f)
      BY <1>4, <1>6, <1>7
    <2>2. x.have_cookie /\ e.cookie = x.cookie
      BY <1>7 DEF StatusExpected
    <2>3. ~x.tx_cmd /\ x.cookie = own[f] /\ own[f] # 0
      BY <2>1, <2>2 DEF XchgOk
    <2>4. own[f] \notin pend /\ own[f] \notin late
      BY <1>3, <2>1, <2>2, <2>3 DEF XchgOk
    <2>5. heard[f] = e.ack
      BY <1>2, <2>1, <2>2, <2>3 DEF StatusOk
    <2>6. Variant(State, f) /\ State.fx = fx
      BY <1>4, <2>1, StateVariant
    <2>7. MessagesRead(f)
      BY <1>1, <2>1, <2>3, ReadLemma
    <2> QED
      BY <1>1, <1>3, <1>7, <2>1, <2>2, <2>3, <2>4, <2>5, <2>6, <2>7, TxStatusLemma
  <1>8. ASSUME RunningXchgs # <<>>, ~x.have_cookie,
               fx' = [fx EXCEPT ![f].tx_acked = e.ack, ![f].cookie = e.cookie,
                                ![f].early_status = TRUE],
               UNCHANGED <<xchgs, call, cmdq, own, heard, outcome>>
        PROVE  IInv'
    BY <1>1, <1>2, <1>3, <1>6, <1>8, EarlyStatusLemma
  <1> QED
    BY <1>5, <1>7, <1>8 DEF MlmeNotify, histVars, e, f

\* A frame is received.
LEMMA RxFrameLemma == ASSUME IInv, RxFrame PROVE IInv'
  <1> DEFINE watching == {f \in Fx : Contains(work, f) /\ fx[f].kind.resp_timeout}
             acked == {f \in watching : fx[f].tx_acked}
  <1>1. /\ TypeOK /\ \A g \in Fx : XchgOk(g) /\ CountOk(g) /\ OnceOk(g)
        /\ \A m \in ToSet(evq) : MessageOk(m)
    BY Parts DEF Whole
  <1>2. /\ call = NoCall
        /\ xchgs' = xchgs /\ cmdq' = cmdq /\ own' = own /\ heard' = heard /\ evq' = evq
        /\ outcome' = outcome /\ work' = work /\ pend' = pend /\ late' = late /\ busy' = busy
        /\ env' = env
    BY DEF RxFrame, Idle, kernelVars, histVars
  <1>3. fx' = [f \in Fx |-> IF f \in watching \ acked
                              THEN [fx[f] EXCEPT !.early_frame = TRUE] ELSE fx[f]]
    BY DEF RxFrame
  <1>4. call' = NoCall \/ \E f \in Fx : call' = RespCall(f, FALSE)
    BY <1>2 DEF RxFrame
  <1>5. \A g \in Fx : call' # DoneCall(g) /\ call' # RespCall(g, TRUE)
    <2>1. CASE call' = NoCall
      BY <2>1, NoCallLemma
    <2>2. ASSUME NEW f \in Fx, call' = RespCall(f, FALSE), NEW g \in Fx
          PROVE  call' # DoneCall(g) /\ call' # RespCall(g, TRUE)
      <3>1. CASE g = f
        BY <2>2, <3>1, CallFields
      <3>2. CASE g # f
        <4>1. CallOf(call', f)
          BY <2>2, CallFields DEF CallOf
        <4> QED
          BY <3>2, <4>1, CallLemma
      <3> QED
        BY <3>1, <3>2
    <2> QED
      BY <1>4, <2>1, <2>2
  <1>6. call' \in Callbacks
    BY <1>4, CallFields
  <1>7. ASSUME NEW g \in Fx
        PROVE  /\ fx'[g] \in Exchanges
               /\ fx'[g].retry_cnt = fx[g].retry_cnt /\ fx'[g].tx_cmd = fx[g].tx_cmd
               /\ fx'[g].cookie = fx[g].cookie /\ fx'[g].have_cookie = fx[g].have_cookie
               /\ fx'[g].tx_acked = fx[g].tx_acked /\ fx'[g].timeout = fx[g].timeout
               /\ fx'[g].early_status = fx[g].early_status
               /\ outcome[g] = "free" => fx'[g] = fx[g]
    <2>1. fx[g] \in Exchanges
      BY <1>1 DEF TypeOK
    <2>2. outcome[g] = "free" => g \notin watching
      <3>1. work \in Seq(Fx \cup {Other})
        BY <1>1 DEF TypeOK
      <3> QED
        BY <1>1, <3>1, ContainsLemma DEF XchgOk
    <2>3. CASE fx'[g] = fx[g]
      BY <2>1, <2>3
    <2>4. CASE g \in watching /\ fx'[g] = [fx[g] EXCEPT !.early_frame = TRUE]
      <3> HIDE DEF watching, acked
      <3> QED
        BY <2>1, <2>2, <2>4 DEF Exchanges
    <2> QED
      BY <1>3, <2>3, <2>4
  <1> HIDE DEF watching, acked
  <1>8. TypeOK'
    <2>1. fx' \in [Fx -> Exchanges]
      BY <1>3, <1>7
    <2> QED
      BY <1>1, <1>2, <1>6, <2>1 DEF TypeOK
  <1>9. ASSUME NEW g \in Fx PROVE XchgOk(g)' /\ CountOk(g)' /\ OnceOk(g)'
    <2>1. HoldsRadio(g)' <=> HoldsRadio(g)
      BY <1>2 DEF HoldsRadio
    <2>2. call # DoneCall(g)
      BY <1>2, NoCallLemma
    <2>3. XchgOk(g)'
      <3>1. XchgOk(g) /\ call' # DoneCall(g) /\ call' # RespCall(g, TRUE)
        BY <1>1, <1>5
      <3> QED
        BY <1>2, <1>7, <2>1, <2>2, <3>1 DEF XchgOk
    <2>4. CountOk(g)'
      BY <1>1, <1>2, <1>7 DEF CountOk
    <2> QED
      BY <1>1, <1>2, <2>3, <2>4 DEF OnceOk
  <1>10. ASSUME NEW m \in ToSet(evq') PROVE MessageOk(m)'
    <2>1. m \in Messages /\ MessageOk(m)
      BY <1>1, <1>2, SetOfSeq DEF TypeOK
    <2>2. m.ev = "answer" => m.fx \in Fx
      BY <2>1, MessageFields
    <2>3. m.ev = "answer" => AnswerOk(m)'
      BY <1>2, <1>7, <2>1, <2>2 DEF MessageOk, AnswerOk
    <2>4. m.ev = "tx_status" => StatusOk(m)'
      BY <1>2, <2>1 DEF MessageOk, StatusOk
    <2> QED
      BY <2>3, <2>4 DEF MessageOk
  <1>11. Whole'
    BY <1>8, <1>9, <1>10 DEF Whole
  <1> QED
    BY <1>11, PartsNext


-----------------------------------------------------------------------------
(* A new exchange.                                                          *)

\* Where it is queued.
Place == IF Contains(work, Other) /\ Head(work) # Other THEN Len(work) ELSE Len(work) + 1

\* That is behind the running work.
LEMMA InsertLemma ==
    ASSUME TypeOK, NEW f \in Fx, f \notin ToSet(work), work' = InsertAt(work, Place, f)
    PROVE  /\ work' \in Seq(Fx \cup {Other}) /\ IsInjective(work')
           /\ ToSet(work') = ToSet(work) \cup {f}
           /\ \A g \in Fx : HoldsRadio(g) => HoldsRadio(g)'
           /\ work = <<>> => HoldsRadio(f)'
  <1> DEFINE pos == Place
  <1>1. work \in Seq(Fx \cup {Other}) /\ IsInjective(work) /\ Len(work) \in Nat
    BY DEF TypeOK
  <1>2. pos \in 1 .. Len(work) + 1 /\ (work # <<>> => pos > 1) /\ (work = <<>> => pos = 1)
    <2>1. CASE Contains(work, Other) /\ Head(work) # Other
      <3>1. PICK k \in 1 .. Len(work) : work[k] = Other
        BY <1>1, <2>1 DEF Contains
      <3>2. k # 1
        BY <1>1, <2>1, <3>1
      <3> QED
        BY <1>1, <2>1, <3>1, <3>2 DEF Place
    <2>2. CASE ~(Contains(work, Other) /\ Head(work) # Other)
      BY <1>1, <2>2 DEF Place
    <2> QED
      BY <2>1, <2>2
  <1>3. f \in Fx \cup {Other}
    OBVIOUS
  <1>4. /\ work' \in Seq(Fx \cup {Other})
        /\ ToSet(work') = ToSet(work) \cup {f}
        /\ IsInjective(work')
        /\ work' # <<>>
        /\ pos > 1 => Head(work') = Head(work)
        /\ pos = 1 => Head(work') = f
    <2> DEFINE S == Fx \cup {Other}
    <2>1. work \in Seq(S) /\ f \in S /\ pos \in 1 .. Len(work) + 1 /\ IsInjective(work)
      BY <1>1, <1>2, <1>3
    <2> DEFINE w == InsertAt(work, pos, f)
    <2> HIDE DEF S, pos
    <2>2. /\ w \in Seq(S)
          /\ ToSet(w) = ToSet(work) \cup {f}
          /\ IsInjective(work) /\ f \notin ToSet(work) => IsInjective(w)
          /\ w # <<>>
          /\ pos > 1 => Head(w) = Head(work)
          /\ pos = 1 => Head(w) = f
      BY <2>1, InsertAtElements
    <2>3. w = work'
      BY DEF pos
    <2> HIDE DEF w
    <2> QED
      BY <2>1, <2>2, <2>3 DEF S
  <1>5. ASSUME NEW g \in Fx, HoldsRadio(g) PROVE HoldsRadio(g)'
    <2>1. work # <<>> /\ Head(work) = g
      BY <1>5 DEF HoldsRadio
    <2>2. Head(work') = g
      BY <1>2, <1>4, <2>1
    <2> QED
      BY <1>4, <2>2 DEF HoldsRadio
  <1>6. ASSUME work = <<>> PROVE HoldsRadio(f)'
    <2>1. Head(work') = f
      BY <1>2, <1>4, <1>6
    <2> QED
      BY <1>4, <2>1 DEF HoldsRadio
  <1> QED
    BY <1>4, <1>5, <1>6

\* frame_xchg_startv().
LEMMA StartLemma == ASSUME IInv, NEW f \in Fx, NEW kind \in Kinds, Start(f, kind) PROVE IInv'
  <1> DEFINE s == [State EXCEPT !.fx[f].kind = kind]
             y == [Blank EXCEPT !.kind = kind]
             t == TxRetry(s, f)
  <1>1. /\ TypeOK /\ \A g \in Fx : XchgOk(g) /\ CountOk(g) /\ OnceOk(g)
        /\ \A m \in ToSet(evq) : MessageOk(m)
    BY Parts DEF Whole
  <1>2. /\ outcome[f] = "free" /\ call \notin CallsOf(f)
        /\ xchgs' = Append(xchgs, f)
        /\ outcome' = [outcome EXCEPT ![f] = "none"]
        /\ work = <<>> => SetState(t)
        /\ work # <<>> => SetState(s)
        /\ call' = call /\ evq' = evq /\ pend' = pend /\ late' = late /\ busy' = busy /\ env' = env
    BY DEF Start, RadioFree, kernelVars
  <1>3. fx[f] = Blank /\ f \notin ToSet(work) /\ f \notin ToSet(xchgs)
    BY <1>1, <1>2 DEF XchgOk
  <1>4. /\ work' \in Seq(Fx \cup {Other}) /\ IsInjective(work')
        /\ ToSet(work') = ToSet(work) \cup {f}
        /\ \A g \in Fx : HoldsRadio(g) => HoldsRadio(g)'
        /\ work = <<>> => HoldsRadio(f)'
    <2>1. work' = InsertAt(work, Place, f)
      BY DEF Start, Place
    <2> HIDE DEF InsertAt
    <2> QED
      BY <1>1, <1>3, <2>1, InsertLemma
  <1>5. y \in Exchanges
    BY KindsAssumption DEF Blank, Exchanges, KindSet, CookieOr0, Timeouts
  <1>6. /\ y.retry_cnt = 0 /\ ~y.tx_cmd /\ ~y.have_cookie /\ ~y.tx_acked /\ y.timeout = "none"
    BY DEF Blank
  <1>7. /\ s.fx = [fx EXCEPT ![f] = y] /\ s.cmdq = cmdq /\ s.own = own /\ s.heard = heard
    BY <1>3 DEF State
  <1> HIDE DEF s, y
  <1>8. /\ s.fx \in [Fx -> Exchanges] /\ s.fx[f] = y /\ \A g \in Fx \ {f} : s.fx[g] = fx[g]
        /\ s.cmdq \in Seq(Commands) /\ s.own \in [Fx -> CookieOr0] /\ s.heard \in [Fx -> BOOLEAN]
    BY <1>1, <1>5, <1>7 DEF TypeOK
  <1>9. /\ t.fx \in [Fx -> Exchanges]
        /\ t.own \in [Fx -> CookieOr0]
        /\ t.heard \in [Fx -> BOOLEAN]
        /\ t.cmdq \in Seq(Commands)
        /\ t.fx[f] = Transmitted(y) /\ t.own[f] = 0 /\ t.heard[f] = FALSE
        /\ \A g \in Fx \ {f} : /\ t.fx[g] = s.fx[g] /\ t.own[g] = s.own[g]
                               /\ t.heard[g] = s.heard[g]
                               /\ Once(s.cmdq, {Tx(g)}) => Once(t.cmdq, {Tx(g)})
        /\ \A g \in Fx : Tx(g) \in ToSet(t.cmdq) <=> Tx(g) \in ToSet(s.cmdq) \/ g = f
        /\ Tx(f) \notin ToSet(s.cmdq) => Once(t.cmdq, {Tx(f)})
    BY <1>8, TxRetryLemma
  <1> HIDE DEF t
  <1>10. /\ own[f] = 0 /\ heard[f] = FALSE /\ Tx(f) \notin ToSet(cmdq)
    <2>1. /\ ~fx[f].tx_cmd /\ fx[f].retry_cnt = 0
      BY <1>3, BlankFields
    <2>2. own[f] = 0 /\ ~heard[f] /\ Tx(f) \notin ToSet(cmdq)
      BY <1>1, <2>1 DEF XchgOk
    <2> QED
      BY <1>1, <2>2 DEF TypeOK
  <1>11. /\ fx' \in [Fx -> Exchanges] /\ own' \in [Fx -> CookieOr0]
         /\ heard' \in [Fx -> BOOLEAN] /\ cmdq' \in Seq(Commands)
         /\ own'[f] = 0 /\ heard'[f] = FALSE
         /\ \A g \in Fx \ {f} : /\ fx'[g] = fx[g] /\ own'[g] = own[g] /\ heard'[g] = heard[g]
                                /\ Tx(g) \in ToSet(cmdq') <=> Tx(g) \in ToSet(cmdq)
         /\ \A g \in Fx : Once(cmdq', {Tx(g)})
    <2>1. \A g \in Fx : Once(cmdq, {Tx(g)})
      BY <1>1 DEF OnceOk
    <2>2. CASE work # <<>>
      BY <1>2, <1>7, <1>8, <1>10, <2>1, <2>2 DEF SetState
    <2>3. CASE work = <<>>
      <3>1. fx' = t.fx /\ cmdq' = t.cmdq /\ own' = t.own /\ heard' = t.heard
        BY <1>2, <2>3 DEF SetState
      <3>2. \A g \in Fx : Once(cmdq', {Tx(g)})
        BY <1>7, <1>9, <1>10, <2>1, <3>1
      <3> QED
        BY <1>7, <1>8, <1>9, <3>1, <3>2
    <2> QED
      BY <2>2, <2>3
  <1>12. /\ ~fx'[f].have_cookie /\ ~fx'[f].tx_acked /\ fx'[f].timeout = "none"
         /\ \/ fx'[f].retry_cnt = 0 /\ ~fx'[f].tx_cmd /\ Tx(f) \notin ToSet(cmdq')
            \/ fx'[f].retry_cnt = 1 /\ fx'[f].tx_cmd /\ HoldsRadio(f)' /\ ~fx'[f].early_status
    <2>1. CASE work # <<>>
      <3>1. fx' = s.fx /\ cmdq' = s.cmdq
        BY <1>2, <2>1 DEF SetState
      <3> QED
        BY <1>6, <1>7, <1>8, <1>10, <3>1
    <2>2. CASE work = <<>>
      <3>1. fx'[f] = Transmitted(y)
        BY <1>2, <1>9, <2>2 DEF SetState
      <3> QED
        BY <1>4, <1>5, <1>6, <2>2, <3>1, TransmittedFields
    <2> QED
      BY <2>1, <2>2
  <1>13. /\ xchgs' \in Seq(Fx) /\ IsInjective(xchgs') /\ ToSet(xchgs') = ToSet(xchgs) \cup {f}
    BY <1>1, <1>2, <1>3, SetOfAppend, InjectiveAppend DEF TypeOK
  <1>14. /\ outcome' \in [Fx -> Outcomes] /\ outcome'[f] = "none"
         /\ \A g \in Fx \ {f} : outcome'[g] = outcome[g]
    BY <1>1, <1>2 DEF TypeOK, Outcomes
  <1>15. TypeOK'
    BY <1>1, <1>2, <1>4, <1>11, <1>13, <1>14 DEF TypeOK
  <1>16. ASSUME NEW g \in Fx \ {f} PROVE XchgOk(g)' /\ CountOk(g)'
    <2>1. SameXchg(g)
      BY <1>2, <1>4, <1>11, <1>13, <1>14 DEF SameXchg
    <2> QED
      BY <1>1, <2>1, SameOk
  <1>17. XchgOk(f)'
    <2>1. call' # DoneCall(f) /\ call' # RespCall(f, TRUE)
      BY <1>2 DEF CallsOf
    <2>2. 0 \notin late' /\ 0 \notin pend'
      BY <1>1, <1>2, CookieAssumption DEF TypeOK
    <2>3. f \in ToSet(work') /\ f \in ToSet(xchgs')
      BY <1>4, <1>13
    <2>4. /\ outcome'[f] # "ok" /\ outcome'[f] # "ECOMM" /\ outcome'[f] # "free"
          /\ outcome'[f] \in {"free", "none"} /\ fx'[f].timeout # "listen_end"
      BY <1>12, <1>14
    <2>5. ~heard'[f] /\ own'[f] = 0
      BY <1>11
    <2>6. CASE fx'[f].retry_cnt = 0 /\ ~fx'[f].tx_cmd /\ Tx(f) \notin ToSet(cmdq')
      <3>1. ~(fx'[f].retry_cnt > 0)
        BY <2>6
      <3> QED
        BY <1>12, <1>14, <2>1, <2>2, <2>3, <2>4, <2>5, <2>6, <3>1 DEF XchgOk
    <2>7. CASE fx'[f].retry_cnt = 1 /\ fx'[f].tx_cmd /\ HoldsRadio(f)' /\ ~fx'[f].early_status
      <3>1. fx'[f].retry_cnt # 0
        BY <2>7
      <3> QED
        BY <1>12, <1>14, <2>1, <2>2, <2>3, <2>4, <2>5, <2>7, <3>1 DEF XchgOk
    <2> QED
      BY <1>12, <2>6, <2>7
  <1>18. CountOk(f)'
    <2>1. busy' \in Nat /\ MaxRetries \in Nat /\ MaxRetries >= 1 /\ MaxBusy \in Nat
      BY <1>1, <1>2, LimitAssumption DEF TypeOK
    <2>2. fx'[f].retry_cnt \in {0, 1} /\ fx'[f].timeout # "retry"
      BY <1>12
    <2> QED
      BY <2>1, <2>2 DEF CountOk
  <1>19. \A g \in Fx : OnceOk(g)'
    BY <1>1, <1>2, <1>11 DEF OnceOk
  <1>20. ASSUME NEW m \in ToSet(evq') PROVE MessageOk(m)'
    <2>1. m \in Messages /\ MessageOk(m)
      BY <1>1, <1>2, SetOfSeq DEF TypeOK
    <2>2. ASSUME m.ev = "answer" PROVE AnswerOk(m)'
      <3>1. m.fx \in Fx /\ AnswerOk(m)
        BY <2>1, <2>2, MessageFields DEF MessageOk
      <3>2. m.fx # f
        BY <1>3, <3>1, BlankFields DEF AnswerOk
      <3> QED
        BY <1>2, <1>11, <3>1, <3>2 DEF AnswerOk
    <2>3. ASSUME m.ev = "tx_status" PROVE StatusOk(m)'
      <3>1. m.cookie \in Cookies /\ StatusOk(m)
        BY <2>1, <2>3, MessageFields DEF MessageOk
      <3>2. m.cookie # 0
        BY <3>1, CookieAssumption
      <3> QED
        BY <1>2, <1>11, <3>1, <3>2 DEF StatusOk
    <2> QED
      BY <2>2, <2>3 DEF MessageOk
  <1>21. Whole'
    BY <1>15, <1>16, <1>17, <1>18, <1>19, <1>20 DEF Whole
  <1> QED
    BY <1>21, PartsNext


-----------------------------------------------------------------------------
(* The kernel.                                                              *)

\* One exchange transmits at a time.
LEMMA Alone ==
    ASSUME IInv, NEW f \in Fx, NEW g \in Fx, fx[f].retry_cnt # 0, fx[g].retry_cnt # 0
    PROVE  f = g
  <1>1. XchgOk(f) /\ XchgOk(g) /\ TypeOK
    BY Parts DEF Whole
  <1>2. fx[f].retry_cnt \in Nat /\ fx[g].retry_cnt \in Nat
    BY <1>1 DEF TypeOK, Exchanges
  <1>3. HoldsRadio(f) /\ HoldsRadio(g)
    BY <1>1, <1>2 DEF XchgOk
  <1> QED
    BY <1>3 DEF HoldsRadio

\* The limits on retries are not negative.
LEMMA SumNotNegative == \A a, b \in Nat : 0 <= a + b
  OBVIOUS

\* The kernel reads a frame of f, to which it gives the cookie c, or 0.
LEMMA FrameLemma ==
    ASSUME IInv, NEW f \in Fx, cmdq # <<>>, Head(cmdq) = Tx(f), cmdq' = Tail(cmdq),
           NEW c \in CookieOr0, own' = [own EXCEPT ![f] = c], busy' \in 0 .. MaxBusy,
           \/ c = 0 /\ pend' = pend /\ late' = late
           \/ /\ c # 0 /\ ~Referenced(c) /\ pend' = pend \cup {c}
              /\ late' = late \/ late' = late \cup {c},
           \/ evq' = evq
           \/ \E err \in {"ok", "EBUSY", "error"} :
                 /\ evq' = Append(evq, Answer(f, err, c)) /\ late' = late
                 /\ err = "ok" <=> c # 0
                 /\ err = "EBUSY" => busy' = busy + 1,
           UNCHANGED <<xchgs, work, fx, call, env, heard, outcome>>
    PROVE  IInv'
  <1>1. /\ TypeOK /\ \A g \in Fx : XchgOk(g) /\ CountOk(g) /\ OnceOk(g)
        /\ \A m \in ToSet(evq) : MessageOk(m)
    BY Parts DEF Whole
  <1>2. /\ xchgs' = xchgs /\ work' = work /\ fx' = fx /\ call' = call /\ env' = env
        /\ heard' = heard /\ outcome' = outcome
    OBVIOUS
  <1>3. cmdq \in Seq(Commands) /\ evq \in Seq(Messages) /\ ToSet(evq) \subseteq Messages
    BY <1>1, SetOfSeq DEF TypeOK
  <1>4. /\ Tx(f) \in ToSet(cmdq) /\ cmdq' \in Seq(Commands) /\ ToSet(cmdq') \subseteq ToSet(cmdq)
    BY <1>3, SetOfTail
  <1>5. /\ Tx(f) \notin ToSet(cmdq')
        /\ \A g \in Fx : Once(cmdq', {Tx(g)})
    <2>1. \A g \in Fx : Once(cmdq, {Tx(g)})
      BY <1>1 DEF OnceOk
    <2>2. \A g \in Fx : Once(cmdq', {Tx(g)})
      BY <1>3, <2>1, OnceTail
    <2>3. ToSet(Tail(cmdq)) \cap {Tx(f)} = {}
      BY <1>3, <2>1, OnceTail
    <2> QED
      BY <2>2, <2>3
  <1>6. fx[f].tx_cmd /\ own[f] = 0
    BY <1>1, <1>4 DEF XchgOk
  <1>7. /\ fx[f].retry_cnt # 0 /\ fx[f].timeout = "none" /\ ~fx[f].have_cookie
        /\ call # DoneCall(f) /\ ~heard[f] /\ outcome[f] # "ECOMM"
        /\ ~(call = RespCall(f, TRUE) /\ outcome[f] = "none")
    <2>1. XchgOk(f)
      BY <1>1
    <2>2. fx[f].retry_cnt # 0
      BY <1>6, <2>1 DEF XchgOk
    <2>3. fx[f].timeout = "none"
      BY <1>6, <2>1 DEF XchgOk
    <2>4. ~fx[f].have_cookie
      BY <1>6, <2>1 DEF XchgOk
    <2>5. call # DoneCall(f)
      BY <1>6, <2>1 DEF XchgOk
    <2>6. ~heard[f]
      BY <1>6, <2>1 DEF XchgOk
    <2>7. outcome[f] # "ECOMM"
      BY <2>5, <2>1 DEF XchgOk
    <2>8. ~(call = RespCall(f, TRUE) /\ outcome[f] = "none")
      BY <2>6, <2>1 DEF XchgOk
    <2> QED
      BY <2>2, <2>3, <2>4, <2>5, <2>6, <2>7, <2>8
  <1>8. \A g \in Fx \ {f} : /\ fx[g].retry_cnt = 0 /\ own[g] = 0 /\ ~fx[g].tx_cmd
                            /\ fx[g].timeout = "none"
    <2>1. \A g \in Fx \ {f} : fx[g].retry_cnt = 0
      BY <1>7, Alone
    <2> QED
      BY <1>1, <2>1 DEF XchgOk
  <1>9. \A m \in ToSet(evq) : m.ev # "answer"
    <2> SUFFICES ASSUME NEW m \in ToSet(evq), m.ev = "answer" PROVE FALSE
      OBVIOUS
    <2>1. m.fx \in Fx /\ AnswerOk(m)
      BY <1>1, <1>3, MessageFields DEF MessageOk
    <2>2. m.fx = f
      BY <1>8, <2>1 DEF AnswerOk
    <2> QED
      BY <1>4, <2>1, <2>2 DEF AnswerOk
  <1>10. c # 0 => /\ c \notin pend /\ c \notin late /\ fx[f].cookie # c /\ c \in Cookies
                  /\ \A m \in ToSet(evq) : m.cookie # c
    <2> SUFFICES ASSUME c # 0 PROVE /\ c \notin pend /\ c \notin late /\ fx[f].cookie # c /\ c \in Cookies
                                    /\ \A m \in ToSet(evq) : m.cookie # c
      OBVIOUS
    <2>1. c \notin pend /\ c \notin late /\ fx[f].cookie # c
      BY DEF Referenced
    <2>2. \A k \in DOMAIN evq : c # evq[k].cookie
      BY DEF Referenced
    <2>3. \A m \in ToSet(evq) : m.cookie # c
      BY <2>2 DEF ToSet
    <2> QED
      BY <2>1, <2>3 DEF CookieOr0
  <1>11. 0 \notin late /\ 0 \notin pend /\ 0 \notin late' /\ 0 \notin pend'
         /\ pend' \subseteq Cookies /\ late' \subseteq Cookies
    <2>1. 0 \notin late /\ 0 \notin pend /\ pend \subseteq Cookies /\ late \subseteq Cookies
      BY <1>1, CookieAssumption DEF TypeOK
    <2> QED
      BY <1>10, <2>1
  <1>12. own' \in [Fx -> CookieOr0] /\ own'[f] = c /\ \A g \in Fx \ {f} : own'[g] = own[g]
    BY <1>1 DEF TypeOK
  <1>13. \A m \in ToSet(evq') : m \in ToSet(evq) \/ (m.ev = "answer" /\ AnswerOk(m)')
    <2>1. CASE evq' = evq
      BY <2>1
    <2>2. ASSUME NEW err \in {"ok", "EBUSY", "error"},
                 evq' = Append(evq, Answer(f, err, c)), late' = late,
                 err = "ok" <=> c # 0, err = "EBUSY" => busy' = busy + 1
          PROVE  \A m \in ToSet(evq') : m \in ToSet(evq) \/ (m.ev = "answer" /\ AnswerOk(m)')
      <3> DEFINE a == Answer(f, err, c)
      <3>1. a \in Messages /\ a.ev = "answer" /\ a.fx = f /\ a.err = err /\ a.cookie = c
        BY MessageTypes
      <3> HIDE DEF a
      <3>2. ToSet(evq') = ToSet(evq) \cup {a}
        BY <1>3, <2>2, <3>1, SetOfAppend DEF a
      <3>3. c \notin late'
        BY <1>10, <1>11, <2>2
      <3>4. err = "EBUSY" => fx[f].retry_cnt < MaxRetries + busy'
        <4>1. fx[f].retry_cnt \in Nat /\ MaxRetries \in Nat /\ busy \in Nat
          BY <1>1, LimitAssumption DEF TypeOK, Exchanges
        <4>2. fx[f].retry_cnt <= MaxRetries + busy
          BY <1>1, <1>4 DEF CountOk
        <4> QED
          BY <2>2, <4>1, <4>2
      <3>5. AnswerOk(a)'
        BY <1>2, <1>5, <1>6, <1>12, <2>2, <3>1, <3>3, <3>4 DEF AnswerOk
      <3> QED
        BY <3>1, <3>2, <3>5
    <2> QED
      BY <2>1, <2>2
  <1>14. evq' \in Seq(Messages) /\ \A g \in Fx : Once(evq', AnswersTo({g}))
    <2>1. CASE evq' = evq
      BY <1>1, <1>3, <2>1 DEF OnceOk
    <2>2. ASSUME NEW err \in {"ok", "EBUSY", "error"}, evq' = Append(evq, Answer(f, err, c))
          PROVE  evq' \in Seq(Messages) /\ \A g \in Fx : Once(evq', AnswersTo({g}))
      <3> DEFINE a == Answer(f, err, c)
      <3>1. a \in Messages
        BY MessageTypes
      <3> HIDE DEF a
      <3>2. \A g \in Fx : ToSet(evq) \cap AnswersTo({g}) = {}
        BY <1>3, <1>9, MessageFields
      <3>3. \A g \in Fx : Once(Append(evq, a), AnswersTo({g}))
        BY <1>3, <3>1, <3>2, OnceAppend
      <3> QED
        BY <1>3, <2>2, <3>1, <3>3, SetOfAppend DEF a
    <2> QED
      BY <2>1, <2>2
  <1>15. TypeOK'
    BY <1>1, <1>2, <1>4, <1>11, <1>12, <1>14 DEF TypeOK
  <1>16. 0 <= MaxRetries + MaxBusy /\ 0 <= MaxRetries + busy'
    <2>1. busy' \in Nat /\ MaxRetries \in Nat /\ MaxBusy \in Nat
      BY LimitAssumption
    <2> QED
      BY <2>1, SumNotNegative
  <1>17. ASSUME NEW g \in Fx PROVE HoldsRadio(g)' <=> HoldsRadio(g)
    BY <1>2 DEF HoldsRadio
  <1>18. ASSUME NEW g \in Fx, g # f PROVE XchgOk(g)' /\ CountOk(g)'
    <2>1. /\ own'[g] = own[g] /\ own'[g] = 0 /\ own'[g] \notin late' /\ own'[g] \notin pend'
      BY <1>8, <1>11, <1>12, <1>18
    <2>2. Tx(g) \in ToSet(cmdq') => Tx(g) \in ToSet(cmdq)
      BY <1>4
    <2>3. XchgOk(g)
      BY <1>1
    <2>4. XchgOk(g)'
      BY <1>2, <1>17, <2>1, <2>2, <2>3 DEF XchgOk
    <2>5. fx'[g].retry_cnt = 0 /\ fx'[g].timeout # "retry"
      BY <1>2, <1>8, <1>18
    <2>6. fx'[g].retry_cnt <= MaxRetries + MaxBusy /\ fx'[g].retry_cnt <= MaxRetries + busy'
      BY <1>16, <2>5
    <2>7. CountOk(g)'
      BY <2>5, <2>6 DEF CountOk
    <2> QED
      BY <2>4, <2>7
  <1>19. XchgOk(f)'
    <2>1. XchgOk(f)
      BY <1>1
    <2>2. own'[f] \in pend' => fx[f].cookie # own'[f]
      BY <1>10, <1>11, <1>12
    <2>3. fx[f].cookie = own'[f] => own'[f] = 0
      BY <1>10, <1>12
    <2> QED
      BY <1>2, <1>5, <1>6, <1>7, <1>17, <2>1, <2>2, <2>3 DEF XchgOk
  <1>20. CountOk(f)'
    BY <1>1, <1>2, <1>5, <1>7 DEF CountOk
  <1>21. \A g \in Fx : OnceOk(g)'
    BY <1>5, <1>14 DEF OnceOk
  <1>22. ASSUME NEW m \in ToSet(evq), m.ev = "tx_status" PROVE StatusOk(m)'
    <2>1. m.cookie \in Cookies /\ StatusOk(m)
      BY <1>1, <1>3, <1>22, MessageFields DEF MessageOk
    <2>2. m.cookie # 0 /\ m.cookie # c /\ m.cookie \notin pend
      BY <1>10, <2>1, CookieAssumption DEF StatusOk
    <2>3. m.cookie \notin pend'
      BY <2>2
    <2>4. ASSUME NEW g \in Fx, own'[g] = m.cookie PROVE heard'[g] = m.ack
      <3>1. g # f /\ own[g] = m.cookie
        BY <1>12, <2>2, <2>4
      <3> QED
        BY <1>2, <2>1, <3>1 DEF StatusOk
    <2> QED
      BY <2>3, <2>4 DEF StatusOk
  <1>23. ASSUME NEW m \in ToSet(evq') PROVE MessageOk(m)'
    BY <1>9, <1>13, <1>22 DEF MessageOk
  <1>24. Whole'
    BY <1>15, <1>18, <1>19, <1>20, <1>21, <1>23 DEF Whole
  <1> QED
    BY <1>24, PartsNext

\* NL80211_CMD_FRAME.
LEMMA KernelFrameLemma == ASSUME IInv, KernelFrame PROVE IInv'
  <1>1. TypeOK /\ cmdq \in Seq(Commands) /\ cmdq # <<>> /\ Head(cmdq).cmd = "frame"
    BY DEF IInv, TypeOK, KernelFrame
  <1>2. Head(cmdq) \in Commands
    BY <1>1, SetOfTail
  <1>3. PICK f \in Fx : f = Head(cmdq).fx /\ Head(cmdq) = Tx(f)
    BY <1>1, <1>2, CommandFields
  <1>4. cmdq' = Tail(cmdq) /\ UNCHANGED <<xchgs, work, fx, call, env, heard, outcome>>
    BY DEF KernelFrame
  <1>5. busy \in 0 .. MaxBusy /\ busy \in Nat /\ MaxBusy \in Nat
    BY <1>1, LimitAssumption DEF TypeOK
  <1>6. 0 \in CookieOr0
    BY DEF CookieOr0
  <1>7. [own EXCEPT ![f] = 0] = own
    <2>1. own \in [Fx -> CookieOr0] /\ XchgOk(f) /\ Tx(f) \in ToSet(cmdq)
      BY <1>1, <1>3, Parts, SetOfTail DEF Whole, TypeOK
    <2>2. own[f] = 0
      BY <2>1 DEF XchgOk
    <2> QED
      BY <2>1, <2>2
  <1>8. CASE /\ busy < MaxBusy /\ Reply(Answer(f, "EBUSY", 0))
             /\ busy' = busy + 1 /\ UNCHANGED <<pend, late, own>>
    <2>1. evq' = Append(evq, Answer(f, "EBUSY", 0))
      BY <1>8 DEF Reply
    <2>2. busy' \in 0 .. MaxBusy
      BY <1>5, <1>8
    <2> QED
      BY <1>1, <1>3, <1>4, <1>6, <1>7, <1>8, <2>1, <2>2, FrameLemma
  <1>9. CASE Reply(Answer(f, "error", 0)) /\ UNCHANGED <<pend, late, busy, own>>
    <2>1. evq' = Append(evq, Answer(f, "error", 0))
      BY <1>9 DEF Reply
    <2>2. busy' \in 0 .. MaxBusy
      BY <1>5, <1>9
    <2> QED
      BY <1>1, <1>3, <1>4, <1>6, <1>7, <1>9, <2>1, <2>2, FrameLemma
  <1>10. CASE /\ pend' = pend \cup {NextCookie}
              /\ own' = [own EXCEPT ![f] = NextCookie]
              /\ busy' = 0
              /\ \/ Reply(Answer(f, "ok", NextCookie)) /\ UNCHANGED late
                 \/ late' = late \cup {NextCookie} /\ UNCHANGED evq
    <2>1. NextCookie \in Unused
      BY DEF KernelFrame, NextCookie
    <2>2. PICK c \in Cookies : c = NextCookie /\ ~Referenced(c)
      BY <2>1 DEF Unused
    <2>3. c \in CookieOr0 /\ c # 0
      BY CookieAssumption DEF CookieOr0
    <2>4. busy' \in 0 .. MaxBusy
      BY <1>5, <1>10
    <2>5. /\ late' = late \/ late' = late \cup {c}
          /\ \/ evq' = evq
             \/ evq' = Append(evq, Answer(f, "ok", c)) /\ late' = late
      BY <1>10, <2>2 DEF Reply
    <2>6. pend' = pend \cup {c} /\ own' = [own EXCEPT ![f] = c]
      BY <1>10, <2>2
    <2>7. \/ evq' = evq
          \/ \E err \in {"ok", "EBUSY", "error"} :
                /\ evq' = Append(evq, Answer(f, err, c)) /\ late' = late
                /\ err = "ok" <=> c # 0
                /\ err = "EBUSY" => busy' = busy + 1
      BY <2>3, <2>5
    <2> QED
      BY <1>1, <1>3, <1>4, <2>2, <2>3, <2>4, <2>5, <2>6, <2>7, FrameLemma
  <1> QED
    BY <1>3, <1>8, <1>9, <1>10 DEF KernelFrame


\* Other steps of the kernel: transmissions and late answers become fewer.
LEMMA KernelLemma ==
    ASSUME IInv, UNCHANGED <<xchgs, work, fx, call, busy, env, own, heard, outcome>>,
           pend' \subseteq pend, late' \subseteq late,
           cmdq' \in Seq(Commands), ToSet(cmdq') \subseteq ToSet(cmdq),
           \A g \in Fx : Once(cmdq, {Tx(g)}) => Once(cmdq', {Tx(g)}),
           evq' \in Seq(Messages), \A g \in Fx : Once(evq', AnswersTo({g})),
           \A m \in ToSet(evq') : m \in ToSet(evq) \/ MessageOk(m)'
    PROVE  IInv'
  <1>1. /\ TypeOK /\ \A g \in Fx : XchgOk(g) /\ CountOk(g) /\ OnceOk(g)
        /\ \A m \in ToSet(evq) : MessageOk(m)
    BY Parts DEF Whole
  <1>2. /\ xchgs' = xchgs /\ work' = work /\ fx' = fx /\ call' = call /\ env' = env
        /\ heard' = heard /\ outcome' = outcome /\ busy' = busy /\ own' = own
    OBVIOUS
  <1>3. TypeOK'
    BY <1>1, <1>2 DEF TypeOK
  <1>4. ASSUME NEW g \in Fx PROVE XchgOk(g)' /\ CountOk(g)' /\ OnceOk(g)'
    <2>1. HoldsRadio(g) => HoldsRadio(g)'
      BY <1>2 DEF HoldsRadio
    <2>2. SameXchg(g)
      BY <1>2, <2>1 DEF SameXchg
    <2> QED
      BY <1>1, <2>2, SameOk DEF OnceOk
  <1>5. ASSUME NEW m \in ToSet(evq) PROVE MessageOk(m)'
    <2>1. MessageOk(m)
      BY <1>1
    <2>2. m.ev = "answer" => AnswerOk(m)'
      BY <1>2, <2>1 DEF MessageOk, AnswerOk
    <2>3. m.ev = "tx_status" => StatusOk(m)'
      BY <1>2, <2>1 DEF MessageOk, StatusOk
    <2> QED
      BY <2>2, <2>3 DEF MessageOk
  <1>6. Whole'
    BY <1>3, <1>4, <1>5 DEF Whole
  <1> QED
    BY <1>6, PartsNext

\* A status is sent.
LEMMA StatusSent ==
    ASSUME TypeOK, \A g \in Fx : OnceOk(g), NEW c \in Cookies, NEW ack \in BOOLEAN,
           evq' = Append(evq, Status(c, ack))
    PROVE  /\ evq' \in Seq(Messages) /\ ToSet(evq') = ToSet(evq) \cup {Status(c, ack)}
           /\ \A g \in Fx : Once(evq', AnswersTo({g}))
  <1> DEFINE a == Status(c, ack)
  <1>1. a \in Messages /\ a.ev = "tx_status"
    BY MessageTypes
  <1> HIDE DEF a
  <1>2. evq \in Seq(Messages)
    BY DEF TypeOK
  <1>3. evq' \in Seq(Messages) /\ ToSet(evq') = ToSet(evq) \cup {a}
    BY <1>1, <1>2, SetOfAppend DEF a
  <1>4. ASSUME NEW g \in Fx PROVE Once(evq', AnswersTo({g}))
    <2>1. a \notin AnswersTo({g})
      BY <1>1, MessageFields
    <2>2. Once(evq, AnswersTo({g}))
      BY DEF OnceOk
    <2>3. Once(Append(evq, a), AnswersTo({g}))
      BY <1>1, <1>2, <2>1, <2>2, OnceAppend
    <2> QED
      BY <2>3 DEF a
  <1> QED
    BY <1>3, <1>4 DEF a

\* The answer that was overtaken.
LEMMA LateAnswerLemma == ASSUME IInv, NEW c \in Cookies, KernelLateAnswer(c) PROVE IInv'
  <1>1. /\ TypeOK /\ \A g \in Fx : XchgOk(g) /\ OnceOk(g)
        /\ \A m \in ToSet(evq) : MessageOk(m)
    BY Parts DEF Whole
  <1>2. /\ c \in late /\ late' = late \ {c}
        /\ xchgs' = xchgs /\ work' = work /\ fx' = fx /\ call' = call /\ env' = env
        /\ heard' = heard /\ outcome' = outcome /\ busy' = busy /\ own' = own
        /\ cmdq' = cmdq /\ pend' = pend
    BY DEF KernelLateAnswer, histVars
  <1>3. c # 0 /\ c \in CookieOr0
    BY CookieAssumption DEF CookieOr0
  <1>4. evq \in Seq(Messages) /\ ToSet(evq) \subseteq Messages /\ cmdq \in Seq(Commands)
    BY <1>1, SetOfSeq DEF TypeOK
  <1>5. CASE \E f \in Fx : own[f] = c
    <2>1. PICK f \in Fx : f = (CHOOSE g \in Fx : own[g] = c) /\ own[f] = c
      BY <1>5
    <2> DEFINE a == Answer(f, "ok", c)
    <2>2. evq' = Append(evq, a)
      BY <1>5, <2>1 DEF KernelLateAnswer, Reply
    <2>3. a \in Messages /\ a.ev = "answer" /\ a.fx = f /\ a.err = "ok" /\ a.cookie = c
      BY <1>3, MessageTypes
    <2> HIDE DEF a
    <2>4. evq' \in Seq(Messages) /\ ToSet(evq') = ToSet(evq) \cup {a}
      BY <1>4, <2>2, <2>3, SetOfAppend
    <2>5. fx[f].tx_cmd /\ Tx(f) \notin ToSet(cmdq)
      BY <1>1, <1>2, <1>3, <2>1 DEF XchgOk
    <2>6. MessageOk(a)'
      BY <1>2, <1>3, <2>1, <2>3, <2>5 DEF MessageOk, AnswerOk
    <2>7. ASSUME NEW g \in Fx PROVE Once(evq', AnswersTo({g}))
      <3>1. CASE g = f
        <4>1. ASSUME NEW m \in ToSet(evq), m \in AnswersTo({f}) PROVE FALSE
          <5>1. m.ev = "answer" /\ m.fx = f
            BY <1>4, <4>1, MessageFields
          <5> QED
            BY <1>1, <1>2, <2>1, <5>1 DEF MessageOk, AnswerOk
        <4>2. ToSet(evq) \cap AnswersTo({f}) = {}
          BY <4>1
        <4> QED
          BY <1>4, <2>2, <2>3, <3>1, <4>2, OnceAppend
      <3>2. CASE g # f
        <4>1. a \notin AnswersTo({g})
          BY <2>3, <3>2, MessageFields
        <4>2. Once(evq, AnswersTo({g}))
          BY <1>1 DEF OnceOk
        <4> QED
          BY <1>4, <2>2, <2>3, <4>1, <4>2, OnceAppend
      <3> QED
        BY <3>1, <3>2
    <2> QED
      BY <1>2, <1>4, <2>4, <2>6, <2>7, KernelLemma
  <1>6. CASE ~\E f \in Fx : own[f] = c
    <2>1. evq' = evq
      BY <1>6 DEF KernelLateAnswer
    <2> QED
      BY <1>1, <1>2, <1>4, <2>1, KernelLemma DEF OnceOk
  <1> QED
    BY <1>5, <1>6

\* NL80211_CMD_FRAME_WAIT_CANCEL.
LEMMA WaitCancelStep == ASSUME IInv, KernelWaitCancel PROVE IInv'
  <1>1. /\ TypeOK /\ \A g \in Fx : XchgOk(g) /\ OnceOk(g)
    BY Parts DEF Whole
  <1>2. /\ cmdq # <<>> /\ Head(cmdq).cmd = "wait_cancel" /\ cmdq' = Tail(cmdq)
        /\ xchgs' = xchgs /\ work' = work /\ fx' = fx /\ call' = call /\ env' = env
        /\ heard' = heard /\ outcome' = outcome /\ busy' = busy /\ own' = own
        /\ late' = late
    BY DEF KernelWaitCancel, histVars
  <1>3. evq \in Seq(Messages) /\ cmdq \in Seq(Commands)
    BY <1>1 DEF TypeOK
  <1>4. Head(cmdq) \in Commands /\ cmdq' \in Seq(Commands) /\ ToSet(cmdq') \subseteq ToSet(cmdq)
    BY <1>2, <1>3, SetOfTail
  <1>5. PICK c \in Cookies : c = Head(cmdq).cookie
    BY <1>2, <1>4, CommandFields
  <1>6. /\ pend' = pend \ {c}
        /\ (c \in pend /\ evq' = Append(evq, Status(c, FALSE))) \/ evq' = evq
    BY <1>5 DEF KernelWaitCancel, Reply
  <1>7. \A g \in Fx : Once(cmdq, {Tx(g)}) => Once(cmdq', {Tx(g)})
    BY <1>2, <1>3, OnceTail
  <1>8. CASE c \in pend /\ evq' = Append(evq, Status(c, FALSE))
    <2> DEFINE a == Status(c, FALSE)
    <2>1. a.ev = "tx_status" /\ a.cookie = c /\ a.ack = FALSE
      BY MessageTypes
    <2>2. /\ evq' \in Seq(Messages) /\ ToSet(evq') = ToSet(evq) \cup {a}
          /\ \A g \in Fx : Once(evq', AnswersTo({g}))
      BY <1>1, <1>8, StatusSent
    <2> HIDE DEF a
    <2>3. ASSUME NEW g \in Fx, own[g] = c PROVE heard[g] = FALSE
      <3>1. ~heard[g]
        BY <1>1, <1>8, <2>3 DEF XchgOk
      <3>2. heard[g] \in BOOLEAN
        BY <1>1 DEF TypeOK
      <3> QED
        BY <3>1, <3>2
    <2>4. MessageOk(a)'
      BY <1>2, <1>6, <2>1, <2>3 DEF MessageOk, StatusOk
    <2> QED
      BY <1>2, <1>4, <1>6, <1>7, <2>2, <2>4, KernelLemma
  <1>9. CASE evq' = evq
    BY <1>1, <1>2, <1>3, <1>4, <1>6, <1>7, <1>9, KernelLemma DEF OnceOk
  <1> QED
    BY <1>6, <1>8, <1>9

\* A transmission ends.
LEMMA KernelStatusLemma ==
    ASSUME IInv, NEW c \in Cookies, NEW ack \in BOOLEAN, KernelStatus(c, ack)
    PROVE  IInv'
  <1> DEFINE a == Status(c, ack)
  <1>1. /\ TypeOK /\ \A g \in Fx : XchgOk(g) /\ CountOk(g) /\ OnceOk(g)
        /\ \A m \in ToSet(evq) : MessageOk(m)
    BY Parts DEF Whole
  <1>2. /\ c \in pend /\ pend' = pend \ {c} /\ evq' = Append(evq, a)
        /\ heard' = [g \in Fx |-> heard[g] \/ (ack /\ own[g] = c)]
        /\ xchgs' = xchgs /\ work' = work /\ fx' = fx /\ call' = call /\ env' = env
        /\ outcome' = outcome /\ busy' = busy /\ own' = own /\ late' = late /\ cmdq' = cmdq
    BY DEF KernelStatus, Reply
  <1>3. a.ev = "tx_status" /\ a.cookie = c /\ a.ack = ack
    BY MessageTypes
  <1>4. /\ evq' \in Seq(Messages) /\ ToSet(evq') = ToSet(evq) \cup {a}
        /\ \A g \in Fx : Once(evq', AnswersTo({g}))
    BY <1>1, <1>2, StatusSent
  <1> HIDE DEF a
  <1>5. c # 0
    BY CookieAssumption
  <1>6. heard \in [Fx -> BOOLEAN] /\ heard' \in [Fx -> BOOLEAN]
    BY <1>1, <1>2 DEF TypeOK
  <1>7. ASSUME NEW g \in Fx, own[g] # c PROVE heard'[g] = heard[g]
    BY <1>2, <1>6, <1>7
  <1>8. ASSUME NEW g \in Fx, own[g] = c PROVE heard'[g] = ack /\ ~heard[g]
    <2>1. ~heard[g]
      BY <1>1, <1>2, <1>8 DEF XchgOk
    <2> QED
      BY <1>2, <1>6, <1>8, <2>1
  <1>9. TypeOK'
    BY <1>1, <1>2, <1>4, <1>6 DEF TypeOK
  <1>10. ASSUME NEW g \in Fx PROVE XchgOk(g)' /\ CountOk(g)' /\ OnceOk(g)'
    <2>1. HoldsRadio(g)' <=> HoldsRadio(g)
      BY <1>2 DEF HoldsRadio
    <2>2. CASE own[g] # c
      <3>1. SameXchg(g)
        BY <1>2, <1>7, <2>1, <2>2 DEF SameXchg
      <3> QED
        BY <1>1, <1>2, <1>4, <3>1, SameOk DEF OnceOk
    <2>3. CASE own[g] = c
      <3>1. XchgOk(g) /\ own'[g] # 0 /\ own'[g] \notin pend' /\ own[g] \in pend
        BY <1>1, <1>2, <1>5, <2>3
      <3>2. /\ ~heard[g] /\ ~(fx[g].tx_cmd /\ fx[g].early_status /\ fx[g].cookie = own[g])
            /\ outcome[g] # "ECOMM"
        BY <3>1 DEF XchgOk
      <3>3. XchgOk(g)'
        BY <1>2, <2>1, <3>1, <3>2 DEF XchgOk
      <3>4. CountOk(g)'
        BY <1>1, <1>2 DEF CountOk
      <3> QED
        BY <1>1, <1>2, <1>4, <3>3, <3>4 DEF OnceOk
    <2> QED
      BY <2>2, <2>3
  <1>11. ASSUME NEW m \in ToSet(evq) PROVE MessageOk(m)'
    <2>1. MessageOk(m)
      BY <1>1
    <2>2. m.ev = "answer" => AnswerOk(m)'
      BY <1>2, <2>1 DEF MessageOk, AnswerOk
    <2>3. ASSUME m.ev = "tx_status" PROVE StatusOk(m)'
      <3>1. StatusOk(m) /\ m.cookie \notin pend
        BY <2>1, <2>3 DEF MessageOk, StatusOk
      <3>2. ASSUME NEW g \in Fx, own'[g] = m.cookie PROVE heard'[g] = m.ack
        <4>1. own[g] = m.cookie /\ own[g] # c
          BY <1>2, <3>1, <3>2
        <4> QED
          BY <1>7, <3>1, <4>1 DEF StatusOk
      <3> QED
        BY <1>2, <3>1, <3>2 DEF StatusOk
    <2> QED
      BY <2>2, <2>3 DEF MessageOk
  <1>12. MessageOk(a)'
    BY <1>2, <1>3, <1>8 DEF MessageOk, StatusOk
  <1>13. Whole'
    BY <1>4, <1>9, <1>10, <1>11, <1>12 DEF Whole
  <1> QED
    BY <1>13, PartsNext

-----------------------------------------------------------------------------
(* The theorems.                                                            *)

\* The invariant holds when frame-xchg.c starts.
LEMMA InitLemma == Init => IInv
  <1> SUFFICES ASSUME Init PROVE IInv
    OBVIOUS
  <1>1. /\ ToSet(<<>>) = {} /\ IsInjective(<<>>) /\ \A U : Once(<<>>, U)
    BY SetOfEmpty, OnceEmpty DEF IsInjective
  <1>2. /\ xchgs = <<>> /\ work = <<>> /\ call = NoCall /\ cmdq = <<>> /\ evq = <<>>
        /\ pend = {} /\ late = {} /\ busy = 0 /\ env \in Envs
        /\ \A f \in Fx : fx[f] = Blank /\ own[f] = 0 /\ heard[f] = FALSE /\ outcome[f] = "free"
    BY DEF Init
  <1>3. TypeOK
    BY <1>1, BlankFields, NoCallLemma, LimitAssumption DEF Init, TypeOK, CookieOr0, Outcomes
  <1>4. ASSUME NEW f \in Fx PROVE XchgOk(f) /\ CountOk(f) /\ OnceOk(f)
    <2>1. call # DoneCall(f)
      BY <1>2, NoCallLemma
    <2>2. XchgOk(f)
      <3>1. /\ fx[f] = Blank /\ fx[f].retry_cnt = 0 /\ ~(fx[f].retry_cnt > 0)
            /\ ~fx[f].tx_cmd /\ ~fx[f].have_cookie /\ ~fx[f].tx_acked
            /\ fx[f].timeout = "none" /\ fx[f].timeout # "listen_end"
        BY <1>2, BlankFields
      <3>2. /\ own[f] = 0 /\ ~heard[f] /\ own[f] \notin pend /\ own[f] \notin late
            /\ Tx(f) \notin ToSet(cmdq) /\ f \notin ToSet(work) /\ f \notin ToSet(xchgs)
        BY <1>1, <1>2
      <3>3. /\ outcome[f] = "free" /\ outcome[f] # "none" /\ outcome[f] # "ok"
            /\ outcome[f] # "ECOMM" /\ outcome[f] \in {"free", "none"}
        BY <1>2
      <3> QED
        BY <2>1, <3>1, <3>2, <3>3 DEF XchgOk
    <2>3. CountOk(f)
      BY <1>1, <1>2, BlankFields, LimitAssumption DEF CountOk
    <2> QED
      BY <1>1, <1>2, <2>2, <2>3 DEF OnceOk
  <1>5. Whole
    BY <1>1, <1>2, <1>3, <1>4 DEF Whole
  <1> QED
    BY <1>5, Parts

\* Every step preserves it.
LEMMA NextLemma == IInv /\ [Next]_vars => IInv'
  <1> SUFFICES ASSUME IInv, [Next]_vars PROVE IInv'
    OBVIOUS
  <1>1. ASSUME UNCHANGED vars PROVE IInv'
    <2>1. evq \in Seq(Messages)
      BY DEF IInv, TypeOK
    <2> QED
      BY <1>1, <2>1, QuietLemma DEF vars, kernelVars, histVars
  <1> QED
    BY <1>1, StartLemma, CancelLemma, StopWdevLemma, OtherInsertLemma, OtherDoneLemma,
       ReturnDoneLemma, ReturnResponseLemma, TxCbLemma, MlmeNotifyLemma, RetryTimeoutLemma,
       ListenTimeoutLemma, RxFrameLemma, KernelFrameLemma, LateAnswerLemma, KernelStatusLemma,
       WaitCancelStep DEF Next

\* The exchange on the air and the answers and statuses that arrive belong together: an
\* exchange counts as acknowledged, and succeeds, only on the status of its own latest
\* transmission, only the exchange that holds the radio transmits, and no frame is
\* retransmitted beyond the limit (frame_xchg_tx_cb(), frame_xchg_mlme_notify()).
THEOREM Invariance == Spec => []IInv
  BY InitLemma, NextLemma, PTL DEF Spec

\* The client of an exchange is told once how it ended, and never after it cancelled the
\* exchange or accepted a response (frame_xchg_done(), frame_xchg_cancel()).
THEOREM EndsOnce == Spec => []OneOutcome
  <1>1. IInv => OneOutcome
    BY DEF IInv, TypeOK, Outcomes, OneOutcome
  <1> QED
    BY <1>1, Invariance, PTL

=============================================================================
