----------------------------- MODULE ScanProofs -----------------------------
(***************************************************************************)
(* Proofs about Scan, for every set of requests, number of commands and    *)
(* environment.  IInv is inductive.  Its parts are proved level by level:   *)
(* what holds in every environment (TypeOK, Linked, Explained), when no     *)
(* scan starts or ends while iwd is busy (Quiet), when nothing disturbs a   *)
(* GET_SCAN (Undisturbed), and without other radio work (Alone).            *)
(***************************************************************************)
EXTENDS Scan, QueueTheorems

-----------------------------------------------------------------------------
(* Messages and frames. *)

\* Commands differ in what they are and in the request they are for.
LEMMA CommandFacts ==
    /\ Trigger \in Commands /\ Trigger \notin Dumps /\ Dumps \subseteq Commands
    /\ \A sr \in Reqs \cup {NoReq} : Dump(sr) \in Dumps /\ Dump(sr).sr = sr
    /\ \A a, b \in Reqs \cup {NoReq} : Dump(a) = Dump(b) => a = b
    /\ \A c \in Commands : c = Trigger \/ c \in Dumps
    /\ \A c \in Dumps : c.sr \in Reqs \cup {NoReq} /\ c = Dump(c.sr)
  <1>1. Trigger \in Commands /\ Dumps \subseteq Commands
        /\ \A c \in Commands : c = Trigger \/ c \in Dumps
    BY DEF Commands
  <1>2. Trigger \notin Dumps
    <2>1. Trigger.cmd = "trigger" /\ \A c \in Dumps : c.cmd = "dump"
      BY DEF Dumps, Trigger, Dump
    <2> QED
      BY <2>1
  <1>3. /\ \A sr \in Reqs \cup {NoReq} : Dump(sr) \in Dumps /\ Dump(sr).sr = sr
        /\ \A a, b \in Reqs \cup {NoReq} : Dump(a) = Dump(b) => a = b
        /\ \A c \in Dumps : c.sr \in Reqs \cup {NoReq} /\ c = Dump(c.sr)
    BY DEF Dumps, Dump
  <1> QED
    BY <1>1, <1>2, <1>3

\* So do messages from the kernel.
LEMMA EventFacts ==
    /\ Events = Acks \cup DumpsDone \cup Ends \cup {Started}
    /\ Acks \cap DumpsDone = {} /\ Acks \cap Ends = {} /\ DumpsDone \cap Ends = {}
    /\ Started \notin Acks /\ Started \notin DumpsDone /\ Started \notin Ends
    /\ Ack("ok") \in Acks /\ Ack("busy") \in Acks /\ Ack("fail") \in Acks
    /\ Ack("ok") # Ack("fail") /\ Ack("busy") # Ack("fail")
    /\ Results(TRUE) \in Ends /\ Results(FALSE) \in Ends /\ Aborted \in Ends
    /\ Results(TRUE) # Results(FALSE) /\ Results(TRUE) # Aborted
    /\ \A sr \in Reqs \cup {NoReq} : DumpDone(sr) \in DumpsDone /\ DumpDone(sr).sr = sr
    /\ \A a, b \in Reqs \cup {NoReq} : DumpDone(a) = DumpDone(b) => a = b
    /\ \A e \in DumpsDone : e.sr \in Reqs \cup {NoReq} /\ e = DumpDone(e.sr)
  <1>1. Events = Acks \cup DumpsDone \cup Ends \cup {Started}
    BY DEF Events
  <1>2. Acks \cap DumpsDone = {} /\ Acks \cap Ends = {} /\ DumpsDone \cap Ends = {}
    BY DEF Acks, DumpsDone, Ends, Ack, DumpDone, Results, Aborted
  <1>3. Started \notin Acks /\ Started \notin DumpsDone /\ Started \notin Ends
    BY DEF Acks, DumpsDone, Ends, Ack, DumpDone, Results, Aborted, Started
  <1>4. /\ Ack("ok") \in Acks /\ Ack("busy") \in Acks /\ Ack("fail") \in Acks
        /\ Ack("ok") # Ack("fail") /\ Ack("busy") # Ack("fail")
    BY DEF Acks, Ack
  <1>5. /\ Results(TRUE) \in Ends /\ Results(FALSE) \in Ends /\ Aborted \in Ends
    BY DEF Ends
  <1>6. Results(TRUE) # Results(FALSE) /\ Results(TRUE) # Aborted
    <2>1. Results(TRUE).flush = TRUE /\ Results(FALSE).flush = FALSE
      BY DEF Results
    <2>2. Results(TRUE).ev = "new_scan_results" /\ Aborted.ev = "scan_aborted"
      BY DEF Results, Aborted
    <2> QED
      BY <2>1, <2>2
  <1>7. /\ \A sr \in Reqs \cup {NoReq} : DumpDone(sr) \in DumpsDone /\ DumpDone(sr).sr = sr
        /\ \A a, b \in Reqs \cup {NoReq} : DumpDone(a) = DumpDone(b) => a = b
        /\ \A e \in DumpsDone : e.sr \in Reqs \cup {NoReq} /\ e = DumpDone(e.sr)
    BY DEF DumpsDone, DumpDone
  <1> QED
    BY <1>1, <1>2, <1>3, <1>4, <1>5, <1>6, <1>7

\* The frames of different calls differ.
LEMMA FrameFacts ==
    /\ \A r \in Reqs : DoneFrame(r) \in Frames /\ CancelFrame(r) \in Frames
    /\ RetryFrame \in Frames /\ GetScanFrame \in Frames /\ StopFrame \in Frames
    /\ \A a, b \in Reqs : DoneFrame(a) = DoneFrame(b) => a = b
    /\ \A a, b \in Reqs : CancelFrame(a) = CancelFrame(b) => a = b
    /\ \A a, b \in Reqs : DoneFrame(a) # CancelFrame(b)
    /\ \A a \in Reqs : DoneFrame(a) \notin {RetryFrame, GetScanFrame, StopFrame}
    /\ \A a \in Reqs : CancelFrame(a) \notin {RetryFrame, GetScanFrame, StopFrame}
    /\ RetryFrame # GetScanFrame /\ StopFrame # GetScanFrame
  BY DEF Frames, DoneFrame, CancelFrame, RetryFrame, GetScanFrame, StopFrame

\* Contains is membership.
LEMMA ContainsLemma ==
    ASSUME NEW S, NEW q \in Seq(S), NEW e
    PROVE  Contains(q, e) <=> e \in ToSet(q)
  BY DEF Contains, ToSet

-----------------------------------------------------------------------------
(* The building blocks of the actions. *)

\* The item that becomes the head of the work queue, if it is a request, is started,
\* and its trigger is sent unless a scan is running.
LEMMA RadioNextFacts ==
    ASSUME NEW w \in Seq(Reqs \cup {Other}), NEW q \in Seq(Commands), NEW sc \in BOOLEAN,
           NEW ws \in BOOLEAN, RadioNext(w, q, sc, ws)
    PROVE  /\ work_started' \in BOOLEAN /\ start_cmd' \in BOOLEAN /\ cmdq' \in Seq(Commands)
           /\ \/ cmdq' = q /\ start_cmd' = sc
              \/ /\ cmdq' = Append(q, Trigger) /\ start_cmd' /\ ~running
                 /\ w # <<>> /\ Head(w) \in Reqs
           /\ w # <<>> /\ Head(w) \in Reqs => work_started'
           /\ ~(w # <<>> /\ Head(w) \in Reqs) => work_started' = ws
  <1>1. Append(q, Trigger) \in Seq(Commands)
    BY CommandFacts, SetOfAppend
  <1> QED
    BY <1>1 DEF RadioNext

\* wiphy_radio_work_done() forgets the item and starts the next one.
LEMMA WorkDoneFacts ==
    ASSUME TypeOK, NEW item \in Reqs \cup {Other}, NEW q \in Seq(Commands),
           NEW sc \in BOOLEAN, NEW ws \in BOOLEAN, WorkDone(item, q, sc, ws)
    PROVE  /\ work' = Without(work, {item}) /\ work' \in Seq(Reqs \cup {Other})
           /\ ToSet(work') = ToSet(work) \ {item}
           /\ cmds' \in [Reqs -> 0 .. MaxCmds] /\ cb' \in [Reqs -> BOOLEAN]
           /\ told' \in [Reqs -> Nat]
           /\ success' \in [Reqs -> BOOLEAN] /\ scanned' \in [Reqs -> BOOLEAN]
           /\ \A r \in Reqs : r # item => /\ cmds'[r] = cmds[r] /\ cb'[r] = cb[r]
                                          /\ told'[r] = told[r] /\ success'[r] = success[r]
                                          /\ scanned'[r] = scanned[r]
           /\ item \in Reqs => told'[item] = 1 /\ ~success'[item]
           /\ start_cmd' \in BOOLEAN /\ work_started' \in BOOLEAN /\ cmdq' \in Seq(Commands)
  <1>1. /\ work' = Without(work, {item}) /\ work' \in Seq(Reqs \cup {Other})
        /\ ToSet(work') = ToSet(work) \ {item}
    <2>1. work \in Seq(Reqs \cup {Other})
      BY DEF TypeOK
    <2> QED
      BY <2>1, WithoutLemma DEF WorkDone
  <1>2. /\ cmds' = [r \in Reqs |-> IF r = item THEN 0 ELSE cmds[r]]
        /\ cb' = [r \in Reqs |-> r # item /\ cb[r]]
        /\ told' = [r \in Reqs |-> IF r = item THEN 1 ELSE told[r]]
        /\ success' = [r \in Reqs |-> r # item /\ success[r]]
        /\ scanned' = [r \in Reqs |-> r # item /\ scanned[r]]
    BY DEF WorkDone
  <1>3. /\ cmds \in [Reqs -> 0 .. MaxCmds] /\ cb \in [Reqs -> BOOLEAN]
        /\ told \in [Reqs -> Nat]
        /\ success \in [Reqs -> BOOLEAN] /\ scanned \in [Reqs -> BOOLEAN]
        /\ 0 \in 0 .. MaxCmds /\ 1 \in Nat
    BY BoundsAssumption DEF TypeOK
  <1>4. cmds' \in [Reqs -> 0 .. MaxCmds] /\ told' \in [Reqs -> Nat]
    BY <1>2, <1>3
  <1>5. /\ cb' \in [Reqs -> BOOLEAN]
        /\ success' \in [Reqs -> BOOLEAN] /\ scanned' \in [Reqs -> BOOLEAN]
    BY <1>2
  <1>6. /\ \A r \in Reqs : r # item => /\ cmds'[r] = cmds[r] /\ cb'[r] = cb[r]
                                       /\ told'[r] = told[r] /\ success'[r] = success[r]
                                       /\ scanned'[r] = scanned[r]
        /\ item \in Reqs => told'[item] = 1 /\ ~success'[item]
    BY <1>2, <1>3
  <1>7. start_cmd' \in BOOLEAN /\ work_started' \in BOOLEAN /\ cmdq' \in Seq(Commands)
    <2>1. CASE work # <<>> /\ Head(work) = item
      <3>1. RadioNext(work', q, sc, ws)
        BY <2>1 DEF WorkDone
      <3> DEFINE w == Without(work, {item})
      <3>2. w \in Seq(Reqs \cup {Other}) /\ RadioNext(w, q, sc, ws)
        BY <1>1, <2>1 DEF WorkDone
      <3> HIDE DEF w
      <3> QED
        BY <3>2, RadioNextFacts
    <2>2. CASE ~(work # <<>> /\ Head(work) = item)
      BY <2>2 DEF WorkDone
    <2> QED
      BY <2>1, <2>2
  <1> QED
    BY <1>1, <1>4, <1>5, <1>6, <1>7

\* What it does to the radio: the head goes, and the next one is started, or it stays.
LEMMA WorkDoneRadio ==
    ASSUME TypeOK, NEW item \in Reqs \cup {Other}, NEW q \in Seq(Commands),
           NEW sc \in BOOLEAN, NEW ws \in BOOLEAN, WorkDone(item, q, sc, ws)
    PROVE  \/ /\ work # <<>> /\ Head(work) = item
              /\ \/ cmdq' = q /\ start_cmd' = sc
                 \/ /\ cmdq' = Append(q, Trigger) /\ start_cmd' /\ ~running
                    /\ work' # <<>> /\ Head(work') \in Reqs
              /\ work' # <<>> /\ Head(work') \in Reqs => work_started'
              /\ ~(work' # <<>> /\ Head(work') \in Reqs) => work_started' = ws
           \/ /\ ~(work # <<>> /\ Head(work) = item)
              /\ cmdq' = q /\ start_cmd' = sc /\ work_started' = ws
              /\ work # <<>> => work' # <<>> /\ Head(work') = Head(work)
              /\ work = <<>> => work' = <<>>
  <1> DEFINE w == Without(work, {item})
  <1>1. work' = w /\ work \in Seq(Reqs \cup {Other})
    BY DEF WorkDone, TypeOK
  <1>2. w \in Seq(Reqs \cup {Other})
        /\ (work # <<>> /\ Head(work) \notin {item} => w # <<>> /\ Head(w) = Head(work))
    BY <1>1, WithoutLemma
  <1>3. CASE work # <<>> /\ Head(work) = item
    <2>1. RadioNext(w, q, sc, ws)
      BY <1>3 DEF WorkDone
    <2> HIDE DEF w
    <2>2. /\ \/ cmdq' = q /\ start_cmd' = sc
             \/ /\ cmdq' = Append(q, Trigger) /\ start_cmd' /\ ~running
                /\ w # <<>> /\ Head(w) \in Reqs
          /\ w # <<>> /\ Head(w) \in Reqs => work_started'
          /\ ~(w # <<>> /\ Head(w) \in Reqs) => work_started' = ws
      BY <1>2, <2>1, RadioNextFacts
    <2> QED
      BY <1>1, <1>3, <2>2
  <1>4. CASE ~(work # <<>> /\ Head(work) = item)
    <2>1. cmdq' = q /\ start_cmd' = sc /\ work_started' = ws
      BY <1>4 DEF WorkDone
    <2>2. work = <<>> => w = <<>>
      BY WithoutEmpty
    <2> HIDE DEF w
    <2> QED
      BY <1>1, <1>2, <1>4, <2>1, <2>2
  <1> QED
    BY <1>3, <1>4

\* A callback is called once more, if at all, and only that of r.
LEMMA TellFacts ==
    ASSUME TypeOK, NEW r \in Reqs, NEW err, Tell(r, err)
    PROVE  /\ told' \in [Reqs -> Nat] /\ success' \in [Reqs -> BOOLEAN] /\ sp_timer' \in BOOLEAN
           /\ \A x \in Reqs : x # r => told'[x] = told[x] /\ success'[x] = success[x]
           /\ told[r] = 0 => told'[r] <= 1
           /\ success'[r] => success[r] \/ err = "0"
  <1>1. told \in [Reqs -> Nat] /\ success \in [Reqs -> BOOLEAN] /\ sp_timer \in BOOLEAN
    BY DEF TypeOK
  <1> DEFINE called == cb[r] \/ ~Contains(work, r)
  <1>2. /\ told' = [told EXCEPT ![r] = IF called THEN told[r] + 1 ELSE told[r]]
        /\ success' = [success EXCEPT ![r] = success[r] \/ (called /\ err = "0")]
        /\ sp_timer' = (sp_timer \/ (called /\ r \in periodic))
    BY DEF Tell
  <1> HIDE DEF called
  <1> QED
    BY <1>1, <1>2


-----------------------------------------------------------------------------
(* Types. *)

LEMMA FinishTypes ==
    ASSUME TypeOK, NEW r \in Reqs, NEW err, NEW rest \in Seq(Frames), Finish(r, err, rest)
    PROVE  /\ requests' \in Seq(Reqs) /\ ~started' /\ ~work_started' /\ calls' \in Seq(Frames)
           /\ started' \in BOOLEAN /\ work_started' \in BOOLEAN
           /\ told' \in [Reqs -> Nat] /\ success' \in [Reqs -> BOOLEAN] /\ sp_timer' \in BOOLEAN
  <1>1. requests \in Seq(Reqs)
    BY DEF TypeOK
  <1>2. requests' \in Seq(Reqs)
    BY <1>1, WithoutLemma DEF Finish, RequestsWithout
  <1>3. calls' \in Seq(Frames)
    BY FrameFacts, SetOfPush DEF Finish
  <1> QED
    BY <1>2, <1>3, TellFacts DEF Finish, FinishedFlags

LEMMA FinishFirstTypes ==
    ASSUME TypeOK, NEW err, NEW rest \in Seq(Frames), FinishFirst(err, rest)
    PROVE  /\ requests' \in Seq(Reqs) /\ calls' \in Seq(Frames)
           /\ started' \in BOOLEAN /\ work_started' \in BOOLEAN
           /\ told' \in [Reqs -> Nat] /\ success' \in [Reqs -> BOOLEAN] /\ sp_timer' \in BOOLEAN
  <1>1. CASE requests # <<>> /\ Finish(Head(requests), err, rest)
    <2>1. Head(requests) \in Reqs
      BY <1>1, SetOfTail DEF TypeOK
    <2> QED
      BY <2>1, <1>1, FinishTypes
  <1>2. CASE /\ requests = <<>> /\ calls' = rest
             /\ UNCHANGED <<requests, started, work_started, told, success, sp_timer>>
    BY <1>2 DEF TypeOK
  <1> QED
    BY <1>1, <1>2 DEF FinishFirst

LEMMA ContinueTypes ==
    ASSUME TypeOK, NEW r \in Reqs, NEW rest \in Seq(Frames), Continue(r, rest)
    PROVE  /\ requests' \in Seq(Reqs) /\ calls' \in Seq(Frames) /\ cmdq' \in Seq(Commands)
           /\ started' \in BOOLEAN /\ work_started' \in BOOLEAN /\ start_cmd' \in BOOLEAN
           /\ told' \in [Reqs -> Nat] /\ success' \in [Reqs -> BOOLEAN] /\ sp_timer' \in BOOLEAN
  <1>1. CASE HasCommand(r)
    <2>1. Append(cmdq, Trigger) \in Seq(Commands)
      BY CommandFacts, SetOfAppend DEF TypeOK
    <2> QED
      BY <1>1, <2>1 DEF Continue, TypeOK
  <1>2. CASE ~HasCommand(r)
    <2>1. Without(requests, {r}) \in Seq(Reqs)
      BY WithoutLemma DEF TypeOK
    <2>2. <<DoneFrame(r), RetryFrame>> \o rest \in Seq(Frames)
      <3>1. <<DoneFrame(r), RetryFrame>> \in Seq(Frames)
        BY FrameFacts
      <3> QED
        BY <3>1, SetOfConcat
    <2>3. Tell(r, "EIO")
      BY <1>2 DEF Continue
    <2>4. told' \in [Reqs -> Nat] /\ success' \in [Reqs -> BOOLEAN] /\ sp_timer' \in BOOLEAN
      BY <2>3, TellFacts
    <2> QED
      BY <1>2, <2>1, <2>2, <2>4 DEF Continue, RequestsWithout, TypeOK
  <1> QED
    BY <1>1, <1>2

LEMMA ScanCommonTypes ==
    ASSUME TypeOK, NEW r \in Reqs, NEW n \in 1 .. MaxCmds, ScanCommon(r, n)
    PROVE  /\ requests' \in Seq(Reqs) /\ work' \in Seq(Reqs \cup {Other})
           /\ cmdq' \in Seq(Commands) /\ cmds' \in [Reqs -> 0 .. MaxCmds]
           /\ cb' \in [Reqs -> BOOLEAN] /\ start_cmd' \in BOOLEAN /\ work_started' \in BOOLEAN
           /\ told' \in [Reqs -> Nat]
           /\ success' \in [Reqs -> BOOLEAN] /\ scanned' \in [Reqs -> BOOLEAN]
           /\ running' \in BOOLEAN /\ get_scan_cmd' \in BOOLEAN /\ triggered' \in BOOLEAN
           /\ started' \in BOOLEAN /\ evq' \in Seq(Events) /\ kscan' \in {"idle", "own", "ext"}
  <1>1. Append(requests, r) \in Seq(Reqs) /\ Append(work, r) \in Seq(Reqs \cup {Other})
    BY SetOfAppend DEF TypeOK
  <1>2. cmdq' \in Seq(Commands) /\ start_cmd' \in BOOLEAN /\ work_started' \in BOOLEAN
    <2>1. CASE work = <<>>
      <3>1. RadioNext(<<r>>, cmdq, start_cmd, work_started)
        BY <2>1 DEF ScanCommon
      <3>2. <<r>> \in Seq(Reqs \cup {Other})
        OBVIOUS
      <3> QED
        BY <3>1, <3>2, RadioNextFacts DEF TypeOK
    <2>2. CASE work # <<>>
      BY <2>2 DEF ScanCommon, TypeOK
    <2> QED
      BY <2>1, <2>2
  <1>3. n \in 0 .. MaxCmds /\ 0 \in Nat
    BY BoundsAssumption
  <1>4. cmds' \in [Reqs -> 0 .. MaxCmds] /\ told' \in [Reqs -> Nat]
    BY <1>3 DEF ScanCommon, TypeOK
  <1>5. /\ cb' \in [Reqs -> BOOLEAN] /\ success' \in [Reqs -> BOOLEAN]
        /\ scanned' \in [Reqs -> BOOLEAN]
    BY DEF ScanCommon, TypeOK
  <1> QED
    BY <1>1, <1>2, <1>4, <1>5 DEF ScanCommon, TypeOK

LEMMA CancelledTypes ==
    ASSUME TypeOK
    PROVE  /\ TriggerUnsent \in Seq(Commands) /\ TriggerUnheard \in Seq(Events)
           /\ DumpUnsent \in Seq(Commands) /\ DumpUnheard \in Seq(Events)
  <1>1. cmdq \in Seq(Commands) /\ evq \in Seq(Events)
    BY DEF TypeOK
  <1>2. TriggerUnsent \in Seq(Commands) /\ TriggerUnheard \in Seq(Events)
    BY <1>1, DropLastLemma DEF TriggerUnsent, TriggerUnheard
  <1> QED
    BY <1>2, DropLastLemma DEF DumpUnsent, DumpUnheard

\* Every action has its place in one of these groups.
LEMMA TypeKernel ==
    ASSUME TypeOK, Kernel \/ ExternalStart
    PROVE  TypeOK'
  <1>0. cmdq \in Seq(Commands) /\ evq \in Seq(Events)
    BY DEF TypeOK
  <1>1. \A e \in Events : Append(evq, e) \in Seq(Events)
    BY <1>0, SetOfAppend
  <1>2. cmdq # <<>> => Tail(cmdq) \in Seq(Commands) /\ Head(cmdq) \in Commands
    BY <1>0, SetOfTail
  <1>3. CASE KernelTrigger
    <2>1. evq \o <<Started, Ack("ok")>> \in Seq(Events)
      <3>1. <<Started, Ack("ok")>> \in Seq(Events)
        BY EventFacts
      <3> QED
        BY <3>1, <1>0, SetOfConcat
    <2>2. evq' \in Seq(Events) /\ cmdq' \in Seq(Commands) /\ kscan' \in {"idle", "own", "ext"}
      <3>1. Ack("busy") \in Events /\ Ack("fail") \in Events
        BY EventFacts
      <3>2. evq' \in {Append(evq, Ack("busy")), evq \o <<Started, Ack("ok")>>,
                      Append(evq, Ack("fail"))}
            /\ cmdq' = Tail(cmdq) /\ cmdq # <<>> /\ (kscan' = kscan \/ kscan' = "own")
        BY <1>3 DEF KernelTrigger
      <3>3. kscan \in {"idle", "own", "ext"}
        BY DEF TypeOK
      <3> QED
        BY <3>1, <3>2, <3>3, <1>1, <1>2, <2>1
    <2> QED
      BY <1>3, <2>2 DEF KernelTrigger, KernelIdle, TypeOK, reqVars, scVars, spVars, histVars
  <1>4. CASE KernelDump
    <2>1. Head(cmdq) \in Dumps
      BY <1>4, <1>2, CommandFacts DEF KernelDump
    <2>2. DumpDone(Head(cmdq).sr) \in Events
      BY <2>1, CommandFacts, EventFacts
    <2> QED
      BY <1>4, <1>1, <1>2, <2>2
      DEF KernelDump, KernelIdle, TypeOK, reqVars, scVars, spVars, histVars
  <1>5. CASE ScanEnd
    <2>1. \E flush \in BOOLEAN : evq' = Append(evq, Results(flush)) \/ evq' = Append(evq, Aborted)
      BY <1>5 DEF ScanEnd
    <2>2. \A flush \in BOOLEAN : Results(flush) \in Events
      BY EventFacts DEF Ends
    <2>3. evq' \in Seq(Events)
      BY <2>1, <2>2, <1>1, EventFacts
    <2> QED
      BY <1>5, <2>3 DEF ScanEnd, KernelIdle, TypeOK, reqVars, scVars, spVars, histVars
  <1>6. CASE ExternalStart
    BY <1>6, <1>1, EventFacts
    DEF ExternalStart, KernelIdle, TypeOK, reqVars, scVars, spVars, histVars
  <1> QED
    BY <1>3, <1>4, <1>5, <1>6 DEF Kernel


LEMMA ReceiveTypes ==
    ASSUME TypeOK, NEW e, Receive(e)
    PROVE  /\ calls = <<>> /\ evq # <<>> /\ Head(evq) = e /\ e \in Events
           /\ evq' = Tail(evq) /\ evq' \in Seq(Events)
           /\ e \in ToSet(evq) /\ ToSet(evq') \subseteq ToSet(evq)
           /\ ToSet(evq) = {e} \cup ToSet(evq')
  <1>1. evq \in Seq(Events)
    BY DEF TypeOK
  <1> QED
    BY <1>1, SetOfTail, SetOfHeadTail DEF Receive

LEMMA FirstRequest ==
    ASSUME TypeOK, requests # <<>>
    PROVE  /\ Head(requests) \in Reqs /\ Head(requests) \in ToSet(requests)
           /\ Without(requests, {Head(requests)}) \in Seq(Reqs)
  <1>1. requests \in Seq(Reqs)
    BY DEF TypeOK
  <1> QED
    BY <1>1, SetOfTail, WithoutLemma

LEMMA TypeTriggered ==
    ASSUME TypeOK, Triggered
    PROVE  TypeOK'
  <1> DEFINE sr == Head(requests)
  <1>0. cmds \in [Reqs -> 0 .. MaxCmds]
    BY DEF TypeOK
  <1>1. CASE Receive(Ack("ok")) /\ requests # <<>>
             /\ cmds' = [cmds EXCEPT ![Head(requests)] = OneCommandFewer(Head(requests))]
             /\ running' = TRUE /\ triggered' = TRUE /\ started' = TRUE
             /\ UNCHANGED <<requests, told, success, sp_timer, calls>>
    <2>1. sr \in Reqs
      BY <1>1, FirstRequest
    <2>2. OneCommandFewer(sr) \in 0 .. MaxCmds
      <3>1. cmds[sr] \in 0 .. MaxCmds
        BY <2>1, <1>0
      <3> QED
        BY <3>1, BoundsAssumption DEF OneCommandFewer
    <2>3. cmds' \in [Reqs -> 0 .. MaxCmds]
      BY <1>0, <1>1, <2>1, <2>2
    <2>4. evq' \in Seq(Events)
      BY <1>1, ReceiveTypes
    <2> QED
      BY <1>1, <2>3, <2>4 DEF Triggered, TypeOK
  <1>2. CASE Receive(Ack("busy")) /\ running' = TRUE
             /\ UNCHANGED <<requests, cmds, triggered, started, told, success, sp_timer, calls>>
    <2>1. evq' \in Seq(Events)
      BY <1>2, ReceiveTypes
    <2> QED
      BY <1>2, <2>1 DEF Triggered, TypeOK
  <1>3. CASE /\ Receive(Ack("fail")) /\ requests # <<>>
             /\ requests' = Without(requests, {Head(requests)})
             /\ Tell(Head(requests), "error")
             /\ calls' = <<DoneFrame(Head(requests))>>
             /\ UNCHANGED <<cmds, running, triggered, started>>
    <2>1. evq' \in Seq(Events)
      BY <1>3, ReceiveTypes
    <2>2. sr \in Reqs /\ requests' \in Seq(Reqs)
      BY <1>3, FirstRequest
    <2>3. told' \in [Reqs -> Nat] /\ success' \in [Reqs -> BOOLEAN] /\ sp_timer' \in BOOLEAN
      BY <1>3, <2>2, TellFacts
    <2>4. calls' \in Seq(Frames)
      <3>1. DoneFrame(sr) \in Frames
        BY <2>2, FrameFacts
      <3> QED
        BY <1>3, <3>1
    <2> QED
      BY <1>3, <2>1, <2>2, <2>3, <2>4 DEF Triggered, TypeOK
  <1> QED
    BY <1>1, <1>2, <1>3 DEF Triggered

LEMMA TypeOwnResults ==
    ASSUME TypeOK, NEW flush \in BOOLEAN, NotifyOwnResults(flush)
    PROVE  TypeOK'
  <1> DEFINE sr == Head(requests)
  <1>1. /\ Receive(Results(flush)) /\ running /\ triggered /\ requests # <<>> /\ OwnScanOver
        /\ scanned' = [scanned EXCEPT ![sr] = TRUE]
        /\ UNCHANGED <<cmds, cb, work, sp_on, sp_retry, periodic, kscan, env>>
    BY DEF NotifyOwnResults
  <1>2. sr \in Reqs /\ evq' \in Seq(Events)
    BY <1>1, FirstRequest, ReceiveTypes
  <1>3. scanned' \in [Reqs -> BOOLEAN] /\ running' \in BOOLEAN /\ triggered' \in BOOLEAN
    BY <1>1, <1>2 DEF TypeOK, OwnScanOver
  <1>4. <<>> \in Seq(Frames)
    OBVIOUS
  <1> DEFINE Typed == /\ requests' \in Seq(Reqs) /\ calls' \in Seq(Frames)
                      /\ cmdq' \in Seq(Commands) /\ start_cmd' \in BOOLEAN
                      /\ get_scan_cmd' \in BOOLEAN
                      /\ started' \in BOOLEAN /\ work_started' \in BOOLEAN
                      /\ told' \in [Reqs -> Nat] /\ success' \in [Reqs -> BOOLEAN]
                      /\ sp_timer' \in BOOLEAN
  <1> HIDE DEF sr
  <1>5. ASSUME /\ Finish(sr, "ECANCELED", <<>>)
               /\ UNCHANGED <<start_cmd, get_scan_cmd, cmdq>>
        PROVE  Typed
    BY <1>2, <1>4, <1>5, FinishTypes DEF TypeOK
  <1>6. ASSUME /\ cmdq' = Append(cmdq, Dump(sr)) /\ get_scan_cmd' = TRUE
               /\ UNCHANGED <<requests, start_cmd, started, work_started, told,
                              success, sp_timer, calls>>
        PROVE  Typed
    <2>1. cmdq' \in Seq(Commands)
      BY <1>2, <1>6, CommandFacts, SetOfAppend DEF TypeOK
    <2> QED
      BY <1>6, <2>1 DEF TypeOK
  <1>7. ASSUME Continue(sr, <<>>) /\ UNCHANGED get_scan_cmd
        PROVE  Typed
    BY <1>2, <1>4, <1>7, ContinueTypes DEF TypeOK
  <1>8. ASSUME UNCHANGED <<requests, start_cmd, get_scan_cmd, started,
                           work_started, told, success, sp_timer, calls, cmdq>>
        PROVE  Typed
    BY <1>8 DEF TypeOK
  <1>9. Typed
    BY <1>5, <1>6, <1>7, <1>8 DEF NotifyOwnResults, sr
  <1> QED
    BY <1>1, <1>2, <1>3, <1>9 DEF TypeOK

LEMMA TypeExternalResults ==
    ASSUME TypeOK, NEW flush \in BOOLEAN, NotifyExternalResults(flush)
    PROVE  TypeOK'
  <1> DEFINE rest == IF sp_on THEN <<GetScanFrame>> ELSE <<>>
  <1>1. /\ Receive(Results(flush)) /\ running' = FALSE
        /\ UNCHANGED <<cmds, cb, get_scan_cmd, triggered, work, sp_on, sp_retry,
                       periodic, kscan, env, scanned>>
    BY DEF NotifyExternalResults
  <1>2. evq' \in Seq(Events) /\ rest \in Seq(Frames)
    BY <1>1, ReceiveTypes, FrameFacts
  <1> DEFINE Typed == /\ requests' \in Seq(Reqs) /\ calls' \in Seq(Frames)
                      /\ cmdq' \in Seq(Commands) /\ start_cmd' \in BOOLEAN
                      /\ started' \in BOOLEAN /\ work_started' \in BOOLEAN
                      /\ told' \in [Reqs -> Nat] /\ success' \in [Reqs -> BOOLEAN]
                      /\ sp_timer' \in BOOLEAN
  <1> HIDE DEF rest
  <1>3. ASSUME FinishFirst("EAGAIN", rest) /\ UNCHANGED <<start_cmd, cmdq>>
        PROVE  Typed
    BY <1>2, <1>3, FinishFirstTypes DEF TypeOK
  <1>4. ASSUME requests # <<>> /\ Continue(Head(requests), rest)
        PROVE  Typed
    <2>1. Head(requests) \in Reqs
      BY <1>4, FirstRequest
    <2> QED
      BY <1>2, <1>4, <2>1, ContinueTypes
  <1>5. ASSUME /\ calls' = rest \/ calls' = calls
               /\ UNCHANGED <<requests, start_cmd, started, work_started, told,
                              success, sp_timer, cmdq>>
        PROVE  Typed
    BY <1>2, <1>5 DEF TypeOK
  <1>6. Typed
    BY <1>3, <1>4, <1>5 DEF NotifyExternalResults, rest
  <1> QED
    BY <1>1, <1>2, <1>6 DEF TypeOK

LEMMA TypeAborted ==
    ASSUME TypeOK, NotifyAborted
    PROVE  TypeOK'
  <1>1. /\ Receive(Aborted)
        /\ UNCHANGED <<cmds, cb, get_scan_cmd, work, sp_on, sp_retry, periodic, kscan, env,
                       scanned>>
    BY DEF NotifyAborted
  <1>2. evq' \in Seq(Events) /\ <<>> \in Seq(Frames)
    BY <1>1, ReceiveTypes
  <1> DEFINE Typed == /\ requests' \in Seq(Reqs) /\ calls' \in Seq(Frames)
                      /\ cmdq' \in Seq(Commands) /\ start_cmd' \in BOOLEAN
                      /\ started' \in BOOLEAN /\ work_started' \in BOOLEAN
                      /\ told' \in [Reqs -> Nat] /\ success' \in [Reqs -> BOOLEAN]
                      /\ sp_timer' \in BOOLEAN
                      /\ running' \in BOOLEAN /\ triggered' \in BOOLEAN
  <1>3. ASSUME OwnScanOver /\ FinishFirst("ECANCELED", <<>>) /\ UNCHANGED <<start_cmd, cmdq>>
        PROVE  Typed
    BY <1>2, <1>3, FinishFirstTypes DEF TypeOK, OwnScanOver
  <1>4. ASSUME /\ requests # <<>> /\ Continue(Head(requests), <<>>)
               /\ running' = FALSE /\ UNCHANGED triggered
        PROVE  Typed
    <2>1. Head(requests) \in Reqs
      BY <1>4, FirstRequest
    <2> QED
      BY <1>2, <1>4, <2>1, ContinueTypes DEF TypeOK
  <1>5. ASSUME /\ running' = FALSE
               /\ UNCHANGED <<requests, triggered, start_cmd, started, work_started,
                              told, success, sp_timer, calls, cmdq>>
        PROVE  Typed
    BY <1>5 DEF TypeOK
  <1>6. Typed
    BY <1>3, <1>4, <1>5 DEF NotifyAborted
  <1> QED
    BY <1>1, <1>2, <1>6 DEF TypeOK

LEMMA TypeHandlers ==
    ASSUME TypeOK, Handlers
    PROVE  TypeOK'
  <1>1. CASE NotifyTrigger
    <2>1. evq' \in Seq(Events)
      BY <1>1, ReceiveTypes DEF NotifyTrigger
    <2> QED
      BY <1>1, <2>1 DEF NotifyTrigger, TypeOK, reqVars, spVars, histVars
  <1>2. CASE NotifyIgnored
    <2>1. evq' \in Seq(Events)
      BY <1>2, ReceiveTypes DEF NotifyIgnored
    <2> QED
      BY <1>2, <2>1 DEF NotifyIgnored, TypeOK, reqVars, scVars, spVars, histVars
  <1>3. ASSUME NEW sr \in Reqs \cup {NoReq}, GetScanDone(sr) PROVE TypeOK'
    <2>1. evq' \in Seq(Events) /\ <<>> \in Seq(Frames)
      BY <1>3, ReceiveTypes DEF GetScanDone
    <2>2. CASE ResultsWanted(sr) /\ Finish(sr, "0", <<>>)
      <3>1. sr \in Reqs
        BY <2>2, FirstRequest DEF ResultsWanted, IsHead
      <3>2. /\ requests' \in Seq(Reqs) /\ calls' \in Seq(Frames)
            /\ started' \in BOOLEAN /\ work_started' \in BOOLEAN
            /\ told' \in [Reqs -> Nat] /\ success' \in [Reqs -> BOOLEAN] /\ sp_timer' \in BOOLEAN
        BY <2>1, <2>2, <3>1, FinishTypes
      <3> QED
        BY <1>3, <2>1, <3>2 DEF GetScanDone, TypeOK
    <2>3. CASE UNCHANGED <<requests, started, work_started, told, success, sp_timer, calls>>
      BY <1>3, <2>1, <2>3 DEF GetScanDone, TypeOK
    <2> QED
      BY <1>3, <2>2, <2>3 DEF GetScanDone
  <1> QED
    BY <1>1, <1>2, <1>3, TypeTriggered, TypeOwnResults, TypeExternalResults, TypeAborted
    DEF Handlers


\* scan_cancel() and scan_periodic_queue() are used by several actions.
CancelTyped ==
    /\ requests' \in Seq(Reqs) /\ work' \in Seq(Reqs \cup {Other}) /\ calls' \in Seq(Frames)
    /\ cmds' \in [Reqs -> 0 .. MaxCmds] /\ cb' \in [Reqs -> BOOLEAN]
    /\ running' \in BOOLEAN /\ start_cmd' \in BOOLEAN /\ get_scan_cmd' \in BOOLEAN
    /\ triggered' \in BOOLEAN /\ started' \in BOOLEAN /\ work_started' \in BOOLEAN
    /\ cmdq' \in Seq(Commands) /\ evq' \in Seq(Events)
    /\ told' \in [Reqs -> Nat]
    /\ success' \in [Reqs -> BOOLEAN] /\ scanned' \in [Reqs -> BOOLEAN]

LEMMA CancelTypes ==
    ASSUME TypeOK, NEW r \in Reqs, CancelTriggered(r) \/ CancelFirst(r) \/ CancelWaiting(r)
    PROVE  CancelTyped
  <1>1. CASE CancelTriggered(r)
    BY <1>1 DEF CancelTriggered, CancelTyped, TypeOK, scVars, histVars
  <1>2. Without(requests, {r}) \in Seq(Reqs)
    BY WithoutLemma DEF TypeOK
  <1>3. CASE CancelFirst(r)
    <2>1. TriggerUnsent \in Seq(Commands) /\ TriggerUnheard \in Seq(Events)
      BY CancelledTypes
    <2>2. WorkDone(r, TriggerUnsent, FALSE, FALSE)
      BY <1>3 DEF CancelFirst
    <2>3. /\ work' \in Seq(Reqs \cup {Other})
          /\ cmds' \in [Reqs -> 0 .. MaxCmds] /\ cb' \in [Reqs -> BOOLEAN]
          /\ told' \in [Reqs -> Nat]
          /\ success' \in [Reqs -> BOOLEAN] /\ scanned' \in [Reqs -> BOOLEAN]
          /\ start_cmd' \in BOOLEAN /\ work_started' \in BOOLEAN /\ cmdq' \in Seq(Commands)
      BY <2>1, <2>2, WorkDoneFacts
    <2> QED
      BY <1>2, <1>3, <2>1, <2>3 DEF CancelFirst, CancelTyped, TypeOK
  <1>4. CASE CancelWaiting(r)
    <2>1. WorkDone(r, cmdq, start_cmd, work_started)
      BY <1>4 DEF CancelWaiting
    <2>2. /\ work' \in Seq(Reqs \cup {Other})
          /\ cmds' \in [Reqs -> 0 .. MaxCmds] /\ cb' \in [Reqs -> BOOLEAN]
          /\ told' \in [Reqs -> Nat]
          /\ success' \in [Reqs -> BOOLEAN] /\ scanned' \in [Reqs -> BOOLEAN]
          /\ start_cmd' \in BOOLEAN /\ work_started' \in BOOLEAN /\ cmdq' \in Seq(Commands)
      BY <2>1, WorkDoneFacts DEF TypeOK
    <2> QED
      BY <1>2, <1>4, <2>2 DEF CancelWaiting, CancelTyped, TypeOK
  <1> QED
    BY <1>1, <1>3, <1>4

LEMMA CancelDuringDumpTypes ==
    ASSUME TypeOK, NEW r \in Reqs, NEW armed \in BOOLEAN, NEW rest \in Seq(Frames),
           CancelDuringDump(r, armed, rest)
    PROVE  CancelTyped /\ sp_timer' \in BOOLEAN
  <1> DEFINE c == <<CancelFrame(r)>> \o rest
  <1>1. c \in Seq(Frames)
    BY FrameFacts, SetOfPush
  <1> HIDE DEF c
  <1>2. cmdq' \in Seq(Commands) /\ evq' \in Seq(Events) /\ get_scan_cmd' \in BOOLEAN
    BY CancelledTypes DEF CancelDuringDump
  <1> DEFINE Typed == /\ requests' \in Seq(Reqs) /\ calls' \in Seq(Frames)
                      /\ started' \in BOOLEAN /\ work_started' \in BOOLEAN
                      /\ told' \in [Reqs -> Nat] /\ success' \in [Reqs -> BOOLEAN]
                      /\ sp_timer' \in BOOLEAN
  <1>3. ASSUME Finish(r, "0", c) PROVE Typed
    BY <1>1, <1>3, FinishTypes
  <1>4. ASSUME calls' = c, sp_timer' = armed,
               UNCHANGED <<requests, started, work_started, told, success>>
        PROVE  Typed
    BY <1>1, <1>4 DEF TypeOK
  <1>5. Typed
    BY <1>3, <1>4 DEF CancelDuringDump, c
  <1> QED
    BY <1>2, <1>5 DEF CancelDuringDump, CancelTyped, TypeOK

LEMMA PeriodicQueueTypes ==
    ASSUME TypeOK, NEW retry \in BOOLEAN, PeriodicQueue(retry)
    PROVE  /\ requests' \in Seq(Reqs) /\ work' \in Seq(Reqs \cup {Other})
           /\ cmds' \in [Reqs -> 0 .. MaxCmds] /\ cb' \in [Reqs -> BOOLEAN]
           /\ running' \in BOOLEAN /\ start_cmd' \in BOOLEAN /\ get_scan_cmd' \in BOOLEAN
           /\ triggered' \in BOOLEAN /\ started' \in BOOLEAN /\ work_started' \in BOOLEAN
           /\ cmdq' \in Seq(Commands) /\ evq' \in Seq(Events)
           /\ told' \in [Reqs -> Nat] /\ sp_retry' \in BOOLEAN /\ periodic' \subseteq Reqs
           /\ success' \in [Reqs -> BOOLEAN] /\ scanned' \in [Reqs -> BOOLEAN]
           /\ kscan' \in {"idle", "own", "ext"}
  <1>1. CASE /\ sp_retry' = TRUE
             /\ UNCHANGED <<periodic, reqVars, scVars, work, cmdq, evq, kscan, env, histVars>>
    BY <1>1 DEF TypeOK, reqVars, scVars, histVars
  <1>2. ASSUME NEW r \in Reqs, ScanCommon(r, 1), periodic' = periodic \cup {r},
               sp_retry' = retry
        PROVE  periodic' \subseteq Reqs /\ sp_retry' \in BOOLEAN /\ 1 \in 1 .. MaxCmds
    BY <1>2, BoundsAssumption DEF TypeOK
  <1>3. CASE /\ sp_retry' = retry
             /\ \E r \in Reqs : ScanCommon(r, 1) /\ periodic' = periodic \cup {r}
    <2>1. PICK r \in Reqs : ScanCommon(r, 1) /\ periodic' = periodic \cup {r}
      BY <1>3
    <2>2. periodic' \subseteq Reqs /\ sp_retry' \in BOOLEAN /\ 1 \in 1 .. MaxCmds
      BY <1>2, <1>3, <2>1
    <2> QED
      BY <2>1, <2>2, ScanCommonTypes
  <1> QED
    BY <1>1, <1>3 DEF PeriodicQueue

LEMMA TypeReturns ==
    ASSUME TypeOK, Returns
    PROVE  TypeOK'
  <1>0. calls # <<>> => Tail(calls) \in Seq(Frames)
    BY SetOfTail DEF TypeOK
  <1>1. ASSUME NEW r \in Reqs, ReturnDone(r) PROVE TypeOK'
    <2>1. WorkDone(r, cmdq, start_cmd, work_started)
      BY <1>1 DEF ReturnDone
    <2>2. /\ work' \in Seq(Reqs \cup {Other})
          /\ cmds' \in [Reqs -> 0 .. MaxCmds] /\ cb' \in [Reqs -> BOOLEAN]
          /\ told' \in [Reqs -> Nat]
          /\ success' \in [Reqs -> BOOLEAN] /\ scanned' \in [Reqs -> BOOLEAN]
          /\ start_cmd' \in BOOLEAN /\ work_started' \in BOOLEAN /\ cmdq' \in Seq(Commands)
      BY <2>1, WorkDoneFacts DEF TypeOK
    <2> QED
      BY <1>0, <1>1, <2>2 DEF ReturnDone, TypeOK, spVars
  <1>2. ASSUME NEW r \in Reqs, ReturnCancel(r) PROVE TypeOK'
    <2>1. WorkDone(r, cmdq, FALSE, FALSE)
      BY <1>2 DEF ReturnCancel
    <2>2. /\ work' \in Seq(Reqs \cup {Other})
          /\ cmds' \in [Reqs -> 0 .. MaxCmds] /\ cb' \in [Reqs -> BOOLEAN]
          /\ told' \in [Reqs -> Nat]
          /\ success' \in [Reqs -> BOOLEAN] /\ scanned' \in [Reqs -> BOOLEAN]
          /\ start_cmd' \in BOOLEAN /\ work_started' \in BOOLEAN /\ cmdq' \in Seq(Commands)
      BY <2>1, WorkDoneFacts DEF TypeOK
    <2>3. Without(requests, {r}) \in Seq(Reqs)
      BY WithoutLemma DEF TypeOK
    <2> QED
      BY <1>0, <1>2, <2>2, <2>3 DEF ReturnCancel, TypeOK, spVars
  <1>3. CASE ReturnRetry
    <2>1. CASE sp_retry /\ PeriodicQueue(FALSE)
      BY <1>0, <1>3, <2>1, PeriodicQueueTypes DEF ReturnRetry, TypeOK
    <2>2. CASE UNCHANGED <<sp_retry, periodic, reqVars, scVars, work, cmdq, evq,
                           kscan, env, histVars>>
      BY <1>0, <1>3, <2>2 DEF ReturnRetry, TypeOK, reqVars, scVars, histVars
    <2> QED
      BY <1>3, <2>1, <2>2 DEF ReturnRetry
  <1>4. CASE ReturnStop
    BY <1>0, <1>4 DEF ReturnStop, TypeOK, reqVars, scVars, histVars
  <1>5. CASE ReturnGetScan
    <2>1. Append(cmdq, Dump(NoReq)) \in Seq(Commands)
      BY CommandFacts, SetOfAppend DEF TypeOK
    <2> QED
      BY <1>0, <1>5, <2>1 DEF ReturnGetScan, TypeOK, reqVars, spVars, histVars
  <1> QED
    BY <1>1, <1>2, <1>3, <1>4, <1>5 DEF Returns

LEMMA TypeClients ==
    ASSUME TypeOK, Clients \/ OtherDone \/ PeriodicTimeout
    PROVE  TypeOK'
  <1>1. ASSUME NEW r \in Reqs, NEW n \in 1 .. MaxCmds, ScanRequest(r, n) PROVE TypeOK'
    <2>1. ScanCommon(r, n)
      BY <1>1 DEF ScanRequest
    <2> QED
      BY <1>1, <2>1, ScanCommonTypes DEF ScanRequest, TypeOK
  <1>2. ASSUME NEW r \in Reqs, ScanCancel(r) PROVE TypeOK'
    <2>1. CASE (CancelTriggered(r) \/ CancelFirst(r) \/ CancelWaiting(r)) /\ UNCHANGED sp_timer
      <3>1. CancelTyped
        BY <2>1, CancelTypes
      <3> QED
        BY <1>2, <2>1, <3>1 DEF ScanCancel, CancelTyped, TypeOK
    <2>2. CASE CancelDuringDump(r, sp_timer, calls)
      <3>1. CancelTyped /\ sp_timer' \in BOOLEAN
        BY <2>2, CancelDuringDumpTypes DEF TypeOK
      <3> QED
        BY <1>2, <3>1 DEF ScanCancel, CancelTyped, TypeOK
    <2> QED
      BY <1>2, <2>1, <2>2 DEF ScanCancel
  <1>3. CASE OtherInsert
    <2>1. work' \in Seq(Reqs \cup {Other})
      <3>1. CASE work = <<>>
        BY <1>3, <3>1 DEF OtherInsert
      <3>2. CASE work # <<>>
        <4>1. 2 \in 1 .. Len(work) + 1 /\ work \in Seq(Reqs \cup {Other})
          BY <3>2 DEF TypeOK
        <4> QED
          BY <1>3, <3>2, <4>1, InsertAtLemma DEF OtherInsert
      <3> QED
        BY <3>1, <3>2
    <2> QED
      BY <1>3, <2>1 DEF OtherInsert, TypeOK, reqVars, scVars, spVars, histVars
  <1>4. CASE OtherDone
    <2>1. WorkDone(Other, cmdq, start_cmd, work_started)
      BY <1>4 DEF OtherDone
    <2>2. /\ work' \in Seq(Reqs \cup {Other})
          /\ cmds' \in [Reqs -> 0 .. MaxCmds] /\ cb' \in [Reqs -> BOOLEAN]
          /\ told' \in [Reqs -> Nat]
          /\ success' \in [Reqs -> BOOLEAN] /\ scanned' \in [Reqs -> BOOLEAN]
          /\ start_cmd' \in BOOLEAN /\ work_started' \in BOOLEAN /\ cmdq' \in Seq(Commands)
      BY <2>1, WorkDoneFacts DEF TypeOK
    <2> QED
      BY <1>4, <2>2 DEF OtherDone, TypeOK, spVars
  <1>5. CASE PeriodicStart
    <2>1. PeriodicQueue(sp_retry) /\ sp_retry \in BOOLEAN
      BY <1>5 DEF PeriodicStart, TypeOK
    <2> QED
      BY <1>5, <2>1, PeriodicQueueTypes DEF PeriodicStart, TypeOK
  <1>6. CASE PeriodicTimeout
    <2>1. PeriodicQueue(sp_retry) /\ sp_retry \in BOOLEAN
      BY <1>6 DEF PeriodicTimeout, TypeOK
    <2> QED
      BY <1>6, <2>1, PeriodicQueueTypes DEF PeriodicTimeout, TypeOK
  <1>7. CASE PeriodicStop
    <2>0. periodic \subseteq Reqs /\ <<StopFrame>> \o calls \in Seq(Frames)
      BY FrameFacts, SetOfPush DEF TypeOK
    <2>1. CASE /\ UNCHANGED <<reqVars, scVars, work, calls, cmdq, evq, histVars>>
               /\ sp_timer' = FALSE /\ sp_on' = FALSE /\ sp_retry' = FALSE
      BY <1>7, <2>1 DEF PeriodicStop, TypeOK, reqVars, scVars, histVars
    <2>2. ASSUME NEW r \in periodic, CancelTriggered(r) \/ CancelFirst(r),
                 sp_timer' = FALSE /\ sp_on' = FALSE /\ sp_retry' = FALSE
          PROVE  TypeOK'
      <3>1. CancelTyped
        BY <2>0, <2>2, CancelTypes
      <3> QED
        BY <1>7, <2>2, <3>1 DEF PeriodicStop, CancelTyped, TypeOK
    <2>3. ASSUME NEW r \in periodic, CancelDuringDump(r, FALSE, <<StopFrame>> \o calls),
                 UNCHANGED <<sp_on, sp_retry>>
          PROVE  TypeOK'
      <3>1. CancelTyped /\ sp_timer' \in BOOLEAN
        BY <2>0, <2>3, CancelDuringDumpTypes
      <3> QED
        BY <1>7, <2>3, <3>1 DEF PeriodicStop, CancelTyped, TypeOK
    <2> QED
      BY <1>7, <2>1, <2>2, <2>3 DEF PeriodicStop
  <1> QED
    BY <1>1, <1>2, <1>3, <1>4, <1>5, <1>6, <1>7 DEF Clients

\* Every step keeps the types.
LEMMA TypeStep ==
    ASSUME TypeOK, [Next]_vars
    PROVE  TypeOK'
  <1>1. CASE Next
    BY <1>1, TypeKernel, TypeHandlers, TypeReturns, TypeClients DEF Next
  <1>2. CASE UNCHANGED vars
    BY <1>2 DEF vars, TypeOK, reqVars, scVars, spVars, histVars
  <1> QED
    BY <1>1, <1>2


-----------------------------------------------------------------------------
(* The request queue and the work queue, in every environment. *)

\* A stack of calls with the same pending requests as calls.
SamePending(c) ==
    /\ c \in Seq(Frames)
    /\ \A x \in Reqs : DoneFrame(x) \in ToSet(c) <=> DoneFrame(x) \in ToSet(calls)
    /\ \A x \in Reqs : NoneAfter(c, {DoneFrame(x), CancelFrame(x)}, {DoneFrame(x)})

\* The requests of the context are the radio work items that are not pending.
LEMMA LinkedSets ==
    ASSUME TypeOK, Linked
    PROVE  /\ ToSet(requests) = ToSet(work) \ ({Other} \cup Pending)
           /\ ToSet(requests) \subseteq Reqs /\ Pending \subseteq Reqs
           /\ work \in Seq(Reqs \cup {Other}) /\ requests \in Seq(Reqs)
           /\ \A r \in Reqs : r \in Pending <=> DoneFrame(r) \in ToSet(calls)
  <1>1. work \in Seq(Reqs \cup {Other}) /\ requests \in Seq(Reqs)
    BY DEF TypeOK
  <1>2. ToSet(requests) = ToSet(work) \ ({Other} \cup Pending)
    BY <1>1, WithoutLemma DEF Linked
  <1>3. ToSet(requests) \subseteq Reqs
    BY <1>1, SetOfSeq
  <1> QED
    BY <1>1, <1>2, <1>3 DEF Pending

\* The first request is the first item that is not pending and not of another owner.
LEMMA LinkedHead ==
    ASSUME TypeOK, Linked, work # <<>>, Head(work) \in ToSet(requests)
    PROVE  requests # <<>> /\ Head(requests) = Head(work)
  <1>1. work \in Seq(Reqs \cup {Other}) /\ Head(work) \notin {Other} \cup Pending
    BY LinkedSets
  <1> QED
    BY <1>1, WithoutLemma DEF Linked

LEMMA SamePendingCalls ==
    ASSUME TypeOK, Linked
    PROVE  SamePending(calls) /\ (calls = <<>> => SamePending(<<>>))
  BY DEF SamePending, Linked, TypeOK

\* A frame that is not a pending request's may be put in front; the rest of scan_cancel()
\* only when its request is not pending.
LEMMA SamePendingPush ==
    ASSUME NEW c, SamePending(c), NEW e \in Frames,
           \A x \in Reqs : e # DoneFrame(x),
           \A x \in Reqs : e = CancelFrame(x) => DoneFrame(x) \notin ToSet(calls)
    PROVE  SamePending(<<e>> \o c)
  <1>1. c \in Seq(Frames)
    BY DEF SamePending
  <1>2. <<e>> \o c \in Seq(Frames) /\ ToSet(<<e>> \o c) = {e} \cup ToSet(c)
    BY <1>1, SetOfPush
  <1>3. ASSUME NEW x \in Reqs
        PROVE  NoneAfter(<<e>> \o c, {DoneFrame(x), CancelFrame(x)}, {DoneFrame(x)})
    <2>1. NoneAfter(c, {DoneFrame(x), CancelFrame(x)}, {DoneFrame(x)})
      BY DEF SamePending
    <2>2. e \in {DoneFrame(x), CancelFrame(x)} => ToSet(c) \cap {DoneFrame(x)} = {}
      BY DEF SamePending
    <2> QED
      BY <1>1, <2>1, <2>2, NoneAfterPush
  <1> QED
    BY <1>2, <1>3 DEF SamePending

\* A call returns.
LEMMA SamePendingReturn ==
    ASSUME TypeOK, Linked, calls # <<>>, \A x \in Reqs : Head(calls) # DoneFrame(x)
    PROVE  SamePending(Tail(calls))
  <1>1. calls \in Seq(Frames)
    BY DEF TypeOK
  <1>2. Tail(calls) \in Seq(Frames) /\ ToSet(calls) = {Head(calls)} \cup ToSet(Tail(calls))
    BY <1>1, SetOfTail, SetOfHeadTail
  <1>3. \A x \in Reqs : NoneAfter(Tail(calls), {DoneFrame(x), CancelFrame(x)}, {DoneFrame(x)})
    BY <1>1, NoneAfterTail DEF Linked
  <1> QED
    BY <1>2, <1>3 DEF SamePending

\* Nothing happens to the queues.
LEMMA LinkedStay ==
    ASSUME TypeOK, Linked, SamePending(calls'), UNCHANGED <<requests, work, told>>
    PROVE  Linked'
  <1>1. Pending' = Pending
    BY DEF Pending, SamePending
  <1> QED
    BY <1>1 DEF Linked, SamePending, ToldOnce

\* A request is queued.
LEMMA LinkedAdd ==
    ASSUME TypeOK, Linked, SamePending(calls'), NEW r \in Reqs, r \notin ToSet(work),
           requests' = Append(requests, r), work' = Append(work, r),
           told' = [told EXCEPT ![r] = 0]
    PROVE  Linked'
  <1>1. Pending' = Pending
    BY DEF Pending, SamePending
  <1>2. work \in Seq(Reqs \cup {Other}) /\ requests \in Seq(Reqs) /\ r # Other
    BY ReqsAssumption DEF TypeOK
  <1>3. r \notin {Other} \cup Pending
    BY <1>2 DEF Linked
  <1>4. requests' = Without(work', {Other} \cup Pending')
    <2> DEFINE P == {Other} \cup Pending
    <2>1. Without(Append(work, r), P) = Append(Without(work, P), r)
      <3>1. work \in Seq(Reqs \cup {Other}) /\ r \in Reqs \cup {Other} /\ r \notin P
        BY <1>2, <1>3
      <3> HIDE DEF P
      <3>2. \A q \in Seq(Reqs \cup {Other}), e \in Reqs \cup {Other} :
               e \notin P => Without(Append(q, e), P) = Append(Without(q, P), e)
        BY WithoutAppend
      <3> QED
        BY <3>1, <3>2
    <2> QED
      BY <1>1, <2>1 DEF Linked
  <1>5. ToSet(work') = ToSet(work) \cup {r} /\ ToSet(requests') = ToSet(requests) \cup {r}
    BY <1>2, SetOfAppend
  <1>6. Pending' \subseteq ToSet(work')
    BY <1>1, <1>5 DEF Linked
  <1>7. told \in [Reqs -> Nat] /\ ToSet(requests) \subseteq Reqs
    BY LinkedSets DEF TypeOK
  <1>8. (\A x \in ToSet(requests) : told[x] = 0)' /\ ToldOnce'
    <2>1. \A x \in Reqs : told'[x] = IF x = r THEN 0 ELSE told[x]
      BY <1>7
    <2>2. \A x \in ToSet(requests) : told[x] = 0
      BY DEF Linked
    <2>3. \A x \in Reqs : told[x] <= 1
      BY DEF Linked, ToldOnce
    <2>4. \A x \in ToSet(requests') : told'[x] = 0
      BY <1>5, <1>7, <2>1, <2>2
    <2>5. \A x \in Reqs : told'[x] <= 1
      BY <2>1, <2>3
    <2> QED
      BY <2>4, <2>5 DEF ToldOnce
  <1> QED
    BY <1>4, <1>6, <1>8 DEF Linked, SamePending

\* A request leaves the context and its callback is called.
LEMMA LinkedFinish ==
    ASSUME TypeOK, Linked, NEW c, SamePending(c), NEW r \in ToSet(requests), NEW err,
           Tell(r, err), requests' = Without(requests, {r}), UNCHANGED work,
           calls' = <<DoneFrame(r)>> \o c
    PROVE  Linked'
  <1>1. r \in Reqs /\ r \notin Pending /\ DoneFrame(r) \notin ToSet(c) /\ r \in ToSet(work)
        /\ c \in Seq(Frames)
    BY LinkedSets DEF SamePending
  <1>2. ToSet(calls') = {DoneFrame(r)} \cup ToSet(c)
    BY <1>1, FrameFacts, SetOfPush
  <1>3. Pending' = Pending \cup {r}
    <2>1. \A x \in Reqs : DoneFrame(x) \in ToSet(calls') <=> x = r \/ DoneFrame(x) \in ToSet(calls)
      BY <1>1, <1>2, FrameFacts DEF SamePending
    <2> QED
      BY <1>1, <2>1 DEF Pending
  <1>4. requests' = Without(work', {Other} \cup Pending')
    <2> DEFINE P == {Other} \cup Pending
    <2>1. Without(Without(work, P), {r}) = Without(work, P \cup {r})
      <3>1. work \in Seq(Reqs \cup {Other})
        BY DEF TypeOK
      <3> HIDE DEF P
      <3> QED
        BY <3>1, WithoutTwice
    <2>2. P \cup {r} = {Other} \cup Pending'
      BY <1>3
    <2> QED
      BY <2>1, <2>2 DEF Linked
  <1>5. Pending' \subseteq ToSet(work')
    BY <1>1, <1>3 DEF Linked
  <1>6. ASSUME NEW x \in Reqs
        PROVE  NoneAfter(calls', {DoneFrame(x), CancelFrame(x)}, {DoneFrame(x)})
    <2>1. NoneAfter(c, {DoneFrame(x), CancelFrame(x)}, {DoneFrame(x)})
      BY DEF SamePending
    <2>2. DoneFrame(r) \in {DoneFrame(x), CancelFrame(x)} => ToSet(c) \cap {DoneFrame(x)} = {}
      BY <1>1, FrameFacts
    <2>3. DoneFrame(r) \in Frames
      BY <1>1, FrameFacts
    <2> QED
      BY <1>1, <2>1, <2>2, <2>3, NoneAfterPush
  <1>7. /\ \A x \in Reqs : x # r => told'[x] = told[x]
        /\ told[r] = 0 => told'[r] <= 1
    BY <1>1, TellFacts
  <1>8. ToSet(requests') = ToSet(requests) \ {r} /\ ToSet(requests) \subseteq Reqs
    BY LinkedSets, WithoutLemma
  <1>9. (\A x \in ToSet(requests) : told[x] = 0)' /\ ToldOnce'
    BY <1>1, <1>7, <1>8 DEF Linked, ToldOnce
  <1> QED
    BY <1>4, <1>5, <1>6, <1>9 DEF Linked

\* A radio work item is done, that of a pending request, of one that is cancelled, or of
\* another owner.
LEMMA LinkedDone ==
    ASSUME TypeOK, Linked, NEW item \in Reqs \cup {Other},
           work' = Without(work, {item}), requests' = Without(requests, {item}),
           calls' \in Seq(Frames),
           \A x \in Reqs : DoneFrame(x) \in ToSet(calls') <=> x # item /\ DoneFrame(x) \in ToSet(calls),
           \A x \in Reqs : NoneAfter(calls', {DoneFrame(x), CancelFrame(x)}, {DoneFrame(x)}),
           \A x \in Reqs : x # item => told'[x] = told[x],
           item \in Reqs => told'[item] = 1
    PROVE  Linked'
  <1> DEFINE P == {Other} \cup Pending
  <1>1. Pending' = Pending \ {item}
    BY DEF Pending
  <1>2. work \in Seq(Reqs \cup {Other}) /\ requests \in Seq(Reqs)
    BY DEF TypeOK
  <1>3. /\ ToSet(work') = ToSet(work) \ {item}
        /\ ToSet(requests') = ToSet(requests) \ {item} /\ ToSet(requests) \subseteq Reqs
    BY <1>2, WithoutLemma, SetOfSeq
  <1>4. requests' = Without(work', {Other} \cup Pending')
    <2>1. Without(Without(work, P), {item}) = Without(work, P \cup {item})
      BY <1>2, WithoutTwice
    <2>2. Without(Without(work, {item}), {Other} \cup Pending')
             = Without(work, {item} \cup ({Other} \cup Pending'))
      BY <1>2, WithoutTwice
    <2>3. P \cup {item} = {item} \cup ({Other} \cup Pending')
      BY <1>1
    <2> QED
      BY <2>1, <2>2, <2>3 DEF Linked
  <1>5. Pending' \subseteq ToSet(work')
    BY <1>1, <1>3 DEF Linked
  <1>6. (\A x \in ToSet(requests) : told[x] = 0)' /\ ToldOnce'
    <2>1. \A x \in Reqs : told'[x] <= 1
      BY DEF Linked, ToldOnce
    <2>2. \A x \in ToSet(requests') : told'[x] = 0
      BY <1>3 DEF Linked
    <2> QED
      BY <2>1, <2>2 DEF ToldOnce
  <1> QED
    BY <1>4, <1>5, <1>6 DEF Linked

\* A request that is not queued, or has left the queue, need not be taken out.
LEMMA RequestsKept ==
    ASSUME TypeOK, Linked, NEW item, item \in {Other} \cup Pending
    PROVE  Without(requests, {item}) = requests
  <1> DEFINE P == {Other} \cup Pending
  <1>1. Without(Without(work, P), {item}) = Without(work, P \cup {item})
    <2>1. work \in Seq(Reqs \cup {Other})
      BY DEF TypeOK
    <2> HIDE DEF P
    <2> QED
      BY <2>1, WithoutTwice
  <1>2. P \cup {item} = P
    OBVIOUS
  <1> QED
    BY <1>1, <1>2 DEF Linked

\* Other radio work is queued.
LEMMA LinkedOther ==
    ASSUME TypeOK, Linked, UNCHANGED <<requests, calls, told>>,
           work' = IF work = <<>> THEN <<Other>> ELSE InsertAt(work, 2, Other)
    PROVE  Linked'
  <1>0. Pending' = Pending /\ work \in Seq(Reqs \cup {Other})
    BY DEF Pending, TypeOK
  <1>1. CASE work = <<>>
    <2>1. <<Other>> = Append(<<>>, Other) /\ <<>> \in Seq(Reqs \cup {Other})
      OBVIOUS
    <2> DEFINE P == {Other} \cup Pending
               e == Append(<<>>, Other)
    <2>2. Without(e, P) = Without(<<>>, P)
      <3>1. Other \in P /\ Other \in Reqs \cup {Other}
        OBVIOUS
      <3> HIDE DEF P
      <3>2. \A q \in Seq(Reqs \cup {Other}) : Without(Append(q, Other), P) = Without(q, P)
        BY <3>1, WithoutAppend
      <3> QED
        BY <2>1, <3>2
    <2>3. Pending = {}
      BY <1>1, SetOfEmpty DEF Linked
    <2>4. requests' = Without(work', {Other} \cup Pending')
      <3>1. requests = Without(<<>>, P)
        BY <1>1 DEF Linked
      <3>2. work' = e
        BY <1>1, <2>1
      <3>3. P = {Other} \cup Pending'
        BY <1>0
      <3> HIDE DEF P, e
      <3> QED
        BY <2>2, <3>1, <3>2, <3>3
    <2>5. Pending' \subseteq ToSet(work')
      BY <1>0, <2>3
    <2> QED
      BY <2>4, <2>5 DEF Linked, ToldOnce
  <1>2. CASE work # <<>>
    <2>1. 2 \in 1 .. Len(work) + 1
      BY <1>0, <1>2
    <2> DEFINE P == {Other} \cup Pending
    <2>2. Without(InsertAt(work, 2, Other), P) = Without(work, P)
      <3>1. Other \in P /\ Other \in Reqs \cup {Other}
        OBVIOUS
      <3> HIDE DEF P
      <3> QED
        BY <1>0, <2>1, <3>1, WithoutInsert
    <2>3. ToSet(work') = ToSet(work) \cup {Other}
      <3>1. Other \in Reqs \cup {Other} /\ work' = InsertAt(work, 2, Other)
        BY <1>2
      <3> HIDE DEF P
      <3>2. \A q \in Seq(Reqs \cup {Other}) : \A p \in 1 .. Len(q) + 1 :
               ToSet(InsertAt(q, p, Other)) = ToSet(q) \cup {Other}
        <4> DEFINE Items == Reqs \cup {Other}
        <4>1. Other \in Items
          OBVIOUS
        <4> HIDE DEF Items
        <4> SUFFICES ASSUME NEW q \in Seq(Items), NEW p \in 1 .. Len(q) + 1
                     PROVE  ToSet(InsertAt(q, p, Other)) = ToSet(q) \cup {Other}
          BY DEF Items
        <4> QED
          BY <4>1, InsertAtElements
      <3>3. ToSet(InsertAt(work, 2, Other)) = ToSet(work) \cup {Other}
        BY <1>0, <2>1, <3>2
      <3> QED
        BY <3>1, <3>3
    <2>4. requests' = Without(work', {Other} \cup Pending')
      BY <1>0, <1>2, <2>2 DEF Linked
    <2>5. Pending' \subseteq ToSet(work')
      BY <1>0, <2>3 DEF Linked
    <2> QED
      BY <2>4, <2>5 DEF Linked, ToldOnce
  <1> QED
    BY <1>1, <1>2


LEMMA LinkedFinishFirst ==
    ASSUME TypeOK, Linked, NEW err, NEW rest, SamePending(rest), FinishFirst(err, rest),
           UNCHANGED work
    PROVE  Linked'
  <1>1. CASE requests # <<>> /\ Finish(Head(requests), err, rest)
    <2> DEFINE r == Head(requests)
    <2>1. r \in ToSet(requests)
      BY <1>1, FirstRequest
    <2>2. Tell(r, err) /\ requests' = Without(requests, {r}) /\ calls' = <<DoneFrame(r)>> \o rest
      BY <1>1 DEF Finish, RequestsWithout
    <2> HIDE DEF r
    <2> QED
      BY <2>1, <2>2, LinkedFinish
  <1>2. CASE calls' = rest /\ UNCHANGED <<requests, told>>
    BY <1>2, LinkedStay
  <1> QED
    BY <1>1, <1>2 DEF FinishFirst

\* Two frames are two pushes.
LEMMA PushTwo ==
    ASSUME NEW S, NEW a \in S, NEW b \in S, NEW q \in Seq(S)
    PROVE  <<a, b>> \o q = <<a>> \o (<<b>> \o q)
  <1> DEFINE u == <<b>> \o q
  <1>1. /\ u \in Seq(S) /\ Len(u) = 1 + Len(q) /\ u[1] = b /\ Len(q) \in Nat
        /\ \A k \in 1 .. Len(q) : u[k + 1] = q[k]
    OBVIOUS
  <1> HIDE DEF u
  <1> DEFINE x == <<a>> \o u
             y == <<a, b>> \o q
  <1>2. /\ x \in Seq(S) /\ Len(x) = 1 + Len(u) /\ x[1] = a
        /\ \A k \in 1 .. Len(u) : x[k + 1] = u[k]
    BY <1>1
  <1>3. /\ y \in Seq(S) /\ Len(y) = 2 + Len(q) /\ y[1] = a /\ y[2] = b
        /\ \A k \in 1 .. Len(q) : y[k + 2] = q[k]
    OBVIOUS
  <1> HIDE DEF x, y
  <1>4. Len(x) = Len(y)
    BY <1>1, <1>2, <1>3
  <1>5. ASSUME NEW k \in 1 .. Len(x) PROVE x[k] = y[k]
    <2>1. CASE k = 1
      BY <1>2, <1>3, <2>1
    <2>2. CASE k = 2
      <3>1. x[1 + 1] = u[1]
        BY <1>1, <1>2
      <3> QED
        BY <1>1, <1>3, <2>2, <3>1
    <2>3. CASE k \notin {1, 2}
      <3>1. k - 2 \in 1 .. Len(q) /\ k - 1 \in 1 .. Len(u)
        BY <1>1, <1>2, <2>3
      <3>2. x[(k - 1) + 1] = u[k - 1] /\ u[(k - 2) + 1] = q[k - 2] /\ y[(k - 2) + 2] = q[k - 2]
        BY <1>1, <1>2, <1>3, <3>1
      <3>3. (k - 1) + 1 = k /\ (k - 2) + 1 = k - 1 /\ (k - 2) + 2 = k
        OBVIOUS
      <3> QED
        BY <3>2, <3>3
    <2> QED
      BY <2>1, <2>2, <2>3
  <1>6. x = y
    BY <1>2, <1>3, <1>4, <1>5
  <1> QED
    BY <1>6 DEF x, y, u

\* Two elements are two appends.
LEMMA AppendTwo ==
    ASSUME NEW S, NEW a \in S, NEW b \in S, NEW q \in Seq(S)
    PROVE  /\ q \o <<a, b>> = Append(Append(q, a), b)
           /\ q \o <<a, b>> \in Seq(S)
           /\ ToSet(q \o <<a, b>>) = ToSet(q) \cup {a, b}
  <1> DEFINE x == q \o <<a, b>>
             y == Append(q, a)
             z == Append(y, b)
  <1>1. /\ x \in Seq(S) /\ Len(x) = Len(q) + 2 /\ Len(q) \in Nat
        /\ x[Len(q) + 1] = a /\ x[Len(q) + 2] = b
        /\ \A k \in 1 .. Len(q) : x[k] = q[k]
    OBVIOUS
  <1>2. /\ y \in Seq(S) /\ Len(y) = Len(q) + 1 /\ y[Len(q) + 1] = a
        /\ \A k \in 1 .. Len(q) : y[k] = q[k]
    OBVIOUS
  <1>3. ToSet(y) = ToSet(q) \cup {a}
    BY SetOfAppend
  <1> HIDE DEF x, y
  <1>4. /\ z \in Seq(S) /\ Len(z) = Len(y) + 1 /\ z[Len(y) + 1] = b
        /\ \A k \in 1 .. Len(y) : z[k] = y[k]
    BY <1>2
  <1>5. ToSet(z) = ToSet(y) \cup {b}
    BY <1>2, SetOfAppend
  <1> HIDE DEF z
  <1>6. ASSUME NEW k \in 1 .. Len(x) PROVE x[k] = z[k]
    <2>1. CASE k \in 1 .. Len(q)
      BY <1>1, <1>2, <1>4, <2>1
    <2>2. CASE k = Len(q) + 1
      BY <1>1, <1>2, <1>4, <2>2
    <2>3. CASE k = Len(q) + 2
      <3>1. k = Len(y) + 1
        BY <1>1, <1>2, <2>3
      <3> QED
        BY <1>1, <1>4, <2>3, <3>1
    <2> QED
      BY <1>1, <2>1, <2>2, <2>3
  <1>7. Len(x) = Len(z)
    BY <1>1, <1>2, <1>4
  <1>8. x = z
    BY <1>1, <1>4, <1>6, <1>7
  <1> QED
    BY <1>1, <1>3, <1>5, <1>8 DEF x, y, z

LEMMA LinkedContinue ==
    ASSUME TypeOK, Linked, NEW r \in ToSet(requests), NEW rest, SamePending(rest),
           Continue(r, rest), UNCHANGED work
    PROVE  Linked'
  <1>1. CASE HasCommand(r)
    <2>1. calls' = rest /\ UNCHANGED <<requests, told>>
      BY <1>1 DEF Continue
    <2> QED
      BY <2>1, LinkedStay
  <1>2. CASE ~HasCommand(r)
    <2> DEFINE c == <<RetryFrame>> \o rest
    <2>1. SamePending(c)
      BY FrameFacts, SamePendingPush
    <2>2. /\ Tell(r, "EIO") /\ requests' = Without(requests, {r})
          /\ calls' = <<DoneFrame(r), RetryFrame>> \o rest
      BY <1>2 DEF Continue, RequestsWithout
    <2>3. r \in Reqs /\ rest \in Seq(Frames)
      BY LinkedSets DEF SamePending
    <2>4. calls' = <<DoneFrame(r)>> \o c
      <3>1. DoneFrame(r) \in Frames /\ RetryFrame \in Frames
        BY <2>3, FrameFacts
      <3> QED
        BY <2>2, <2>3, <3>1, PushTwo
    <2> HIDE DEF c
    <2> QED
      BY <2>1, <2>2, <2>4, LinkedFinish
  <1> QED
    BY <1>1, <1>2

\* The queues stay linked when an answer or a notification is handled.
LEMMA LinkedHandlers ==
    ASSUME TypeOK, Linked, Handlers
    PROVE  Linked'
  <1>1. CASE Triggered
    <2>1. CASE UNCHANGED <<requests, told, calls>>
      BY <1>1, <2>1, SamePendingCalls, LinkedStay DEF Triggered, SamePending
    <2>2. CASE /\ Receive(Ack("fail")) /\ requests # <<>>
               /\ requests' = Without(requests, {Head(requests)})
               /\ Tell(Head(requests), "error")
               /\ calls' = <<DoneFrame(Head(requests))>>
      <3> DEFINE r == Head(requests)
      <3>1. r \in ToSet(requests) /\ r \in Reqs
        BY <2>2, FirstRequest
      <3>2. SamePending(<<>>)
        BY <2>2, SamePendingCalls DEF Receive
      <3>3. calls' = <<DoneFrame(r)>> \o <<>>
        BY <2>2
      <3>4. UNCHANGED work /\ Tell(r, "error") /\ requests' = Without(requests, {r})
        BY <1>1, <2>2 DEF Triggered
      <3> HIDE DEF r
      <3> QED
        BY <3>1, <3>2, <3>3, <3>4, LinkedFinish
    <2> QED
      BY <1>1, <2>1, <2>2 DEF Triggered
  <1>2. CASE NotifyTrigger \/ NotifyIgnored
    <2>1. UNCHANGED <<requests, work, told, calls>>
      BY <1>2 DEF NotifyTrigger, NotifyIgnored, reqVars, histVars
    <2>2. SamePending(calls')
      BY <2>1, SamePendingCalls
    <2> QED
      BY <2>1, <2>2, LinkedStay
  <1>3. ASSUME NEW flush \in BOOLEAN, NotifyOwnResults(flush) PROVE Linked'
    <2>1. requests # <<>> /\ calls = <<>> /\ UNCHANGED work
      BY <1>3 DEF NotifyOwnResults, Receive
    <2>2. SamePending(<<>>) /\ SamePending(calls)
      BY <2>1, SamePendingCalls
    <2>3. CASE Finish(Head(requests), "ECANCELED", <<>>)
      <3>1. FinishFirst("ECANCELED", <<>>)
        BY <2>1, <2>3 DEF FinishFirst
      <3> QED
        BY <2>1, <2>2, <3>1, LinkedFinishFirst
    <2>4. CASE UNCHANGED <<requests, told, calls>>
      <3>1. SamePending(calls')
        BY <2>2, <2>4
      <3> QED
        BY <2>1, <2>4, <3>1, LinkedStay
    <2>5. CASE Continue(Head(requests), <<>>)
      BY <2>1, <2>2, <2>5, FirstRequest, LinkedContinue
    <2> QED
      BY <1>3, <2>3, <2>4, <2>5 DEF NotifyOwnResults
  <1>4. ASSUME NEW flush \in BOOLEAN, NotifyExternalResults(flush) PROVE Linked'
    <2> DEFINE rest == IF sp_on THEN <<GetScanFrame>> ELSE <<>>
    <2>1. calls = <<>> /\ UNCHANGED work
      BY <1>4 DEF NotifyExternalResults, Receive
    <2>2. SamePending(rest) /\ SamePending(calls)
      <3>1. SamePending(calls) /\ SamePending(<<>>)
        BY <2>1, SamePendingCalls
      <3>2. SamePending(<<GetScanFrame>> \o <<>>)
        BY <3>1, FrameFacts, SamePendingPush
      <3>3. <<GetScanFrame>> \o <<>> = <<GetScanFrame>>
        OBVIOUS
      <3> QED
        BY <3>1, <3>2, <3>3
    <2> HIDE DEF rest
    <2>3. CASE FinishFirst("EAGAIN", rest)
      BY <2>1, <2>2, <2>3, LinkedFinishFirst
    <2>4. CASE requests # <<>> /\ Continue(Head(requests), rest)
      BY <2>1, <2>2, <2>4, FirstRequest, LinkedContinue
    <2>5. CASE (calls' = rest \/ calls' = calls) /\ UNCHANGED <<requests, told>>
      <3>1. SamePending(calls')
        BY <2>2, <2>5
      <3> QED
        BY <2>1, <2>5, <3>1, LinkedStay
    <2> QED
      BY <1>4, <2>3, <2>4, <2>5 DEF NotifyExternalResults, rest
  <1>5. CASE NotifyAborted
    <2>1. calls = <<>> /\ UNCHANGED work
      BY <1>5 DEF NotifyAborted, Receive
    <2>2. SamePending(<<>>) /\ SamePending(calls)
      BY <2>1, SamePendingCalls
    <2>3. CASE FinishFirst("ECANCELED", <<>>)
      BY <2>1, <2>2, <2>3, LinkedFinishFirst
    <2>4. CASE requests # <<>> /\ Continue(Head(requests), <<>>)
      BY <2>1, <2>2, <2>4, FirstRequest, LinkedContinue
    <2>5. CASE UNCHANGED <<requests, told, calls>>
      <3>1. SamePending(calls')
        BY <2>2, <2>5
      <3> QED
        BY <2>1, <2>5, <3>1, LinkedStay
    <2> QED
      BY <1>5, <2>3, <2>4, <2>5 DEF NotifyAborted
  <1>6. ASSUME NEW sr \in Reqs \cup {NoReq}, GetScanDone(sr) PROVE Linked'
    <2>1. calls = <<>> /\ UNCHANGED work
      BY <1>6 DEF GetScanDone, Receive
    <2>2. SamePending(<<>>) /\ SamePending(calls)
      BY <2>1, SamePendingCalls
    <2>3. CASE ResultsWanted(sr) /\ Finish(sr, "0", <<>>)
      <3>1. FinishFirst("0", <<>>)
        BY <2>3 DEF FinishFirst, ResultsWanted, IsHead
      <3> QED
        BY <2>1, <2>2, <3>1, LinkedFinishFirst
    <2>4. CASE UNCHANGED <<requests, told, calls>>
      <3>1. SamePending(calls')
        BY <2>2, <2>4
      <3> QED
        BY <2>1, <2>4, <3>1, LinkedStay
    <2> QED
      BY <1>6, <2>3, <2>4 DEF GetScanDone
  <1> QED
    BY <1>1, <1>2, <1>3, <1>4, <1>5, <1>6 DEF Handlers

LEMMA LinkedScanCommon ==
    ASSUME TypeOK, Linked, NEW r \in Reqs, NEW n, ScanCommon(r, n), SamePending(calls')
    PROVE  Linked'
  <1>1. r \notin ToSet(work)
    BY ContainsLemma DEF ScanCommon, Free, TypeOK
  <1> QED
    BY <1>1, LinkedAdd DEF ScanCommon

LEMMA LinkedPeriodic ==
    ASSUME TypeOK, Linked, NEW retry, PeriodicQueue(retry), SamePending(calls')
    PROVE  Linked'
  <1>1. CASE UNCHANGED <<reqVars, work, histVars>>
    BY <1>1, LinkedStay DEF reqVars, histVars
  <1>2. CASE \E r \in Reqs : ScanCommon(r, 1)
    BY <1>2, LinkedScanCommon
  <1> QED
    BY <1>1, <1>2 DEF PeriodicQueue

\* An item that is not pending is done: the frames stay.
LEMMA LinkedCancel ==
    ASSUME TypeOK, Linked, NEW item \in Reqs \cup {Other}, item \notin Pending,
           NEW q \in Seq(Commands), NEW sc \in BOOLEAN, NEW ws \in BOOLEAN,
           WorkDone(item, q, sc, ws), requests' = Without(requests, {item}),
           SamePending(calls')
    PROVE  Linked'
  <1>1. /\ work' = Without(work, {item})
        /\ \A x \in Reqs : x # item => told'[x] = told[x]
        /\ item \in Reqs => told'[item] = 1
    BY WorkDoneFacts
  <1>2. \A x \in Reqs : DoneFrame(x) \in ToSet(calls') <=> x # item /\ DoneFrame(x) \in ToSet(calls)
    BY DEF SamePending, Pending
  <1> QED
    BY <1>1, <1>2, LinkedDone DEF SamePending

LEMMA LinkedCancelDuringDump ==
    ASSUME TypeOK, Linked, NEW r \in Reqs, NEW armed, NEW rest, SamePending(rest),
           CancelDuringDump(r, armed, rest)
    PROVE  Linked'
  <1> DEFINE c == <<CancelFrame(r)>> \o rest
  <1>1. requests # <<>> /\ Head(requests) = r /\ UNCHANGED work
    BY DEF CancelDuringDump, IsHead
  <1>2. r \in ToSet(requests) /\ DoneFrame(r) \notin ToSet(calls)
    BY <1>1, FirstRequest, LinkedSets
  <1>3. SamePending(c)
    BY <1>2, FrameFacts, SamePendingPush
  <1> HIDE DEF c
  <1>4. CASE Finish(r, "0", c)
    <2>1. FinishFirst("0", c)
      BY <1>1, <1>4 DEF FinishFirst
    <2> QED
      BY <1>1, <1>3, <2>1, LinkedFinishFirst
  <1>5. CASE calls' = c /\ UNCHANGED <<requests, told>>
    BY <1>1, <1>3, <1>5, LinkedStay
  <1> QED
    BY <1>4, <1>5 DEF CancelDuringDump, c

LEMMA LinkedReturns ==
    ASSUME TypeOK, Linked, Returns
    PROVE  Linked'
  <1>0. calls \in Seq(Frames)
    BY DEF TypeOK
  <1>1. ASSUME NEW r \in Reqs, ReturnDone(r) PROVE Linked'
    <2>1. calls # <<>> /\ Head(calls) = DoneFrame(r) /\ calls' = Tail(calls)
          /\ UNCHANGED requests /\ WorkDone(r, cmdq, start_cmd, work_started)
      BY <1>1 DEF ReturnDone
    <2>2. ToSet(calls) = {DoneFrame(r)} \cup ToSet(calls') /\ calls' \in Seq(Frames)
      BY <1>0, <2>1, SetOfHeadTail, SetOfTail
    <2>3. \A x \in Reqs : NoneAfter(calls', {DoneFrame(x), CancelFrame(x)}, {DoneFrame(x)})
      BY <1>0, <2>1, NoneAfterTail DEF Linked
    <2>4. DoneFrame(r) \notin ToSet(calls')
      <3>1. NoneAfter(calls, {DoneFrame(r), CancelFrame(r)}, {DoneFrame(r)})
        BY DEF Linked
      <3>2. ToSet(Tail(calls)) \cap {DoneFrame(r)} = {}
        BY <1>0, <2>1, <3>1, NoneAfterTail
      <3> QED
        BY <2>1, <3>2
    <2>5. \A x \in Reqs : DoneFrame(x) \in ToSet(calls') <=> x # r /\ DoneFrame(x) \in ToSet(calls)
      BY <2>2, <2>4, FrameFacts
    <2>6. requests' = Without(requests, {r})
      <3>1. r \in Pending
        BY <2>2 DEF Pending
      <3> QED
        BY <2>1, <3>1, RequestsKept
    <2>7. /\ work' = Without(work, {r})
          /\ \A x \in Reqs : x # r => told'[x] = told[x]
          /\ told'[r] = 1
      <3>1. /\ cmdq \in Seq(Commands) /\ start_cmd \in BOOLEAN /\ work_started \in BOOLEAN
            /\ r \in Reqs \cup {Other}
        BY DEF TypeOK
      <3> QED
        BY <2>1, <3>1, WorkDoneFacts
    <2> QED
      <3>1. r \in Reqs \cup {Other} /\ calls' \in Seq(Frames)
        BY <2>2
      <3>2. r \in Reqs => told'[r] = 1
        BY <2>7
      <3>3. /\ work' = Without(work, {r}) /\ requests' = Without(requests, {r})
            /\ \A x \in Reqs : x # r => told'[x] = told[x]
        BY <2>6, <2>7
      <3> QED
        BY <2>3, <2>5, <3>1, <3>2, <3>3, LinkedDone
  <1>2. ASSUME NEW r \in Reqs, ReturnCancel(r) PROVE Linked'
    <2>1. calls # <<>> /\ Head(calls) = CancelFrame(r) /\ calls' = Tail(calls)
          /\ requests' = Without(requests, {r}) /\ WorkDone(r, cmdq, FALSE, FALSE)
      BY <1>2 DEF ReturnCancel
    <2>2. SamePending(calls')
      BY <2>1, FrameFacts, SamePendingReturn
    <2>3. r \notin Pending
      <3>1. NoneAfter(calls, {DoneFrame(r), CancelFrame(r)}, {DoneFrame(r)})
        BY DEF Linked
      <3>2. ToSet(Tail(calls)) \cap {DoneFrame(r)} = {}
        BY <1>0, <2>1, <3>1, NoneAfterTail
      <3> QED
        BY <2>1, <2>2, <3>2 DEF SamePending, Pending
    <2> QED
      <3>1. cmdq \in Seq(Commands) /\ FALSE \in BOOLEAN /\ r \in Reqs \cup {Other}
        BY DEF TypeOK
      <3>2. WorkDone(r, cmdq, FALSE, FALSE) /\ requests' = Without(requests, {r})
        BY <2>1
      <3> QED
        BY <2>2, <2>3, <3>1, <3>2, LinkedCancel
  <1>3. CASE ReturnRetry
    <2>1. calls # <<>> /\ Head(calls) = RetryFrame /\ calls' = Tail(calls)
      BY <1>3 DEF ReturnRetry
    <2>2. SamePending(calls')
      BY <2>1, FrameFacts, SamePendingReturn
    <2>3. CASE PeriodicQueue(FALSE)
      BY <2>2, <2>3, LinkedPeriodic
    <2>4. CASE UNCHANGED <<reqVars, work, histVars>>
      BY <2>2, <2>4, LinkedStay DEF reqVars, histVars
    <2> QED
      BY <1>3, <2>3, <2>4 DEF ReturnRetry
  <1>4. CASE ReturnStop \/ ReturnGetScan
    <2>1. calls # <<>> /\ (Head(calls) = StopFrame \/ Head(calls) = GetScanFrame)
          /\ calls' = Tail(calls) /\ UNCHANGED <<requests, work, told>>
      BY <1>4 DEF ReturnStop, ReturnGetScan, reqVars, histVars
    <2>2. SamePending(calls')
      BY <2>1, FrameFacts, SamePendingReturn
    <2> QED
      BY <2>1, <2>2, LinkedStay
  <1> QED
    BY <1>1, <1>2, <1>3, <1>4 DEF Returns

LEMMA LinkedClients ==
    ASSUME TypeOK, Linked, Clients \/ OtherDone \/ PeriodicTimeout
    PROVE  Linked'
  <1>0. SamePending(calls)
    BY SamePendingCalls
  <1>1. ASSUME NEW r \in Reqs, CancelTriggered(r) \/ CancelFirst(r) \/ CancelWaiting(r)
        PROVE  Linked'
    <2>1. UNCHANGED calls
      BY <1>1 DEF CancelTriggered, CancelFirst, CancelWaiting
    <2>2. SamePending(calls')
      BY <1>0, <2>1
    <2>3. r \in ToSet(requests)
      <3>1. CASE IsHead(r)
        BY <3>1, FirstRequest DEF IsHead
      <3>2. CASE Contains(requests, r)
        BY <3>2, ContainsLemma DEF TypeOK
      <3> QED
        BY <1>1, <3>1, <3>2 DEF CancelTriggered, CancelFirst, CancelWaiting
    <2>4. r \notin Pending
      BY <2>3, LinkedSets
    <2>5. CASE CancelTriggered(r)
      BY <2>2, <2>5, LinkedStay DEF CancelTriggered, histVars
    <2>6. CASE CancelFirst(r)
      <3>1. WorkDone(r, TriggerUnsent, FALSE, FALSE) /\ requests' = Without(requests, {r})
        BY <2>6 DEF CancelFirst
      <3>2. TriggerUnsent \in Seq(Commands)
        BY CancelledTypes
      <3> QED
        BY <2>2, <2>4, <3>1, <3>2, LinkedCancel
    <2>7. CASE CancelWaiting(r)
      <3>1. /\ WorkDone(r, cmdq, start_cmd, work_started)
            /\ requests' = Without(requests, {r})
        BY <2>7 DEF CancelWaiting
      <3> QED
        BY <2>2, <2>4, <3>1, LinkedCancel DEF TypeOK
    <2> QED
      BY <1>1, <2>5, <2>6, <2>7
  <1>2. ASSUME NEW r \in Reqs, NEW n \in 1 .. MaxCmds, ScanRequest(r, n) PROVE Linked'
    <2>1. ScanCommon(r, n) /\ SamePending(calls')
      BY <1>0, <1>2 DEF ScanRequest, SamePending
    <2> QED
      BY <2>1, LinkedScanCommon
  <1>3. ASSUME NEW r \in Reqs, ScanCancel(r) PROVE Linked'
    <2>1. CASE CancelDuringDump(r, sp_timer, calls)
      BY <1>0, <2>1, LinkedCancelDuringDump
    <2> QED
      BY <1>1, <1>3, <2>1 DEF ScanCancel
  <1>4. CASE OtherInsert
    BY <1>4, LinkedOther DEF OtherInsert, reqVars, histVars
  <1>5. CASE OtherDone
    <2>1. WorkDone(Other, cmdq, start_cmd, work_started) /\ UNCHANGED <<requests, calls>>
      BY <1>5 DEF OtherDone
    <2>2. Other \notin Pending
      BY ReqsAssumption DEF Pending
    <2>3. requests' = Without(requests, {Other})
      BY <2>1, RequestsKept
    <2>4. SamePending(calls')
      BY <1>0, <2>1
    <2> QED
      BY <2>1, <2>2, <2>3, <2>4, LinkedCancel DEF TypeOK
  <1>6. CASE PeriodicStart \/ PeriodicTimeout
    <2>1. PeriodicQueue(sp_retry) /\ UNCHANGED calls
      BY <1>6 DEF PeriodicStart, PeriodicTimeout
    <2>2. SamePending(calls')
      BY <1>0, <2>1
    <2> QED
      BY <2>1, <2>2, LinkedPeriodic
  <1>7. CASE PeriodicStop
    <2>0. periodic \subseteq Reqs
      BY DEF TypeOK
    <2>1. CASE UNCHANGED <<reqVars, work, calls, histVars>>
      <3>1. SamePending(calls')
        BY <1>0, <2>1
      <3> QED
        BY <2>1, <3>1, LinkedStay DEF reqVars, histVars
    <2>2. ASSUME NEW r \in periodic, CancelTriggered(r) \/ CancelFirst(r) PROVE Linked'
      BY <1>1, <2>0, <2>2
    <2>3. ASSUME NEW r \in periodic, CancelDuringDump(r, FALSE, <<StopFrame>> \o calls)
          PROVE  Linked'
      <3>1. SamePending(<<StopFrame>> \o calls)
        BY <1>0, FrameFacts, SamePendingPush
      <3> QED
        BY <2>0, <2>3, <3>1, LinkedCancelDuringDump
    <2> QED
      BY <1>7, <2>1, <2>2, <2>3 DEF PeriodicStop
  <1> QED
    BY <1>2, <1>3, <1>4, <1>5, <1>6, <1>7 DEF Clients

\* Every step keeps the two queues linked.
LEMMA LinkedStep ==
    ASSUME TypeOK, Linked, [Next]_vars
    PROVE  Linked'
  <1>1. ASSUME UNCHANGED <<requests, work, told, calls>> PROVE Linked'
    <2>1. SamePending(calls')
      BY <1>1, SamePendingCalls
    <2> QED
      BY <1>1, <2>1, LinkedStay
  <1>2. CASE Kernel \/ ExternalStart
    BY <1>1, <1>2
    DEF Kernel, KernelTrigger, KernelDump, ScanEnd, ExternalStart, KernelIdle, reqVars, histVars
  <1>3. CASE UNCHANGED vars
    BY <1>1, <1>3 DEF vars, reqVars, histVars
  <1> QED
    BY <1>2, <1>3, LinkedHandlers, LinkedReturns, LinkedClients DEF Next


-----------------------------------------------------------------------------
(* The steps that are not the kernel's or a handler's, by what they do to the radio. *)

\* Nothing but callbacks, the periodic scan and the return of a call.
SameRadio ==
    /\ UNCHANGED <<requests, cmds, scVars, work, cmdq, evq, kscan, env, success, scanned>>
    /\ \/ calls' = calls
       \/ calls # <<>> /\ Head(calls) \in {RetryFrame, StopFrame} /\ calls' = Tail(calls)

\* A request is made by a client, the timer or a periodic retry.
NewRequest ==
    \E r \in Reqs, n \in 1 .. MaxCmds :
        /\ ScanCommon(r, n)
        /\ \/ calls' = calls
           \/ calls # <<>> /\ Head(calls) = RetryFrame /\ calls' = Tail(calls)

\* A request is cancelled before its scan starts, while it waits, or during its GET_SCAN.
Cancelled ==
    /\ UNCHANGED <<kscan, env>>
    /\ \E r \in Reqs :
          \/ CancelFirst(r)
          \/ CancelWaiting(r)
          \/ /\ "late_cancel" \in env
             /\ \E armed \in BOOLEAN, rest \in Seq(Frames) :
                   /\ rest = calls \/ rest = <<StopFrame>> \o calls
                   /\ CancelDuringDump(r, armed, rest)

LEMMA PeriodicCases ==
    ASSUME NEW retry, PeriodicQueue(retry),
           \/ calls' = calls
           \/ calls # <<>> /\ Head(calls) = RetryFrame /\ calls' = Tail(calls)
    PROVE  SameRadio \/ NewRequest
  <1>1. CASE UNCHANGED <<reqVars, scVars, work, cmdq, evq, kscan, env, histVars>>
    BY <1>1 DEF SameRadio, reqVars, scVars, histVars
  <1>2. ASSUME NEW r \in Reqs, ScanCommon(r, 1) PROVE NewRequest
    <2>1. 1 \in 1 .. MaxCmds
      BY BoundsAssumption
    <2> QED
      BY <1>2, <2>1 DEF NewRequest
  <1> QED
    BY <1>1, <1>2 DEF PeriodicQueue

LEMMA StepCases ==
    ASSUME TypeOK, Next
    PROVE  \/ Kernel \/ ExternalStart \/ Handlers
           \/ SameRadio \/ NewRequest \/ Cancelled
           \/ \E r \in Reqs : ReturnDone(r) \/ ReturnCancel(r)
           \/ ReturnGetScan \/ OtherInsert \/ OtherDone
  <1>0. periodic \subseteq Reqs /\ sp_timer \in BOOLEAN /\ calls \in Seq(Frames)
    BY DEF TypeOK
  <1>1. ASSUME ReturnRetry PROVE SameRadio \/ NewRequest
    <2>1. calls # <<>> /\ Head(calls) = RetryFrame /\ calls' = Tail(calls)
      BY <1>1 DEF ReturnRetry
    <2>2. CASE PeriodicQueue(FALSE)
      BY <2>1, <2>2, PeriodicCases
    <2>3. CASE UNCHANGED <<reqVars, scVars, work, cmdq, evq, kscan, env, histVars>>
      BY <2>1, <2>3 DEF SameRadio, reqVars, scVars, histVars
    <2> QED
      BY <1>1, <2>2, <2>3 DEF ReturnRetry
  <1>2. ASSUME ReturnStop PROVE SameRadio
    BY <1>2 DEF ReturnStop, SameRadio, reqVars, scVars, histVars
  <1>3. ASSUME NEW r \in Reqs, NEW n \in 1 .. MaxCmds, ScanRequest(r, n) PROVE NewRequest
    BY <1>3 DEF ScanRequest, NewRequest
  <1>4. ASSUME NEW r \in Reqs, CancelTriggered(r), UNCHANGED <<kscan, env>> PROVE SameRadio
    BY <1>4 DEF CancelTriggered, SameRadio, histVars
  <1>5. ASSUME NEW r \in Reqs, ScanCancel(r) PROVE SameRadio \/ Cancelled
    BY <1>0, <1>4, <1>5 DEF ScanCancel, Cancelled
  <1>6. ASSUME PeriodicStart \/ PeriodicTimeout PROVE SameRadio \/ NewRequest
    <2>1. PeriodicQueue(sp_retry) /\ calls' = calls
      BY <1>6 DEF PeriodicStart, PeriodicTimeout
    <2> QED
      BY <2>1, PeriodicCases
  <1>7. ASSUME PeriodicStop PROVE SameRadio \/ Cancelled
    <2>0. UNCHANGED <<kscan, env>>
      BY <1>7 DEF PeriodicStop
    <2>1. CASE UNCHANGED <<reqVars, scVars, work, calls, cmdq, evq, histVars>>
      BY <2>0, <2>1 DEF SameRadio, reqVars, scVars, histVars
    <2>2. ASSUME NEW r \in periodic, CancelTriggered(r) \/ CancelFirst(r)
          PROVE  SameRadio \/ Cancelled
      BY <1>0, <1>4, <2>0, <2>2 DEF Cancelled
    <2>3. ASSUME NEW r \in periodic, "late_cancel" \in env,
                 CancelDuringDump(r, FALSE, <<StopFrame>> \o calls)
          PROVE  Cancelled
      <3>1. <<StopFrame>> \o calls \in Seq(Frames) /\ FALSE \in BOOLEAN /\ r \in Reqs
        BY <1>0, FrameFacts, SetOfPush
      <3> QED
        BY <2>0, <2>3, <3>1 DEF Cancelled
    <2> QED
      BY <1>7, <2>1, <2>2, <2>3 DEF PeriodicStop
  <1>8. ASSUME Returns
        PROVE  \/ SameRadio \/ NewRequest
               \/ \E r \in Reqs : ReturnDone(r) \/ ReturnCancel(r)
               \/ ReturnGetScan
    BY <1>1, <1>2, <1>8 DEF Returns
  <1>9. ASSUME Clients PROVE SameRadio \/ NewRequest \/ Cancelled \/ OtherInsert
    BY <1>3, <1>5, <1>6, <1>7, <1>9 DEF Clients
  <1> QED
    BY <1>6, <1>8, <1>9 DEF Next


\* start_next_scan_request() may send a trigger after the commands of q.
Sends(q) == cmdq' = q \/ cmdq' = Append(q, Trigger)

LEMMA SendsFacts ==
    ASSUME NEW q \in Seq(Commands), Sends(q)
    PROVE  /\ cmdq' \in Seq(Commands)
           /\ ToSet(q) \subseteq ToSet(cmdq') /\ ToSet(cmdq') \subseteq ToSet(q) \cup {Trigger}
           /\ \A c : c # Trigger => (c \in ToSet(cmdq') <=> c \in ToSet(q))
           /\ ToSet(cmdq') \cap Dumps = ToSet(q) \cap Dumps
           /\ Once(q, Dumps) => Once(cmdq', Dumps)
           /\ q # <<>> => cmdq' # <<>> /\ Head(cmdq') = Head(q)
  <1>1. CASE cmdq' = q
    BY <1>1
  <1>2. CASE cmdq' = Append(q, Trigger)
    <2>1. Trigger \in Commands /\ Trigger \notin Dumps
      BY CommandFacts
    <2>2. cmdq' \in Seq(Commands) /\ ToSet(cmdq') = ToSet(q) \cup {Trigger}
      BY <1>2, <2>1, SetOfAppend
    <2>3. Once(q, Dumps) => Once(cmdq', Dumps)
      BY <1>2, <2>1, OnceAppend
    <2>4. q # <<>> => cmdq' # <<>> /\ Head(cmdq') = Head(q)
      BY <1>2, <2>1
    <2> QED
      BY <2>1, <2>2, <2>3, <2>4
  <1> QED
    BY <1>1, <1>2 DEF Sends

\* The request that is queued, and what the radio does at once if it is idle.
LEMMA ScanCommonRadio ==
    ASSUME TypeOK, NEW r \in Reqs, NEW n \in 1 .. MaxCmds, ScanCommon(r, n)
    PROVE  /\ r \notin ToSet(work) /\ r \notin ToSet(requests)
           /\ requests' = Append(requests, r) /\ work' = Append(work, r)
           /\ cmds'[r] = n /\ ~success'[r]
           /\ \A x \in Reqs : x # r => /\ cmds'[x] = cmds[x] /\ success'[x] = success[x]
                                       /\ scanned'[x] = scanned[x]
           /\ UNCHANGED <<running, get_scan_cmd, triggered, started, evq, kscan, env>>
           /\ \/ /\ work = <<>> /\ work_started'
                 /\ \/ cmdq' = cmdq /\ start_cmd' = start_cmd
                    \/ cmdq' = Append(cmdq, Trigger) /\ start_cmd' /\ ~running
              \/ work # <<>> /\ UNCHANGED <<cmdq, start_cmd, work_started>>
  <1>1. r \notin ToSet(work) /\ r \notin ToSet(requests)
    <2>1. ~Contains(work, r) /\ ~Contains(requests, r)
      BY DEF ScanCommon, Free
    <2> QED
      BY <2>1, ContainsLemma DEF TypeOK
  <1>2. /\ cmds' = [cmds EXCEPT ![r] = n] /\ success' = [success EXCEPT ![r] = FALSE]
        /\ scanned' = [scanned EXCEPT ![r] = FALSE]
    BY DEF ScanCommon
  <1>3. /\ cmds'[r] = n /\ ~success'[r]
        /\ \A x \in Reqs : x # r => /\ cmds'[x] = cmds[x] /\ success'[x] = success[x]
                                    /\ scanned'[x] = scanned[x]
    BY <1>2 DEF TypeOK
  <1>4. ASSUME work = <<>>
        PROVE  /\ work_started'
               /\ \/ cmdq' = cmdq /\ start_cmd' = start_cmd
                  \/ cmdq' = Append(cmdq, Trigger) /\ start_cmd' /\ ~running
    <2>1. RadioNext(<<r>>, cmdq, start_cmd, work_started)
      BY <1>4 DEF ScanCommon
    <2>2. <<r>> \in Seq(Reqs \cup {Other}) /\ <<r>> # <<>> /\ Head(<<r>>) = r
      OBVIOUS
    <2>3. cmdq \in Seq(Commands) /\ start_cmd \in BOOLEAN /\ work_started \in BOOLEAN
      BY DEF TypeOK
    <2> QED
      BY <2>1, <2>2, <2>3, RadioNextFacts
  <1>5. ASSUME work # <<>> PROVE UNCHANGED <<cmdq, start_cmd, work_started>>
    BY <1>5 DEF ScanCommon
  <1>6. /\ requests' = Append(requests, r) /\ work' = Append(work, r)
        /\ UNCHANGED <<running, get_scan_cmd, triggered, started, evq, kscan, env>>
    BY DEF ScanCommon
  <1> QED
    BY <1>1, <1>3, <1>4, <1>5, <1>6


-----------------------------------------------------------------------------
(* What a handler does to the radio: all of them take one message from the socket.  *)

Handles(M) == calls = <<>> /\ evq # <<>> /\ Head(evq) \in M /\ evq' = Tail(evq)

\* The first request leaves the queue.
FirstLeaves ==
    /\ requests # <<>>
    /\ requests' = Without(requests, {Head(requests)})
    /\ \A x \in Reqs : success'[x] => success[x]

\* What remains to be done after a scan has ended: the GET_SCAN of an external one.
AfterEnd(rest) == rest = <<>> \/ (rest = <<GetScanFrame>> /\ ~triggered)

\* A scan has ended; running was set.
EndHandled == Handles(Ends) /\ running /\ ~running' /\ ~triggered'
                  /\ \A x \in Reqs : scanned[x] => scanned'[x]

HandleOk ==
    /\ Handles({Ack("ok")})
    /\ requests # <<>>
    /\ running' /\ triggered' /\ started' /\ ~start_cmd'
    /\ cmds' = [cmds EXCEPT ![Head(requests)] = OneCommandFewer(Head(requests))]
    /\ UNCHANGED <<requests, get_scan_cmd, work_started, calls, cmdq, success, scanned>>

HandleBusy ==
    /\ Handles({Ack("busy")})
    /\ running' /\ ~start_cmd'
    /\ UNCHANGED <<requests, cmds, get_scan_cmd, triggered, started, work_started, calls,
                   cmdq, success, scanned>>

HandleFail ==
    /\ Handles({Ack("fail")})
    /\ FirstLeaves
    /\ ~start_cmd'
    /\ calls' = <<DoneFrame(Head(requests))>> \o <<>>
    /\ UNCHANGED <<cmds, running, get_scan_cmd, triggered, started, work_started, cmdq,
                   scanned>>

HandleStarted ==
    /\ Handles({Started})
    /\ running'
    /\ UNCHANGED <<requests, cmds, start_cmd, get_scan_cmd, triggered, started, work_started,
                   calls, cmdq, success, scanned>>

\* The first request is finished, because its scan is over or lost its results.
HandleFinish ==
    /\ EndHandled
    /\ triggered \/ (Head(evq) = Results(TRUE) /\ started /\ ~get_scan_cmd)
    /\ FirstLeaves
    /\ ~started' /\ ~work_started'
    /\ \E rest : AfterEnd(rest) /\ calls' = <<DoneFrame(Head(requests))>> \o rest
    /\ UNCHANGED <<cmds, start_cmd, get_scan_cmd, cmdq>>

HandleDump ==
    /\ EndHandled
    /\ triggered /\ requests # <<>> /\ cmds[Head(requests)] = 0
    /\ scanned'[Head(requests)]
    /\ get_scan_cmd'
    /\ cmdq' = Append(cmdq, Dump(Head(requests)))
    /\ UNCHANGED <<requests, cmds, start_cmd, started, work_started, calls, success>>

HandleContinue ==
    /\ EndHandled
    /\ work_started /\ requests # <<>> /\ cmds[Head(requests)] # 0
    /\ start_cmd'
    /\ cmdq' = Append(cmdq, Trigger)
    /\ AfterEnd(calls')
    /\ UNCHANGED <<requests, cmds, get_scan_cmd, started, work_started, success>>

HandleExhausted ==
    /\ EndHandled
    /\ ~triggered /\ work_started /\ cmds[Head(requests)] = 0
    /\ FirstLeaves
    /\ ~work_started'
    /\ \E rest : AfterEnd(rest) /\ calls' = <<DoneFrame(Head(requests)), RetryFrame>> \o rest
    /\ UNCHANGED <<cmds, start_cmd, get_scan_cmd, started, cmdq>>

HandleEnd ==
    /\ Handles(Ends)
    /\ ~running' /\ (triggered' => triggered /\ ~running)
    /\ triggered => ~running \/ ~work_started \/ requests = <<>>
    /\ \A x \in Reqs : scanned[x] => scanned'[x]
    /\ AfterEnd(calls')
    /\ UNCHANGED <<requests, cmds, start_cmd, get_scan_cmd, started, work_started, cmdq, success>>

HandleDumpDone ==
    /\ Handles(DumpsDone)
    /\ ~get_scan_cmd'
    /\ UNCHANGED <<cmds, running, start_cmd, triggered, cmdq, scanned>>
    /\ \/ /\ IsHead(Head(evq).sr)
          /\ requests' = Without(requests, {Head(requests)})
          /\ \A x \in Reqs : x # Head(requests) => success'[x] = success[x]
          /\ ~started' /\ ~work_started'
          /\ calls' = <<DoneFrame(Head(requests))>> \o <<>>
       \/ /\ ~IsHead(Head(evq).sr)
          /\ UNCHANGED <<requests, started, work_started, calls, success>>

Handled ==
    \/ HandleOk \/ HandleBusy \/ HandleFail \/ HandleStarted
    \/ HandleFinish \/ HandleDump \/ HandleContinue \/ HandleExhausted \/ HandleEnd
    \/ HandleDumpDone

LEMMA FinishIs ==
    ASSUME TypeOK, requests # <<>>, NEW err, err # "0", NEW rest, Finish(Head(requests), err, rest)
    PROVE  /\ FirstLeaves /\ ~started' /\ ~work_started'
           /\ calls' = <<DoneFrame(Head(requests))>> \o rest
  <1>1. Head(requests) \in Reqs
    BY FirstRequest
  <1>2. Tell(Head(requests), err)
    BY DEF Finish
  <1>3. \A x \in Reqs : success'[x] => success[x]
    BY <1>1, <1>2, TellFacts
  <1> QED
    BY <1>3 DEF Finish, FirstLeaves, RequestsWithout, FinishedFlags

LEMMA ContinueIs ==
    ASSUME TypeOK, requests # <<>>, NEW rest, AfterEnd(rest), Continue(Head(requests), rest),
           work_started, EndHandled, UNCHANGED <<cmds, get_scan_cmd>>,
           triggered => cmds[Head(requests)] # 0
    PROVE  HandleContinue \/ HandleExhausted
  <1>1. Head(requests) \in Reqs
    BY FirstRequest
  <1>2. CASE HasCommand(Head(requests))
    <2>1. /\ start_cmd' /\ cmdq' = Append(cmdq, Trigger) /\ calls' = rest
          /\ UNCHANGED <<requests, started, work_started, success>>
      BY <1>2 DEF Continue
    <2>2. cmds[Head(requests)] # 0
      BY <1>1, <1>2, BoundsAssumption DEF HasCommand, TypeOK
    <2> QED
      BY <2>1, <2>2 DEF HandleContinue
  <1>3. CASE ~HasCommand(Head(requests))
    <2>1. /\ requests' = Without(requests, {Head(requests)}) /\ ~work_started'
          /\ Tell(Head(requests), "EIO")
          /\ calls' = <<DoneFrame(Head(requests)), RetryFrame>> \o rest
          /\ UNCHANGED <<start_cmd, cmdq, started>>
      BY <1>3 DEF Continue, RequestsWithout
    <2>2. cmds[Head(requests)] = 0
      BY <1>1, <1>3, BoundsAssumption DEF HasCommand, TypeOK
    <2>3. \A x \in Reqs : success'[x] => success[x]
      <3>1. "EIO" # "0"
        OBVIOUS
      <3>2. /\ \A x \in Reqs : x # Head(requests) => success'[x] = success[x]
            /\ success'[Head(requests)] => success[Head(requests)] \/ "EIO" = "0"
        BY <1>1, <2>1, TellFacts
      <3> QED
        BY <3>1, <3>2
    <2> QED
      BY <2>1, <2>2, <2>3 DEF HandleExhausted, FirstLeaves
  <1> QED
    BY <1>2, <1>3


LEMMA ReceiveIs ==
    ASSUME NEW e, Receive(e), NEW M, e \in M
    PROVE  Handles(M)
  BY DEF Receive, Handles

LEMMA HandlerCases ==
    ASSUME TypeOK, Handlers
    PROVE  Handled /\ UNCHANGED <<work, kscan, env>>
  <1>0. ASSUME requests # <<>> PROVE Head(requests) \in Reqs
    BY <1>0, FirstRequest
  <1>1. ASSUME Triggered PROVE Handled /\ UNCHANGED <<work, kscan, env>>
    <2>0. /\ start_cmd' = FALSE
          /\ UNCHANGED <<get_scan_cmd, work_started, work, cmdq, kscan, env, scanned>>
      BY <1>1 DEF Triggered
    <2>1. CASE /\ Receive(Ack("ok"))
               /\ requests # <<>>
               /\ running' = TRUE /\ triggered' = TRUE /\ started' = TRUE
               /\ cmds' = [cmds EXCEPT ![Head(requests)] = OneCommandFewer(Head(requests))]
               /\ UNCHANGED <<requests, told, success, sp_timer, calls>>
      <3>1. HandleOk
        BY <2>0, <2>1, ReceiveIs DEF HandleOk
      <3> QED
        BY <2>0, <3>1 DEF Handled
    <2>2. CASE /\ Receive(Ack("busy"))
               /\ running' = TRUE
               /\ UNCHANGED <<requests, cmds, triggered, started, told, success, sp_timer, calls>>
      <3>1. HandleBusy
        BY <2>0, <2>2, ReceiveIs DEF HandleBusy
      <3> QED
        BY <2>0, <3>1 DEF Handled
    <2>3. CASE /\ Receive(Ack("fail"))
               /\ requests # <<>>
               /\ requests' = Without(requests, {Head(requests)})
               /\ Tell(Head(requests), "error")
               /\ calls' = <<DoneFrame(Head(requests))>>
               /\ UNCHANGED <<cmds, running, triggered, started>>
      <3>1. "error" # "0"
        OBVIOUS
      <3>2. /\ \A x \in Reqs : x # Head(requests) => success'[x] = success[x]
            /\ success'[Head(requests)] => success[Head(requests)] \/ "error" = "0"
        BY <1>0, <2>3, TellFacts
      <3>3. FirstLeaves
        BY <2>3, <3>1, <3>2 DEF FirstLeaves
      <3>4. calls' = <<DoneFrame(Head(requests))>> \o <<>>
        BY <2>3
      <3>5. HandleFail
        BY <2>0, <2>3, <3>3, <3>4, ReceiveIs DEF HandleFail
      <3> QED
        BY <2>0, <3>5 DEF Handled
    <2> QED
      BY <1>1, <2>1, <2>2, <2>3 DEF Triggered
  <1>2. ASSUME NotifyTrigger PROVE Handled /\ UNCHANGED <<work, kscan, env>>
    <2>1. HandleStarted
      BY <1>2, ReceiveIs DEF NotifyTrigger, HandleStarted, reqVars, histVars
    <2> QED
      BY <1>2, <2>1 DEF Handled, NotifyTrigger
  <1>3. ASSUME NEW flush \in BOOLEAN, NotifyOwnResults(flush)
        PROVE  Handled /\ UNCHANGED <<work, kscan, env>>
    <2> DEFINE sr == Head(requests)
    <2>0. /\ Receive(Results(flush)) /\ running /\ triggered /\ requests # <<>>
          /\ running' = FALSE /\ triggered' = FALSE
          /\ scanned' = [scanned EXCEPT ![sr] = TRUE]
          /\ UNCHANGED <<cmds, work, kscan, env>>
      BY <1>3 DEF NotifyOwnResults, OwnScanOver
    <2>1. sr \in Reqs /\ Results(flush) \in Ends
      BY <1>0, <2>0 DEF Ends
    <2>2. scanned'[sr] /\ \A x \in Reqs : scanned[x] => scanned'[x]
      BY <2>0, <2>1 DEF TypeOK
    <2>3. EndHandled
      BY <2>0, <2>1, <2>2, ReceiveIs DEF EndHandled
    <2>4. CASE Finish(sr, "ECANCELED", <<>>) /\ UNCHANGED <<start_cmd, get_scan_cmd, cmdq>>
      <3>1. /\ FirstLeaves /\ ~started' /\ ~work_started'
            /\ calls' = <<DoneFrame(Head(requests))>> \o <<>>
        <4>1. "ECANCELED" # "0"
          OBVIOUS
        <4> QED
          BY <2>0, <2>4, <4>1, FinishIs
      <3>2. AfterEnd(<<>>)
        BY DEF AfterEnd
      <3>3. HandleFinish
        BY <2>0, <2>3, <2>4, <3>1, <3>2 DEF HandleFinish
      <3> QED
        BY <2>0, <3>3 DEF Handled
    <2>5. CASE /\ cb[sr] /\ LastCommandDone(sr)
               /\ cmdq' = Append(cmdq, Dump(sr)) /\ get_scan_cmd' = TRUE
               /\ UNCHANGED <<requests, start_cmd, started, work_started, told, success,
                              sp_timer, calls>>
      <3>1. HandleDump
        BY <2>0, <2>2, <2>3, <2>5 DEF HandleDump, LastCommandDone
      <3> QED
        BY <2>0, <3>1 DEF Handled
    <2>6. CASE ~LastCommandDone(sr) /\ work_started /\ Continue(sr, <<>>) /\ UNCHANGED get_scan_cmd
      <3>1. AfterEnd(<<>>)
        BY DEF AfterEnd
      <3>2. HandleContinue \/ HandleExhausted
        BY <2>0, <2>3, <2>6, <3>1, ContinueIs DEF LastCommandDone
      <3> QED
        BY <2>0, <3>2 DEF Handled
    <2>7. CASE /\ ~work_started
               /\ UNCHANGED <<requests, start_cmd, get_scan_cmd, started, work_started, told,
                              success, sp_timer, calls, cmdq>>
      <3>1. calls' = <<>>
        BY <2>0, <2>7 DEF Receive
      <3>2. HandleEnd
        BY <2>0, <2>3, <2>7, <3>1 DEF HandleEnd, EndHandled, AfterEnd
      <3> QED
        BY <2>0, <3>2 DEF Handled
    <2> HIDE DEF sr
    <2> QED
      BY <1>3, <2>4, <2>5, <2>6, <2>7 DEF NotifyOwnResults, sr
  <1>4. ASSUME NEW flush \in BOOLEAN, NotifyExternalResults(flush)
        PROVE  Handled /\ UNCHANGED <<work, kscan, env>>
    <2> DEFINE rest == IF sp_on THEN <<GetScanFrame>> ELSE <<>>
    <2>0. /\ Receive(Results(flush)) /\ running /\ ~triggered /\ running' = FALSE
          /\ UNCHANGED <<cmds, get_scan_cmd, triggered, work, kscan, env, scanned>>
      BY <1>4 DEF NotifyExternalResults
    <2>1. Results(flush) \in Ends
      BY DEF Ends
    <2>2. EndHandled
      BY <2>0, <2>1, ReceiveIs DEF EndHandled
    <2>3. AfterEnd(rest)
      BY <2>0 DEF AfterEnd
    <2> HIDE DEF rest
    <2>4. CASE /\ ~get_scan_cmd /\ started /\ flush
               /\ FinishFirst("EAGAIN", rest)
               /\ UNCHANGED <<start_cmd, cmdq>>
      <3>1. CASE requests # <<>> /\ Finish(Head(requests), "EAGAIN", rest)
        <4>1. "EAGAIN" # "0"
          OBVIOUS
        <4>2. /\ FirstLeaves /\ ~started' /\ ~work_started'
              /\ calls' = <<DoneFrame(Head(requests))>> \o rest
          BY <3>1, <4>1, FinishIs
        <4>3. Head(evq) = Results(TRUE)
          BY <2>0, <2>4 DEF Receive
        <4>4. HandleFinish
          BY <2>0, <2>2, <2>3, <2>4, <4>2, <4>3 DEF HandleFinish
        <4> QED
          BY <2>0, <4>4 DEF Handled
      <3>2. CASE /\ requests = <<>> /\ calls' = rest
                 /\ UNCHANGED <<requests, started, work_started, told, success, sp_timer>>
        <4>1. HandleEnd
          BY <2>0, <2>2, <2>3, <2>4, <3>2 DEF HandleEnd, EndHandled
        <4> QED
          BY <2>0, <4>1 DEF Handled
      <3> QED
        BY <2>4, <3>1, <3>2 DEF FinishFirst
    <2>5. CASE work_started /\ requests # <<>> /\ Continue(Head(requests), rest)
      <3>1. HandleContinue \/ HandleExhausted
        BY <2>0, <2>2, <2>3, <2>5, ContinueIs
      <3> QED
        BY <2>0, <3>1 DEF Handled
    <2>6. CASE /\ calls' = rest
               /\ UNCHANGED <<requests, start_cmd, started, work_started, told, success, sp_timer,
                              cmdq>>
      <3>1. HandleEnd
        BY <2>0, <2>2, <2>3, <2>6 DEF HandleEnd, EndHandled
      <3> QED
        BY <2>0, <3>1 DEF Handled
    <2>7. CASE UNCHANGED <<requests, start_cmd, started, work_started, told, success, sp_timer,
                           cmdq, calls>>
      <3>1. calls' = <<>>
        BY <2>0, <2>7 DEF Receive
      <3>2. HandleEnd
        BY <2>0, <2>2, <2>7, <3>1 DEF HandleEnd, EndHandled, AfterEnd
      <3> QED
        BY <2>0, <3>2 DEF Handled
    <2> QED
      BY <1>4, <2>4, <2>5, <2>6, <2>7 DEF NotifyExternalResults, rest
  <1>5. ASSUME NotifyAborted PROVE Handled /\ UNCHANGED <<work, kscan, env>>
    <2>0. /\ Receive(Aborted) /\ running
          /\ UNCHANGED <<cmds, get_scan_cmd, work, kscan, env, scanned>>
      BY <1>5 DEF NotifyAborted
    <2>1. Aborted \in Ends /\ AfterEnd(<<>>)
      BY DEF Ends, AfterEnd
    <2>2. Handles(Ends)
      BY <2>0, <2>1, ReceiveIs
    <2>3. CASE triggered /\ OwnScanOver /\ FinishFirst("ECANCELED", <<>>) /\ UNCHANGED <<start_cmd, cmdq>>
      <3>1. EndHandled
        BY <2>0, <2>2, <2>3 DEF EndHandled, OwnScanOver
      <3>2. CASE requests # <<>> /\ Finish(Head(requests), "ECANCELED", <<>>)
        <4>1. "ECANCELED" # "0"
          OBVIOUS
        <4>2. /\ FirstLeaves /\ ~started' /\ ~work_started'
              /\ calls' = <<DoneFrame(Head(requests))>> \o <<>>
          BY <3>2, <4>1, FinishIs
        <4>3. HandleFinish
          BY <2>0, <2>1, <2>3, <3>1, <4>2 DEF HandleFinish
        <4> QED
          BY <2>0, <4>3 DEF Handled
      <3>3. CASE /\ requests = <<>> /\ calls' = <<>>
                 /\ UNCHANGED <<requests, started, work_started, told, success, sp_timer>>
        <4>1. HandleEnd
          BY <2>0, <2>1, <2>3, <3>1, <3>3 DEF HandleEnd, EndHandled
        <4> QED
          BY <2>0, <4>1 DEF Handled
      <3> QED
        BY <2>3, <3>2, <3>3 DEF FinishFirst
    <2>4. CASE /\ ~triggered /\ work_started /\ requests # <<>>
               /\ Continue(Head(requests), <<>>) /\ running' = FALSE /\ UNCHANGED triggered
      <3>1. EndHandled
        BY <2>0, <2>2, <2>4 DEF EndHandled
      <3>2. HandleContinue \/ HandleExhausted
        BY <2>0, <2>1, <2>4, <3>1, ContinueIs
      <3> QED
        BY <2>0, <3>2 DEF Handled
    <2>5. CASE /\ ~triggered /\ ~work_started /\ running' = FALSE
               /\ UNCHANGED <<requests, triggered, start_cmd, started, work_started, told, success,
                              sp_timer, calls, cmdq>>
      <3>1. calls' = <<>>
        BY <2>0, <2>5 DEF Receive
      <3>2. HandleEnd
        BY <2>0, <2>1, <2>2, <2>5, <3>1 DEF HandleEnd
      <3> QED
        BY <2>0, <3>2 DEF Handled
    <2> QED
      BY <1>5, <2>3, <2>4, <2>5 DEF NotifyAborted
  <1>6. ASSUME NotifyIgnored PROVE Handled /\ UNCHANGED <<work, kscan, env>>
    <2>1. \A flush \in BOOLEAN : Results(flush) \in Ends
      BY DEF Ends
    <2>2. Handles(Ends)
      BY <1>6, <2>1, ReceiveIs DEF NotifyIgnored, Ends
    <2>3. calls' = <<>>
      BY <1>6, <2>2 DEF NotifyIgnored, Handles
    <2>4. HandleEnd
      BY <1>6, <2>2, <2>3 DEF NotifyIgnored, HandleEnd, AfterEnd, reqVars, scVars, histVars
    <2> QED
      BY <1>6, <2>4 DEF Handled, NotifyIgnored
  <1>7. ASSUME NEW sr \in Reqs \cup {NoReq}, GetScanDone(sr)
        PROVE  Handled /\ UNCHANGED <<work, kscan, env>>
    <2>0. /\ Receive(DumpDone(sr)) /\ get_scan_cmd' = FALSE
          /\ UNCHANGED <<cmds, running, start_cmd, triggered, work, cmdq, kscan, env, scanned>>
      BY <1>7 DEF GetScanDone
    <2>1. DumpDone(sr) \in DumpsDone /\ DumpDone(sr).sr = sr
      BY EventFacts
    <2>2. Handles(DumpsDone) /\ Head(evq).sr = sr
      BY <2>0, <2>1, ReceiveIs DEF Receive
    <2>3. CASE IsHead(sr) /\ Finish(sr, "0", <<>>)
      <3>1. requests # <<>> /\ Head(requests) = sr /\ sr \in Reqs
        BY <1>0, <2>3 DEF IsHead
      <3>2. /\ Tell(sr, "0") /\ requests' = Without(requests, {sr}) /\ ~started' /\ ~work_started'
            /\ calls' = <<DoneFrame(sr)>> \o <<>>
        BY <2>3 DEF Finish, FinishedFlags, RequestsWithout
      <3>3. \A x \in Reqs : x # sr => success'[x] = success[x]
        BY <3>1, <3>2, TellFacts
      <3>4. HandleDumpDone
        BY <2>0, <2>2, <2>3, <3>1, <3>2, <3>3 DEF HandleDumpDone
      <3> QED
        BY <2>0, <3>4 DEF Handled
    <2>4. CASE /\ ~IsHead(sr)
               /\ UNCHANGED <<requests, started, work_started, told, success, sp_timer, calls>>
      <3>1. HandleDumpDone
        BY <2>0, <2>2, <2>4 DEF HandleDumpDone
      <3> QED
        BY <2>0, <3>1 DEF Handled
    <2> QED
      BY <1>7, <2>3, <2>4 DEF GetScanDone, ResultsWanted
  <1> QED
    BY <1>1, <1>2, <1>3, <1>4, <1>5, <1>6, <1>7 DEF Handlers


LEMMA AfterEndFacts ==
    ASSUME NEW rest, AfterEnd(rest)
    PROVE  /\ rest \in Seq(Frames) /\ ToSet(rest) \subseteq {GetScanFrame}
           /\ GetScanFrame \in ToSet(rest) => ~triggered
  <1>1. CASE rest = <<>>
    BY <1>1, SetOfEmpty
  <1>2. CASE rest = <<GetScanFrame>> /\ ~triggered
    <2>1. <<GetScanFrame>> = Append(<<>>, GetScanFrame) /\ GetScanFrame \in Frames
      BY FrameFacts
    <2>2. rest \in Seq(Frames) /\ ToSet(rest) = {GetScanFrame}
      BY <1>2, <2>1, SetOfOne
    <2> QED
      BY <1>2, <2>2
  <1> QED
    BY <1>1, <1>2 DEF AfterEnd

\* The calls that are active after a handler.
LEMMA HandledCalls ==
    ASSUME TypeOK, Handled
    PROVE  /\ \/ ToSet(calls') \subseteq {GetScanFrame} /\ requests' = requests
              \/ /\ requests # <<>> /\ requests' = Without(requests, {Head(requests)})
                 /\ DoneFrame(Head(requests)) \in ToSet(calls')
                 /\ ToSet(calls') \subseteq {DoneFrame(Head(requests)), RetryFrame, GetScanFrame}
           /\ GetScanFrame \in ToSet(calls') => ~triggered /\ ~triggered'
  <1>1. ASSUME requests # <<>>, requests' = Without(requests, {Head(requests)}), ~triggered',
               NEW rest, AfterEnd(rest), calls' = <<DoneFrame(Head(requests))>> \o rest
        PROVE  /\ DoneFrame(Head(requests)) \in ToSet(calls')
               /\ ToSet(calls') \subseteq {DoneFrame(Head(requests)), RetryFrame, GetScanFrame}
               /\ GetScanFrame \in ToSet(calls') => ~triggered
    <2>1. Head(requests) \in Reqs
      BY <1>1, FirstRequest
    <2>2. DoneFrame(Head(requests)) \in Frames /\ DoneFrame(Head(requests)) # GetScanFrame
      BY <2>1, FrameFacts
    <2>3. rest \in Seq(Frames) /\ ToSet(rest) \subseteq {GetScanFrame} /\ (GetScanFrame \in ToSet(rest) => ~triggered)
      BY <1>1, AfterEndFacts
    <2>4. ToSet(calls') = {DoneFrame(Head(requests))} \cup ToSet(rest)
      BY <1>1, <2>2, <2>3, SetOfPush
    <2> QED
      BY <2>2, <2>3, <2>4
  <1>2. ASSUME requests # <<>>, NEW rest, AfterEnd(rest),
               calls' = <<DoneFrame(Head(requests)), RetryFrame>> \o rest
        PROVE  /\ DoneFrame(Head(requests)) \in ToSet(calls')
               /\ ToSet(calls') \subseteq {DoneFrame(Head(requests)), RetryFrame, GetScanFrame}
               /\ GetScanFrame \in ToSet(calls') => ~triggered
    <2>1. Head(requests) \in Reqs
      BY <1>2, FirstRequest
    <2>2. /\ DoneFrame(Head(requests)) \in Frames /\ DoneFrame(Head(requests)) # GetScanFrame
          /\ RetryFrame \in Frames /\ RetryFrame # GetScanFrame
      BY <2>1, FrameFacts
    <2>3. rest \in Seq(Frames) /\ ToSet(rest) \subseteq {GetScanFrame} /\ (GetScanFrame \in ToSet(rest) => ~triggered)
      BY <1>2, AfterEndFacts
    <2> DEFINE c == <<RetryFrame>> \o rest
    <2>4. c \in Seq(Frames) /\ ToSet(c) = {RetryFrame} \cup ToSet(rest)
      BY <2>2, <2>3, SetOfPush
    <2>5. calls' = <<DoneFrame(Head(requests))>> \o c
      BY <1>2, <2>2, <2>3, PushTwo
    <2> HIDE DEF c
    <2>6. ToSet(calls') = {DoneFrame(Head(requests))} \cup ToSet(c)
      BY <2>2, <2>4, <2>5, SetOfPush
    <2> QED
      BY <2>2, <2>3, <2>4, <2>6
  <1>3. AfterEnd(<<>>)
    BY DEF AfterEnd
  <1>4. ASSUME calls' = <<>> PROVE ToSet(calls') = {}
    BY <1>4, SetOfEmpty
  <1>5. CASE HandleOk \/ HandleBusy \/ HandleStarted \/ HandleDump
    BY <1>4, <1>5 DEF HandleOk, HandleBusy, HandleStarted, HandleDump, EndHandled, Handles
  <1>6. CASE HandleFail
    <2>1. /\ requests # <<>> /\ requests' = Without(requests, {Head(requests)})
          /\ calls' = <<DoneFrame(Head(requests))>> \o <<>>
      BY <1>6 DEF HandleFail, FirstLeaves
    <2>2. Head(requests) \in Reqs
      BY <2>1, FirstRequest
    <2>3. DoneFrame(Head(requests)) \in Frames /\ DoneFrame(Head(requests)) # GetScanFrame
      BY <2>2, FrameFacts
    <2>4. ToSet(calls') = {DoneFrame(Head(requests))}
      <3>1. calls' = Append(<<>>, DoneFrame(Head(requests)))
        BY <2>1, <2>3
      <3> QED
        BY <2>3, <3>1, SetOfOne
    <2> QED
      BY <2>1, <2>3, <2>4
  <1>7. CASE HandleFinish
    BY <1>1, <1>7 DEF HandleFinish, FirstLeaves, EndHandled
  <1>8. CASE HandleContinue
    BY <1>8, AfterEndFacts DEF HandleContinue, EndHandled
  <1>9. CASE HandleExhausted
    BY <1>2, <1>9 DEF HandleExhausted, FirstLeaves, EndHandled
  <1>10. CASE HandleEnd
    BY <1>10, AfterEndFacts DEF HandleEnd
  <1>11. CASE HandleDumpDone
    <2>1. CASE UNCHANGED <<requests, calls>>
      BY <1>4, <1>11, <2>1 DEF HandleDumpDone, Handles
    <2>2. CASE /\ IsHead(Head(evq).sr) /\ requests' = Without(requests, {Head(requests)})
               /\ calls' = <<DoneFrame(Head(requests))>> \o <<>>
      <3>1. Head(requests) \in Reqs /\ requests # <<>>
        BY <2>2, FirstRequest DEF IsHead
      <3>2. DoneFrame(Head(requests)) \in Frames /\ DoneFrame(Head(requests)) # GetScanFrame
        BY <3>1, FrameFacts
      <3>3. ToSet(calls') = {DoneFrame(Head(requests))}
        <4>1. calls' = Append(<<>>, DoneFrame(Head(requests)))
          BY <2>2, <3>2
        <4> QED
          BY <3>2, <4>1, SetOfOne
      <3> QED
        BY <2>2, <3>1, <3>2, <3>3
    <2> QED
      BY <1>11, <2>1, <2>2 DEF HandleDumpDone
  <1> QED
    BY <1>5, <1>6, <1>7, <1>8, <1>9, <1>10, <1>11 DEF Handled

\* The message that is handled, and the others.
LEMMA HandlesFacts ==
    ASSUME TypeOK, NEW M, Handles(M)
    PROVE  /\ Head(evq) \in M /\ Head(evq) \in ToSet(evq) /\ Head(evq) \in Events
           /\ evq' \in Seq(Events) /\ ToSet(evq) = {Head(evq)} \cup ToSet(evq')
  BY SetOfTail, SetOfHeadTail DEF Handles, TypeOK

LEMMA HandledMessage ==
    ASSUME Handled
    PROVE  Handles(Events)
  BY EventFacts DEF Handled, HandleOk, HandleBusy, HandleFail, HandleStarted, HandleFinish, HandleDump,
     HandleContinue, HandleExhausted, HandleEnd, HandleDumpDone, EndHandled, Handles


-----------------------------------------------------------------------------
(* What holds in every environment beside the link of the queues. *)

LEMMA ExplainedKernel ==
    ASSUME TypeOK, Explained, Kernel \/ ExternalStart
    PROVE  Explained'
  <1>0. cmdq \in Seq(Commands) /\ evq \in Seq(Events)
    BY DEF TypeOK
  <1>1. UNCHANGED <<triggered, running, get_scan_cmd, work, calls, env>>
    BY DEF Kernel, KernelTrigger, KernelDump, ScanEnd, ExternalStart, KernelIdle, scVars
  <1> DEFINE New == ToSet(evq') \ ToSet(evq)
  <1>2. SUFFICES /\ ToSet(evq) \subseteq ToSet(evq')
                 /\ \/ ToSet(cmdq) \cap Dumps \subseteq ToSet(cmdq')
                    \/ ToSet(evq') \cap DumpsDone # {}
                 /\ kscan' = "ext" => kscan = "ext" \/ "ext_scan" \in env
                 /\ Results(TRUE) \in New => kscan = "ext"
                 /\ Ack("fail") \in New => "trigger_fails" \in env
    BY <1>1, <1>2 DEF Explained
  <1>3. CASE KernelTrigger
    <2>0. cmdq # <<>> /\ Head(cmdq) = Trigger /\ cmdq' = Tail(cmdq)
      BY <1>3 DEF KernelTrigger
    <2>1. ToSet(cmdq) = {Trigger} \cup ToSet(cmdq')
      BY <1>0, <2>0, SetOfHeadTail
    <2>2. ToSet(cmdq) \cap Dumps \subseteq ToSet(cmdq')
      BY <2>1, CommandFacts
    <2>3. CASE evq' = Append(evq, Ack("busy")) /\ UNCHANGED kscan
      <3>1. ToSet(evq') = ToSet(evq) \cup {Ack("busy")}
        BY <1>0, <2>3, EventFacts, SetOfAppend
      <3> QED
        BY <2>2, <2>3, <3>1, EventFacts
    <2>4. CASE evq' = evq \o <<Started, Ack("ok")>> /\ kscan' = "own"
      <3>1. Started \in Events /\ Ack("ok") \in Events
        BY EventFacts
      <3>2. ToSet(evq') = ToSet(evq) \cup {Started, Ack("ok")}
        BY <1>0, <2>4, <3>1, AppendTwo
      <3> QED
        BY <2>2, <2>4, <3>2, EventFacts
    <2>5. CASE evq' = Append(evq, Ack("fail")) /\ "trigger_fails" \in env /\ UNCHANGED kscan
      <3>1. ToSet(evq') = ToSet(evq) \cup {Ack("fail")}
        BY <1>0, <2>5, EventFacts, SetOfAppend
      <3> QED
        BY <2>2, <2>5, <3>1, EventFacts
    <2> QED
      BY <1>3, <2>3, <2>4, <2>5 DEF KernelTrigger
  <1>4. CASE KernelDump
    <2>0. /\ cmdq # <<>> /\ Head(cmdq) # Trigger /\ cmdq' = Tail(cmdq) /\ UNCHANGED kscan
          /\ evq' = Append(evq, DumpDone(Head(cmdq).sr))
      BY <1>4 DEF KernelDump
    <2>1. Head(cmdq) \in Dumps
      BY <1>0, <2>0, SetOfTail, CommandFacts
    <2>2. DumpDone(Head(cmdq).sr) \in DumpsDone /\ DumpDone(Head(cmdq).sr) \in Events
      BY <2>1, CommandFacts, EventFacts
    <2>3. ToSet(evq') = ToSet(evq) \cup {DumpDone(Head(cmdq).sr)}
      BY <1>0, <2>0, <2>2, SetOfAppend
    <2> QED
      BY <2>0, <2>2, <2>3, EventFacts
  <1>5. CASE ScanEnd
    <2>1. UNCHANGED cmdq /\ kscan' = "idle"
      BY <1>5 DEF ScanEnd
    <2>2. PICK flush \in BOOLEAN : /\ flush => kscan = "ext"
                                   /\ evq' = Append(evq, Results(flush)) \/ evq' = Append(evq, Aborted)
      BY <1>5 DEF ScanEnd
    <2>3. CASE evq' = Append(evq, Results(flush))
      <3>1. Results(flush) \in Events /\ Results(flush) \in Ends
        BY EventFacts DEF Ends
      <3>2. ToSet(evq') = ToSet(evq) \cup {Results(flush)}
        BY <1>0, <2>3, <3>1, SetOfAppend
      <3>3. Results(TRUE) = Results(flush) => flush
        BY DEF Results
      <3> QED
        BY <2>1, <2>2, <3>1, <3>2, <3>3, EventFacts
    <2>4. CASE evq' = Append(evq, Aborted)
      <3>1. ToSet(evq') = ToSet(evq) \cup {Aborted}
        BY <1>0, <2>4, EventFacts, SetOfAppend
      <3> QED
        BY <2>1, <3>1, EventFacts
    <2> QED
      BY <2>2, <2>3, <2>4
  <1>6. CASE ExternalStart
    <2>1. UNCHANGED cmdq /\ "ext_scan" \in env /\ evq' = Append(evq, Started)
      BY <1>6 DEF ExternalStart
    <2>2. ToSet(evq') = ToSet(evq) \cup {Started}
      BY <1>0, <2>1, EventFacts, SetOfAppend
    <2> QED
      BY <2>1, <2>2, EventFacts
  <1> QED
    BY <1>3, <1>4, <1>5, <1>6 DEF Kernel

LEMMA ExplainedHandlers ==
    ASSUME TypeOK, Explained, Handlers
    PROVE  Explained'
  <1>0. Handled /\ UNCHANGED <<work, kscan, env>>
    BY HandlerCases
  <1>1. ToSet(evq) = {Head(evq)} \cup ToSet(evq') /\ calls = <<>>
    BY <1>0, HandledMessage, HandlesFacts DEF Handles
  <1>2. \A r \in Reqs : CancelFrame(r) \notin ToSet(calls')
    <2>1. \A r \in Reqs : CancelFrame(r) \notin {GetScanFrame, RetryFrame}
      BY FrameFacts
    <2>2. requests # <<>> => \A r \in Reqs : CancelFrame(r) # DoneFrame(Head(requests))
      BY FrameFacts, FirstRequest
    <2> QED
      BY <1>0, <2>1, <2>2, HandledCalls
  <1>3. triggered' => running'
    BY <1>0 DEF Explained, Handled, HandleOk, HandleBusy, HandleFail, HandleStarted, HandleFinish,
       HandleDump, HandleContinue, HandleExhausted, HandleEnd, HandleDumpDone, EndHandled
  <1>4. get_scan_cmd' => ToSet(cmdq') \cap Dumps # {} \/ ToSet(evq') \cap DumpsDone # {}
    <2>0. cmdq \in Seq(Commands)
      BY DEF TypeOK
    <2>1. CASE HandleDump
      <3>1. cmdq' = Append(cmdq, Dump(Head(requests))) /\ requests # <<>>
        BY <2>1 DEF HandleDump
      <3>2. Dump(Head(requests)) \in Dumps /\ Dump(Head(requests)) \in Commands
        BY <3>1, FirstRequest, CommandFacts
      <3>3. ToSet(cmdq') = ToSet(cmdq) \cup {Dump(Head(requests))}
        BY <2>0, <3>1, <3>2, SetOfAppend
      <3> QED
        BY <3>2, <3>3
    <2>2. CASE HandleDumpDone
      BY <2>2 DEF HandleDumpDone
    <2>3. CASE ~HandleDump /\ ~HandleDumpDone
      <3>1. UNCHANGED get_scan_cmd /\ Sends(cmdq)
        BY <1>0, <2>3 DEF Handled, HandleOk, HandleBusy, HandleFail, HandleStarted, HandleFinish,
           HandleContinue, HandleExhausted, HandleEnd, Sends
      <3>2. Head(evq) \notin DumpsDone
        BY <1>0, <2>3, EventFacts DEF Handled, HandleOk, HandleBusy, HandleFail, HandleStarted,
           HandleFinish, HandleContinue, HandleExhausted, HandleEnd, EndHandled, Handles
      <3>3. ToSet(cmdq') \cap Dumps = ToSet(cmdq) \cap Dumps
        BY <2>0, <3>1, SendsFacts
      <3> QED
        BY <1>1, <3>1, <3>2, <3>3 DEF Explained
    <2> QED
      BY <2>1, <2>2, <2>3
  <1> QED
    BY <1>0, <1>1, <1>2, <1>3, <1>4 DEF Explained


\* wiphy_radio_work_done() in its context.
Releases(item, q, sc, ws) ==
    /\ item \in Reqs \cup {Other} /\ q \in Seq(Commands) /\ sc \in BOOLEAN /\ ws \in BOOLEAN
    /\ WorkDone(item, q, sc, ws)

LEMMA ReleaseFacts ==
    ASSUME TypeOK, NEW item, NEW q, NEW sc, NEW ws, Releases(item, q, sc, ws)
    PROVE  /\ Sends(q) /\ q \in Seq(Commands) /\ item \in Reqs \cup {Other}
           /\ work' = Without(work, {item}) /\ work' \in Seq(Reqs \cup {Other})
           /\ ToSet(work') = ToSet(work) \ {item}
           /\ \A x \in Reqs : x # item => /\ cmds'[x] = cmds[x] /\ success'[x] = success[x]
                                          /\ scanned'[x] = scanned[x]
           /\ item \in Reqs => ~success'[item]
  <1>1. /\ item \in Reqs \cup {Other} /\ q \in Seq(Commands) /\ sc \in BOOLEAN /\ ws \in BOOLEAN
        /\ WorkDone(item, q, sc, ws)
    BY DEF Releases
  <1>2. Sends(q)
    BY <1>1, WorkDoneRadio DEF Sends
  <1>3. /\ work' = Without(work, {item}) /\ work' \in Seq(Reqs \cup {Other})
        /\ ToSet(work') = ToSet(work) \ {item}
    BY <1>1, WorkDoneFacts
  <1>4. /\ \A x \in Reqs : x # item => /\ cmds'[x] = cmds[x] /\ success'[x] = success[x]
                                       /\ scanned'[x] = scanned[x]
        /\ item \in Reqs => ~success'[item]
    <2>1. /\ cmds' = [r \in Reqs |-> IF r = item THEN 0 ELSE cmds[r]]
          /\ success' = [r \in Reqs |-> r # item /\ success[r]]
          /\ scanned' = [r \in Reqs |-> r # item /\ scanned[r]]
      BY <1>1 DEF WorkDone
    <2>2. success \in [Reqs -> BOOLEAN] /\ scanned \in [Reqs -> BOOLEAN]
      BY DEF TypeOK
    <2>3. ASSUME NEW x \in Reqs, x # item
          PROVE  cmds'[x] = cmds[x] /\ success'[x] = success[x] /\ scanned'[x] = scanned[x]
      BY <2>1, <2>2, <2>3
    <2> QED
      BY <2>1, <2>3
  <1> QED
    BY <1>1, <1>2, <1>3, <1>4

LEMMA ReleaseRadio ==
    ASSUME TypeOK, NEW item, NEW q, NEW sc, NEW ws, Releases(item, q, sc, ws)
    PROVE  \/ /\ work # <<>> /\ Head(work) = item
              /\ \/ cmdq' = q /\ start_cmd' = sc
                 \/ /\ cmdq' = Append(q, Trigger) /\ start_cmd' /\ ~running
                    /\ work' # <<>> /\ Head(work') \in Reqs
              /\ work' # <<>> /\ Head(work') \in Reqs => work_started'
              /\ ~(work' # <<>> /\ Head(work') \in Reqs) => work_started' = ws
           \/ /\ ~(work # <<>> /\ Head(work) = item)
              /\ cmdq' = q /\ start_cmd' = sc /\ work_started' = ws
              /\ work # <<>> => work' # <<>> /\ Head(work') = Head(work)
              /\ work = <<>> => work' = <<>>
  BY WorkDoneRadio DEF Releases

LEMMA ReleaseActions ==
    ASSUME TypeOK
    PROVE  /\ \A r \in Reqs : ReturnDone(r) => Releases(r, cmdq, start_cmd, work_started)
           /\ \A r \in Reqs : ReturnCancel(r) => Releases(r, cmdq, FALSE, FALSE)
           /\ \A r \in Reqs : CancelFirst(r) => Releases(r, TriggerUnsent, FALSE, FALSE)
           /\ \A r \in Reqs : CancelWaiting(r) => Releases(r, cmdq, start_cmd, work_started)
           /\ OtherDone => Releases(Other, cmdq, start_cmd, work_started)
  <1>1. cmdq \in Seq(Commands) /\ start_cmd \in BOOLEAN /\ work_started \in BOOLEAN /\ FALSE \in BOOLEAN
    BY DEF TypeOK
  <1>2. TriggerUnsent \in Seq(Commands)
    BY CancelledTypes
  <1> QED
    BY <1>1, <1>2 DEF Releases, ReturnDone, ReturnCancel, CancelFirst, CancelWaiting, OtherDone

\* A cancelled trigger takes nothing else with it.
LEMMA CancelledFacts ==
    ASSUME TypeOK
    PROVE  /\ TriggerUnsent \in Seq(Commands) /\ TriggerUnheard \in Seq(Events)
           /\ DumpUnsent \in Seq(Commands) /\ DumpUnheard \in Seq(Events)
           /\ ToSet(TriggerUnsent) \subseteq ToSet(cmdq) /\ ToSet(TriggerUnheard) \subseteq ToSet(evq)
           /\ ToSet(DumpUnsent) \subseteq ToSet(cmdq) /\ ToSet(DumpUnheard) \subseteq ToSet(evq)
           /\ ToSet(TriggerUnsent) \cap Dumps = ToSet(cmdq) \cap Dumps
           /\ \A U : Once(cmdq, U) => Once(TriggerUnsent, U)
           /\ \A U : Once(evq, U) => Once(TriggerUnheard, U)
           /\ \A A, B : NoneAfter(evq, A, B) => NoneAfter(TriggerUnheard, A, B)
           /\ \A A, B : NoneAfter(evq, A, B) => NoneAfter(DumpUnheard, A, B)
           /\ Once(cmdq, Dumps) => ToSet(DumpUnsent) \cap Dumps = {}
           /\ Once(evq, DumpsDone) /\ ToSet(cmdq) \cap Dumps = {} => ToSet(DumpUnheard) \cap DumpsDone = {}
  <1>1. cmdq \in Seq(Commands) /\ evq \in Seq(Events)
    BY DEF TypeOK
  <1>2. /\ TriggerUnsent \in Seq(Commands) /\ ToSet(TriggerUnsent) \subseteq ToSet(cmdq)
        /\ ToSet(cmdq) \ {Trigger} \subseteq ToSet(TriggerUnsent)
        /\ \A U : Once(cmdq, U) => Once(TriggerUnsent, U)
    BY <1>1, DropLastLemma DEF TriggerUnsent
  <1>3. /\ TriggerUnheard \in Seq(Events) /\ ToSet(TriggerUnheard) \subseteq ToSet(evq)
        /\ \A U : Once(evq, U) => Once(TriggerUnheard, U)
        /\ \A A, B : NoneAfter(evq, A, B) => NoneAfter(TriggerUnheard, A, B)
    BY <1>1, DropLastLemma DEF TriggerUnheard
  <1>4. /\ DumpUnsent \in Seq(Commands) /\ ToSet(DumpUnsent) \subseteq ToSet(TriggerUnsent)
        /\ Once(TriggerUnsent, Dumps) => ToSet(DumpUnsent) \cap Dumps = {}
    BY <1>2, DropLastLemma DEF DumpUnsent
  <1>5. /\ DumpUnheard \in Seq(Events) /\ ToSet(DumpUnheard) \subseteq ToSet(TriggerUnheard)
        /\ \A A, B : NoneAfter(TriggerUnheard, A, B) => NoneAfter(DumpUnheard, A, B)
    BY <1>3, DropLastLemma DEF DumpUnheard
  <1>6. Once(TriggerUnheard, DumpsDone) /\ ToSet(cmdq) \cap Dumps = {} => ToSet(DumpUnheard) \cap DumpsDone = {}
    BY <1>3, DropLastLemma DEF DumpUnheard
  <1>7. ToSet(TriggerUnsent) \cap Dumps = ToSet(cmdq) \cap Dumps
    BY <1>2, CommandFacts
  <1> QED
    BY <1>2, <1>3, <1>4, <1>5, <1>6, <1>7

LEMMA ExplainedStep ==
    ASSUME TypeOK, Explained, [Next]_vars
    PROVE  Explained'
  <1>0. cmdq \in Seq(Commands) /\ evq \in Seq(Events) /\ calls \in Seq(Frames)
    BY DEF TypeOK
  <1>1. ASSUME UNCHANGED <<triggered, running, kscan, env>>, ToSet(work') \subseteq ToSet(work),
               ToSet(evq') \subseteq ToSet(evq), ToSet(calls') \subseteq ToSet(calls),
               \/ ~get_scan_cmd'
               \/ /\ UNCHANGED <<get_scan_cmd, evq>>
                  /\ ToSet(cmdq') \cap Dumps = ToSet(cmdq) \cap Dumps
        PROVE  Explained'
    <2>1. get_scan_cmd' => ToSet(cmdq') \cap Dumps # {} \/ ToSet(evq') \cap DumpsDone # {}
      BY <1>1 DEF Explained
    <2>2. /\ triggered' => running'
          /\ kscan' = "ext" \/ Results(TRUE) \in ToSet(evq') => "ext_scan" \in env'
          /\ Ack("fail") \in ToSet(evq') => "trigger_fails" \in env'
          /\ Other \in ToSet(work') => "other_work" \in env'
          /\ \A r \in Reqs : CancelFrame(r) \in ToSet(calls') => "late_cancel" \in env'
      BY <1>1 DEF Explained
    <2> QED
      BY <2>1, <2>2 DEF Explained
  <1>2. CASE UNCHANGED vars
    BY <1>1, <1>2 DEF vars, scVars
  <1>3. CASE SameRadio
    <2>1. ToSet(calls') \subseteq ToSet(calls)
      BY <1>0, <1>3, SetOfTail DEF SameRadio
    <2> QED
      BY <1>1, <1>3, <2>1 DEF SameRadio, scVars
  <1>4. CASE NewRequest
    <2>1. PICK r \in Reqs, n \in 1 .. MaxCmds : ScanCommon(r, n)
      BY <1>4 DEF NewRequest
    <2>2. /\ work' = Append(work, r) /\ Sends(cmdq)
          /\ UNCHANGED <<triggered, running, get_scan_cmd, evq, kscan, env>>
      BY <2>1, ScanCommonRadio DEF Sends
    <2>3. ToSet(cmdq') \cap Dumps = ToSet(cmdq) \cap Dumps
      BY <1>0, <2>2, SendsFacts
    <2>4. Other \in ToSet(work') => Other \in ToSet(work)
      <3> DEFINE Items == Reqs \cup {Other}
      <3>1. work \in Seq(Items) /\ r \in Items
        BY DEF TypeOK
      <3> HIDE DEF Items
      <3>2. ToSet(work') = ToSet(work) \cup {r}
        BY <2>2, <3>1, SetOfAppend
      <3> QED
        BY <3>2, ReqsAssumption
    <2>5. ToSet(calls') \subseteq ToSet(calls)
      BY <1>0, <1>4, SetOfTail DEF NewRequest
    <2> QED
      BY <2>2, <2>3, <2>4, <2>5 DEF Explained
  <1>5. ASSUME NEW r \in Reqs, ReturnDone(r) \/ ReturnCancel(r) PROVE Explained'
    <2>1. PICK sc, ws : Releases(r, cmdq, sc, ws)
      BY <1>5, ReleaseActions
    <2>2. Sends(cmdq) /\ ToSet(work') = ToSet(work) \ {r}
      BY <2>1, ReleaseFacts
    <2>3. ToSet(cmdq') \cap Dumps = ToSet(cmdq) \cap Dumps
      BY <1>0, <2>2, SendsFacts
    <2>4. UNCHANGED <<triggered, running, get_scan_cmd, evq, kscan, env>> /\ calls # <<>> /\ calls' = Tail(calls)
      BY <1>5 DEF ReturnDone, ReturnCancel
    <2>5. ToSet(calls') \subseteq ToSet(calls)
      BY <1>0, <2>4, SetOfTail
    <2> QED
      BY <1>1, <2>2, <2>3, <2>4, <2>5
  <1>6. CASE OtherDone
    <2>2. Sends(cmdq) /\ ToSet(work') = ToSet(work) \ {Other}
      BY <1>6, ReleaseActions, ReleaseFacts
    <2>3. ToSet(cmdq') \cap Dumps = ToSet(cmdq) \cap Dumps
      BY <1>0, <2>2, SendsFacts
    <2>4. UNCHANGED <<triggered, running, get_scan_cmd, evq, kscan, env, calls>>
      BY <1>6 DEF OtherDone
    <2> QED
      BY <1>1, <2>2, <2>3, <2>4
  <1>7. CASE ReturnGetScan
    <2>1. /\ calls # <<>> /\ calls' = Tail(calls) /\ cmdq' = Append(cmdq, Dump(NoReq))
          /\ UNCHANGED <<triggered, running, work, evq, kscan, env>>
      BY <1>7 DEF ReturnGetScan
    <2>2. Dump(NoReq) \in Dumps /\ Dump(NoReq) \in Commands
      BY CommandFacts
    <2>3. ToSet(cmdq') \cap Dumps # {}
      BY <1>0, <2>1, <2>2, SetOfAppend
    <2>4. ToSet(calls') \subseteq ToSet(calls)
      BY <1>0, <2>1, SetOfTail
    <2> QED
      BY <2>1, <2>3, <2>4 DEF Explained
  <1>8. CASE OtherInsert
    BY <1>8 DEF OtherInsert, scVars, Explained
  <1>9. CASE Cancelled
    <2>1. UNCHANGED <<kscan, env>>
      BY <1>9 DEF Cancelled
    <2>2. ASSUME NEW r \in Reqs, CancelFirst(r) PROVE Explained'
      <3>1. /\ evq' = TriggerUnheard /\ ~get_scan_cmd /\ UNCHANGED <<triggered, running, get_scan_cmd, calls>>
        BY <2>2 DEF CancelFirst
      <3>2. ToSet(work') \subseteq ToSet(work)
        BY <2>2, ReleaseActions, ReleaseFacts
      <3> QED
        BY <1>1, <2>1, <3>1, <3>2, CancelledFacts
    <2>3. ASSUME NEW r \in Reqs, CancelWaiting(r) PROVE Explained'
      <3>1. UNCHANGED <<triggered, running, get_scan_cmd, evq, calls>>
        BY <2>3 DEF CancelWaiting
      <3>2. ToSet(work') \subseteq ToSet(work) /\ Sends(cmdq)
        BY <2>3, ReleaseActions, ReleaseFacts
      <3>3. ToSet(cmdq') \cap Dumps = ToSet(cmdq) \cap Dumps
        BY <1>0, <3>2, SendsFacts
      <3> QED
        BY <1>1, <2>1, <3>1, <3>2, <3>3
    <2>4. ASSUME NEW r \in Reqs, NEW armed, NEW rest, "late_cancel" \in env,
                 CancelDuringDump(r, armed, rest)
          PROVE  Explained'
      <3>1. evq' = DumpUnheard /\ ~get_scan_cmd' /\ UNCHANGED <<triggered, running, work>>
        BY <2>4 DEF CancelDuringDump
      <3>2. ToSet(evq') \subseteq ToSet(evq)
        BY <3>1, CancelledFacts
      <3> QED
        BY <2>1, <2>4, <3>1, <3>2 DEF Explained
    <2> QED
      BY <1>9, <2>2, <2>3, <2>4 DEF Cancelled
  <1> QED
    BY <1>2, <1>3, <1>4, <1>5, <1>6, <1>7, <1>8, <1>9, StepCases, ExplainedKernel, ExplainedHandlers


-----------------------------------------------------------------------------
(* While iwd keeps up with the kernel, the end of a scan and a GET_SCAN are handled  *)
(* before anything else happens.                                                      *)

\* No end of a scan is left behind the message that is handled.
LEMMA NoEndLeft ==
    ASSUME TypeOK, EndsFirst, Handled
    PROVE  ~EndAhead'
  <1>1. evq \in Seq(Events) /\ evq # <<>> /\ Head(evq) \in Events /\ evq' = Tail(evq)
    BY HandledMessage, HandlesFacts DEF TypeOK, Handles
  <1>2. NoneAfter(evq, Events, Ends)
    BY DEF EndsFirst
  <1>3. ToSet(Tail(evq)) \cap Ends = {}
    BY <1>1, <1>2, NoneAfterTail
  <1> QED
    BY <1>1, <1>3 DEF EndAhead

\* A scan starts or ends only when the socket is empty.
LEMMA QuietKernel ==
    ASSUME TypeOK, Quiet, ScanEnd \/ ExternalStart
    PROVE  /\ cmdq = <<>> /\ evq = <<>> /\ UNCHANGED cmdq
           /\ \E e \in Ends \cup {Started} :
                 /\ evq' = <<e>> /\ evq' \in Seq(Events) /\ ToSet(evq') = {e}
                 /\ Tail(evq') = <<>>
  <1>1. KeepsUp /\ UNCHANGED cmdq
    BY DEF ScanEnd, ExternalStart
  <1>2. cmdq = <<>> /\ evq = <<>>
    BY <1>1 DEF KeepsUp, Quiet
  <1>3. \E e \in Ends \cup {Started} : evq' = Append(evq, e)
    <2>1. CASE ScanEnd
      <3>1. PICK flush \in BOOLEAN : evq' = Append(evq, Results(flush)) \/ evq' = Append(evq, Aborted)
        BY <2>1 DEF ScanEnd
      <3>2. Results(flush) \in Ends /\ Aborted \in Ends
        BY DEF Ends
      <3> QED
        BY <3>1, <3>2
    <2>2. CASE ExternalStart
      BY <2>2 DEF ExternalStart
    <2> QED
      BY <2>1, <2>2
  <1>4. PICK e \in Ends \cup {Started} : evq' = Append(evq, e)
    BY <1>3
  <1>5. e \in Events
    BY EventFacts
  <1>6. evq' = Append(<<>>, e)
    BY <1>2, <1>4
  <1>7. evq' \in Seq(Events) /\ ToSet(evq') = {e}
    BY <1>5, <1>6, SetOfOne
  <1>8. evq' = <<e>> /\ Tail(evq') = <<>>
    BY <1>6
  <1> QED
    BY <1>1, <1>2, <1>7, <1>8

LEMMA EndsFirstStep ==
    ASSUME TypeOK, Explained, Quiet, EndsFirst, [Next]_vars
    PROVE  EndsFirst'
  <1>0. cmdq \in Seq(Commands) /\ evq \in Seq(Events) /\ calls \in Seq(Frames)
    BY DEF TypeOK
  <1>1. NoneAfter(evq, Events, Ends) /\ (triggered => running)
    BY DEF EndsFirst, Explained
  \* Steps that leave the messages alone and send nothing while a scan of ours runs.
  <1>2. ASSUME UNCHANGED <<evq, triggered>>, triggered => UNCHANGED cmdq,
               GetScanFrame \in ToSet(calls') => GetScanFrame \in ToSet(calls)
        PROVE  EndsFirst'
    BY <1>2 DEF EndsFirst, EndAhead
  <1>3. CASE UNCHANGED vars
    BY <1>2, <1>3 DEF vars, scVars
  <1>4. CASE SameRadio
    <2>1. ToSet(calls') \subseteq ToSet(calls)
      BY <1>0, <1>4, SetOfTail DEF SameRadio
    <2> QED
      BY <1>2, <1>4, <2>1 DEF SameRadio, scVars
  <1>5. CASE NewRequest
    <2>1. ToSet(calls') \subseteq ToSet(calls)
      BY <1>0, <1>5, SetOfTail DEF NewRequest
    <2>2. UNCHANGED <<evq, triggered>> /\ (running => UNCHANGED cmdq)
      BY <1>5, ScanCommonRadio DEF NewRequest
    <2> QED
      BY <1>1, <1>2, <2>1, <2>2
  <1>6. ASSUME NEW item, NEW sc, NEW ws, Releases(item, cmdq, sc, ws), UNCHANGED <<evq, triggered>>,
               ToSet(calls') \subseteq ToSet(calls)
        PROVE  EndsFirst'
    <2>1. running => UNCHANGED cmdq
      BY <1>6, ReleaseRadio
    <2> QED
      BY <1>1, <1>2, <1>6, <2>1
  <1>7. ASSUME NEW r \in Reqs, ReturnDone(r) \/ ReturnCancel(r) PROVE EndsFirst'
    <2>1. UNCHANGED <<evq, triggered>> /\ calls # <<>> /\ calls' = Tail(calls)
      BY <1>7 DEF ReturnDone, ReturnCancel
    <2>2. ToSet(calls') \subseteq ToSet(calls)
      BY <1>0, <2>1, SetOfTail
    <2> QED
      BY <1>6, <1>7, <2>1, <2>2, ReleaseActions
  <1>8. CASE OtherDone
    BY <1>6, <1>8, ReleaseActions DEF OtherDone
  <1>9. CASE ReturnGetScan
    <2>1. /\ calls # <<>> /\ Head(calls) = GetScanFrame /\ calls' = Tail(calls)
          /\ UNCHANGED <<evq, triggered>>
      BY <1>9 DEF ReturnGetScan
    <2>2. GetScanFrame \in ToSet(calls) /\ ToSet(calls') \subseteq ToSet(calls)
      BY <1>0, <2>1, SetOfTail
    <2>3. ~triggered
      BY <2>2 DEF EndsFirst
    <2> QED
      BY <1>2, <2>1, <2>2, <2>3
  <1>10. CASE OtherInsert
    BY <1>2, <1>10 DEF OtherInsert, scVars
  <1>11. CASE Cancelled
    <2>1. ASSUME NEW r \in Reqs, CancelFirst(r) PROVE EndsFirst'
      <3>1. ~triggered /\ UNCHANGED <<triggered, calls>> /\ evq' = TriggerUnheard
        BY <2>1 DEF CancelFirst
      <3>2. NoneAfter(evq', Events, Ends)
        BY <1>1, <3>1, CancelledFacts
      <3> QED
        BY <3>1, <3>2 DEF EndsFirst
    <2>2. ASSUME NEW r \in Reqs, CancelWaiting(r) PROVE EndsFirst'
      BY <1>6, <2>2, ReleaseActions DEF CancelWaiting
    <2>3. ASSUME NEW r \in Reqs, NEW armed, NEW rest, CancelDuringDump(r, armed, rest)
          PROVE  EndsFirst'
      <3>1. ~triggered /\ UNCHANGED triggered /\ evq' = DumpUnheard
        BY <2>3 DEF CancelDuringDump
      <3>2. NoneAfter(evq', Events, Ends)
        BY <1>1, <3>1, CancelledFacts
      <3> QED
        BY <3>1, <3>2 DEF EndsFirst
    <2> QED
      BY <1>11, <2>1, <2>2, <2>3 DEF Cancelled
  <1>12. CASE Handlers
    <2>0. Handled
      BY <1>12, HandlerCases
    <2>1. ~EndAhead'
      BY <2>0, NoEndLeft
    <2>2. NoneAfter(evq', Events, Ends)
      <3>1. evq # <<>> /\ evq' = Tail(evq)
        BY <2>0, HandledMessage DEF Handles
      <3> QED
        BY <1>0, <1>1, <3>1, NoneAfterTail
    <2>3. GetScanFrame \in ToSet(calls') => ~triggered'
      BY <2>0, HandledCalls
    <2> QED
      BY <2>1, <2>2, <2>3 DEF EndsFirst
  <1>13. CASE ScanEnd \/ ExternalStart
    <2>0. UNCHANGED <<triggered, calls>>
      BY <1>13 DEF ScanEnd, ExternalStart, KernelIdle, scVars
    <2>1. PICK e : evq' = <<e>> /\ cmdq' = <<>> /\ Tail(evq') = <<>>
      BY <1>13, QuietKernel
    <2>2. NoneAfter(evq', Events, Ends)
      BY <2>1 DEF NoneAfter
    <2> QED
      BY <2>0, <2>1, <2>2 DEF EndsFirst
  <1>14. CASE KernelTrigger \/ KernelDump
    <2>0. UNCHANGED <<triggered, calls>> /\ cmdq # <<>>
      BY <1>14 DEF KernelTrigger, KernelDump, KernelIdle, scVars
    <2>1. ASSUME NEW e \in Events \ Ends, evq' = Append(evq, e)
          PROVE  NoneAfter(evq', Events, Ends) /\ EndAhead' = EndAhead
      <3>1. NoneAfter(evq', Events, Ends)
        BY <1>0, <1>1, <2>1, NoneAfterAppend
      <3>2. ToSet(evq') = ToSet(evq) \cup {e}
        BY <1>0, <2>1, SetOfAppend
      <3> QED
        BY <3>1, <3>2 DEF EndAhead
    <2>2. NoneAfter(evq', Events, Ends) /\ EndAhead' = EndAhead
      <3>1. CASE evq' = evq \o <<Started, Ack("ok")>>
        <4>1. Started \in Events \ Ends /\ Ack("ok") \in Events \ Ends
          BY EventFacts
        <4> DEFINE q == Append(evq, Started)
        <4>2. q \in Seq(Events) /\ NoneAfter(q, Events, Ends) /\ ToSet(q) = ToSet(evq) \cup {Started}
          BY <1>0, <1>1, <4>1, NoneAfterAppend, SetOfAppend
        <4>3. evq' = Append(q, Ack("ok"))
          BY <1>0, <3>1, <4>1, AppendTwo
        <4> HIDE DEF q
        <4>4. NoneAfter(evq', Events, Ends) /\ ToSet(evq') = ToSet(q) \cup {Ack("ok")}
          BY <4>1, <4>2, <4>3, NoneAfterAppend, SetOfAppend
        <4> QED
          BY <4>1, <4>2, <4>4 DEF EndAhead
      <3>2. CASE evq' = Append(evq, Ack("busy")) \/ evq' = Append(evq, Ack("fail"))
        BY <2>1, <3>2, EventFacts
      <3>3. CASE KernelDump
        <4>1. /\ cmdq # <<>> /\ Head(cmdq) # Trigger
              /\ evq' = Append(evq, DumpDone(Head(cmdq).sr))
          BY <3>3 DEF KernelDump
        <4>2. Head(cmdq) \in Dumps
          BY <1>0, <4>1, SetOfTail, CommandFacts
        <4>3. DumpDone(Head(cmdq).sr) \in Events \ Ends
          BY <4>2, CommandFacts, EventFacts
        <4> QED
          BY <2>1, <4>1, <4>3
      <3> QED
        BY <1>14, <3>1, <3>2, <3>3 DEF KernelTrigger
    <2> QED
      BY <2>0, <2>2 DEF EndsFirst
  <1> QED
    BY <1>3, <1>4, <1>5, <1>7, <1>8, <1>9, <1>10, <1>11, <1>12, <1>13, <1>14, StepCases DEF Kernel


DumpIsNext(sr) ==
    /\ calls = <<>> /\ get_scan_cmd /\ IsHead(sr) /\ cmds[sr] = 0 /\ scanned[sr]
    /\ Once(cmdq, Dumps) /\ Once(evq, DumpsDone)
    /\ \/ evq = <<>> /\ cmdq # <<>> /\ Head(cmdq) = Dump(sr)
       \/ evq # <<>> /\ Head(evq) = DumpDone(sr) /\ ToSet(cmdq) \cap Dumps = {}

\* The GET_SCAN stays the next thing to happen.
LEMMA DumpStays ==
    ASSUME TypeOK, DumpNext, UNCHANGED evq, Sends(cmdq),
           calls = <<>> /\ get_scan_cmd =>
               /\ calls' = <<>> /\ get_scan_cmd'
               /\ \A sr \in Reqs : IsHead(sr) => /\ IsHead(sr)' /\ cmds'[sr] = cmds[sr]
                                                 /\ scanned[sr] => scanned'[sr]
    PROVE  DumpNext'
  <1>1. cmdq \in Seq(Commands)
    BY DEF TypeOK
  <1>2. /\ \A c : c # Trigger => (c \in ToSet(cmdq') <=> c \in ToSet(cmdq))
        /\ ToSet(cmdq') \cap Dumps = ToSet(cmdq) \cap Dumps
        /\ Once(cmdq, Dumps) => Once(cmdq', Dumps)
        /\ cmdq # <<>> => cmdq' # <<>> /\ Head(cmdq') = Head(cmdq)
    BY <1>1, SendsFacts
  <1>3. \A sr \in Reqs : Dump(sr) # Trigger
    BY DEF Dump, Trigger
  <1>4. \A sr \in Reqs : DumpInFlight(sr)' => DumpInFlight(sr)
    BY <1>2, <1>3 DEF DumpInFlight
  <1>5. ASSUME NEW sr \in Reqs, DumpInFlight(sr) PROVE DumpIsNext(sr)'
    <2>1. DumpIsNext(sr)
      BY <1>5 DEF DumpNext, DumpIsNext
    <2>2. calls' = <<>> /\ get_scan_cmd' /\ IsHead(sr)' /\ cmds'[sr] = 0 /\ scanned'[sr]
      BY <2>1 DEF DumpIsNext
    <2>3. Once(cmdq', Dumps) /\ Once(evq', DumpsDone)
      BY <1>2, <2>1 DEF DumpIsNext
    <2>4. \/ evq' = <<>> /\ cmdq' # <<>> /\ Head(cmdq') = Dump(sr)
          \/ evq' # <<>> /\ Head(evq') = DumpDone(sr) /\ ToSet(cmdq') \cap Dumps = {}
      BY <1>2, <2>1 DEF DumpIsNext
    <2> QED
      BY <2>2, <2>3, <2>4 DEF DumpIsNext
  <1> QED
    BY <1>4, <1>5 DEF DumpNext, DumpIsNext

\* No GET_SCAN of a request is under way.
LEMMA DumpNone ==
    ASSUME \A sr \in Reqs : ~DumpInFlight(sr)'
    PROVE  DumpNext'
  BY DEF DumpNext

\* What a GET_SCAN under way means for a message that is handled.
LEMMA DumpHandled ==
    ASSUME TypeOK, DumpNext, NEW sr \in Reqs, DumpInFlight(sr), Handled
    PROVE  /\ Head(evq) = DumpDone(sr) /\ HandleDumpDone /\ IsHead(sr)
           /\ cmds[sr] = 0 /\ scanned[sr]
           /\ ToSet(cmdq) \cap Dumps = {} /\ ToSet(evq') \cap DumpsDone = {}
  <1>1. DumpIsNext(sr)
    BY DEF DumpNext, DumpIsNext
  <1>2. evq # <<>> /\ evq' = Tail(evq) /\ evq \in Seq(Events)
    BY HandledMessage DEF Handles, TypeOK
  <1>3. Head(evq) = DumpDone(sr) /\ ToSet(cmdq) \cap Dumps = {}
    BY <1>1, <1>2 DEF DumpIsNext
  <1>4. Head(evq) \in DumpsDone
    BY <1>3, EventFacts
  <1>5. HandleDumpDone
    <2>1. Head(evq) \notin {Ack("ok"), Ack("busy"), Ack("fail"), Started} /\ Head(evq) \notin Ends
      BY <1>4, EventFacts
    <2>2. /\ ~HandleOk /\ ~HandleBusy /\ ~HandleFail /\ ~HandleStarted
      BY <2>1 DEF HandleOk, HandleBusy, HandleFail, HandleStarted, Handles
    <2>3. ~EndHandled /\ ~HandleEnd
      BY <2>1 DEF EndHandled, HandleEnd, Handles
    <2> QED
      BY <2>2, <2>3 DEF Handled, HandleFinish, HandleDump, HandleContinue, HandleExhausted
  <1>6. ToSet(evq') \cap DumpsDone = {}
    BY <1>1, <1>2, <1>4, OnceTail DEF DumpIsNext
  <1> QED
    BY <1>1, <1>3, <1>5, <1>6 DEF DumpIsNext

LEMMA DumpNextHandlers ==
    ASSUME TypeOK, EndsFirst, DumpNext, Handled
    PROVE  DumpNext'
  <1>0. cmdq \in Seq(Commands) /\ evq \in Seq(Events)
    BY DEF TypeOK
  <1>1. calls = <<>> /\ evq # <<>> /\ evq' = Tail(evq)
    BY HandledMessage DEF Handles
  <1>2. ASSUME NEW sr \in Reqs, DumpInFlight(sr) PROVE DumpNext'
    <2>1. /\ HandleDumpDone /\ ToSet(cmdq) \cap Dumps = {} /\ ToSet(evq') \cap DumpsDone = {}
      BY <1>2, DumpHandled
    <2>2. UNCHANGED cmdq
      BY <2>1 DEF HandleDumpDone
    <2>3. \A x \in Reqs : Dump(x) \in Dumps /\ DumpDone(x) \in DumpsDone
      BY CommandFacts, EventFacts
    <2> QED
      BY <2>1, <2>2, <2>3, DumpNone DEF DumpInFlight
  <1>3. ASSUME \A sr \in Reqs : ~DumpInFlight(sr) PROVE DumpNext'
    <2>1. ToSet(evq') \subseteq ToSet(evq)
      BY <1>0, <1>1, SetOfTail
    <2>2. CASE HandleDump
      <3> DEFINE h == Head(requests)
      <3>1. /\ triggered /\ requests # <<>> /\ cmds[h] = 0 /\ scanned'[h] /\ get_scan_cmd'
            /\ cmdq' = Append(cmdq, Dump(h))
            /\ UNCHANGED <<requests, cmds, calls>> /\ Head(evq) \in Ends
        BY <2>2 DEF HandleDump, EndHandled, Handles
      <3>2. h \in Reqs
        BY <3>1, FirstRequest
      <3>3. EndAhead
        BY <1>0, <1>1, <3>1, SetOfTail DEF EndAhead
      <3>4. cmdq = <<>> /\ evq' = <<>>
        BY <1>1, <3>1, <3>3 DEF EndsFirst
      <3>5. Dump(h) \in Commands
        BY <3>2, CommandFacts
      <3>6. cmdq' = Append(<<>>, Dump(h))
        BY <3>1, <3>4
      <3>7. ToSet(cmdq') = {Dump(h)}
        BY <3>5, <3>6, SetOfOne
      <3>8. cmdq' # <<>> /\ Head(cmdq') = Dump(h) /\ Once(cmdq', Dumps)
        <4>1. cmdq' # <<>> /\ Head(cmdq') = Dump(h)
          BY <3>6
        <4>2. Once(cmdq', Dumps)
          BY <3>6 DEF Once
        <4> QED
          BY <4>1, <4>2
      <3>9. ASSUME NEW sr \in Reqs, sr = h PROVE DumpIsNext(sr)'
        <4>1. calls' = <<>> /\ IsHead(sr)' /\ cmds'[sr] = 0
          BY <1>1, <3>1, <3>9 DEF IsHead
        <4>2. Once(evq', DumpsDone)
          BY <3>4, OnceEmpty
        <4> QED
          BY <3>1, <3>4, <3>8, <3>9, <4>1, <4>2 DEF DumpIsNext
      <3>10. ASSUME NEW sr \in Reqs, DumpInFlight(sr)' PROVE sr = h
        <4>1. Dump(sr) = Dump(h)
          BY <3>4, <3>7, <3>10, SetOfEmpty DEF DumpInFlight
        <4> QED
          BY <3>2, <4>1, CommandFacts
      <3> HIDE DEF h
      <3>11. ASSUME NEW sr \in Reqs, DumpInFlight(sr)' PROVE DumpIsNext(sr)'
        BY <3>9, <3>10, <3>11
      <3> QED
        BY <3>11 DEF DumpNext, DumpIsNext
    <2>3. CASE ~HandleDump
      <3>1. Sends(cmdq)
        BY <2>3 DEF Handled, HandleOk, HandleBusy, HandleFail, HandleStarted,
           HandleFinish, HandleContinue, HandleExhausted, HandleEnd, HandleDumpDone, Sends
      <3>2. \A c : c # Trigger => (c \in ToSet(cmdq') <=> c \in ToSet(cmdq))
        BY <1>0, <3>1, SendsFacts
      <3>3. \A sr \in Reqs : Dump(sr) # Trigger
        BY DEF Dump, Trigger
      <3> QED
        BY <1>3, <2>1, <3>2, <3>3, DumpNone DEF DumpInFlight
    <2> QED
      BY <2>2, <2>3
  <1> QED
    BY <1>2, <1>3

LEMMA DumpNextKernel ==
    ASSUME TypeOK, Quiet, DumpNext, Kernel \/ ExternalStart
    PROVE  DumpNext'
  <1>0. cmdq \in Seq(Commands) /\ evq \in Seq(Events)
    BY DEF TypeOK
  <1>1. UNCHANGED <<requests, cmds, calls, get_scan_cmd, scanned>>
    BY DEF Kernel, KernelTrigger, KernelDump, ScanEnd, ExternalStart, KernelIdle, reqVars, scVars, histVars
  <1>2. \A x \in Reqs : /\ Dump(x) \in Dumps /\ DumpDone(x) \in DumpsDone /\ Dump(x).sr = x
                        /\ Dump(x) # Trigger /\ DumpDone(x) \in Events
    BY CommandFacts, EventFacts
  <1>3. CASE ScanEnd \/ ExternalStart
    <2>1. PICK e \in Ends \cup {Started} : cmdq' = <<>> /\ ToSet(evq') = {e}
      BY <1>3, QuietKernel
    <2>2. e \notin DumpsDone /\ ToSet(cmdq') = {}
      BY <2>1, EventFacts, SetOfEmpty
    <2> QED
      BY <1>2, <2>1, <2>2, DumpNone DEF DumpInFlight
  <1>4. CASE KernelTrigger
    <2>0. cmdq # <<>> /\ Head(cmdq) = Trigger /\ cmdq' = Tail(cmdq)
      BY <1>4 DEF KernelTrigger
    <2>1. ToSet(cmdq') \subseteq ToSet(cmdq)
      BY <1>0, <2>0, SetOfTail
    <2>2. /\ ToSet(evq') \cap DumpsDone = ToSet(evq) \cap DumpsDone
          /\ Once(evq, DumpsDone) => Once(evq', DumpsDone)
          /\ evq # <<>> => evq' # <<>> /\ Head(evq') = Head(evq)
      <3>1. ASSUME NEW e \in Acks, evq' = Append(evq, e)
            PROVE  /\ ToSet(evq') \cap DumpsDone = ToSet(evq) \cap DumpsDone
                   /\ Once(evq, DumpsDone) => Once(evq', DumpsDone)
                   /\ evq # <<>> => evq' # <<>> /\ Head(evq') = Head(evq)
        <4>1. e \in Events /\ e \notin DumpsDone
          BY EventFacts
        <4>2. ToSet(evq') = ToSet(evq) \cup {e}
          BY <1>0, <3>1, <4>1, SetOfAppend
        <4>3. Once(evq, DumpsDone) => Once(evq', DumpsDone)
          BY <1>0, <3>1, <4>1, OnceAppend
        <4>4. evq # <<>> => evq' # <<>> /\ Head(evq') = Head(evq)
          BY <1>0, <3>1, <4>1
        <4> QED
          BY <4>1, <4>2, <4>3, <4>4
      <3>2. CASE evq' = evq \o <<Started, Ack("ok")>>
        <4>1. /\ Started \in Events /\ Started \notin DumpsDone
              /\ Ack("ok") \in Events /\ Ack("ok") \notin DumpsDone
          BY EventFacts
        <4> DEFINE q == Append(evq, Started)
        <4>2. /\ q \in Seq(Events) /\ ToSet(q) = ToSet(evq) \cup {Started}
              /\ Once(evq, DumpsDone) => Once(q, DumpsDone)
              /\ evq # <<>> => q # <<>> /\ Head(q) = Head(evq)
          BY <1>0, <4>1, SetOfAppend, OnceAppend
        <4>3. evq' = Append(q, Ack("ok"))
          BY <1>0, <3>2, <4>1, AppendTwo
        <4> HIDE DEF q
        <4>4. /\ ToSet(evq') = ToSet(q) \cup {Ack("ok")}
              /\ Once(q, DumpsDone) => Once(evq', DumpsDone)
              /\ q # <<>> => evq' # <<>> /\ Head(evq') = Head(q)
          <5>1. ToSet(evq') = ToSet(q) \cup {Ack("ok")}
            BY <4>1, <4>2, <4>3, SetOfAppend
          <5>2. Once(q, DumpsDone) => Once(evq', DumpsDone)
            BY <4>1, <4>2, <4>3, OnceAppend
          <5>3. q # <<>> => evq' # <<>> /\ Head(evq') = Head(q)
            BY <4>1, <4>2, <4>3
          <5> QED
            BY <5>1, <5>2, <5>3
        <4> QED
          BY <4>1, <4>2, <4>4
      <3> QED
        BY <1>4, <3>1, <3>2, EventFacts DEF KernelTrigger
    <2>3. ASSUME NEW sr \in Reqs, DumpInFlight(sr)' PROVE DumpIsNext(sr)'
      <3>1. DumpInFlight(sr)
        BY <1>2, <2>1, <2>2, <2>3 DEF DumpInFlight
      <3>2. DumpIsNext(sr)
        BY <3>1 DEF DumpNext, DumpIsNext
      <3>3. evq # <<>> /\ Head(evq) = DumpDone(sr) /\ ToSet(cmdq) \cap Dumps = {}
        BY <1>2, <2>0, <3>2 DEF DumpIsNext
      <3>4. Once(cmdq', Dumps)
        BY <1>0, <2>0, <3>2, OnceTail DEF DumpIsNext
      <3> QED
        BY <1>1, <2>1, <2>2, <3>2, <3>3, <3>4 DEF DumpIsNext, IsHead
    <2> QED
      BY <2>3 DEF DumpNext, DumpIsNext
  <1>5. CASE KernelDump
    <2>0. /\ cmdq # <<>> /\ Head(cmdq) # Trigger /\ cmdq' = Tail(cmdq)
          /\ evq' = Append(evq, DumpDone(Head(cmdq).sr))
      BY <1>5 DEF KernelDump
    <2>1. Head(cmdq) \in Dumps /\ Head(cmdq) \in ToSet(cmdq) /\ ToSet(cmdq') \subseteq ToSet(cmdq)
      BY <1>0, <2>0, SetOfTail, CommandFacts
    <2>2. /\ Head(cmdq).sr \in Reqs \cup {NoReq} /\ Head(cmdq) = Dump(Head(cmdq).sr)
      BY <2>1, CommandFacts
    <2>3. DumpDone(Head(cmdq).sr) \in Events
      BY <2>2, EventFacts
    <2>4. ToSet(evq') = ToSet(evq) \cup {DumpDone(Head(cmdq).sr)}
      BY <1>0, <2>0, <2>3, SetOfAppend
    <2>5. ASSUME NEW sr \in Reqs, DumpInFlight(sr)' PROVE DumpIsNext(sr)'
      <3>1. DumpInFlight(sr)
        <4>1. CASE DumpDone(sr) = DumpDone(Head(cmdq).sr)
          <5>1. sr = Head(cmdq).sr
            BY <2>2, <4>1, EventFacts
          <5> QED
            BY <2>1, <2>2, <5>1 DEF DumpInFlight
        <4> QED
          BY <2>1, <2>4, <2>5, <4>1 DEF DumpInFlight
      <3>2. DumpIsNext(sr)
        BY <3>1 DEF DumpNext, DumpIsNext
      <3>3. evq = <<>> /\ Head(cmdq) = Dump(sr)
        BY <2>1, <3>2 DEF DumpIsNext
      <3>4. evq' = Append(<<>>, DumpDone(sr))
        BY <1>2, <2>0, <3>3
      <3>5. evq' # <<>> /\ Head(evq') = DumpDone(sr)
        BY <3>4
      <3>6. Once(evq', DumpsDone)
        BY <3>4 DEF Once
      <3>7. Once(cmdq', Dumps) /\ ToSet(cmdq') \cap Dumps = {}
        BY <1>0, <2>0, <2>1, <3>2, OnceTail DEF DumpIsNext
      <3> QED
        BY <1>1, <3>2, <3>5, <3>6, <3>7 DEF DumpIsNext, IsHead
    <2> QED
      BY <2>5 DEF DumpNext, DumpIsNext
  <1> QED
    BY <1>3, <1>4, <1>5 DEF Kernel


\* The first request stays the first.
LEMMA HeadStays ==
    ASSUME TypeOK, NEW r \in Reqs,
           \/ requests' = Append(requests, r)
           \/ requests' = Without(requests, {r}) /\ ~IsHead(r)
           \/ requests' = requests
    PROVE  \A sr \in Reqs : IsHead(sr) => IsHead(sr)'
  <1>1. requests \in Seq(Reqs)
    BY DEF TypeOK
  <1>2. CASE requests' = Append(requests, r)
    BY <1>1, <1>2 DEF IsHead
  <1>3. CASE requests' = Without(requests, {r}) /\ ~IsHead(r)
    <2>1. requests # <<>> /\ Head(requests) \notin {r} => requests' # <<>> /\ Head(requests') = Head(requests)
      BY <1>1, <1>3, WithoutLemma
    <2> QED
      BY <1>3, <2>1 DEF IsHead
  <1>4. CASE requests' = requests
    BY <1>4 DEF IsHead
  <1> QED
    BY <1>2, <1>3, <1>4

LEMMA DumpNextStep ==
    ASSUME TypeOK, Linked, Quiet, EndsFirst, DumpNext, [Next]_vars
    PROVE  DumpNext'
  <1>0. cmdq \in Seq(Commands) /\ evq \in Seq(Events) /\ calls \in Seq(Frames)
    BY DEF TypeOK
  <1>1. ASSUME NEW sr \in Reqs, DumpInFlight(sr)
        PROVE  calls = <<>> /\ get_scan_cmd
    BY <1>1 DEF DumpNext
  <1>2. \A x \in Reqs : Dump(x) \in Dumps /\ DumpDone(x) \in DumpsDone /\ Dump(x) # Trigger
    BY CommandFacts, EventFacts
  <1>3. CASE UNCHANGED vars
    BY <1>3, DumpStays DEF vars, reqVars, scVars, histVars, Sends, IsHead
  <1>4. CASE SameRadio
    BY <1>4, DumpStays DEF SameRadio, scVars, Sends, IsHead
  <1>5. CASE NewRequest
    <2>1. PICK r \in Reqs, n \in 1 .. MaxCmds :
             ScanCommon(r, n) /\ (calls = <<>> => calls' = calls)
      BY <1>5 DEF NewRequest
    <2>2. /\ r \notin ToSet(requests) /\ requests' = Append(requests, r)
          /\ \A x \in Reqs : x # r => cmds'[x] = cmds[x] /\ scanned'[x] = scanned[x]
          /\ UNCHANGED <<get_scan_cmd, evq>> /\ Sends(cmdq)
      BY <2>1, ScanCommonRadio DEF Sends
    <2>3. \A sr \in Reqs : IsHead(sr) => IsHead(sr)'
      BY <2>2, HeadStays
    <2>4. ~IsHead(r)
      BY <2>2, FirstRequest DEF IsHead
    <2> QED
      BY <2>1, <2>2, <2>3, <2>4, DumpStays
  <1>6. ASSUME NEW item, NEW sc, NEW ws, Releases(item, cmdq, sc, ws), UNCHANGED evq,
               \/ calls # <<>>
               \/ /\ ~IsHead(item) /\ UNCHANGED <<calls, get_scan_cmd>>
                  /\ UNCHANGED requests \/ (item \in Reqs /\ requests' = Without(requests, {item}))
        PROVE  DumpNext'
    <2>1. /\ Sends(cmdq)
          /\ \A x \in Reqs : x # item => cmds'[x] = cmds[x] /\ scanned'[x] = scanned[x]
      BY <1>6, ReleaseFacts
    <2>2. CASE calls # <<>>
      BY <1>6, <2>1, <2>2, DumpStays
    <2>3. CASE /\ ~IsHead(item) /\ UNCHANGED <<calls, get_scan_cmd>>
               /\ UNCHANGED requests \/ (item \in Reqs /\ requests' = Without(requests, {item}))
      <3>1. \A sr \in Reqs : IsHead(sr) => IsHead(sr)'
        BY <2>3, HeadStays
      <3>2. \A sr \in Reqs : IsHead(sr) => cmds'[sr] = cmds[sr] /\ scanned'[sr] = scanned[sr]
        BY <2>1, <2>3
      <3> QED
        BY <1>6, <2>1, <2>3, <3>1, <3>2, DumpStays
    <2> QED
      BY <1>6, <2>2, <2>3
  <1>7. ASSUME NEW r \in Reqs, ReturnDone(r) \/ ReturnCancel(r) PROVE DumpNext'
    BY <1>6, <1>7, ReleaseActions DEF ReturnDone, ReturnCancel
  <1>8. CASE OtherDone
    <2>1. ~IsHead(Other)
      BY FirstRequest, ReqsAssumption DEF IsHead
    <2> QED
      BY <1>6, <1>8, <2>1, ReleaseActions DEF OtherDone
  <1>9. CASE ReturnGetScan
    <2>1. calls # <<>> /\ cmdq' = Append(cmdq, Dump(NoReq)) /\ UNCHANGED evq
      BY <1>9 DEF ReturnGetScan
    <2>2. Dump(NoReq) \in Commands /\ \A x \in Reqs : Dump(x) # Dump(NoReq)
      BY CommandFacts, NoReqAssumption
    <2>3. ToSet(cmdq') = ToSet(cmdq) \cup {Dump(NoReq)}
      BY <1>0, <2>1, <2>2, SetOfAppend
    <2> QED
      BY <1>1, <2>1, <2>2, <2>3, DumpNone DEF DumpInFlight
  <1>10. CASE OtherInsert
    BY <1>10, DumpStays DEF OtherInsert, reqVars, scVars, histVars, Sends, IsHead
  <1>11. CASE Cancelled
    <2>1. ASSUME NEW r \in Reqs, CancelFirst(r) PROVE DumpNext'
      <3>1. ~get_scan_cmd /\ evq' = TriggerUnheard
        BY <2>1 DEF CancelFirst
      <3>2. Sends(TriggerUnsent)
        BY <2>1, ReleaseActions, ReleaseFacts
      <3>3. ToSet(cmdq') \subseteq ToSet(TriggerUnsent) \cup {Trigger}
        BY <3>2, CancelledFacts, SendsFacts
      <3>4. ToSet(TriggerUnsent) \subseteq ToSet(cmdq) /\ ToSet(evq') \subseteq ToSet(evq)
        BY <3>1, CancelledFacts
      <3>5. \A sr \in Reqs : DumpInFlight(sr)' => DumpInFlight(sr)
        BY <1>2, <3>3, <3>4 DEF DumpInFlight
      <3> QED
        BY <1>1, <3>1, <3>5, DumpNone
    <2>2. ASSUME NEW r \in Reqs, CancelWaiting(r) PROVE DumpNext'
      BY <1>6, <2>2, ReleaseActions DEF CancelWaiting
    <2>3. ASSUME NEW r \in Reqs, NEW armed, NEW rest, CancelDuringDump(r, armed, rest)
          PROVE  DumpNext'
      <3>1. cmdq' = DumpUnsent /\ evq' = DumpUnheard
        BY <2>3 DEF CancelDuringDump
      <3>2. ToSet(cmdq') \subseteq ToSet(cmdq) /\ ToSet(evq') \subseteq ToSet(evq)
        BY <3>1, CancelledFacts
      <3>3. ASSUME NEW sr \in Reqs, DumpInFlight(sr)' PROVE FALSE
        <4>1. DumpInFlight(sr)
          BY <3>2, <3>3 DEF DumpInFlight
        <4>2. DumpIsNext(sr)
          BY <4>1 DEF DumpNext, DumpIsNext
        <4>3. ToSet(cmdq') \cap Dumps = {}
          BY <3>1, <4>2, CancelledFacts DEF DumpIsNext
        <4>4. ToSet(evq') \cap DumpsDone = {}
          <5>1. CASE evq = <<>>
            BY <3>2, <5>1, SetOfEmpty
          <5>2. CASE ToSet(cmdq) \cap Dumps = {}
            BY <3>1, <4>2, <5>2, CancelledFacts DEF DumpIsNext
          <5> QED
            BY <4>2, <5>1, <5>2 DEF DumpIsNext
        <4> QED
          BY <1>2, <3>3, <4>3, <4>4 DEF DumpInFlight
      <3> QED
        BY <3>3, DumpNone
    <2> QED
      BY <1>11, <2>1, <2>2, <2>3 DEF Cancelled
  <1>12. CASE Handlers
    BY <1>12, HandlerCases, DumpNextHandlers
  <1> QED
    BY <1>3, <1>4, <1>5, <1>7, <1>8, <1>9, <1>10, <1>11, <1>12, StepCases, DumpNextKernel

\* No new success is told, and what a success rests on stays.
LEMMA SuccessStays ==
    ASSUME SuccessIsComplete, UNCHANGED env,
           \A x \in Reqs : success'[x] => /\ success[x] /\ (cmds[x] = 0 => cmds'[x] = 0)
                                          /\ scanned[x] => scanned'[x]
    PROVE  SuccessIsComplete'
  BY DEF SuccessIsComplete

\* The GET_SCAN that a cancellation ends was for its request, or for nobody.
LEMMA NewestDump ==
    ASSUME TypeOK, Explained, NEW r \in Reqs, NEW armed, NEW rest, CancelDuringDump(r, armed, rest)
    PROVE  \/ DumpInFlight(r) /\ Finish(r, "0", <<CancelFrame(r)>> \o rest)
           \/ /\ calls' = <<CancelFrame(r)>> \o rest
              /\ UNCHANGED <<requests, started, work_started, success>>
  <1>0. cmdq \in Seq(Commands) /\ evq \in Seq(Events) /\ get_scan_cmd
    BY DEF TypeOK, CancelDuringDump
  <1> DEFINE newest == IF ToSet(cmdq) \cap Dumps = {} THEN evq[LastOf(evq, DumpsDone)].sr
                       ELSE cmdq[LastOf(cmdq, Dumps)].sr
  <1>1. ASSUME newest = r PROVE DumpInFlight(r)
    <2>1. CASE ToSet(cmdq) \cap Dumps = {}
      <3>1. ToSet(evq) \cap DumpsDone # {}
        BY <1>0, <2>1 DEF Explained
      <3> DEFINE e == evq[LastOf(evq, DumpsDone)]
      <3>2. e \in DumpsDone /\ e \in ToSet(evq)
        BY <1>0, <3>1, LastOfLemma DEF ToSet
      <3>3. e.sr = r
        BY <1>1, <2>1
      <3>4. e = DumpDone(r)
        BY <3>2, <3>3, EventFacts
      <3> QED
        BY <3>2, <3>4 DEF DumpInFlight
    <2>2. CASE ToSet(cmdq) \cap Dumps # {}
      <3> DEFINE e == cmdq[LastOf(cmdq, Dumps)]
      <3>2. e \in Dumps /\ e \in ToSet(cmdq)
        BY <1>0, <2>2, LastOfLemma DEF ToSet
      <3>3. e.sr = r
        BY <1>1, <2>2
      <3>4. e = Dump(r)
        BY <3>2, <3>3, CommandFacts
      <3> QED
        BY <3>2, <3>4 DEF DumpInFlight
    <2> QED
      BY <2>1, <2>2
  <1>2. \/ newest = r /\ Finish(r, "0", <<CancelFrame(r)>> \o rest)
        \/ /\ calls' = <<CancelFrame(r)>> \o rest
           /\ UNCHANGED <<requests, started, work_started, success>>
    BY DEF CancelDuringDump
  <1> HIDE DEF newest
  <1> QED
    BY <1>1, <1>2


LEMMA SuccessHandlers ==
    ASSUME TypeOK, DumpNext, SuccessIsComplete, Quiet, Handlers
    PROVE  SuccessIsComplete'
  <1>0. Handled /\ UNCHANGED env /\ success \in [Reqs -> BOOLEAN] /\ cmds \in [Reqs -> 0 .. MaxCmds]
    BY HandlerCases DEF TypeOK
  <1>1. CASE HandleOk
    <2>1. /\ requests # <<>> /\ UNCHANGED <<success, scanned>>
          /\ cmds' = [cmds EXCEPT ![Head(requests)] = OneCommandFewer(Head(requests))]
      BY <1>1 DEF HandleOk
    <2>2. \A x \in Reqs : cmds[x] = 0 => cmds'[x] = 0
      BY <1>0, <2>1 DEF OneCommandFewer
    <2> QED
      BY <1>0, <2>1, <2>2, SuccessStays
  <1>2. CASE HandleBusy \/ HandleStarted
    BY <1>0, <1>2, SuccessStays DEF HandleBusy, HandleStarted
  <1>3. CASE HandleFail
    BY <1>0, <1>3, SuccessStays DEF HandleFail, FirstLeaves
  <1>4. CASE HandleFinish
    BY <1>0, <1>4, SuccessStays DEF HandleFinish, EndHandled, FirstLeaves
  <1>5. CASE HandleDump
    BY <1>0, <1>5, SuccessStays DEF HandleDump, EndHandled
  <1>6. CASE HandleContinue
    BY <1>0, <1>6, SuccessStays DEF HandleContinue, EndHandled
  <1>7. CASE HandleExhausted
    BY <1>0, <1>7, SuccessStays DEF HandleExhausted, EndHandled, FirstLeaves
  <1>8. CASE HandleEnd
    BY <1>0, <1>8, SuccessStays DEF HandleEnd
  <1>9. CASE HandleDumpDone
    <2>0. UNCHANGED <<cmds, scanned>> /\ Head(evq) \in ToSet(evq) /\ Head(evq) \in DumpsDone
      BY <1>9, HandlesFacts DEF HandleDumpDone
    <2>1. CASE UNCHANGED success
      BY <1>0, <2>0, <2>1, SuccessStays
    <2>2. CASE /\ IsHead(Head(evq).sr)
               /\ \A x \in Reqs : x # Head(requests) => success'[x] = success[x]
      <3> DEFINE h == Head(requests)
      <3>1. h \in Reqs /\ Head(evq).sr = h
        BY <2>2, FirstRequest DEF IsHead
      <3>2. Head(evq) = DumpDone(h)
        BY <2>0, <3>1, EventFacts
      <3>3. DumpInFlight(h)
        BY <2>0, <3>2 DEF DumpInFlight
      <3>4. cmds[h] = 0 /\ scanned[h]
        BY <3>1, <3>3 DEF DumpNext
      <3>5. \A x \in Reqs : success'[x] => cmds[x] = 0 /\ scanned[x]
        BY <2>2, <3>4 DEF SuccessIsComplete, Quiet
      <3> QED
        BY <2>0, <3>5 DEF SuccessIsComplete
    <2> QED
      BY <1>9, <2>1, <2>2 DEF HandleDumpDone
  <1> QED
    BY <1>0, <1>1, <1>2, <1>3, <1>4, <1>5, <1>6, <1>7, <1>8, <1>9 DEF Handled

LEMMA SuccessStep ==
    ASSUME TypeOK, Explained, Quiet, DumpNext, SuccessIsComplete, [Next]_vars
    PROVE  SuccessIsComplete'
  <1>1. CASE UNCHANGED vars
    BY <1>1, SuccessStays DEF vars, reqVars, histVars
  <1>2. CASE Kernel \/ ExternalStart
    <2>1. UNCHANGED <<env, cmds, success, scanned>>
      BY <1>2 DEF Kernel, KernelTrigger, KernelDump, ScanEnd, ExternalStart, KernelIdle, reqVars, histVars
    <2> QED
      BY <2>1, SuccessStays
  <1>3. CASE SameRadio
    BY <1>3, SuccessStays DEF SameRadio
  <1>4. CASE NewRequest
    <2>1. PICK r \in Reqs, n \in 1 .. MaxCmds : ScanCommon(r, n)
      BY <1>4 DEF NewRequest
    <2>2. /\ ~success'[r] /\ UNCHANGED env
          /\ \A x \in Reqs : x # r => /\ cmds'[x] = cmds[x] /\ success'[x] = success[x]
                                      /\ scanned'[x] = scanned[x]
      BY <2>1, ScanCommonRadio
    <2> QED
      BY <2>2, SuccessStays
  <1>5. ASSUME NEW item, NEW q, NEW sc, NEW ws, Releases(item, q, sc, ws), UNCHANGED env
        PROVE  SuccessIsComplete'
    <2>1. /\ item \in Reqs => ~success'[item]
          /\ \A x \in Reqs : x # item => /\ cmds'[x] = cmds[x] /\ success'[x] = success[x]
                                         /\ scanned'[x] = scanned[x]
      BY <1>5, ReleaseFacts
    <2>2. \A x \in Reqs : success'[x] => /\ success[x] /\ (cmds[x] = 0 => cmds'[x] = 0)
                                         /\ scanned[x] => scanned'[x]
      BY <2>1
    <2> QED
      BY <1>5, <2>2, SuccessStays
  <1>6. ASSUME NEW r \in Reqs, ReturnDone(r) \/ ReturnCancel(r) PROVE SuccessIsComplete'
    BY <1>5, <1>6, ReleaseActions DEF ReturnDone, ReturnCancel
  <1>7. CASE OtherDone
    BY <1>5, <1>7, ReleaseActions DEF OtherDone
  <1>8. CASE ReturnGetScan \/ OtherInsert
    BY <1>8, SuccessStays DEF ReturnGetScan, OtherInsert, reqVars, histVars
  <1>9. CASE Cancelled
    <2>0. UNCHANGED env
      BY <1>9 DEF Cancelled
    <2>1. ASSUME NEW r \in Reqs, CancelFirst(r) \/ CancelWaiting(r) PROVE SuccessIsComplete'
      BY <1>5, <2>0, <2>1, ReleaseActions
    <2>2. ASSUME NEW r \in Reqs, NEW armed, NEW rest, CancelDuringDump(r, armed, rest)
          PROVE  SuccessIsComplete'
      <3>0. UNCHANGED <<cmds, scanned>>
        BY <2>2 DEF CancelDuringDump
      <3>1. CASE UNCHANGED success
        BY <2>0, <3>0, <3>1, SuccessStays
      <3>2. CASE DumpInFlight(r) /\ Tell(r, "0")
        <4>1. \A x \in Reqs : x # r => success'[x] = success[x]
          BY <3>2, TellFacts
        <4>2. cmds[r] = 0 /\ scanned[r]
          BY <3>2 DEF DumpNext
        <4>3. \A x \in Reqs : success'[x] => cmds[x] = 0 /\ scanned[x]
          BY <4>1, <4>2 DEF SuccessIsComplete, Quiet
        <4> QED
          BY <3>0, <4>3 DEF SuccessIsComplete
      <3> QED
        BY <2>2, <3>1, <3>2, NewestDump DEF Finish
    <2> QED
      BY <1>9, <2>1, <2>2 DEF Cancelled
  <1> QED
    BY <1>1, <1>2, <1>3, <1>4, <1>6, <1>7, <1>8, <1>9, StepCases, SuccessHandlers


-----------------------------------------------------------------------------
(* In an undisturbed environment every trigger belongs to the request that holds the  *)
(* radio.                                                                             *)

Calm == OneTrigger /\ OwnScan /\ Refused /\ WaitingHaveCommands

LEMMA UndisturbedQuiet ==
    ASSUME Undisturbed
    PROVE  Quiet /\ "late_cancel" \notin env /\ ("trigger_fails" \in env => "ext_scan" \notin env)
  BY DEF Undisturbed, Quiet

\* The request that holds the radio is the first one, and is not pending.
LEMMA HolderFacts ==
    ASSUME TypeOK, Linked, Holder
    PROVE  /\ requests # <<>> /\ Head(requests) = Head(work) /\ work # <<>>
           /\ Head(work) \in Reqs /\ Head(work) \notin Pending /\ Head(work) \in ToSet(work)
  <1>1. work # <<>> /\ Head(work) \in ToSet(requests)
    BY DEF Holder
  <1> QED
    BY <1>1, LinkedHead, LinkedSets

\* Which answers a TRIGGER_SCAN gets.
LEMMA KernelAnswers ==
    ASSUME TypeOK, KernelTrigger
    PROVE  /\ cmdq # <<>> /\ Head(cmdq) = Trigger /\ cmdq' = Tail(cmdq)
           /\ \E e \in Acks :
                 /\ ToSet(evq') \in {ToSet(evq) \cup {e}, ToSet(evq) \cup {Started, e}}
                 /\ ToSet(evq) \cap Acks = {} => Once(evq', Acks)
                 /\ e = Ack("fail") => kscan = "idle" /\ kscan' = "idle"
  <1>0. evq \in Seq(Events) /\ Acks \subseteq Events /\ Started \in Events /\ Started \notin Acks
    BY EventFacts DEF TypeOK
  <1>1. ASSUME NEW e \in Acks, evq' = Append(evq, e)
        PROVE  ToSet(evq') = ToSet(evq) \cup {e} /\ (ToSet(evq) \cap Acks = {} => Once(evq', Acks))
    <2>1. e \in Events
      BY <1>0
    <2>2. ToSet(evq') = ToSet(evq) \cup {e}
      BY <1>0, <1>1, <2>1, SetOfAppend
    <2>3. ToSet(evq) \cap Acks = {} => Once(evq', Acks)
      BY <1>0, <1>1, <2>1, OnceAppend
    <2> QED
      BY <2>2, <2>3
  <1>2. CASE evq' = Append(evq, Ack("busy"))
    BY <1>1, <1>2, EventFacts DEF KernelTrigger
  <1>3. CASE evq' = Append(evq, Ack("fail")) /\ kscan = "idle" /\ UNCHANGED kscan
    BY <1>1, <1>3, EventFacts DEF KernelTrigger
  <1>4. CASE evq' = evq \o <<Started, Ack("ok")>>
    <2>1. Ack("ok") \in Acks /\ Ack("ok") \in Events /\ Ack("ok") # Ack("fail")
      BY EventFacts
    <2> DEFINE q == Append(evq, Started)
    <2>2. q \in Seq(Events) /\ ToSet(q) = ToSet(evq) \cup {Started}
      BY <1>0, SetOfAppend
    <2>3. evq' = Append(q, Ack("ok"))
      BY <1>0, <1>4, <2>1, AppendTwo
    <2> HIDE DEF q
    <2>4. ToSet(evq') = ToSet(q) \cup {Ack("ok")}
      BY <2>1, <2>2, <2>3, SetOfAppend
    <2>5. ToSet(q) \cap Acks = {} => Once(evq', Acks)
      BY <2>1, <2>2, <2>3, OnceAppend
    <2>6. ToSet(evq) \cap Acks = {} => ToSet(q) \cap Acks = {}
      BY <1>0, <2>2
    <2> QED
      BY <2>1, <2>2, <2>4, <2>5, <2>6 DEF KernelTrigger
  <1> QED
    BY <1>2, <1>3, <1>4 DEF KernelTrigger

LEMMA CalmKernel ==
    ASSUME TypeOK, Explained, Undisturbed, DumpNext, Calm, Kernel \/ ExternalStart
    PROVE  Calm'
  <1>0. cmdq \in Seq(Commands) /\ evq \in Seq(Events) /\ Quiet
    BY UndisturbedQuiet DEF TypeOK
  <1>1. UNCHANGED <<requests, cmds, running, start_cmd, get_scan_cmd, triggered, started,
                    work_started, work, calls, env>>
    BY DEF Kernel, KernelTrigger, KernelDump, ScanEnd, ExternalStart, KernelIdle, reqVars, scVars
  <1>2. /\ Holder' = Holder /\ Pending' = Pending /\ WaitingHaveCommands'
    BY <1>1 DEF Holder, Pending, Calm, WaitingHaveCommands, Undisturbed
  <1>3. OneTrigger /\ OwnScan /\ Refused
    BY DEF Calm
  <1>4. \A x \in Reqs : /\ Dump(x) \in Dumps /\ DumpDone(x) \in DumpsDone /\ Dump(x).sr = x
                        /\ Dump(x) # Trigger
    BY CommandFacts, EventFacts
  <1>5. ASSUME \A sr \in Reqs : DumpInFlight(sr)' <=> DumpInFlight(sr) PROVE OwnScan'
    <2>1. Holder => Head(work) \in Reqs
      <3>1. ToSet(requests) \subseteq Reqs
        BY SetOfSeq DEF TypeOK
      <3> QED
        BY <3>1 DEF Holder
    <2>2. Holder /\ cmds[Head(work)] = 0 => triggered \/ DumpInFlight(Head(work))
      BY <1>3 DEF OwnScan
    <2>3. Holder' /\ cmds'[Head(work')] = 0 => triggered' \/ DumpInFlight(Head(work))'
      <3>1. SUFFICES ASSUME Holder, cmds[Head(work)] = 0, ~triggered PROVE DumpInFlight(Head(work))'
        BY <1>1, <1>2
      <3>2. PICK h \in Reqs : h = Head(work)
        BY <2>1, <3>1
      <3>3. DumpInFlight(h)
        BY <2>2, <3>1, <3>2
      <3>4. DumpInFlight(h)'
        BY <1>5, <3>3
      <3> QED
        BY <1>1, <3>2, <3>4 DEF DumpInFlight
    <2>4. \A sr \in Reqs : DumpInFlight(sr)' => Holder' /\ ~triggered' /\ ~start_cmd'
      BY <1>1, <1>2, <1>3, <1>5 DEF OwnScan
    <2>5. /\ start_cmd' \/ triggered' => Holder'
          /\ started' /\ "ext_scan" \in env' => Holder'
          /\ Holder' => work_started'
          /\ \A r \in Pending' : Head(work') = r
      BY <1>1, <1>2, <1>3 DEF OwnScan
    <2> QED
      BY <2>3, <2>4, <2>5 DEF OwnScan
  <1>6. CASE KernelTrigger
    <2>0. cmdq # <<>> /\ Head(cmdq) = Trigger /\ cmdq' = Tail(cmdq)
      BY <1>6, KernelAnswers
    <2>1. PICK e \in Acks :
             /\ ToSet(evq') \in {ToSet(evq) \cup {e}, ToSet(evq) \cup {Started, e}}
             /\ ToSet(evq) \cap Acks = {} => Once(evq', Acks)
             /\ e = Ack("fail") => kscan = "idle" /\ kscan' = "idle"
      BY <1>6, KernelAnswers
    <2>2. Trigger \in ToSet(cmdq) /\ ToSet(cmdq) = {Trigger} \cup ToSet(cmdq')
      BY <1>0, <2>0, SetOfTail, SetOfHeadTail
    <2>3. start_cmd /\ Holder /\ ToSet(evq) \cap Acks = {}
      BY <1>3, <2>2 DEF OneTrigger, OwnScan, TriggerInFlight
    <2>4. Trigger \notin ToSet(cmdq') /\ Once(cmdq', {Trigger})
      BY <1>0, <1>3, <2>0, OnceTail DEF OneTrigger
    <2>5. e \notin DumpsDone /\ e \notin Ends /\ Started \notin DumpsDone /\ Started \notin Ends
      BY EventFacts
    <2>6. EndAhead' = EndAhead
      BY <2>1, <2>5 DEF EndAhead
    <2>7. \A sr \in Reqs : DumpInFlight(sr)' <=> DumpInFlight(sr)
      BY <1>4, <2>1, <2>2, <2>5 DEF DumpInFlight
    <2>8. OneTrigger'
      BY <1>1, <1>3, <2>1, <2>3, <2>4, <2>6 DEF OneTrigger, TriggerInFlight
    <2>9. Refused'
      <3>1. Ack("fail") \in ToSet(evq') => e = Ack("fail")
        <4>1. Ack("fail") \in Acks /\ Started # Ack("fail")
          BY EventFacts
        <4> QED
          BY <2>1, <2>3, <4>1
      <3> QED
        BY <1>2, <2>1, <2>3, <3>1 DEF Refused
    <2> QED
      BY <1>2, <1>5, <2>7, <2>8, <2>9 DEF Calm
  <1>7. CASE KernelDump
    <2>0. /\ cmdq # <<>> /\ Head(cmdq) # Trigger /\ cmdq' = Tail(cmdq)
          /\ evq' = Append(evq, DumpDone(Head(cmdq).sr)) /\ UNCHANGED kscan
      BY <1>7 DEF KernelDump
    <2>1. Head(cmdq) \in Dumps /\ ToSet(cmdq) = {Head(cmdq)} \cup ToSet(cmdq')
      BY <1>0, <2>0, SetOfTail, SetOfHeadTail, CommandFacts
    <2>2. PICK x \in Reqs \cup {NoReq} : Head(cmdq).sr = x /\ Head(cmdq) = Dump(x)
      BY <2>1, CommandFacts
    <2>3. /\ DumpDone(x) \in Events /\ DumpDone(x) \in DumpsDone
          /\ DumpDone(x) \notin Acks /\ DumpDone(x) \notin Ends
      BY EventFacts
    <2>4. ToSet(evq') = ToSet(evq) \cup {DumpDone(x)}
      BY <1>0, <2>0, <2>2, <2>3, SetOfAppend
    <2>5. Once(evq', Acks) /\ Once(cmdq', {Trigger})
      <3>1. Once(evq', Acks)
        BY <1>0, <1>3, <2>0, <2>2, <2>3, OnceAppend DEF OneTrigger
      <3>2. Once(cmdq', {Trigger})
        BY <1>0, <1>3, <2>0, OnceTail DEF OneTrigger
      <3> QED
        BY <3>1, <3>2
    <2>6. EndAhead' = EndAhead /\ ToSet(evq') \cap Acks = ToSet(evq) \cap Acks
      BY <2>3, <2>4 DEF EndAhead
    <2>7. Trigger \in ToSet(cmdq') <=> Trigger \in ToSet(cmdq)
      BY <2>0, <2>1
    <2>8. \A sr \in Reqs : DumpInFlight(sr)' <=> DumpInFlight(sr)
      <3>1. \A sr \in Reqs : Dump(sr) = Dump(x) <=> sr = x
        BY CommandFacts
      <3>2. \A sr \in Reqs : DumpDone(sr) = DumpDone(x) <=> sr = x
        BY EventFacts
      <3> QED
        BY <2>1, <2>2, <2>4, <3>1, <3>2 DEF DumpInFlight
    <2>9. OneTrigger'
      BY <1>1, <1>3, <2>5, <2>6, <2>7 DEF OneTrigger, TriggerInFlight
    <2>10. Refused'
      <3>1. Ack("fail") \in Acks
        BY EventFacts
      <3> QED
        BY <1>1, <1>2, <1>3, <2>0, <2>6, <3>1 DEF Refused
    <2> QED
      BY <1>2, <1>5, <2>8, <2>9, <2>10 DEF Calm
  <1>8. CASE ScanEnd \/ ExternalStart
    <2>0. cmdq = <<>> /\ evq = <<>> /\ UNCHANGED cmdq
      BY <1>0, <1>8, QuietKernel
    <2>1. PICK e \in Ends \cup {Started} : evq' = <<e>> /\ ToSet(evq') = {e}
      BY <1>0, <1>8, QuietKernel
    <2>2. ToSet(cmdq) = {} /\ ToSet(evq) = {} /\ ToSet(cmdq') = {}
      BY <2>0, SetOfEmpty
    <2>3. e \notin Acks /\ e \notin DumpsDone
      BY EventFacts
    <2>4. ToSet(evq') \cap Acks = {} /\ ToSet(evq') \cap DumpsDone = {}
      BY <2>1, <2>3
    <2>5. ~start_cmd /\ ~TriggerInFlight'
      BY <1>3, <2>2, <2>4 DEF OneTrigger, TriggerInFlight
    <2>6. Once(cmdq', {Trigger}) /\ Once(evq', Acks)
      <3>1. Once(evq', Acks)
        BY <2>1 DEF Once
      <3> QED
        BY <2>0, <3>1, OnceEmpty
    <2>7. OneTrigger'
      BY <1>1, <2>2, <2>5, <2>6 DEF OneTrigger
    <2>8. \A sr \in Reqs : DumpInFlight(sr)' <=> DumpInFlight(sr)
      BY <1>4, <2>2, <2>4 DEF DumpInFlight
    <2>9. Refused'
      <3>1. Ack("fail") \notin ToSet(evq')
        BY <2>4, EventFacts
      <3>2. work_started => Holder
        <4>1. CASE ScanEnd
          BY <1>3, <4>1 DEF Refused, ScanEnd
        <4>2. CASE ExternalStart
          BY <1>3, <4>2, UndisturbedQuiet DEF Refused, ExternalStart
        <4> QED
          BY <1>8, <4>1, <4>2
      <3> QED
        BY <1>1, <1>2, <3>1, <3>2 DEF Refused
    <2> QED
      BY <1>2, <1>5, <2>7, <2>8, <2>9 DEF Calm
  <1> QED
    BY <1>6, <1>7, <1>8 DEF Kernel


NoDumps == \A sr \in Reqs : ~DumpInFlight(sr)

\* The results of a request are the only message that is handled while they are read.
LEMMA HandledDumps ==
    ASSUME TypeOK, DumpNext, Handled
    PROVE  /\ Head(evq) \notin DumpsDone => NoDumps
           /\ HandleDumpDone /\ ~IsHead(Head(evq).sr) => NoDumps
           /\ ~HandleDump => NoDumps'
  <1>0. \A x \in Reqs : /\ Dump(x) \in Dumps /\ DumpDone(x) \in DumpsDone /\ DumpDone(x).sr = x
                        /\ Dump(x) # Trigger
    BY CommandFacts, EventFacts
  <1>1. ASSUME NEW x \in Reqs, DumpInFlight(x)
        PROVE  /\ Head(evq) \in DumpsDone /\ IsHead(Head(evq).sr) /\ HandleDumpDone
               /\ ToSet(cmdq) \cap Dumps = {} /\ ToSet(evq') \cap DumpsDone = {}
    BY <1>0, <1>1, DumpHandled
  <1>2. ASSUME ~HandleDump PROVE NoDumps'
    <2>1. cmdq \in Seq(Commands) /\ ToSet(evq') \subseteq ToSet(evq)
      BY HandledMessage, HandlesFacts DEF TypeOK
    <2>2. Sends(cmdq)
      BY <1>2 DEF Handled, HandleOk, HandleBusy, HandleFail, HandleStarted,
         HandleFinish, HandleContinue, HandleExhausted, HandleEnd, HandleDumpDone, Sends
    <2>3. \A c : c # Trigger => (c \in ToSet(cmdq') <=> c \in ToSet(cmdq))
      BY <2>1, <2>2, SendsFacts
    <2>4. ASSUME NEW x \in Reqs, DumpInFlight(x)' PROVE FALSE
      <3>1. DumpInFlight(x)
        BY <1>0, <2>1, <2>3, <2>4 DEF DumpInFlight
      <3>2. ToSet(cmdq) \cap Dumps = {} /\ ToSet(evq') \cap DumpsDone = {}
        BY <1>1, <3>1
      <3> QED
        BY <1>0, <2>3, <2>4, <3>2 DEF DumpInFlight
    <2> QED
      BY <2>4 DEF NoDumps
  <1> QED
    BY <1>1, <1>2 DEF NoDumps

\* Who holds the radio after a handler.
LEMMA HandledHolder ==
    ASSUME TypeOK, Linked, Handled, UNCHANGED work
    PROVE  /\ UNCHANGED requests => Holder' = Holder /\ Pending' = {}
           /\ Holder /\ requests' = Without(requests, {Head(requests)})
                 => ~Holder' /\ \A r \in Pending' : Head(work') = r
  <1>0. requests \in Seq(Reqs)
    BY DEF TypeOK
  <1>1. \A r \in Reqs : DoneFrame(r) \notin {GetScanFrame, RetryFrame}
    BY FrameFacts
  <1>2. ASSUME requests # <<>>, requests' = Without(requests, {Head(requests)})
        PROVE  requests' # requests /\ Head(requests) \notin ToSet(requests') /\ Head(requests) \in Reqs
    <2>1. ToSet(requests') = ToSet(requests) \ {Head(requests)}
      BY <1>0, <1>2, WithoutLemma
    <2> QED
      BY <1>2, <2>1, FirstRequest
  <1>3. ASSUME UNCHANGED requests PROVE Holder' = Holder /\ Pending' = {}
    <2>1. ToSet(calls') \subseteq {GetScanFrame}
      BY <1>2, <1>3, HandledCalls
    <2>2. Pending' = {}
      BY <1>1, <2>1 DEF Pending
    <2> QED
      BY <1>3, <2>2 DEF Holder
  <1>4. ASSUME Holder, requests' = Without(requests, {Head(requests)})
        PROVE  ~Holder' /\ \A r \in Pending' : Head(work') = r
    <2>1. requests # <<>> /\ Head(requests) = Head(work)
      BY <1>4, HolderFacts
    <2>2. ~Holder'
      BY <1>2, <1>4, <2>1 DEF Holder
    <2>3. ToSet(calls') \subseteq {DoneFrame(Head(requests)), RetryFrame, GetScanFrame}
      BY <1>2, <1>4, <2>1, HandledCalls
    <2>4. ASSUME NEW r \in Pending' PROVE r = Head(requests)
      <3>1. r \in Reqs /\ DoneFrame(r) \in ToSet(calls')
        BY <2>4 DEF Pending
      <3>2. DoneFrame(r) = DoneFrame(Head(requests))
        BY <1>1, <2>3, <3>1
      <3> QED
        BY <1>2, <1>4, <2>1, <3>1, <3>2, FrameFacts
    <2> QED
      BY <2>1, <2>2, <2>4
  <1> QED
    BY <1>3, <1>4

\* The messages that remain after a handler.
LEMMA HandledAcks ==
    ASSUME TypeOK, OneTrigger, Handled
    PROVE  /\ ToSet(evq') \subseteq ToSet(evq) /\ Once(evq', Acks) /\ Head(evq) \in ToSet(evq)
           /\ Head(evq) \in Acks => /\ start_cmd /\ ToSet(evq') \cap Acks = {}
                                    /\ Trigger \notin ToSet(cmdq)
           /\ Head(evq) \notin Acks => ToSet(evq') \cap Acks = ToSet(evq) \cap Acks
  <1>1. evq \in Seq(Events) /\ evq # <<>> /\ evq' = Tail(evq) /\ Once(evq, Acks)
    BY HandledMessage DEF TypeOK, Handles, OneTrigger
  <1>2. ToSet(evq) = {Head(evq)} \cup ToSet(evq')
    BY HandledMessage, HandlesFacts
  <1>3. Once(evq', Acks) /\ (Head(evq) \in Acks => ToSet(evq') \cap Acks = {})
    BY <1>1, OnceTail
  <1>4. Head(evq) \in Acks => start_cmd /\ Trigger \notin ToSet(cmdq)
    BY <1>2 DEF OneTrigger, TriggerInFlight
  <1> QED
    BY <1>2, <1>3, <1>4

LEMMA OneTriggerHandlers ==
    ASSUME TypeOK, EndsFirst, OneTrigger, Handled, Explained
    PROVE  OneTrigger'
  <1>0. cmdq \in Seq(Commands) /\ ~EndAhead' /\ Once(evq', Acks)
    BY NoEndLeft, HandledAcks DEF TypeOK
  <1>1. /\ start_cmd <=> TriggerInFlight
        /\ Once(cmdq, {Trigger})
        /\ Trigger \in ToSet(cmdq) => ToSet(evq) \cap Acks = {}
        /\ triggered => ~start_cmd
    BY DEF OneTrigger
  <1>2. CASE HandleOk \/ HandleBusy \/ HandleFail
    <2>1. Head(evq) \in Acks /\ ~start_cmd' /\ UNCHANGED cmdq
      BY <1>2, EventFacts DEF HandleOk, HandleBusy, HandleFail, Handles
    <2>2. ToSet(evq') \cap Acks = {} /\ Trigger \notin ToSet(cmdq)
      BY <2>1, HandledAcks
    <2> QED
      BY <1>0, <1>1, <2>1, <2>2 DEF OneTrigger, TriggerInFlight
  <1>3. CASE HandleStarted \/ HandleFinish \/ HandleExhausted \/ HandleEnd \/ HandleDumpDone
    <2>1. Head(evq) \notin Acks
      <3>1. Head(evq) = Started \/ Head(evq) \in Ends \/ Head(evq) \in DumpsDone
        BY <1>3 DEF HandleStarted, HandleFinish, HandleExhausted, HandleEnd, HandleDumpDone,
           EndHandled, Handles
      <3> QED
        BY <3>1, EventFacts
    <2>2. UNCHANGED <<start_cmd, cmdq>> /\ (triggered' => triggered)
      <3>1. CASE HandleStarted \/ HandleDumpDone
        BY <3>1 DEF HandleStarted, HandleDumpDone
      <3>2. CASE HandleFinish \/ HandleExhausted
        BY <3>2 DEF HandleFinish, HandleExhausted, EndHandled
      <3>3. CASE HandleEnd
        BY <3>3 DEF HandleEnd
      <3> QED
        BY <1>3, <3>1, <3>2, <3>3
    <2>3. ToSet(evq') \cap Acks = ToSet(evq) \cap Acks
      BY <2>1, HandledAcks
    <2> QED
      BY <1>0, <1>1, <2>2, <2>3 DEF OneTrigger, TriggerInFlight
  <1>4. CASE HandleDump
    <2>1. /\ Head(evq) \notin Acks /\ ~triggered' /\ UNCHANGED start_cmd
          /\ requests # <<>> /\ cmdq' = Append(cmdq, Dump(Head(requests)))
      BY <1>4, EventFacts DEF HandleDump, EndHandled, Handles
    <2>2. ToSet(evq') \cap Acks = ToSet(evq) \cap Acks
      BY <2>1, HandledAcks
    <2>3. Dump(Head(requests)) \in Commands /\ Dump(Head(requests)) # Trigger
      BY <2>1, FirstRequest, CommandFacts
    <2>4. ToSet(cmdq') = ToSet(cmdq) \cup {Dump(Head(requests))}
      BY <1>0, <2>1, <2>3, SetOfAppend
    <2>5. Once(cmdq', {Trigger})
      BY <1>0, <1>1, <2>1, <2>3, OnceAppend
    <2> QED
      BY <1>0, <1>1, <2>1, <2>2, <2>3, <2>4, <2>5 DEF OneTrigger, TriggerInFlight
  <1>5. CASE HandleContinue
    <2>1. /\ Head(evq) \in Ends /\ running /\ ~triggered' /\ start_cmd'
          /\ cmdq' = Append(cmdq, Trigger)
      BY <1>5 DEF HandleContinue, EndHandled, Handles
    <2>2. EndAhead
      BY <2>1, HandledAcks DEF EndAhead
    <2>3. ~start_cmd
      BY <2>1, <2>2 DEF OneTrigger
    <2>4. Trigger \notin ToSet(cmdq) /\ ToSet(evq') \cap Acks = {}
      BY <1>1, <2>3, HandledAcks DEF TriggerInFlight
    <2>5. ToSet(cmdq') = ToSet(cmdq) \cup {Trigger}
      BY <1>0, <2>1, SetOfAppend, CommandFacts
    <2>6. Once(cmdq', {Trigger})
      <3>1. ToSet(cmdq) \cap {Trigger} = {} /\ Trigger \in Commands
        BY <2>4, CommandFacts
      <3> QED
        BY <1>0, <2>1, <3>1, OnceAppend
    <2> QED
      BY <1>0, <2>1, <2>4, <2>5, <2>6 DEF OneTrigger, TriggerInFlight
  <1> QED
    BY <1>2, <1>3, <1>4, <1>5 DEF Handled


\* Handlers that leave the first request in the queue.
LEMMA CalmSameQueue ==
    ASSUME TypeOK, Linked, Explained, Undisturbed, EndsFirst, DumpNext, Calm, Handled,
           UNCHANGED <<requests, work, kscan, env, work_started>>,
           \A x \in Reqs : x # Head(requests) => cmds'[x] = cmds[x],
           start_cmd' \/ triggered' => Holder,
           started' => started \/ Holder,
           \A sr \in Reqs : DumpInFlight(sr)' => Holder /\ ~triggered' /\ ~start_cmd',
           Holder /\ cmds'[Head(work)] = 0 => triggered' \/ DumpInFlight(Head(work))',
           UNCHANGED cmds \/ Holder
    PROVE  OwnScan' /\ Refused' /\ WaitingHaveCommands'
  <1>1. Holder' = Holder /\ Pending' = {}
    BY HandledHolder
  <1>2. OneTrigger /\ OwnScan /\ Refused /\ WaitingHaveCommands
    BY DEF Calm
  <1>3. OwnScan'
    <2>1. started' /\ "ext_scan" \in env' => Holder'
      BY <1>1, <1>2 DEF OwnScan
    <2>2. Holder' => work_started'
      BY <1>1, <1>2 DEF OwnScan
    <2>3. Holder' /\ cmds'[Head(work')] = 0 => triggered' \/ DumpInFlight(Head(work))'
      BY <1>1
    <2>4. \A r \in Pending' : Head(work') = r
      BY <1>1
    <2>5. \A sr \in Reqs : DumpInFlight(sr)' => Holder' /\ ~triggered' /\ ~start_cmd'
      BY <1>1
    <2>6. start_cmd' \/ triggered' => Holder'
      BY <1>1
    <2> QED
      BY <2>1, <2>2, <2>3, <2>4, <2>5, <2>6 DEF OwnScan
  <1>4. Refused'
    <2>1. ~EndAhead' /\ ToSet(evq') \subseteq ToSet(evq)
      BY <1>2, NoEndLeft, HandledAcks
    <2> QED
      BY <1>1, <1>2, <2>1 DEF Refused
  <1>5. WaitingHaveCommands'
    <2>1. Undisturbed' /\ Undisturbed
      BY DEF Undisturbed
    <2>2. \A r \in Reqs \cap ToSet(work) : r # Head(work) => cmds'[r] = cmds[r]
      BY HolderFacts
    <2> QED
      BY <1>2, <2>1, <2>2 DEF WaitingHaveCommands
  <1> QED
    BY <1>3, <1>4, <1>5

\* Handlers that finish the first request, which holds the radio.
LEMMA CalmLeaves ==
    ASSUME TypeOK, Linked, Undisturbed, EndsFirst, Calm, Handled, Holder,
           requests' = Without(requests, {Head(requests)}),
           UNCHANGED <<work, kscan, env, cmds>>, NoDumps',
           ~start_cmd' /\ ~triggered',
           ~started' \/ "ext_scan" \notin env,
           ~work_started' \/ ("trigger_fails" \in env /\ kscan = "idle")
    PROVE  OwnScan' /\ Refused' /\ WaitingHaveCommands'
  <1>1. ~Holder' /\ \A r \in Pending' : Head(work') = r
    BY HandledHolder
  <1>2. OneTrigger /\ Refused /\ WaitingHaveCommands
    BY DEF Calm
  <1>3. OwnScan'
    BY <1>1 DEF OwnScan, NoDumps
  <1>4. Refused'
    <2>1. ~EndAhead' /\ ToSet(evq') \subseteq ToSet(evq)
      BY <1>2, NoEndLeft, HandledAcks
    <2> QED
      BY <1>1, <1>2, <2>1 DEF Refused
  <1>5. WaitingHaveCommands'
    BY <1>2 DEF WaitingHaveCommands, Undisturbed
  <1> QED
    BY <1>3, <1>4, <1>5

LEMMA CalmHandlers ==
    ASSUME TypeOK, Linked, Explained, Undisturbed, EndsFirst, DumpNext, Calm, Handlers
    PROVE  Calm'
  <1>0. Handled /\ UNCHANGED <<work, kscan, env>>
    BY HandlerCases
  <1>1. OneTrigger'
    BY <1>0, OneTriggerHandlers DEF Calm
  <1>2. OneTrigger /\ OwnScan /\ Refused
    BY DEF Calm
  <1>3. Head(evq) \in ToSet(evq)
    BY <1>0, <1>2, HandledAcks
  <1>4. SUFFICES OwnScan' /\ Refused' /\ WaitingHaveCommands'
    BY <1>1, <1>4 DEF Calm
  <1>5. Head(evq) \in Acks => start_cmd /\ Holder /\ ~triggered
    BY <1>0, <1>2, HandledAcks DEF OneTrigger, OwnScan
  <1>6. Head(evq) \notin DumpsDone => NoDumps
    BY <1>0, HandledDumps
  <1>7. ~HandleDump => NoDumps'
    BY <1>0, HandledDumps
  <1>8. ASSUME NoDumps, Holder, ~triggered PROVE cmds[Head(work)] # 0
    <2>1. Head(work) \in Reqs
      BY <1>8, HolderFacts
    <2> QED
      BY <1>2, <1>8, <2>1 DEF OwnScan, NoDumps
  <1>9. CASE HandleOk
    <2>1. /\ Head(evq) \in Acks /\ requests # <<>> /\ triggered' /\ ~start_cmd'
          /\ cmds' = [cmds EXCEPT ![Head(requests)] = OneCommandFewer(Head(requests))]
          /\ UNCHANGED <<requests, work_started>> /\ Head(evq) \notin DumpsDone
      BY <1>9, EventFacts DEF HandleOk, Handles
    <2>2. NoDumps'
      <3>1. ~HandleDump
        BY <2>1, EventFacts DEF HandleDump, EndHandled, Handles
      <3> QED
        BY <1>7, <3>1
    <2>3. \A x \in Reqs : x # Head(requests) => cmds'[x] = cmds[x]
      BY <2>1 DEF TypeOK
    <2> QED
      BY <1>0, <1>5, <2>1, <2>2, <2>3, CalmSameQueue DEF NoDumps
  <1>10. CASE HandleBusy
    <2>1. /\ Head(evq) \in Acks /\ ~start_cmd'
          /\ UNCHANGED <<requests, cmds, triggered, started, work_started>> /\ Head(evq) \notin DumpsDone
      BY <1>10, EventFacts DEF HandleBusy, Handles
    <2>2. NoDumps'
      <3>1. ~HandleDump
        BY <2>1, EventFacts DEF HandleDump, EndHandled, Handles
      <3> QED
        BY <1>7, <3>1
    <2>3. cmds[Head(work)] # 0
      BY <1>5, <1>6, <1>8, <2>1
    <2> QED
      BY <1>0, <1>5, <2>1, <2>2, <2>3, CalmSameQueue DEF NoDumps
  <1>11. CASE HandleFail
    <2>1. /\ Head(evq) = Ack("fail") /\ Head(evq) \in Acks /\ ~start_cmd'
          /\ requests' = Without(requests, {Head(requests)})
          /\ UNCHANGED <<cmds, triggered, started, work_started>>
      BY <1>11, EventFacts DEF HandleFail, FirstLeaves, Handles
    <2>2. NoDumps'
      <3>1. ~HandleDump
        BY <2>1, EventFacts DEF HandleDump, EndHandled, Handles
      <3> QED
        BY <1>7, <3>1
    <2>3. "trigger_fails" \in env /\ kscan = "idle" /\ "ext_scan" \notin env
      BY <1>2, <1>3, <2>1, UndisturbedQuiet DEF Explained, Refused
    <2> QED
      BY <1>0, <1>5, <2>1, <2>2, <2>3, CalmLeaves
  <1>12. CASE HandleStarted
    <2>1. /\ Head(evq) = Started /\ Head(evq) \notin DumpsDone
          /\ UNCHANGED <<requests, cmds, start_cmd, triggered, started, work_started>>
      BY <1>12, EventFacts DEF HandleStarted, Handles
    <2>2. NoDumps'
      <3>1. ~HandleDump
        BY <2>1, EventFacts DEF HandleDump, EndHandled, Handles
      <3> QED
        BY <1>7, <3>1
    <2>3. Holder /\ cmds[Head(work)] = 0 => triggered
      BY <1>6, <1>8, <2>1
    <2> QED
      BY <1>0, <1>2, <2>1, <2>2, <2>3, CalmSameQueue DEF NoDumps, OwnScan
  <1>13. ASSUME Head(evq) \in Ends PROVE EndAhead /\ NoDumps /\ (running => ~start_cmd)
    <2>1. EndAhead
      BY <1>3, <1>13 DEF EndAhead
    <2>2. Head(evq) \notin DumpsDone
      BY <1>13, EventFacts
    <2> QED
      BY <1>2, <1>6, <2>1, <2>2 DEF OneTrigger
  <1>14. CASE HandleFinish
    <2>1. /\ Head(evq) \in Ends /\ running
          /\ triggered \/ (Head(evq) = Results(TRUE) /\ started)
          /\ requests' = Without(requests, {Head(requests)})
          /\ ~started' /\ ~work_started' /\ ~triggered'
          /\ UNCHANGED <<cmds, start_cmd, cmdq>>
      BY <1>14 DEF HandleFinish, EndHandled, Handles, FirstLeaves
    <2>2. ~start_cmd /\ NoDumps
      BY <1>13, <2>1
    <2>3. Holder
      <3>1. CASE triggered
        BY <1>2, <3>1 DEF OwnScan
      <3>2. CASE Head(evq) = Results(TRUE) /\ started
        <4>1. "ext_scan" \in env
          BY <1>3, <3>2 DEF Explained
        <4> QED
          BY <1>2, <3>2, <4>1 DEF OwnScan
      <3> QED
        BY <2>1, <3>1, <3>2
    <2>4. NoDumps'
      <3>1. ToSet(evq') \subseteq ToSet(evq)
        BY <1>0, <1>2, HandledAcks
      <3> QED
        BY <2>1, <2>2, <3>1 DEF NoDumps, DumpInFlight
    <2> QED
      BY <1>0, <2>1, <2>2, <2>3, <2>4, CalmLeaves
  <1>15. CASE HandleDump
    <2>1. /\ Head(evq) \in Ends /\ running /\ triggered /\ requests # <<>> /\ cmds[Head(requests)] = 0
          /\ cmdq' = Append(cmdq, Dump(Head(requests))) /\ ~triggered'
          /\ UNCHANGED <<requests, cmds, start_cmd, started, work_started>>
      BY <1>15 DEF HandleDump, EndHandled, Handles
    <2>2. Holder /\ ~start_cmd
      BY <1>2, <1>13, <2>1 DEF OwnScan
    <2>3. Head(requests) = Head(work) /\ Head(work) \in Reqs
      BY <2>2, HolderFacts
    <2>4. DumpInFlight(Head(work))'
      <3>1. Dump(Head(work)) \in Commands /\ cmdq \in Seq(Commands)
        BY <2>3, CommandFacts DEF TypeOK
      <3>2. Dump(Head(work)) \in ToSet(cmdq')
        BY <2>1, <2>3, <3>1, SetOfAppend
      <3> QED
        BY <1>0, <3>2 DEF DumpInFlight
    <2> QED
      BY <1>0, <2>1, <2>2, <2>4, CalmSameQueue
  <1>16. CASE HandleContinue
    <2>1. /\ Head(evq) \in Ends /\ running /\ work_started /\ requests # <<>> /\ cmds[Head(requests)] # 0
          /\ ~triggered' /\ cmdq' = Append(cmdq, Trigger)
          /\ UNCHANGED <<requests, cmds, started, work_started>>
      BY <1>16 DEF HandleContinue, EndHandled, Handles
    <2>2. Holder
      BY <1>2, <1>13, <2>1 DEF Refused
    <2>3. Head(requests) = Head(work)
      BY <2>2, HolderFacts
    <2>4. NoDumps'
      <3>1. ToSet(evq') \subseteq ToSet(evq) /\ cmdq \in Seq(Commands) /\ Sends(cmdq)
        BY <1>0, <1>2, <2>1, HandledAcks DEF TypeOK, Sends
      <3>2. \A c : c # Trigger => (c \in ToSet(cmdq') <=> c \in ToSet(cmdq))
        BY <3>1, SendsFacts
      <3>3. \A x \in Reqs : Dump(x) # Trigger
        BY DEF Dump, Trigger
      <3> QED
        BY <1>13, <2>1, <3>1, <3>2, <3>3 DEF NoDumps, DumpInFlight
    <2> QED
      BY <1>0, <2>1, <2>2, <2>3, <2>4, CalmSameQueue DEF NoDumps
  <1>17. CASE HandleExhausted
    <2>1. Head(evq) \in Ends /\ ~triggered /\ work_started /\ cmds[Head(requests)] = 0
      BY <1>17 DEF HandleExhausted, EndHandled, Handles
    <2>2. Holder /\ NoDumps
      BY <1>2, <1>13, <2>1 DEF Refused
    <2>3. Head(requests) = Head(work)
      BY <2>2, HolderFacts
    <2> QED
      BY <1>8, <2>1, <2>2, <2>3
  <1>18. CASE HandleEnd
    <2>1. /\ Head(evq) \in Ends /\ (triggered' => triggered /\ ~running)
          /\ triggered => ~running \/ ~work_started \/ requests = <<>>
          /\ UNCHANGED <<requests, cmds, start_cmd, started, work_started, cmdq>>
      BY <1>18 DEF HandleEnd, Handles
    <2>2. triggered => running
      BY DEF Explained
    <2>3. ~triggered'
      BY <2>1, <2>2
    <2>4. ~triggered
      <3>1. triggered => Holder /\ work_started
        BY <1>2 DEF OwnScan
      <3> QED
        BY <2>1, <2>2, <3>1, HolderFacts
    <2>5. Holder => cmds[Head(work)] # 0
      BY <1>8, <1>13, <2>1, <2>4
    <2>6. NoDumps'
      <3>1. ToSet(evq') \subseteq ToSet(evq)
        BY <1>0, <1>2, HandledAcks
      <3> QED
        BY <1>13, <2>1, <3>1 DEF NoDumps, DumpInFlight
    <2>7. start_cmd' => Holder
      BY <1>2, <2>1 DEF OwnScan
    <2> QED
      BY <1>0, <2>1, <2>3, <2>5, <2>6, <2>7, CalmSameQueue DEF NoDumps
  <1>19. CASE HandleDumpDone
    <2>0. /\ Head(evq) \in DumpsDone
          /\ UNCHANGED <<cmds, start_cmd, triggered, cmdq>>
      BY <1>19 DEF HandleDumpDone, Handles
    <2>1. NoDumps'
      <3>1. ~HandleDump
        BY <2>0, EventFacts DEF HandleDump, EndHandled, Handles
      <3> QED
        BY <1>7, <3>1
    <2>2. CASE /\ ~IsHead(Head(evq).sr) /\ UNCHANGED <<requests, started, work_started>>
      <3>1. NoDumps
        BY <1>0, <1>19, <2>2, HandledDumps
      <3>2. Holder /\ cmds[Head(work)] = 0 => triggered
        BY <1>8, <3>1
      <3>3. start_cmd \/ triggered => Holder
        BY <1>2 DEF OwnScan
      <3> QED
        BY <1>0, <2>0, <2>1, <2>2, <3>2, <3>3, CalmSameQueue DEF NoDumps
    <2>3. CASE /\ IsHead(Head(evq).sr)
               /\ requests' = Without(requests, {Head(requests)})
               /\ ~started' /\ ~work_started'
      <3>1. Head(requests) \in Reqs /\ Head(evq).sr = Head(requests)
        BY <2>3, FirstRequest DEF IsHead
      <3>2. Head(evq) = DumpDone(Head(requests))
        BY <2>0, <3>1, EventFacts
      <3>3. DumpInFlight(Head(requests))
        BY <1>3, <3>2 DEF DumpInFlight
      <3>4. Holder /\ ~triggered /\ ~start_cmd
        BY <1>2, <3>1, <3>3 DEF OwnScan
      <3> QED
        BY <1>0, <2>0, <2>1, <2>3, <3>4, CalmLeaves
    <2> QED
      BY <1>19, <2>2, <2>3 DEF HandleDumpDone
  <1> QED
    BY <1>0, <1>9, <1>10, <1>11, <1>12, <1>14, <1>15, <1>16, <1>17, <1>18, <1>19 DEF Handled


\* Steps that leave the radio to whoever has it.
LEMMA CalmStays ==
    ASSUME TypeOK, Calm,
           UNCHANGED <<running, start_cmd, triggered, evq, kscan, env>>,
           started' => started, work_started' => work_started, Holder => UNCHANGED work_started,
           cmdq' = cmdq \/ cmdq' = Append(cmdq, Dump(NoReq)),
           Holder' <=> Holder,
           Holder => Head(work') = Head(work) /\ cmds'[Head(work)] = cmds[Head(work)],
           Pending' # {} => Pending' = Pending /\ Head(work') = Head(work),
           \A r \in Reqs \cap ToSet(work') : r # Head(work') =>
               cmds'[r] > 0 \/ (r \in ToSet(work) /\ r # Head(work) /\ cmds'[r] = cmds[r])
    PROVE  Calm'
  <1>0. cmdq \in Seq(Commands) /\ Dump(NoReq) \in Commands /\ Dump(NoReq) # Trigger
    BY CommandFacts DEF TypeOK
  <1>1. \A x \in Reqs : Dump(x) # Dump(NoReq)
    BY CommandFacts, NoReqAssumption
  <1>2. OneTrigger /\ OwnScan /\ Refused /\ WaitingHaveCommands
    BY DEF Calm
  <1>3. /\ ToSet(cmdq') \in {ToSet(cmdq), ToSet(cmdq) \cup {Dump(NoReq)}}
        /\ Once(cmdq', {Trigger})
    <2>1. Once(cmdq, {Trigger})
      BY <1>2 DEF OneTrigger
    <2>2. CASE cmdq' = cmdq
      BY <2>1, <2>2
    <2>3. CASE cmdq' = Append(cmdq, Dump(NoReq))
      <3>1. ToSet(cmdq') = ToSet(cmdq) \cup {Dump(NoReq)}
        BY <1>0, <2>3, SetOfAppend
      <3>2. Once(cmdq', {Trigger})
        BY <1>0, <2>1, <2>3, OnceAppend
      <3> QED
        BY <3>1, <3>2
    <2> QED
      BY <2>2, <2>3
  <1>4. TriggerInFlight' = TriggerInFlight /\ (Trigger \in ToSet(cmdq') <=> Trigger \in ToSet(cmdq))
    BY <1>0, <1>3 DEF TriggerInFlight
  <1>5. \A sr \in Reqs : DumpInFlight(sr)' <=> DumpInFlight(sr)
    BY <1>1, <1>3 DEF DumpInFlight
  <1>6. EndAhead' = EndAhead
    BY DEF EndAhead
  <1>7. OneTrigger'
    BY <1>2, <1>3, <1>4, <1>6 DEF OneTrigger
  <1>8. OwnScan'
    <2>1. start_cmd' \/ triggered' => Holder'
      BY <1>2 DEF OwnScan
    <2>2. started' /\ "ext_scan" \in env' => Holder'
      BY <1>2 DEF OwnScan
    <2>3. \A sr \in Reqs : DumpInFlight(sr)' => Holder' /\ ~triggered' /\ ~start_cmd'
      BY <1>2, <1>5 DEF OwnScan
    <2>4. Holder' => work_started'
      BY <1>2 DEF OwnScan
    <2>5. ASSUME Holder', cmds'[Head(work')] = 0 PROVE triggered' \/ DumpInFlight(Head(work))'
      <3>1. Holder /\ Head(work') = Head(work) /\ cmds[Head(work)] = 0
        BY <2>5
      <3>2. Head(work) \in Reqs
        BY <3>1, SetOfSeq DEF Holder, TypeOK
      <3>3. triggered \/ DumpInFlight(Head(work))
        BY <1>2, <3>1 DEF OwnScan
      <3>4. ASSUME NEW sr \in Reqs, sr = Head(work), DumpInFlight(sr) PROVE DumpInFlight(Head(work))'
        <4>1. DumpInFlight(sr)'
          BY <1>5, <3>4
        <4> QED
          BY <3>1, <3>4, <4>1 DEF DumpInFlight
      <3> QED
        BY <3>2, <3>3, <3>4
    <2>6. \A r \in Pending' : Head(work') = r
      BY <1>2 DEF OwnScan
    <2> QED
      BY <2>1, <2>2, <2>3, <2>4, <2>5, <2>6 DEF OwnScan
  <1>9. Refused'
    BY <1>2, <1>6 DEF Refused
  <1>10. WaitingHaveCommands'
    <2>1. Undisturbed' = Undisturbed
      BY DEF Undisturbed
    <2> QED
      BY <1>2, <2>1 DEF WaitingHaveCommands
  <1> QED
    BY <1>7, <1>8, <1>9, <1>10 DEF Calm

\* Steps after which nothing of a former holder is under way: the radio goes to the next
\* request, whose trigger may be sent at once.
LEMMA CalmGets ==
    ASSUME TypeOK, Calm, UNCHANGED <<running, triggered, kscan, env>>, ~triggered,
           NEW q \in Seq(Commands), Trigger \notin ToSet(q),
           \A sr \in Reqs : Dump(sr) \notin ToSet(q) /\ DumpDone(sr) \notin ToSet(evq'),
           ToSet(evq') \subseteq ToSet(evq), ToSet(evq') \cap Acks = {},
           \/ cmdq' = q /\ ~start_cmd'
           \/ cmdq' = Append(q, Trigger) /\ start_cmd' /\ ~running /\ Holder',
           started' => started /\ ~Holder,
           work_started' => Holder' \/ (work_started /\ ~Holder),
           Holder' => work_started' /\ cmds'[Head(work')] # 0,
           Pending' = {},
           WaitingHaveCommands'
    PROVE  Calm'
  <1>1. OneTrigger /\ OwnScan /\ Refused
    BY DEF Calm
  <1>2. /\ Trigger \in ToSet(cmdq') <=> start_cmd'
        /\ Once(cmdq', {Trigger})
        /\ \A sr \in Reqs : Dump(sr) \notin ToSet(cmdq')
    <2>0. \A sr \in Reqs : Dump(sr) # Trigger
      BY DEF Dump, Trigger
    <2>1. CASE cmdq' = q /\ ~start_cmd'
      <3>1. Once(q, {Trigger})
        BY DEF Once, ToSet
      <3> QED
        BY <2>1, <3>1
    <2>2. CASE cmdq' = Append(q, Trigger) /\ start_cmd'
      <3>1. Trigger \in Commands /\ ToSet(q) \cap {Trigger} = {}
        BY CommandFacts
      <3>2. ToSet(cmdq') = ToSet(q) \cup {Trigger}
        BY <2>2, <3>1, SetOfAppend
      <3>3. Once(cmdq', {Trigger})
        BY <2>2, <3>1, OnceAppend
      <3> QED
        BY <2>0, <2>2, <3>2, <3>3
    <2> QED
      BY <2>1, <2>2
  <1>3. Once(evq', Acks)
    BY DEF Once, ToSet
  <1>4. EndAhead' => EndAhead
    BY DEF EndAhead
  <1>5. OneTrigger'
    BY <1>2, <1>3 DEF OneTrigger, TriggerInFlight
  <1>6. \A sr \in Reqs : ~DumpInFlight(sr)'
    BY <1>2 DEF DumpInFlight
  <1>7. OwnScan'
    <2>1. start_cmd' \/ triggered' => Holder'
      OBVIOUS
    <2>2. started' /\ "ext_scan" \in env' => Holder'
      BY <1>1 DEF OwnScan
    <2> QED
      BY <1>6, <2>1, <2>2 DEF OwnScan
  <1>8. Refused'
    BY <1>1, <1>4, EventFacts DEF Refused
  <1> QED
    BY <1>5, <1>7, <1>8 DEF Calm

\* Frames of other kinds do not make a request pending.
LEMMA PendingStays ==
    ASSUME TypeOK,
           \/ calls' = calls
           \/ /\ calls # <<>> /\ calls' = Tail(calls)
              /\ \A r \in Reqs : Head(calls) # DoneFrame(r)
    PROVE  Pending' = Pending
  <1>1. CASE calls' = calls
    BY <1>1 DEF Pending
  <1>2. CASE /\ calls # <<>> /\ calls' = Tail(calls)
             /\ \A r \in Reqs : Head(calls) # DoneFrame(r)
    <2>1. ToSet(calls) = {Head(calls)} \cup ToSet(calls')
      BY <1>2, SetOfHeadTail DEF TypeOK
    <2> QED
      BY <1>2, <2>1 DEF Pending
  <1> QED
    BY <1>1, <1>2

\* Between two holders nothing is under way.
LEMMA NobodyHolds ==
    ASSUME TypeOK, Calm, ~Holder
    PROVE  /\ ~start_cmd /\ ~triggered /\ Trigger \notin ToSet(cmdq) /\ ToSet(evq) \cap Acks = {}
           /\ \A sr \in Reqs : Dump(sr) \notin ToSet(cmdq) /\ DumpDone(sr) \notin ToSet(evq)
  <1>1. ~start_cmd /\ ~triggered /\ \A sr \in Reqs : ~DumpInFlight(sr)
    BY DEF Calm, OwnScan
  <1>2. start_cmd <=> TriggerInFlight
    BY DEF Calm, OneTrigger
  <1> QED
    BY <1>1, <1>2 DEF TriggerInFlight, DumpInFlight

\* The radio work of the item that has the radio is done, and the next item gets it.
LEMMA CalmRelease ==
    ASSUME TypeOK, TypeOK', Linked', Calm, Undisturbed,
           UNCHANGED <<running, triggered, kscan, env>>, ~triggered,
           NEW item, NEW q, NEW sc, NEW ws, Releases(item, q, sc, ws), ~sc,
           ws => work_started /\ ~Holder, started' => started /\ ~Holder,
           work # <<>>, Head(work) = item, Trigger \notin ToSet(q),
           \A sr \in Reqs : Dump(sr) \notin ToSet(q) /\ DumpDone(sr) \notin ToSet(evq'),
           ToSet(evq') \subseteq ToSet(evq), ToSet(evq') \cap Acks = {},
           Pending' = {}
    PROVE  Calm'
  <1>1. /\ q \in Seq(Commands) /\ ToSet(work') = ToSet(work) \ {item}
        /\ \A x \in Reqs : x # item => cmds'[x] = cmds[x]
        /\ work' \in Seq(Reqs \cup {Other})
    BY ReleaseFacts
  <1>2. ToSet(requests') = ToSet(work') \ {Other} /\ ToSet(requests') \subseteq Reqs
    <2>1. requests' = Without(work', {Other} \cup Pending') /\ requests' \in Seq(Reqs)
      BY DEF Linked, TypeOK
    <2>2. ToSet(requests') = ToSet(work') \ ({Other} \cup Pending')
      BY <1>1, <2>1, WithoutLemma
    <2> QED
      BY <2>1, <2>2, SetOfSeq
  <1>3. Holder' <=> work' # <<>> /\ Head(work') \in Reqs
    <2>1. work' # <<>> => Head(work') \in ToSet(work') /\ Head(work') \in Reqs \cup {Other}
      BY <1>1, SetOfTail
    <2> QED
      BY <1>2, <2>1, ReqsAssumption DEF Holder
  <1>4. \A x \in Reqs \cap ToSet(work') : cmds'[x] > 0
    <2>1. \A x \in Reqs \cap ToSet(work) : x # Head(work) => cmds[x] > 0
      BY DEF Calm, WaitingHaveCommands
    <2> QED
      BY <1>1, <2>1
  <1>5. /\ \/ cmdq' = q /\ start_cmd' = sc
           \/ cmdq' = Append(q, Trigger) /\ start_cmd' /\ ~running /\ Holder'
        /\ Holder' => work_started'
        /\ ~Holder' => work_started' = ws
    BY <1>3, ReleaseRadio
  <1>6. Holder' => cmds'[Head(work')] # 0
    <2>1. Holder' => Head(work') \in Reqs \cap ToSet(work')
      BY <1>2 DEF Holder
    <2>2. \A x \in Reqs \cap ToSet(work') : cmds'[x] # 0
      BY <1>4
    <2> QED
      BY <2>1, <2>2
  <1>7. WaitingHaveCommands'
    BY <1>4 DEF WaitingHaveCommands
  <1> QED
    BY <1>1, <1>5, <1>6, <1>7, CalmGets

LEMMA CalmNewRequest ==
    ASSUME TypeOK, Linked, Undisturbed, Calm, NewRequest
    PROVE  Calm'
  <1>1. PICK r \in Reqs, n \in 1 .. MaxCmds :
            /\ ScanCommon(r, n)
            /\ \/ calls' = calls
               \/ calls # <<>> /\ Head(calls) = RetryFrame /\ calls' = Tail(calls)
    BY DEF NewRequest
  <1>2. /\ r \notin ToSet(work) /\ r \notin ToSet(requests)
        /\ requests' = Append(requests, r) /\ work' = Append(work, r) /\ cmds'[r] = n
        /\ \A x \in Reqs : x # r => cmds'[x] = cmds[x]
        /\ UNCHANGED <<running, triggered, started, evq, kscan, env>>
    BY <1>1, ScanCommonRadio
  <1>3. Pending' = Pending
    BY <1>1, PendingStays, FrameFacts
  <1>4. /\ requests \in Seq(Reqs) /\ work \in Seq(Reqs \cup {Other})
        /\ Pending \subseteq ToSet(work) /\ cmdq \in Seq(Commands)
    BY DEF TypeOK, Linked
  <1>5. ToSet(requests') = ToSet(requests) \cup {r} /\ ToSet(work') = ToSet(work) \cup {r}
    <2> DEFINE Items == Reqs \cup {Other}
    <2>1. work \in Seq(Items) /\ r \in Items
      BY <1>4
    <2> HIDE DEF Items
    <2>2. ToSet(work') = ToSet(work) \cup {r}
      BY <1>2, <2>1, SetOfAppend
    <2>3. ToSet(requests') = ToSet(requests) \cup {r}
      BY <1>2, <1>4, SetOfAppend
    <2> QED
      BY <2>2, <2>3
  <1>6. n > 0 /\ n # 0
    BY BoundsAssumption
  <1>7. CASE work # <<>>
    <2>1. UNCHANGED <<cmdq, start_cmd, work_started>>
      BY <1>1, <1>7, ScanCommonRadio
    <2>2. Head(work') = Head(work) /\ work' # <<>> /\ Head(work) \in ToSet(work)
      BY <1>2, <1>4, <1>7, SetOfTail
    <2>3. Holder' <=> Holder
      BY <1>2, <1>5, <1>7, <2>2 DEF Holder
    <2>4. \A x \in Reqs \cap ToSet(work') : x # Head(work') =>
               cmds'[x] > 0 \/ (x \in ToSet(work) /\ x # Head(work) /\ cmds'[x] = cmds[x])
      BY <1>2, <1>5, <1>6, <2>2
    <2>5. Holder => cmds'[Head(work)] = cmds[Head(work)]
      BY <1>2, <1>4, SetOfSeq, <2>2 DEF Holder
    <2> QED
      BY <1>2, <1>3, <2>1, <2>2, <2>3, <2>4, <2>5, CalmStays
  <1>8. CASE work = <<>>
    <2>1. ~Holder /\ ToSet(work) = {}
      BY <1>8, SetOfEmpty DEF Holder
    <2>2. /\ ~start_cmd /\ ~triggered /\ Trigger \notin ToSet(cmdq) /\ ToSet(evq) \cap Acks = {}
          /\ \A sr \in Reqs : Dump(sr) \notin ToSet(cmdq) /\ DumpDone(sr) \notin ToSet(evq)
      BY <2>1, NobodyHolds
    <2>3. /\ work_started'
          /\ \/ cmdq' = cmdq /\ start_cmd' = start_cmd
             \/ cmdq' = Append(cmdq, Trigger) /\ start_cmd' /\ ~running
      BY <1>1, <1>8, ScanCommonRadio
    <2>4. work' # <<>> /\ Head(work') = r
      BY <1>2, <1>8
    <2>5. Holder'
      BY <1>5, <2>4 DEF Holder
    <2>6. WaitingHaveCommands'
      BY <1>5, <2>1, <2>4 DEF WaitingHaveCommands
    <2>7. Pending' = {}
      BY <1>3, <1>4, <2>1
    <2> QED
      BY <1>2, <1>4, <1>6, <2>1, <2>2, <2>3, <2>4, <2>5, <2>6, <2>7, CalmGets
  <1> QED
    BY <1>7, <1>8

LEMMA CalmReturnDone ==
    ASSUME TypeOK, TypeOK', Linked, Linked', Undisturbed, Calm, NEW r \in Reqs, ReturnDone(r)
    PROVE  Calm'
  <1>1. /\ calls # <<>> /\ Head(calls) = DoneFrame(r) /\ calls' = Tail(calls)
        /\ UNCHANGED <<running, triggered, started, evq, kscan, env>>
    BY DEF ReturnDone
  <1>2. Releases(r, cmdq, start_cmd, work_started)
    BY ReleaseActions
  <1>3. ToSet(calls) = {Head(calls)} \cup ToSet(calls')
    BY <1>1, SetOfHeadTail DEF TypeOK
  <1>4. r \in Pending /\ Pending' \subseteq Pending
    BY <1>1, <1>3 DEF Pending
  <1>5. \A x \in Pending : Head(work) = x
    BY DEF Calm, OwnScan
  <1>6. work # <<>> /\ Head(work) = r /\ r \notin ToSet(requests)
    <2>1. Pending \subseteq ToSet(work) /\ ToSet(requests) = ToSet(work) \ ({Other} \cup Pending)
      BY LinkedSets DEF Linked
    <2>2. ToSet(work) # {}
      BY <1>4, <2>1
    <2> QED
      BY <1>4, <1>5, <2>1, <2>2, SetOfEmpty
  <1>7. ~Holder
    BY <1>6 DEF Holder
  <1>8. Pending' = {}
    <2>1. Pending' \subseteq ToSet(work')
      BY DEF Linked
    <2>2. r \notin ToSet(work')
      BY <1>2, ReleaseFacts
    <2> QED
      BY <1>4, <1>5, <1>6, <2>1, <2>2
  <1>9. /\ ~start_cmd /\ ~triggered /\ Trigger \notin ToSet(cmdq) /\ ToSet(evq) \cap Acks = {}
        /\ \A sr \in Reqs : Dump(sr) \notin ToSet(cmdq) /\ DumpDone(sr) \notin ToSet(evq)
    BY <1>7, NobodyHolds
  <1> QED
    BY <1>1, <1>2, <1>6, <1>7, <1>8, <1>9, CalmRelease

LEMMA CalmOther ==
    ASSUME TypeOK, TypeOK', Linked, Linked', Undisturbed, Calm, OtherInsert \/ OtherDone
    PROVE  Calm'
  <1>1. UNCHANGED <<running, triggered, started, evq, kscan, env, requests, calls>>
    BY DEF OtherInsert, OtherDone, scVars, reqVars
  <1>2. Pending' = Pending
    BY <1>1 DEF Pending
  <1>3. /\ Pending \subseteq ToSet(work) /\ Pending \subseteq Reqs
        /\ ToSet(requests) \subseteq Reqs /\ ToSet(requests) \subseteq ToSet(work)
        /\ work \in Seq(Reqs \cup {Other}) /\ Other \notin Reqs
    BY LinkedSets, ReqsAssumption DEF Linked
  <1>4. CASE OtherInsert
    <2>1. /\ UNCHANGED <<start_cmd, work_started, cmdq, cmds>>
          /\ work' = IF work = <<>> THEN <<Other>> ELSE InsertAt(work, 2, Other)
      BY <1>4 DEF OtherInsert, scVars, reqVars
    <2>2. CASE work = <<>>
      <3>1. ToSet(work) = {} /\ Pending = {} /\ ~Holder
        BY <1>3, <2>2, SetOfEmpty DEF Holder
      <3>2. work' = Append(<<>>, Other) /\ Head(work') = Other
        BY <2>1, <2>2
      <3>3. ToSet(work') = {Other}
        BY <3>2, SetOfOne
      <3>4. ~Holder'
        BY <1>1, <1>3, <3>2 DEF Holder
      <3>5. Reqs \cap ToSet(work') = {}
        BY <1>3, <3>3
      <3> QED
        BY <1>1, <1>2, <2>1, <3>1, <3>4, <3>5, CalmStays
    <2>3. CASE work # <<>>
      <3>1. Other \in Reqs \cup {Other} /\ 2 \in 1 .. Len(work) + 1
        BY <1>3, <2>3
      <3>2. /\ ToSet(work') = ToSet(work) \cup {Other} /\ work' # <<>>
            /\ Head(work') = Head(work)
        <4> DEFINE Items == Reqs \cup {Other}
        <4>1. work \in Seq(Items) /\ Other \in Items
          BY <1>3
        <4> HIDE DEF Items
        <4> QED
          BY <2>1, <2>3, <3>1, <4>1, InsertAtElements
      <3>3. Holder' <=> Holder
        BY <1>1, <2>3, <3>2 DEF Holder
      <3>4. \A x \in Reqs \cap ToSet(work') : x \in ToSet(work)
        BY <1>3, <3>2
      <3> QED
        BY <1>1, <1>2, <2>1, <3>2, <3>3, <3>4, CalmStays
    <2> QED
      BY <2>2, <2>3
  <1>5. CASE OtherDone
    <2>1. Releases(Other, cmdq, start_cmd, work_started)
      BY <1>5, ReleaseActions
    <2>2. CASE work # <<>> /\ Head(work) = Other
      <3>1. ~Holder
        BY <1>3, <2>2 DEF Holder
      <3>2. /\ ~start_cmd /\ ~triggered /\ Trigger \notin ToSet(cmdq) /\ ToSet(evq) \cap Acks = {}
            /\ \A sr \in Reqs : Dump(sr) \notin ToSet(cmdq) /\ DumpDone(sr) \notin ToSet(evq)
        BY <3>1, NobodyHolds
      <3>3. Pending' = {}
        BY <1>2, <1>3, <2>2 DEF Calm, OwnScan
      <3> QED
        BY <1>1, <2>1, <2>2, <3>1, <3>2, <3>3, CalmRelease
    <2>3. CASE ~(work # <<>> /\ Head(work) = Other)
      <3>1. /\ cmdq' = cmdq /\ start_cmd' = start_cmd /\ work_started' = work_started
            /\ work # <<>> => work' # <<>> /\ Head(work') = Head(work)
            /\ work = <<>> => work' = <<>>
        BY <2>1, <2>3, ReleaseRadio
      <3>2. ToSet(work') = ToSet(work) \ {Other} /\ \A x \in Reqs : cmds'[x] = cmds[x]
        <4>1. /\ ToSet(work') = ToSet(work) \ {Other}
              /\ \A x \in Reqs : x # Other => cmds'[x] = cmds[x]
          BY <2>1, ReleaseFacts
        <4> QED
          BY <1>3, <4>1
      <3>3. Holder' <=> Holder
        BY <1>1, <3>1 DEF Holder
      <3>4. Holder => Head(work') = Head(work) /\ cmds'[Head(work)] = cmds[Head(work)]
        BY <1>3, <3>1, <3>2 DEF Holder
      <3>5. Pending' # {} => Pending' = Pending /\ Head(work') = Head(work)
        <4>1. Pending # {} => work # <<>>
          BY <1>3, SetOfEmpty
        <4> QED
          BY <1>2, <3>1, <4>1
      <3>6. \A x \in Reqs \cap ToSet(work') : x # Head(work') =>
               x \in ToSet(work) /\ x # Head(work) /\ cmds'[x] = cmds[x]
        <4>1. ToSet(work') # {} => work # <<>>
          BY <3>1, SetOfEmpty
        <4> QED
          BY <3>1, <3>2, <4>1
      <3> QED
        BY <1>1, <3>1, <3>3, <3>4, <3>5, <3>6, CalmStays
    <2> QED
      BY <2>2, <2>3
  <1> QED
    BY <1>4, <1>5

\* Cancelling the first request: a trigger of it is not sent or its answer not heard.
LEMMA CalmCancelFirst ==
    ASSUME TypeOK, TypeOK', Linked, Linked', Undisturbed, DumpNext, Calm,
           NEW r \in Reqs, CancelFirst(r), UNCHANGED <<kscan, env>>
    PROVE  Calm'
  <1>1. /\ IsHead(r) /\ ~triggered /\ ~get_scan_cmd /\ requests' = Without(requests, {r})
        /\ ~started' /\ evq' = TriggerUnheard
        /\ UNCHANGED <<running, triggered, calls>>
    BY DEF CancelFirst
  <1>2. Releases(r, TriggerUnsent, FALSE, FALSE)
    BY ReleaseActions
  <1>3. Pending' = Pending /\ Pending \subseteq ToSet(work) /\ r \in ToSet(requests)
    <2>1. requests # <<>> /\ Head(requests) = r
      BY <1>1 DEF IsHead
    <2> QED
      BY <1>1, <2>1, FirstRequest DEF Pending, Linked
  <1>4. OneTrigger /\ OwnScan
    BY DEF Calm
  <1>5. CASE Holder
    <2>1. Head(work) = r /\ work # <<>> /\ Head(work) \notin Pending
      BY <1>1, <1>5, HolderFacts DEF IsHead
    <2>2. Pending' = {}
      BY <1>3, <1>4, <2>1 DEF OwnScan
    <2>3. ToSet(TriggerUnsent) \subseteq ToSet(cmdq) /\ ToSet(evq') \subseteq ToSet(evq)
      BY <1>1, CancelledFacts
    <2>4. \A sr \in Reqs : Dump(sr) \notin ToSet(TriggerUnsent) /\ DumpDone(sr) \notin ToSet(evq')
      <3>1. \A sr \in Reqs : ~DumpInFlight(sr)
        BY <1>1 DEF DumpNext
      <3> QED
        BY <2>3, <3>1 DEF DumpInFlight
    <2>5. cmdq \in Seq(Commands) /\ evq \in Seq(Events)
      BY DEF TypeOK
    <2>6. Trigger \notin ToSet(TriggerUnsent) /\ ToSet(evq') \cap Acks = {}
      <3>1. CASE ~start_cmd
        <4>1. ~TriggerInFlight
          BY <1>4, <3>1 DEF OneTrigger
        <4> QED
          BY <2>3, <4>1 DEF TriggerInFlight
      <3>2. CASE start_cmd
        <4>1. /\ Once(cmdq, {Trigger}) /\ Once(evq, Acks)
              /\ Trigger \in ToSet(cmdq) => ToSet(evq) \cap Acks = {}
          BY <1>4 DEF OneTrigger
        <4>2. TriggerUnsent = DropLast(cmdq, {Trigger})
          BY <3>2 DEF TriggerUnsent
        <4>3. ToSet(TriggerUnsent) \cap {Trigger} = {}
          BY <2>5, <4>1, <4>2, DropLastLemma
        <4>4. CASE Trigger \in ToSet(cmdq)
          BY <2>3, <4>1, <4>3, <4>4
        <4>5. CASE Trigger \notin ToSet(cmdq)
          <5>1. evq' = DropLast(evq, Acks)
            BY <1>1, <3>2, <4>5 DEF TriggerUnheard
          <5>2. ToSet(evq') \cap Acks = {}
            BY <2>5, <4>1, <5>1, DropLastLemma
          <5> QED
            BY <4>3, <5>2
        <4> QED
          BY <4>4, <4>5
      <3> QED
        BY <3>1, <3>2
    <2> QED
      BY <1>1, <1>2, <2>1, <2>2, <2>3, <2>4, <2>6, CalmRelease
  <1>6. CASE ~Holder
    <2>1. ~start_cmd
      BY <1>6, NobodyHolds
    <2>2. TriggerUnsent = cmdq /\ TriggerUnheard = evq
      BY <2>1 DEF TriggerUnsent, TriggerUnheard
    <2>3. ~(work # <<>> /\ Head(work) = r)
      BY <1>3, <1>6 DEF Holder
    <2>4. /\ cmdq' = TriggerUnsent /\ start_cmd' = FALSE /\ work_started' = FALSE
          /\ work # <<>> => work' # <<>> /\ Head(work') = Head(work)
          /\ work = <<>> => work' = <<>>
      BY <1>2, <2>3, ReleaseRadio
    <2>5. /\ ToSet(work') = ToSet(work) \ {r}
          /\ \A x \in Reqs : x # r => cmds'[x] = cmds[x]
      BY <1>2, ReleaseFacts
    <2>6. ~Holder'
      <3>1. ToSet(requests') = ToSet(requests) \ {r}
        BY <1>1, WithoutLemma DEF TypeOK
      <3> QED
        BY <1>6, <2>4, <3>1 DEF Holder
    <2>7. Pending' # {} => Pending' = Pending /\ Head(work') = Head(work)
      <3>1. Pending # {} => work # <<>>
        BY <1>3, SetOfEmpty
      <3> QED
        BY <1>3, <2>4, <3>1
    <2>8. \A x \in Reqs \cap ToSet(work') : x # Head(work') =>
               x \in ToSet(work) /\ x # Head(work) /\ cmds'[x] = cmds[x]
      <3>1. ToSet(work') # {} => work # <<>>
        BY <2>4, SetOfEmpty
      <3> QED
        BY <2>4, <2>5, <3>1
    <2>9. start_cmd' = start_cmd /\ evq' = evq /\ cmdq' = cmdq
      <3>1. start_cmd = FALSE
        BY <2>1 DEF TypeOK
      <3> QED
        BY <1>1, <2>2, <2>4, <3>1
    <2> QED
      BY <1>1, <1>6, <2>4, <2>6, <2>7, <2>8, <2>9, CalmStays
  <1> QED
    BY <1>5, <1>6

LEMMA CalmCancelWaiting ==
    ASSUME TypeOK, Linked, Calm, NEW r \in Reqs, CancelWaiting(r), UNCHANGED <<kscan, env>>
    PROVE  Calm'
  <1>1. /\ Contains(requests, r) /\ ~IsHead(r) /\ requests' = Without(requests, {r})
        /\ UNCHANGED <<running, triggered, started, calls, evq>>
    BY DEF CancelWaiting
  <1>2. Releases(r, cmdq, start_cmd, work_started)
    BY ReleaseActions
  <1>3. Pending' = Pending /\ Pending \subseteq ToSet(work)
    BY <1>1 DEF Pending, Linked
  <1>4. ~(work # <<>> /\ Head(work) = r)
    <2>1. r \in ToSet(requests)
      BY <1>1, ContainsLemma DEF TypeOK
    <2> QED
      BY <1>1, <2>1, LinkedHead DEF IsHead
  <1>5. /\ cmdq' = cmdq /\ start_cmd' = start_cmd /\ work_started' = work_started
        /\ work # <<>> => work' # <<>> /\ Head(work') = Head(work)
        /\ work = <<>> => work' = <<>>
    BY <1>2, <1>4, ReleaseRadio
  <1>6. /\ ToSet(work') = ToSet(work) \ {r}
        /\ \A x \in Reqs : x # r => cmds'[x] = cmds[x]
    BY <1>2, ReleaseFacts
  <1>7. Holder' <=> Holder
    <2>1. ToSet(requests') = ToSet(requests) \ {r}
      BY <1>1, WithoutLemma DEF TypeOK
    <2> QED
      BY <1>4, <1>5, <2>1 DEF Holder
  <1>8. Holder => Head(work') = Head(work) /\ cmds'[Head(work)] = cmds[Head(work)]
    <2>1. Holder => Head(work) \in Reqs /\ work # <<>>
      BY HolderFacts
    <2> QED
      BY <1>4, <1>5, <1>6, <2>1
  <1>9. Pending' # {} => Pending' = Pending /\ Head(work') = Head(work)
    <2>1. Pending # {} => work # <<>>
      BY <1>3, SetOfEmpty
    <2> QED
      BY <1>3, <1>5, <2>1
  <1>10. \A x \in Reqs \cap ToSet(work') : x # Head(work') =>
             x \in ToSet(work) /\ x # Head(work) /\ cmds'[x] = cmds[x]
    <2>1. ToSet(work') # {} => work # <<>>
      BY <1>5, SetOfEmpty
    <2> QED
      BY <1>5, <1>6, <2>1
  <1> QED
    BY <1>1, <1>5, <1>7, <1>8, <1>9, <1>10, CalmStays

\* In an undisturbed environment every step keeps the trigger, the scan and the GET_SCAN
\* with the request that holds the radio.
LEMMA CalmStep ==
    ASSUME TypeOK, TypeOK', Linked, Linked', Explained, Undisturbed, EndsFirst, DumpNext, Calm,
           [Next]_vars
    PROVE  Calm'
  <1>1. CASE UNCHANGED vars
    <2>1. /\ UNCHANGED <<requests, cmds, running, start_cmd, triggered, started, work_started>>
          /\ UNCHANGED <<work, calls, cmdq, evq, kscan, env>>
      BY <1>1 DEF vars, reqVars, scVars
    <2>2. Holder' = Holder /\ Pending' = Pending
      BY <2>1 DEF Holder, Pending
    <2> QED
      BY <2>1, <2>2, CalmStays
  <1>2. CASE Kernel \/ ExternalStart
    BY <1>2, CalmKernel
  <1>3. CASE Handlers
    BY <1>3, CalmHandlers
  <1>4. CASE SameRadio
    <2>1. /\ UNCHANGED <<requests, cmds, running, start_cmd, triggered, started, work_started>>
          /\ UNCHANGED <<work, cmdq, evq, kscan, env>>
      BY <1>4 DEF SameRadio, scVars
    <2>2. Pending' = Pending
      BY <1>4, PendingStays, FrameFacts DEF SameRadio
    <2>3. Holder' = Holder
      BY <2>1 DEF Holder
    <2> QED
      BY <2>1, <2>2, <2>3, CalmStays
  <1>5. CASE NewRequest
    BY <1>5, CalmNewRequest
  <1>6. CASE Cancelled
    <2>1. UNCHANGED <<kscan, env>> /\ \E r \in Reqs : CancelFirst(r) \/ CancelWaiting(r)
      BY <1>6, UndisturbedQuiet DEF Cancelled
    <2> QED
      BY <2>1, CalmCancelFirst, CalmCancelWaiting
  <1>7. CASE \E r \in Reqs : ReturnDone(r) \/ ReturnCancel(r)
    <2>1. PICK r \in Reqs : ReturnDone(r) \/ ReturnCancel(r)
      BY <1>7
    <2>2. ~ReturnCancel(r)
      <3>1. ASSUME ReturnCancel(r) PROVE FALSE
        <4>1. calls # <<>> /\ Head(calls) = CancelFrame(r)
          BY <3>1 DEF ReturnCancel
        <4>2. CancelFrame(r) \in ToSet(calls)
          BY <4>1, SetOfTail DEF TypeOK
        <4> QED
          BY <4>2, UndisturbedQuiet DEF Explained
      <3> QED
        BY <3>1
    <2> QED
      BY <2>1, <2>2, CalmReturnDone
  <1>8. CASE ReturnGetScan
    <2>1. /\ UNCHANGED <<requests, cmds, running, start_cmd, triggered, started, work_started>>
          /\ UNCHANGED <<work, evq, kscan, env>>
          /\ calls # <<>> /\ Head(calls) = GetScanFrame /\ calls' = Tail(calls)
          /\ cmdq' = Append(cmdq, Dump(NoReq))
      BY <1>8 DEF ReturnGetScan, reqVars
    <2>2. Pending' = Pending
      BY <2>1, PendingStays, FrameFacts
    <2>3. Holder' = Holder
      BY <2>1 DEF Holder
    <2> QED
      BY <2>1, <2>2, <2>3, CalmStays
  <1>9. CASE OtherInsert \/ OtherDone
    BY <1>9, CalmOther
  <1> QED
    BY <1>1, <1>2, <1>3, <1>4, <1>5, <1>6, <1>7, <1>8, <1>9, StepCases

\* What remains to be done of finished requests.
DoneFrames == {DoneFrame(r) : r \in Reqs}

\* The order of the calls is kept.
CallsKept ==
    \A x \in Reqs : NoneAfter(calls, {DoneFrame(x)}, DoneFrames) => NoneAfter(calls', {DoneFrame(x)}, DoneFrames)

\* Where the work of one request only is still to be done, nothing follows it.
LEMMA OneDone ==
    ASSUME NEW c \in Seq(Frames), NEW h,
           \A x \in Reqs : DoneFrame(x) \in ToSet(c) =>
               x = h /\ NoneAfter(c, {DoneFrame(x), CancelFrame(x)}, {DoneFrame(x)})
    PROVE  NoneAfter(c, {DoneFrame(h)}, DoneFrames)
  <1>1. SUFFICES ASSUME NEW i \in DOMAIN c, NEW j \in DOMAIN c, i < j, c[i] = DoneFrame(h),
                        c[j] \in DoneFrames
                 PROVE  FALSE
    BY <1>1 DEF NoneAfter
  <1>2. PICK x \in Reqs : c[j] = DoneFrame(x)
    BY <1>1 DEF DoneFrames
  <1>3. DoneFrame(x) \in ToSet(c)
    BY <1>2 DEF ToSet
  <1>4. x = h /\ NoneAfter(c, {DoneFrame(x), CancelFrame(x)}, {DoneFrame(x)})
    BY <1>3
  <1> QED
    BY <1>1, <1>2, <1>4 DEF NoneAfter

\* Without other radio work every item is a request.
LEMMA AloneWork ==
    ASSUME TypeOK, Linked, Explained, Alone
    PROVE  /\ Other \notin ToSet(work) /\ ToSet(work) \subseteq Reqs
           /\ ToSet(requests) = ToSet(work) \ Pending
           /\ work # <<>> => Head(work) \in ToSet(work) /\ Head(work) \in Reqs
           /\ "trigger_fails" \notin env
  <1>1. Other \notin ToSet(work) /\ "trigger_fails" \notin env
    BY DEF Explained, Alone
  <1>2. work \in Seq(Reqs \cup {Other}) /\ ToSet(requests) = ToSet(work) \ ({Other} \cup Pending)
    BY LinkedSets
  <1>3. ToSet(work) \subseteq Reqs
    BY <1>1, <1>2, SetOfSeq
  <1>4. work # <<>> => Head(work) \in ToSet(work)
    BY <1>2, SetOfTail
  <1> QED
    BY <1>1, <1>2, <1>3, <1>4

\* Calls that push or pop frames of another kind keep the order of the rest.
LEMMA CallsKeptLemma ==
    ASSUME TypeOK,
           \/ calls' = calls
           \/ calls # <<>> /\ calls' = Tail(calls)
           \/ \E e \in Frames : calls' = <<e>> \o calls /\ \A x \in Reqs : e # DoneFrame(x)
    PROVE  CallsKept
  <1>0. calls \in Seq(Frames)
    BY DEF TypeOK
  <1>1. SUFFICES ASSUME NEW x \in Reqs, NoneAfter(calls, {DoneFrame(x)}, DoneFrames)
                 PROVE  NoneAfter(calls', {DoneFrame(x)}, DoneFrames)
    BY <1>1 DEF CallsKept
  <1>2. CASE calls' = calls
    BY <1>1, <1>2
  <1>3. CASE calls # <<>> /\ calls' = Tail(calls)
    BY <1>0, <1>1, <1>3, NoneAfterTail
  <1>4. CASE \E e \in Frames : calls' = <<e>> \o calls /\ \A y \in Reqs : e # DoneFrame(y)
    <2>1. PICK e \in Frames : calls' = <<e>> \o calls /\ \A y \in Reqs : e # DoneFrame(y)
      BY <1>4
    <2>2. e \notin {DoneFrame(x)}
      BY <2>1
    <2> QED
      BY <1>0, <1>1, <2>1, <2>2, NoneAfterPush
  <1> QED
    BY <1>2, <1>3, <1>4

\* Steps that leave the radio to the request that has it.
LEMMA NestedStays ==
    ASSUME TypeOK, Linked, Explained, Alone, Nested, CallsKept, Pending' = Pending,
           work # <<>> => work' # <<>> /\ Head(work') = Head(work),
           work = <<>> => work' = <<>>,
           work_started' => work_started, Holder => Holder' \/ ~work_started'
    PROVE  Nested'
  <1>1. work_started' => Holder'
    BY DEF Nested
  <1>2. Pending # {} => work # <<>>
    BY SetOfEmpty DEF Linked
  <1>3. Pending' # {} => Head(work') \in Pending'
    BY <1>2 DEF Nested
  <1>4. ASSUME work' # <<>> PROVE NoneAfter(calls', {DoneFrame(Head(work'))}, DoneFrames)
    <2>1. work # <<>> /\ Head(work') = Head(work) /\ Head(work) \in Reqs
      BY <1>4, AloneWork
    <2>2. NoneAfter(calls, {DoneFrame(Head(work))}, DoneFrames)
      BY <2>1 DEF Nested, DoneFrames
    <2> QED
      BY <2>1, <2>2 DEF CallsKept
  <1> QED
    BY <1>1, <1>3, <1>4 DEF Nested, DoneFrames

\* Steps after which no finished request waits for its callback.
LEMMA NestedClear ==
    ASSUME TypeOK', Pending' = {}, work_started' => Holder'
    PROVE  Nested'
  <1>1. calls' \in Seq(Frames) /\ \A x \in Reqs : DoneFrame(x) \notin ToSet(calls')
    BY DEF TypeOK, Pending
  <1>2. \A h : NoneAfter(calls', {DoneFrame(h)}, DoneFrames)
    BY <1>1, OneDone
  <1> QED
    BY <1>2 DEF Nested, DoneFrames

\* The radio work of a request is done, whether it had the radio or not.
LEMMA NestedRelease ==
    ASSUME TypeOK, TypeOK', Linked, Linked', Explained, Alone, Nested, CallsKept,
           UNCHANGED env,
           NEW r \in Reqs, NEW q, NEW sc, NEW ws, Releases(r, q, sc, ws),
           ws => work_started, Pending' = Pending \ {r},
           \A x \in ToSet(requests) : x # r => x \in ToSet(requests'),
           work # <<>> /\ Head(work) = r => ~ws /\ Pending' = {}
    PROVE  Nested'
  <1>1. work' \in Seq(Reqs \cup {Other}) /\ ToSet(work') = ToSet(work) \ {r}
    BY ReleaseFacts
  <1>2. CASE work # <<>> /\ Head(work) = r
    <2>1. Pending' = {} /\ ~ws
      BY <1>2
    <2>2. ~(work' # <<>> /\ Head(work') \in Reqs) => work_started' = ws
      BY <1>2, ReleaseRadio
    <2>3. ToSet(requests') = ToSet(work') \ {Other}
      <3>1. requests' = Without(work', {Other} \cup Pending')
        BY DEF Linked
      <3>2. ToSet(requests') = ToSet(work') \ ({Other} \cup Pending')
        BY <1>1, <3>1, WithoutLemma
      <3> QED
        BY <2>1, <3>2
    <2>4. work' # <<>> /\ Head(work') \in Reqs => Holder'
      <3>1. work' # <<>> => Head(work') \in ToSet(work')
        BY <1>1, SetOfTail
      <3> QED
        BY <2>3, <3>1, ReqsAssumption DEF Holder
    <2> QED
      BY <2>1, <2>2, <2>4, NestedClear
  <1>3. CASE ~(work # <<>> /\ Head(work) = r)
    <2>1. /\ work_started' = ws
          /\ work # <<>> => work' # <<>> /\ Head(work') = Head(work)
          /\ work = <<>> => work' = <<>>
      BY <1>3, ReleaseRadio
    <2>2. work_started' => Holder'
      BY <1>3, <2>1 DEF Nested, Holder
    <2>3. Pending # {} => work # <<>>
      BY SetOfEmpty DEF Linked
    <2>4. Pending' # {} => Head(work') \in Pending'
      BY <1>3, <2>1, <2>3 DEF Nested
    <2>5. ASSUME work' # <<>> PROVE NoneAfter(calls', {DoneFrame(Head(work'))}, DoneFrames)
      <3>1. work # <<>> /\ Head(work') = Head(work) /\ Head(work) \in Reqs
        BY <2>1, <2>5, AloneWork
      <3>2. NoneAfter(calls, {DoneFrame(Head(work))}, DoneFrames)
        BY <3>1 DEF Nested, DoneFrames
      <3> QED
        BY <3>1, <3>2 DEF CallsKept
    <2> QED
      BY <2>2, <2>4, <2>5 DEF Nested, DoneFrames
  <1> QED
    BY <1>2, <1>3

LEMMA NestedHandlers ==
    ASSUME TypeOK, TypeOK', Linked, Linked', Explained, Alone, Nested, Handlers
    PROVE  Nested'
  <1>0. Handled /\ UNCHANGED work
    BY HandlerCases
  <1>1. calls = <<>> /\ evq # <<>> /\ Head(evq) \in ToSet(evq)
    <2>1. Handles(Events)
      BY <1>0, HandledMessage
    <2> QED
      BY <2>1, HandlesFacts DEF Handles
  <1>2. Pending = {}
    BY <1>1, SetOfEmpty DEF Pending
  <1>3. ~HandleFail
    BY <1>1, AloneWork DEF HandleFail, Handles, Explained
  <1>4. CASE UNCHANGED <<requests, work_started>>
    <2>1. Holder' = Holder /\ Pending' = {}
      BY <1>0, <1>4, HandledHolder
    <2> QED
      BY <1>4, <2>1, NestedClear DEF Nested
  <1>5. CASE requests # <<>> /\ requests' = Without(requests, {Head(requests)}) /\ ~work_started'
    <2>1. Head(requests) \in Reqs /\ Head(requests) \in ToSet(requests)
      BY <1>5, FirstRequest
    <2>2. ToSet(requests) = ToSet(work)
      BY <1>2, AloneWork
    <2>3. work # <<>>
      BY <2>1, <2>2, SetOfEmpty
    <2>4. Head(work) \in ToSet(requests)
      BY <2>2, <2>3, AloneWork
    <2>5. Holder
      BY <2>3, <2>4 DEF Holder
    <2>6. \A r \in Pending' : Head(work') = r
      BY <1>0, <1>5, <2>5, HandledHolder
    <2>7. Pending' # {} => Head(work') \in Pending'
      BY <2>6
    <2>8. NoneAfter(calls', {DoneFrame(Head(work'))}, DoneFrames)
      <3>1. calls' \in Seq(Frames)
        BY DEF TypeOK
      <3>2. \A x \in Reqs : DoneFrame(x) \in ToSet(calls') => x = Head(work')
        BY <2>6 DEF Pending
      <3>3. \A x \in Reqs : NoneAfter(calls', {DoneFrame(x), CancelFrame(x)}, {DoneFrame(x)})
        BY DEF Linked
      <3> QED
        BY <3>1, <3>2, <3>3, OneDone
    <2> QED
      BY <1>5, <2>7, <2>8 DEF Nested, DoneFrames
  <1>6. CASE HandleOk \/ HandleBusy \/ HandleStarted \/ HandleDump \/ HandleContinue \/ HandleEnd
    BY <1>4, <1>6 DEF HandleOk, HandleBusy, HandleStarted, HandleDump, HandleContinue, HandleEnd
  <1>7. CASE HandleFinish \/ HandleExhausted
    BY <1>5, <1>7 DEF HandleFinish, HandleExhausted, FirstLeaves
  <1>8. CASE HandleDumpDone
    BY <1>4, <1>5, <1>8 DEF HandleDumpDone, IsHead
  <1> QED
    BY <1>0, <1>3, <1>6, <1>7, <1>8 DEF Handled

LEMMA NestedNewRequest ==
    ASSUME TypeOK, TypeOK', Linked, Explained, Alone, Nested, NewRequest
    PROVE  Nested'
  <1>1. PICK r \in Reqs, n \in 1 .. MaxCmds :
            /\ ScanCommon(r, n)
            /\ \/ calls' = calls
               \/ calls # <<>> /\ Head(calls) = RetryFrame /\ calls' = Tail(calls)
    BY DEF NewRequest
  <1>2. requests' = Append(requests, r) /\ work' = Append(work, r)
    BY <1>1, ScanCommonRadio
  <1>3. Pending' = Pending
    BY <1>1, PendingStays, FrameFacts
  <1>4. ToSet(requests') = ToSet(requests) \cup {r}
    BY <1>2, SetOfAppend DEF TypeOK
  <1>5. CASE work # <<>>
    <2>1. UNCHANGED work_started
      BY <1>1, <1>5, ScanCommonRadio
    <2>2. work' # <<>> /\ Head(work') = Head(work)
      <3>1. work \in Seq(Reqs \cup {Other})
        BY DEF TypeOK
      <3> QED
        BY <1>2, <1>5, <3>1
    <2>3. Holder => Holder'
      BY <1>4, <2>2 DEF Holder
    <2>4. CallsKept
      BY <1>1, CallsKeptLemma
    <2> QED
      BY <1>3, <1>5, <2>1, <2>2, <2>3, <2>4, NestedStays
  <1>6. CASE work = <<>>
    <2>1. work' # <<>> /\ Head(work') = r
      BY <1>2, <1>6
    <2>2. Holder'
      BY <1>4, <2>1 DEF Holder
    <2>3. Pending' = {}
      BY <1>3, <1>6, SetOfEmpty DEF Linked
    <2> QED
      BY <2>2, <2>3, NestedClear
  <1> QED
    BY <1>5, <1>6

LEMMA NestedReturnDone ==
    ASSUME TypeOK, TypeOK', Linked, Linked', Explained, Alone, Nested, NEW r \in Reqs, ReturnDone(r)
    PROVE  Nested'
  <1>1. /\ calls # <<>> /\ Head(calls) = DoneFrame(r) /\ calls' = Tail(calls)
        /\ UNCHANGED <<requests, env>>
    BY DEF ReturnDone
  <1>2. Releases(r, cmdq, start_cmd, work_started)
    BY ReleaseActions
  <1>3. calls \in Seq(Frames) /\ ToSet(calls) = {Head(calls)} \cup ToSet(calls')
    BY <1>1, SetOfHeadTail DEF TypeOK
  <1>4. Pending' = Pending \ {r} /\ r \in Pending
    <2>1. NoneAfter(calls, {DoneFrame(r), CancelFrame(r)}, {DoneFrame(r)})
      BY DEF Linked
    <2>2. DoneFrame(r) \notin ToSet(calls')
      BY <1>1, <1>3, <2>1, NoneAfterTail
    <2>3. \A x \in Reqs : DoneFrame(x) = DoneFrame(r) => x = r
      BY FrameFacts
    <2> QED
      BY <1>1, <1>3, <2>2, <2>3 DEF Pending
  <1>5. CallsKept
    BY <1>1, CallsKeptLemma
  <1>6. ASSUME work # <<>>, Head(work) = r PROVE ~work_started /\ Pending' = {}
    <2>1. NoneAfter(calls, {DoneFrame(r)}, DoneFrames)
      BY <1>6 DEF Nested, DoneFrames
    <2>2. ToSet(calls') \cap DoneFrames = {}
      BY <1>1, <1>3, <2>1, NoneAfterTail
    <2>3. Pending' = {}
      BY <2>2 DEF Pending, DoneFrames
    <2>4. ~Holder
      BY <1>4, <1>6, AloneWork DEF Holder
    <2> QED
      BY <2>3, <2>4 DEF Nested
  <1> QED
    BY <1>1, <1>2, <1>4, <1>5, <1>6, NestedRelease

LEMMA NestedReturnCancel ==
    ASSUME TypeOK, TypeOK', Linked, Linked', Explained, Alone, Nested, NEW r \in Reqs, ReturnCancel(r)
    PROVE  Nested'
  <1>1. /\ calls # <<>> /\ Head(calls) = CancelFrame(r) /\ calls' = Tail(calls)
        /\ requests' = Without(requests, {r}) /\ UNCHANGED env
    BY DEF ReturnCancel
  <1>2. Releases(r, cmdq, FALSE, FALSE)
    BY ReleaseActions
  <1>3. Pending' = Pending
    BY <1>1, PendingStays, FrameFacts
  <1>4. r \notin Pending
    <2>1. NoneAfter(calls, {DoneFrame(r), CancelFrame(r)}, {DoneFrame(r)}) /\ calls \in Seq(Frames)
      BY DEF Linked, TypeOK
    <2>2. DoneFrame(r) \notin ToSet(calls')
      BY <1>1, <2>1, NoneAfterTail
    <2> QED
      BY <1>3, <2>2 DEF Pending
  <1>5. CallsKept
    BY <1>1, CallsKeptLemma
  <1>6. ToSet(requests') = ToSet(requests) \ {r}
    BY <1>1, WithoutLemma DEF TypeOK
  <1>7. work # <<>> /\ Head(work) = r => Pending' = {}
    BY <1>3, <1>4 DEF Nested
  <1>8. Pending' = Pending \ {r}
    BY <1>3, <1>4
  <1> QED
    BY <1>1, <1>2, <1>5, <1>6, <1>7, <1>8, NestedRelease

LEMMA NestedCancelled ==
    ASSUME TypeOK, TypeOK', Linked, Linked', Explained, Alone, Nested, NEW r \in Reqs,
           CancelFirst(r) \/ CancelWaiting(r), UNCHANGED env
    PROVE  Nested'
  <1>1. requests' = Without(requests, {r}) /\ UNCHANGED calls
    BY DEF CancelFirst, CancelWaiting
  <1>2. requests \in Seq(Reqs) /\ ToSet(requests') = ToSet(requests) \ {r}
    BY <1>1, WithoutLemma DEF TypeOK
  <1>3. r \in ToSet(requests)
    BY <1>2, FirstRequest, ContainsLemma DEF CancelFirst, CancelWaiting, IsHead
  <1>4. r \notin Pending
    BY <1>3, AloneWork
  <1>5. Pending' = Pending \ {r}
    <2>1. Pending' = Pending
      BY <1>1 DEF Pending
    <2> QED
      BY <1>4, <2>1
  <1>6. CallsKept
    BY <1>1 DEF CallsKept
  <1>7. work # <<>> /\ Head(work) = r => Pending' = {}
    BY <1>4, <1>5 DEF Nested
  <1>8. CASE CancelFirst(r)
    <2>1. Releases(r, TriggerUnsent, FALSE, FALSE)
      BY <1>8, ReleaseActions
    <2> QED
      BY <1>2, <1>5, <1>6, <1>7, <2>1, NestedRelease
  <1>9. CASE CancelWaiting(r)
    <2>1. Releases(r, cmdq, start_cmd, work_started)
      BY <1>9, ReleaseActions
    <2>2. ~(work # <<>> /\ Head(work) = r)
      BY <1>3, <1>9, LinkedHead DEF CancelWaiting, IsHead
    <2> QED
      BY <1>2, <1>5, <1>6, <2>1, <2>2, NestedRelease
  <1> QED
    BY <1>8, <1>9

\* Cancelling the GET_SCAN of the first request finishes it inside scan_cancel().
LEMMA NestedCancelDuringDump ==
    ASSUME TypeOK, TypeOK', Linked, Linked', Explained, Alone, Nested, NEW r \in Reqs,
           NEW armed, NEW rest \in Seq(Frames), rest = calls \/ rest = <<StopFrame>> \o calls,
           CancelDuringDump(r, armed, rest)
    PROVE  Nested'
  <1>0. calls \in Seq(Frames) /\ StopFrame \in Frames /\ CancelFrame(r) \in Frames /\ DoneFrame(r) \in Frames
    BY FrameFacts DEF TypeOK
  <1>1. IsHead(r) /\ UNCHANGED work
    BY DEF CancelDuringDump
  <1>2. r \in ToSet(requests) /\ r \notin Pending /\ Head(requests) = r /\ r \in ToSet(work)
    <2>1. requests # <<>> /\ Head(requests) = r
      BY <1>1 DEF IsHead
    <2> QED
      BY <2>1, FirstRequest, AloneWork
  <1>3. work # <<>>
    BY <1>2, SetOfEmpty
  <1> DEFINE inner == <<CancelFrame(r)>> \o rest
  <1>4. /\ inner \in Seq(Frames)
        /\ \A x \in Reqs : DoneFrame(x) \in ToSet(inner) <=> DoneFrame(x) \in ToSet(calls)
    <2>1. ToSet(rest) \in {ToSet(calls), {StopFrame} \cup ToSet(calls)}
      BY <1>0, SetOfPush
    <2>2. inner \in Seq(Frames) /\ ToSet(inner) = {CancelFrame(r)} \cup ToSet(rest)
      BY <1>0, SetOfPush
    <2>3. \A x \in Reqs : DoneFrame(x) # StopFrame /\ DoneFrame(x) # CancelFrame(r)
      BY FrameFacts
    <2> HIDE DEF inner
    <2> QED
      BY <2>1, <2>2, <2>3
  <1>5. ASSUME NEW x \in Reqs, NoneAfter(calls, {DoneFrame(x)}, DoneFrames)
        PROVE  NoneAfter(inner, {DoneFrame(x)}, DoneFrames)
    <2>1. StopFrame \notin {DoneFrame(x)} /\ CancelFrame(r) \notin {DoneFrame(x)}
      BY FrameFacts
    <2>2. NoneAfter(rest, {DoneFrame(x)}, DoneFrames)
      <3>1. CASE rest = calls
        BY <1>5, <3>1
      <3>2. CASE rest = <<StopFrame>> \o calls
        BY <1>0, <1>5, <2>1, <3>2, NoneAfterPush
      <3> QED
        BY <3>1, <3>2
    <2> QED
      BY <1>0, <2>1, <2>2, NoneAfterPush
  <1>6. CASE calls' = inner /\ UNCHANGED <<requests, work_started>>
    <2>1. Pending' = Pending
      BY <1>4, <1>6 DEF Pending
    <2>2. CallsKept
      BY <1>5, <1>6 DEF CallsKept
    <2>3. Holder' = Holder
      BY <1>1, <1>6 DEF Holder
    <2> QED
      BY <1>1, <1>6, <2>1, <2>2, <2>3, NestedStays
  <1>7. CASE Finish(r, "0", inner)
    <2> HIDE DEF inner
    <2>1. ~work_started' /\ calls' = <<DoneFrame(r)>> \o inner
      BY <1>7 DEF Finish, FinishedFlags
    <2>2. ToSet(calls') = {DoneFrame(r)} \cup ToSet(inner)
      BY <1>0, <1>4, <2>1, SetOfPush
    <2>3. Pending' = Pending \cup {r}
      <3>1. \A x \in Reqs : DoneFrame(x) = DoneFrame(r) => x = r
        BY FrameFacts
      <3> QED
        BY <1>4, <2>2, <3>1 DEF Pending
    <2>4. CASE Pending = {}
      <3>1. Head(work) \in ToSet(requests)
        BY <1>3, <2>4, AloneWork
      <3>2. Head(work) = r
        BY <1>2, <1>3, <3>1, LinkedHead
      <3>3. NoneAfter(calls', {DoneFrame(r)}, DoneFrames)
        <4>1. calls' \in Seq(Frames)
          BY DEF TypeOK
        <4>2. \A x \in Reqs : DoneFrame(x) \in ToSet(calls') => x = r
          BY <2>3, <2>4 DEF Pending
        <4>3. \A x \in Reqs : NoneAfter(calls', {DoneFrame(x), CancelFrame(x)}, {DoneFrame(x)})
          BY DEF Linked
        <4> QED
          BY <4>1, <4>2, <4>3, OneDone
      <3> QED
        BY <1>1, <2>1, <2>3, <3>2, <3>3 DEF Nested, DoneFrames
    <2>5. CASE Pending # {}
      <3>1. Head(work) \in Pending /\ NoneAfter(calls, {DoneFrame(Head(work))}, DoneFrames)
        BY <1>3, <2>5 DEF Nested, DoneFrames
      <3>2. Head(work) \in Reqs /\ Head(work) # r
        BY <1>2, <3>1 DEF Pending
      <3>3. NoneAfter(inner, {DoneFrame(Head(work))}, DoneFrames)
        BY <1>5, <3>1, <3>2
      <3>4. DoneFrame(r) \notin {DoneFrame(Head(work))}
        BY <3>2, FrameFacts
      <3>5. NoneAfter(calls', {DoneFrame(Head(work))}, DoneFrames)
        BY <1>0, <1>4, <2>1, <3>3, <3>4, NoneAfterPush
      <3> QED
        BY <1>1, <2>1, <2>3, <3>1, <3>5 DEF Nested, DoneFrames
    <2> QED
      BY <2>4, <2>5
  <1> QED
    BY <1>6, <1>7, NewestDump

\* Without other radio work and refused triggers work_started says who has the radio.
LEMMA NestedStep ==
    ASSUME TypeOK, TypeOK', Linked, Linked', Explained, Alone, Nested, [Next]_vars
    PROVE  Nested'
  <1>1. ASSUME UNCHANGED <<requests, work, work_started>>, CallsKept, Pending' = Pending PROVE Nested'
    <2>1. Holder' = Holder
      BY <1>1 DEF Holder
    <2> QED
      BY <1>1, <2>1, NestedStays
  <1>2. CASE UNCHANGED vars
    <2>1. UNCHANGED <<requests, work, work_started, calls>>
      BY <1>2 DEF vars, reqVars, scVars
    <2> QED
      BY <1>1, <2>1, CallsKeptLemma, PendingStays
  <1>3. CASE Kernel \/ ExternalStart
    <2>1. UNCHANGED <<requests, work, work_started, calls>>
      BY <1>3 DEF Kernel, KernelTrigger, KernelDump, ScanEnd, ExternalStart, KernelIdle, reqVars, scVars
    <2> QED
      BY <1>1, <2>1, CallsKeptLemma, PendingStays
  <1>4. CASE Handlers
    BY <1>4, NestedHandlers
  <1>5. CASE SameRadio
    <2>1. UNCHANGED <<requests, work, work_started>>
      BY <1>5 DEF SameRadio, scVars
    <2>2. CallsKept
      BY <1>5, CallsKeptLemma DEF SameRadio
    <2>3. Pending' = Pending
      BY <1>5, PendingStays, FrameFacts DEF SameRadio
    <2> QED
      BY <1>1, <2>1, <2>2, <2>3
  <1>6. CASE NewRequest
    BY <1>6, NestedNewRequest
  <1>7. CASE Cancelled
    <2>1. UNCHANGED env
      BY <1>7 DEF Cancelled
    <2>2. PICK r \in Reqs :
             \/ CancelFirst(r)
             \/ CancelWaiting(r)
             \/ \E armed \in BOOLEAN, rest \in Seq(Frames) :
                   /\ rest = calls \/ rest = <<StopFrame>> \o calls
                   /\ CancelDuringDump(r, armed, rest)
      BY <1>7 DEF Cancelled
    <2>3. CASE CancelFirst(r) \/ CancelWaiting(r)
      BY <2>1, <2>3, NestedCancelled
    <2>4. CASE \E armed \in BOOLEAN, rest \in Seq(Frames) :
                   /\ rest = calls \/ rest = <<StopFrame>> \o calls
                   /\ CancelDuringDump(r, armed, rest)
      BY <2>4, NestedCancelDuringDump
    <2> QED
      BY <2>2, <2>3, <2>4
  <1>8. CASE \E r \in Reqs : ReturnDone(r) \/ ReturnCancel(r)
    BY <1>8, NestedReturnDone, NestedReturnCancel
  <1>9. CASE ReturnGetScan
    <2>1. /\ UNCHANGED <<requests, work, work_started>>
          /\ calls # <<>> /\ Head(calls) = GetScanFrame /\ calls' = Tail(calls)
      BY <1>9 DEF ReturnGetScan, reqVars
    <2>2. CallsKept
      BY <2>1, CallsKeptLemma
    <2>3. Pending' = Pending
      BY <2>1, PendingStays, FrameFacts
    <2> QED
      BY <1>1, <2>1, <2>2, <2>3
  <1>10. ~OtherInsert /\ ~OtherDone
    <2>1. ~OtherInsert
      BY DEF OtherInsert, Alone
    <2>2. ~OtherDone
      <3>1. work \in Seq(Reqs \cup {Other}) /\ Other \notin ToSet(work)
        BY AloneWork DEF TypeOK
      <3> QED
        BY <3>1, ContainsLemma DEF OtherDone
    <2> QED
      BY <2>1, <2>2
  <1> QED
    BY <1>2, <1>3, <1>4, <1>5, <1>6, <1>7, <1>8, <1>9, <1>10, StepCases

-----------------------------------------------------------------------------
(* The theorems. *)

LEMMA EnvStep ==
    ASSUME TypeOK, [Next]_vars
    PROVE  UNCHANGED env
  <1>1. CASE UNCHANGED vars
    BY <1>1 DEF vars
  <1>2. CASE Kernel \/ ExternalStart
    BY <1>2 DEF Kernel, KernelTrigger, KernelDump, ScanEnd, ExternalStart, KernelIdle
  <1>3. CASE Handlers
    BY <1>3, HandlerCases
  <1>4. CASE SameRadio
    BY <1>4 DEF SameRadio
  <1>5. CASE NewRequest
    BY <1>5, ScanCommonRadio DEF NewRequest
  <1>6. CASE Cancelled
    BY <1>6 DEF Cancelled
  <1>7. CASE \E r \in Reqs : ReturnDone(r) \/ ReturnCancel(r)
    BY <1>7 DEF ReturnDone, ReturnCancel
  <1>8. CASE ReturnGetScan \/ OtherInsert \/ OtherDone
    BY <1>8 DEF ReturnGetScan, OtherInsert, OtherDone
  <1> QED
    BY <1>1, <1>2, <1>3, <1>4, <1>5, <1>6, <1>7, <1>8, StepCases

LEMMA InitFacts ==
    ASSUME Init
    PROVE  IInv
  <1>0. /\ requests = <<>> /\ work = <<>> /\ calls = <<>> /\ cmdq = <<>> /\ evq = <<>>
        /\ ~running /\ ~start_cmd /\ ~get_scan_cmd /\ ~triggered /\ ~started /\ ~work_started
        /\ told = [r \in Reqs |-> 1] /\ success = [r \in Reqs |-> FALSE]
        /\ kscan = "ext" => "ext_scan" \in env
    BY DEF Init
  <1>1. /\ ToSet(requests) = {} /\ ToSet(work) = {} /\ ToSet(calls) = {} /\ ToSet(cmdq) = {}
        /\ ToSet(evq) = {}
    BY <1>0, SetOfEmpty
  <1>2. TypeOK
    <2>1. \A S : <<>> \in Seq(S)
      OBVIOUS
    <2>2. requests \in Seq(Reqs) /\ work \in Seq(Reqs \cup {Other}) /\ calls \in Seq(Frames)
      BY <1>0, <2>1
    <2>3. cmdq \in Seq(Commands) /\ evq \in Seq(Events)
      BY <1>0, <2>1
    <2>4. cmds \in [Reqs -> 0 .. MaxCmds]
      BY BoundsAssumption DEF Init
    <2>5. told \in [Reqs -> Nat] /\ {success, scanned} \subseteq [Reqs -> BOOLEAN] /\ cb \in [Reqs -> BOOLEAN]
      BY DEF Init
    <2>6. {running, start_cmd, get_scan_cmd, triggered, started, work_started} \subseteq BOOLEAN
      BY DEF Init
    <2>7. {sp_on, sp_timer, sp_retry} \subseteq BOOLEAN /\ periodic \subseteq Reqs
      BY DEF Init
    <2>8. kscan \in {"idle", "own", "ext"}
      BY DEF Init
    <2> QED
      BY <2>2, <2>3, <2>4, <2>5, <2>6, <2>7, <2>8 DEF TypeOK
  <1>3. Pending = {} /\ ~Holder /\ ~TriggerInFlight /\ ~EndAhead /\ \A sr \in Reqs : ~DumpInFlight(sr)
    BY <1>0, <1>1 DEF Pending, Holder, TriggerInFlight, EndAhead, DumpInFlight
  <1>4. Linked
    <2>1. requests = Without(work, {Other} \cup Pending)
      BY <1>0, WithoutEmpty
    <2>2. \A r \in Reqs : NoneAfter(calls, {DoneFrame(r), CancelFrame(r)}, {DoneFrame(r)})
      BY <1>0, NoneAfterEmpty
    <2>3. ToldOnce
      <3>1. \A r \in Reqs : told[r] = 1
        BY <1>0
      <3> QED
        BY <3>1 DEF ToldOnce
    <2> QED
      BY <1>1, <1>3, <2>1, <2>2, <2>3 DEF Linked
  <1>5. Explained
    BY <1>0, <1>1 DEF Explained
  <1>6. EndsFirst /\ DumpNext
    BY <1>0, <1>1, <1>3, NoneAfterEmpty DEF EndsFirst, DumpNext
  <1>7. SuccessIsComplete
    BY <1>0 DEF SuccessIsComplete
  <1>8. OneTrigger /\ OwnScan /\ Refused /\ WaitingHaveCommands
    BY <1>0, <1>1, <1>3, OnceEmpty DEF OneTrigger, OwnScan, Refused, WaitingHaveCommands
  <1>9. Nested
    BY <1>0, <1>3 DEF Nested
  <1> QED
    BY <1>2, <1>4, <1>5, <1>6, <1>7, <1>8, <1>9 DEF IInv

LEMMA IInvStep ==
    ASSUME IInv, [Next]_vars
    PROVE  IInv'
  <1>1. TypeOK /\ Linked /\ Explained
    BY DEF IInv
  <1>2. TypeOK' /\ Linked' /\ Explained'
    BY <1>1, TypeStep, LinkedStep, ExplainedStep
  <1>3. UNCHANGED env
    BY <1>1, EnvStep
  <1>4. Quiet' = Quiet /\ Undisturbed' = Undisturbed /\ Alone' = Alone
    BY <1>3 DEF Quiet, Undisturbed, Alone
  <1>5. ASSUME Quiet PROVE EndsFirst' /\ DumpNext' /\ SuccessIsComplete'
    <2>1. EndsFirst /\ DumpNext /\ SuccessIsComplete
      BY <1>5 DEF IInv
    <2> QED
      BY <1>1, <1>5, <2>1, EndsFirstStep, DumpNextStep, SuccessStep
  <1>6. ASSUME Undisturbed PROVE Calm'
    <2>1. Quiet
      BY <1>6, UndisturbedQuiet
    <2>2. EndsFirst /\ DumpNext /\ Calm
      BY <1>6, <2>1 DEF IInv, Calm
    <2> QED
      BY <1>1, <1>2, <1>6, <2>2, CalmStep
  <1>7. ASSUME Alone PROVE Nested'
    BY <1>1, <1>2, <1>7, NestedStep DEF IInv
  <1> QED
    BY <1>2, <1>4, <1>5, <1>6, <1>7 DEF IInv, Calm

\* The first request holds the radio where no trigger is refused.
LEMMA StartedHolds ==
    ASSUME IInv, NoRefusal, work_started
    PROVE  Holder
  <1>1. CASE "other_work" \in env
    <2>1. Undisturbed /\ "trigger_fails" \notin env
      BY <1>1 DEF NoRefusal, Undisturbed
    <2> QED
      BY <2>1 DEF IInv, Refused
  <1>2. CASE "other_work" \notin env
    <2>1. Alone
      BY <1>2 DEF NoRefusal, Alone
    <2> QED
      BY <2>1 DEF IInv, Nested
  <1> QED
    BY <1>1, <1>2

LEMMA IInvImplies ==
    ASSUME IInv
    PROVE  Inv
  <1>1. TypeOK /\ Linked /\ Explained
    BY DEF IInv
  <1>2. calls = <<>> => Pending = {}
    BY SetOfEmpty DEF Pending
  <1>3. QueuesAgree
    <2>1. {Other} \cup {} = {Other}
      OBVIOUS
    <2> QED
      BY <1>1, <1>2, <2>1 DEF QueuesAgree, Linked
  <1>4. WorkStartedOwnsRadio
    <2>1. ASSUME NoRefusal, work_started PROVE requests # <<>> /\ Head(work) = Head(requests)
      BY <1>1, <2>1, StartedHolds, HolderFacts
    <2> QED
      BY <2>1 DEF WorkStartedOwnsRadio
  <1>5. ASSUME Undisturbed PROVE OneTrigger /\ OwnScan /\ WaitingHaveCommands
    BY <1>5 DEF IInv
  <1>6. TriggerOwnsRadio
    BY <1>5 DEF TriggerOwnsRadio, OwnScan
  <1>7. TriggerTracked
    BY <1>5 DEF TriggerTracked, OneTrigger, TriggerInFlight
  <1>8. WaitingHaveCommands
    BY <1>5 DEF WaitingHaveCommands
  <1>9. ToldOnce
    BY <1>1 DEF Linked
  <1> QED
    BY <1>1, <1>3, <1>4, <1>6, <1>7, <1>8, <1>9 DEF Inv

\* A handler that sends a trigger continues the first request, which scan_notify() takes
\* to hold the radio because work_started is set.
LEMMA ContinueFacts ==
    ASSUME IInv, NoRefusal, Handlers, cmdq' = Append(cmdq, Trigger)
    PROVE  work # <<>> /\ Head(work) = Head(requests)
  <1>1. TypeOK /\ Linked
    BY DEF IInv
  <1>2. Handled
    BY <1>1, HandlerCases
  <1>3. cmdq \in Seq(Commands) /\ Trigger \in Commands
    BY <1>1, CommandFacts DEF TypeOK
  <1>4. cmdq' # cmdq
    <2>1. Len(Append(cmdq, Trigger)) = Len(cmdq) + 1 /\ Len(cmdq) \in Nat
      BY <1>3
    <2>2. Len(cmdq) + 1 # Len(cmdq)
      BY <2>1
    <2> QED
      BY <2>1, <2>2
  <1>5. ASSUME HandleDump PROVE FALSE
    <2>1. requests # <<>> /\ cmdq' = Append(cmdq, Dump(Head(requests)))
      BY <1>5 DEF HandleDump
    <2>2. Dump(Head(requests)) \in Commands /\ Dump(Head(requests)) # Trigger
      BY <1>1, <2>1, FirstRequest, CommandFacts
    <2>3. /\ Append(cmdq, Trigger)[Len(cmdq) + 1] = Trigger
          /\ Append(cmdq, Dump(Head(requests)))[Len(cmdq) + 1] = Dump(Head(requests))
      BY <1>3, <2>2
    <2> QED
      BY <2>1, <2>2, <2>3
  <1>6. HandleContinue
    BY <1>2, <1>4, <1>5 DEF Handled, HandleOk, HandleBusy, HandleFail, HandleStarted,
       HandleFinish, HandleExhausted, HandleEnd, HandleDumpDone
  <1>7. work_started
    BY <1>6 DEF HandleContinue
  <1>8. Holder
    BY <1>7, StartedHolds
  <1> QED
    BY <1>1, <1>8, HolderFacts

\* The inductive invariant: it holds at the start and every step keeps it.
THEOREM ScanInductive == Spec => []IInv
  <1>1. Init => IInv
    BY InitFacts
  <1>2. IInv /\ [Next]_vars => IInv'
    BY IInvStep
  <1> QED
    BY <1>1, <1>2, PTL DEF Spec

\* Between two handlers the scan context is consistent: sc->requests and the radio work
\* queue agree, work_started, start_cmd_id and triggered belong to the request that holds
\* the radio, a waiting request has a command to send, and nobody is told a result twice.
THEOREM ScanConsistent == Spec => []Inv
  <1>1. IInv => Inv
    BY IInvImplies
  <1> QED
    BY <1>1, ScanInductive, PTL

\* get_scan_done() reports success only to a request all of whose scans have ended with
\* results, as long as no scan starts or ends while iwd reads the results.
THEOREM ScanSuccess == Spec => []SuccessIsComplete
  <1>1. IInv => SuccessIsComplete
    BY DEF IInv, SuccessIsComplete, Quiet
  <1> QED
    BY <1>1, ScanInductive, PTL

\* scan_notify() sends the next trigger only of a request that holds the radio.
THEOREM ScanContinues == Spec => ContinuesOwnRequest
  <1>1. IInv /\ [Next]_vars =>
           [NoRefusal /\ Handlers /\ cmdq' = Append(cmdq, Trigger)
              => work # <<>> /\ Head(work) = Head(requests)]_vars
    BY ContinueFacts
  <1> QED
    BY <1>1, ScanInductive, PTL DEF Spec, ContinuesOwnRequest

=============================================================================
