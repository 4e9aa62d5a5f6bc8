-------------------------------- MODULE Scan --------------------------------
(***************************************************************************)
(* The scan state machine of one wdev (src/src/scan.c): the request queue, *)
(* the commands sent to nl80211 and its notifications, cancellation and    *)
(* the periodic scan, on top of the wiphy's radio work queue.              *)
(*                                                                         *)
(* The kernel and iwd talk over one netlink socket, a FIFO in each         *)
(* direction: cmdq towards the kernel, evq back.  Somebody else (another   *)
(* program, the firmware) may scan on the same interface.                  *)
(*                                                                         *)
(* A request's callback runs client code, which may call back into scan.c  *)
(* before scan.c goes on.  calls is the stack of what remains to be done   *)
(* by the calls that are still active, innermost first.                    *)
(***************************************************************************)
EXTENDS Queues, FiniteSets

CONSTANTS
    Reqs,       \* struct scan_request objects, reused once they are freed
    Other,      \* a radio work item of another owner
    MaxCmds,    \* bound: TRIGGER_SCAN commands of one request
    MaxEvents,  \* bound: unread notifications of external scans
    Envs        \* the environments explored, sets of EnvEvents

\* trigger_fails: the kernel may refuse a scan with an error other than EBUSY;
\* ext_scan, ext_abort: others may start scans, and these may be aborted;
\* late_cancel: clients cancel a request while its results are being read;
\* other_work: other radio work competes; periodic: periodic scans are used;
\* slow_dump: scans may start and end while a GET_SCAN dump, which is many
\* messages long, is running; lagging: even while other commands and messages
\* wait in the socket, because iwd is slow.
EnvEvents == {"trigger_fails", "ext_scan", "ext_abort", "late_cancel",
              "other_work", "periodic", "slow_dump", "lagging"}

ASSUME ReqsAssumption == Other \notin Reqs /\ IsFiniteSet(Reqs)
ASSUME BoundsAssumption == MaxCmds \in Nat \ {0} /\ MaxEvents \in Nat
ASSUME EnvAssumption == Envs \subseteq SUBSET EnvEvents

VARIABLES
    requests,       \* sc->requests
    cmds,           \* length of sr->cmds
    cb,             \* sr->callback is set
    running,        \* sc->state # SCAN_STATE_NOT_RUNNING
    start_cmd,      \* sc->start_cmd_id # 0
    get_scan_cmd,   \* sc->get_scan_cmd_id # 0
    triggered,      \* sc->triggered
    started,        \* sc->started
    work_started,   \* sc->work_started
    work,           \* wiphy->work, the head holds the radio
    calls,          \* active calls, innermost first
    sp_on,          \* sc->sp.interval # 0, with sc->sp.callback
    sp_timer,       \* sc->sp.timeout is armed
    sp_retry,       \* sc->sp.retry
    periodic,       \* requests made by scan_periodic_queue()
    cmdq, evq,      \* the socket: commands to, messages from the kernel
    kscan,          \* the kernel's running scan: "idle", "own" or "ext"
    env,            \* what the environment may do, chosen at the start
    told,           \* history: calls of the request's callback, 1 once freed
    success,        \* history: it was told success, an error code of 0
    scanned         \* history: a scan of the request has ended with results

scVars == <<running, start_cmd, get_scan_cmd, triggered, started, work_started>>
reqVars == <<requests, cmds, cb>>
spVars == <<sp_on, sp_timer, sp_retry, periodic>>
histVars == <<told, success, scanned>>
vars == <<reqVars, scVars, work, calls, spVars, cmdq, evq, kscan, env, histVars>>

\* results->sr of an external scan, whose results no request waits for.
NoReq == "no request"
ASSUME NoReqAssumption == NoReq \notin Reqs

Trigger == [cmd |-> "trigger"]
Dump(sr) == [cmd |-> "dump", sr |-> sr]
Dumps == {Dump(sr) : sr \in Reqs \cup {NoReq}}
Commands == {Trigger} \cup Dumps

Ack(err) == [ev |-> "ack", err |-> err]
DumpDone(sr) == [ev |-> "dump_done", sr |-> sr]
Started == [ev |-> "trigger_scan"]
Results(flush) == [ev |-> "new_scan_results", flush |-> flush]
Aborted == [ev |-> "scan_aborted"]
Acks == {Ack(e) : e \in {"ok", "busy", "fail"}}
DumpsDone == {DumpDone(sr) : sr \in Reqs \cup {NoReq}}
Ends == {Results(f) : f \in BOOLEAN} \cup {Aborted}
Events == Acks \cup DumpsDone \cup Ends \cup {Started}

\* What remains of an active call: wiphy_radio_work_done() for a request whose
\* callback is running; the periodic retry at the end of
\* start_next_scan_request(); the GET_SCAN of scan_notify(); the rest of
\* scan_cancel(), and of scan_periodic_stop(), after it cancelled a GET_SCAN.
DoneFrame(r) == [fn |-> "work_done", req |-> r]
RetryFrame == [fn |-> "retry"]
GetScanFrame == [fn |-> "get_scan"]
CancelFrame(r) == [fn |-> "cancel", req |-> r]
StopFrame == [fn |-> "periodic_stop"]
Frames == {DoneFrame(r) : r \in Reqs} \cup {CancelFrame(r) : r \in Reqs}
              \cup {RetryFrame, GetScanFrame, StopFrame}

Init ==
    /\ requests = <<>>
    /\ cmds = [r \in Reqs |-> 0]
    /\ cb = [r \in Reqs |-> FALSE]
    /\ running = FALSE /\ start_cmd = FALSE /\ get_scan_cmd = FALSE
    /\ triggered = FALSE /\ started = FALSE /\ work_started = FALSE
    /\ work = <<>>
    /\ calls = <<>>
    /\ sp_on = FALSE /\ sp_timer = FALSE /\ sp_retry = FALSE /\ periodic = {}
    /\ cmdq = <<>> /\ evq = <<>>
    /\ env \in Envs
    /\ kscan = "idle" \/ (kscan = "ext" /\ "ext_scan" \in env)
    /\ told = [r \in Reqs |-> 1]
    /\ success = [r \in Reqs |-> FALSE]
    /\ scanned = [r \in Reqs |-> FALSE]

-----------------------------------------------------------------------------
(* Building blocks. *)

IsHead(r) == requests # <<>> /\ Head(requests) = r

\* start_next_scan_request() as the do_work() of the item that becomes the head
\* of the work queue w: the trigger is sent unless a scan is running, which it
\* then waits for.  q, sc and ws are the command queue and the flags before it.
\* Sending fails for a request without a command only, which WaitingHaveCommands
\* rules out: l_genl_family_send() itself needs nothing but the family.
RadioNext(w, q, sc, ws) ==
    LET starts == w # <<>> /\ Head(w) \in Reqs
        sends  == starts /\ ~running
    IN  /\ work_started' = (ws \/ starts)
        /\ start_cmd' = (sc \/ sends)
        /\ cmdq' = IF sends THEN Append(q, Trigger) ELSE q

\* wiphy_radio_work_done() for an item that may or may not hold the radio; a
\* request is freed by it (scan_request_free()) and not to be told any more.
WorkDone(item, q, sc, ws) ==
    /\ work' = Without(work, {item})
    /\ cmds' = [r \in Reqs |-> IF r = item THEN 0 ELSE cmds[r]]
    /\ cb' = [r \in Reqs |-> r # item /\ cb[r]]
    /\ told' = [r \in Reqs |-> IF r = item THEN 1 ELSE told[r]]
    /\ success' = [r \in Reqs |-> r # item /\ success[r]]
    /\ scanned' = [r \in Reqs |-> r # item /\ scanned[r]]
    /\ IF work # <<>> /\ Head(work) = item
         THEN RadioNext(Without(work, {item}), q, sc, ws)
         ELSE cmdq' = q /\ start_cmd' = sc /\ work_started' = ws

\* The request's callback is told the result; that of a periodic request arms
\* the timer (scan_periodic_notify(), scan_periodic_triggered()).  The callback
\* of a freed request would be called, too.
Tell(r, err) ==
    LET called == cb[r] \/ ~Contains(work, r)
    IN  /\ told' = [told EXCEPT ![r] = IF called THEN @ + 1 ELSE @]
        /\ success' = [success EXCEPT ![r] = @ \/ (called /\ err = "0")]
        /\ sp_timer' = (sp_timer \/ (called /\ r \in periodic))

\* Mutated form: work_started is not reset with the request.
WorkGoesOn(r) == started' = FALSE /\ UNCHANGED work_started

\* scan_finished() ends what the context knows of the request.
FinishedFlags(r) == started' = FALSE /\ work_started' = FALSE

\* Mutated form: the request stays in the queue until its radio work is done.
KeptInQueue(r) == requests

RequestsWithout(r) == Without(requests, {r})

\* scan_finished() for a request: it leaves the queue, its callback is called,
\* and then its radio work is done.
Finish(r, err, rest) ==
    /\ requests' = RequestsWithout(r)
    /\ FinishedFlags(r)
    /\ Tell(r, err)
    /\ calls' = <<DoneFrame(r)>> \o rest

\* scan_finished() for the first request, if there is one.
FinishFirst(err, rest) ==
    \/ requests # <<>> /\ Finish(Head(requests), err, rest)
    \/ /\ requests = <<>>
       /\ calls' = rest
       /\ UNCHANGED <<requests, started, work_started, told, success, sp_timer>>

\* scan_request_send_trigger() has a command to send.
HasCommand(r) == cmds[r] > 0

\* start_next_scan_request() called from scan_notify(): running is now FALSE.
\* A request with no command left is failed.
Continue(r, rest) ==
    \/ /\ HasCommand(r)
       /\ start_cmd' = TRUE
       /\ cmdq' = Append(cmdq, Trigger)
       /\ calls' = rest
       /\ UNCHANGED <<requests, started, work_started, told, success, sp_timer>>
    \/ /\ ~HasCommand(r)
       /\ requests' = RequestsWithout(r)
       /\ work_started' = FALSE
       /\ Tell(r, "EIO")
       /\ calls' = <<DoneFrame(r), RetryFrame>> \o rest
       /\ UNCHANGED <<start_cmd, cmdq, started>>

-----------------------------------------------------------------------------
(* Clients: they run from the main loop and inside request callbacks.       *)

ClientRuns == calls # <<>> => Head(calls).fn = "work_done"

Free(r) == ~Contains(work, r) /\ ~Contains(requests, r)

\* scan_common(): scan_passive() and scan_active() in all their forms, with n
\* commands.  Scans have the lowest priority, so they queue up at the end.
ScanCommon(r, n) ==
    /\ Free(r)
    /\ requests' = Append(requests, r)
    /\ cmds' = [cmds EXCEPT ![r] = n]
    /\ cb' = [cb EXCEPT ![r] = TRUE]
    /\ work' = Append(work, r)
    /\ IF work = <<>>
         THEN RadioNext(<<r>>, cmdq, start_cmd, work_started)
         ELSE UNCHANGED <<cmdq, start_cmd, work_started>>
    /\ told' = [told EXCEPT ![r] = 0]
    /\ success' = [success EXCEPT ![r] = FALSE]
    /\ scanned' = [scanned EXCEPT ![r] = FALSE]
    /\ UNCHANGED <<running, get_scan_cmd, triggered, started, evq, kscan, env>>

ScanRequest(r, n) ==
    /\ ClientRuns
    /\ ScanCommon(r, n)
    /\ periodic' = periodic \ {r}
    /\ UNCHANGED <<sp_on, sp_timer, sp_retry, calls>>

\* l_genl_family_cancel() of the trigger that the context knows of: it is not
\* sent any more, or its answer is ignored.
TriggerUnsent == IF start_cmd THEN DropLast(cmdq, {Trigger}) ELSE cmdq
TriggerUnheard ==
    IF start_cmd /\ Trigger \notin ToSet(cmdq) THEN DropLast(evq, Acks) ELSE evq

\* scan_cancel() of a request whose scan is running: only the callback is
\* cleared, the radio stays busy until the scan ends.
CancelTriggered(r) ==
    /\ IsHead(r) /\ triggered
    /\ cb' = [cb EXCEPT ![r] = FALSE]
    /\ UNCHANGED <<requests, cmds, scVars, work, calls, cmdq, evq, histVars>>

\* scan_cancel() of the first request before its scan is triggered, or while
\* it waits for an external scan to end.
CancelFirst(r) ==
    /\ IsHead(r) /\ ~triggered /\ ~get_scan_cmd
    /\ requests' = Without(requests, {r})
    /\ started' = FALSE
    /\ WorkDone(r, TriggerUnsent, FALSE, FALSE)
    /\ evq' = TriggerUnheard
    /\ UNCHANGED <<running, get_scan_cmd, triggered, calls>>

\* scan_cancel() of the first request while a GET_SCAN is running: cancelling
\* the newest one runs get_scan_done(), which finishes the request if the
\* results were meant for it.
DumpUnsent == DropLast(TriggerUnsent, Dumps)
DumpUnheard ==
    IF ToSet(cmdq) \cap Dumps = {} THEN DropLast(TriggerUnheard, DumpsDone)
    ELSE TriggerUnheard

CancelDuringDump(r, armed, rest) ==
    LET newest == IF ToSet(cmdq) \cap Dumps = {} THEN evq[LastOf(evq, DumpsDone)].sr
                  ELSE cmdq[LastOf(cmdq, Dumps)].sr
    IN  /\ IsHead(r) /\ ~triggered /\ get_scan_cmd
        /\ cmdq' = DumpUnsent
        /\ evq' = DumpUnheard
        /\ get_scan_cmd' = FALSE
        /\ \/ newest = r /\ Finish(r, "0", <<CancelFrame(r)>> \o rest)
           \/ /\ newest # r
              /\ calls' = <<CancelFrame(r)>> \o rest
              /\ sp_timer' = armed
              /\ UNCHANGED <<requests, started, work_started, told, success>>
        /\ UNCHANGED <<cmds, cb, running, start_cmd, triggered, work, scanned>>

\* The rest of scan_cancel(): it resets the context whoever is first by now,
\* and releases the radio work of the request if there still is one.
ReturnCancel(r) ==
    /\ calls # <<>> /\ Head(calls) = CancelFrame(r)
    /\ calls' = Tail(calls)
    /\ requests' = Without(requests, {r})
    /\ started' = FALSE
    /\ WorkDone(r, cmdq, FALSE, FALSE)
    /\ UNCHANGED <<running, get_scan_cmd, triggered, spVars, evq, kscan, env>>

\* scan_cancel() of a request that waits behind others.
CancelWaiting(r) ==
    /\ Contains(requests, r) /\ ~IsHead(r)
    /\ requests' = Without(requests, {r})
    /\ WorkDone(r, cmdq, start_cmd, work_started)
    /\ UNCHANGED <<running, get_scan_cmd, triggered, started, calls, evq>>

ScanCancel(r) ==
    /\ ClientRuns
    /\ r \notin periodic
    /\ \/ CancelTriggered(r) /\ UNCHANGED sp_timer
       \/ CancelFirst(r) /\ UNCHANGED sp_timer
       \/ "late_cancel" \in env /\ CancelDuringDump(r, sp_timer, calls)
       \/ CancelWaiting(r) /\ UNCHANGED sp_timer
    /\ UNCHANGED <<sp_on, sp_retry, periodic, kscan, env>>

\* Other radio work, of a higher priority than scans, comes and goes.
OtherInsert ==
    /\ "other_work" \in env
    /\ ClientRuns
    /\ ~Contains(work, Other)
    /\ work' = IF work = <<>> THEN <<Other>> ELSE InsertAt(work, 2, Other)
    /\ UNCHANGED <<reqVars, scVars, calls, spVars, cmdq, evq, kscan, env, histVars>>

OtherDone ==
    /\ ClientRuns
    /\ Contains(work, Other)
    /\ WorkDone(Other, cmdq, start_cmd, work_started)
    /\ UNCHANGED <<requests, running, get_scan_cmd, triggered, started, calls,
                   spVars, evq, kscan, env>>

-----------------------------------------------------------------------------
(* Periodic scans. *)

\* scan_periodic_queue(): only when no request is queued, otherwise the retry
\* flag is set.  retry is the flag before the call.
PeriodicQueue(retry) ==
    \/ /\ requests # <<>>
       /\ sp_retry' = TRUE
       /\ UNCHANGED <<periodic, reqVars, scVars, work, cmdq, evq, kscan, env,
                      histVars>>
    \/ /\ requests = <<>>
       /\ \E r \in Reqs : /\ ScanCommon(r, 1)
                          /\ periodic' = periodic \cup {r}
       /\ sp_retry' = retry

PeriodicStart ==
    /\ "periodic" \in env
    /\ ClientRuns
    /\ ~sp_on
    /\ sp_on' = TRUE
    /\ PeriodicQueue(sp_retry)
    /\ UNCHANGED <<sp_timer, calls>>

PeriodicTimeout ==
    /\ calls = <<>>
    /\ sp_timer
    /\ sp_timer' = FALSE
    /\ PeriodicQueue(sp_retry)
    /\ UNCHANGED <<sp_on, calls>>

\* scan_periodic_stop() cancels the timer and the periodic request, if it is
\* still there.
PeriodicStop ==
    /\ ClientRuns
    /\ sp_on
    /\ \/ /\ \A r \in periodic : ~Contains(requests, r)
          /\ UNCHANGED <<reqVars, scVars, work, calls, cmdq, evq, histVars>>
          /\ sp_timer' = FALSE /\ sp_on' = FALSE /\ sp_retry' = FALSE
       \/ \E r \in periodic :
             /\ CancelTriggered(r) \/ CancelFirst(r)
             /\ sp_timer' = FALSE /\ sp_on' = FALSE /\ sp_retry' = FALSE
       \/ \E r \in periodic :
             /\ "late_cancel" \in env
             /\ CancelDuringDump(r, FALSE, <<StopFrame>> \o calls)
             /\ UNCHANGED <<sp_on, sp_retry>>
    /\ UNCHANGED <<periodic, kscan, env>>

\* The end of scan_periodic_stop() after a callback has run inside it.
ReturnStop ==
    /\ calls # <<>> /\ Head(calls) = StopFrame
    /\ calls' = Tail(calls)
    /\ sp_on' = FALSE
    /\ sp_retry' = FALSE
    /\ UNCHANGED <<reqVars, scVars, work, sp_timer, periodic, cmdq, evq, kscan, env,
                   histVars>>

\* The tail of a failed start_next_scan_request().
ReturnRetry ==
    /\ calls # <<>> /\ Head(calls) = RetryFrame
    /\ calls' = Tail(calls)
    /\ \/ sp_retry /\ PeriodicQueue(FALSE)
       \/ /\ ~sp_retry
          /\ UNCHANGED <<sp_retry, periodic, reqVars, scVars, work, cmdq, evq,
                         kscan, env, histVars>>
    /\ UNCHANGED <<sp_on, sp_timer>>

-----------------------------------------------------------------------------
(* Netlink: answers and notifications, handled in the order they arrive.    *)
(* Where the code uses the first request without looking whether there is   *)
(* one, requests # <<>> is the condition for it to survive.                 *)

Receive(e) ==
    /\ calls = <<>>
    /\ evq # <<>>
    /\ Head(evq) = e
    /\ evq' = Tail(evq)

\* l_queue_pop_head() of an empty queue takes nothing.
OneCommandFewer(r) == IF cmds[r] = 0 THEN 0 ELSE cmds[r] - 1

\* scan_request_triggered()
Triggered ==
    /\ \/ /\ Receive(Ack("ok"))
          /\ requests # <<>>
          /\ running' = TRUE
          /\ triggered' = TRUE
          /\ started' = TRUE
          /\ cmds' = [cmds EXCEPT ![Head(requests)] = OneCommandFewer(Head(requests))]
          /\ UNCHANGED <<requests, told, success, sp_timer, calls>>
       \/ /\ Receive(Ack("busy"))
          /\ running' = TRUE
          /\ UNCHANGED <<requests, cmds, triggered, started, told, success,
                         sp_timer, calls>>
       \/ /\ Receive(Ack("fail"))
          /\ requests # <<>>
          /\ requests' = Without(requests, {Head(requests)})
          /\ Tell(Head(requests), "error")
          /\ calls' = <<DoneFrame(Head(requests))>>
          /\ UNCHANGED <<cmds, running, triggered, started>>
    /\ start_cmd' = FALSE
    /\ UNCHANGED <<cb, get_scan_cmd, work_started, work, sp_on, sp_retry, periodic,
                   cmdq, kscan, env, scanned>>

\* scan_notify(): NL80211_CMD_TRIGGER_SCAN
NotifyTrigger ==
    /\ Receive(Started)
    /\ running' = TRUE
    /\ UNCHANGED <<reqVars, start_cmd, get_scan_cmd, triggered, started,
                   work_started, work, calls, spVars, cmdq, kscan, env, histVars>>

\* Mutated form: the scan stays marked as ours.
ScanOverStillOurs == running' = FALSE /\ UNCHANGED triggered

\* Our own scan has ended, with results or aborted.
OwnScanOver == running' = FALSE /\ triggered' = FALSE

\* Mutated form: the results are read after the first command of a request.
AnyCommandDone(sr) == TRUE

LastCommandDone(sr) == cmds[sr] = 0

\* scan_notify(): NL80211_CMD_NEW_SCAN_RESULTS after a scan of the first request
NotifyOwnResults(flush) ==
    LET sr == Head(requests)
    IN  /\ Receive(Results(flush))
        /\ running /\ triggered
        /\ requests # <<>>
        /\ OwnScanOver
        /\ scanned' = [scanned EXCEPT ![sr] = TRUE]
        /\ \/ /\ ~cb[sr]
              /\ Finish(sr, "ECANCELED", <<>>)
              /\ UNCHANGED <<start_cmd, get_scan_cmd, cmdq>>
           \/ /\ cb[sr] /\ LastCommandDone(sr)
              /\ cmdq' = Append(cmdq, Dump(sr))
              /\ get_scan_cmd' = TRUE
              /\ UNCHANGED <<requests, start_cmd, started, work_started, told,
                             success, sp_timer, calls>>
           \/ /\ cb[sr] /\ ~LastCommandDone(sr)
              /\ work_started /\ Continue(sr, <<>>)
              /\ UNCHANGED get_scan_cmd
           \/ /\ cb[sr] /\ ~LastCommandDone(sr) /\ ~work_started
              /\ UNCHANGED <<requests, start_cmd, get_scan_cmd, started,
                             work_started, told, success, sp_timer, calls, cmdq>>
        /\ UNCHANGED <<cmds, cb, work, sp_on, sp_retry, periodic, kscan, env>>

\* scan_notify(): NL80211_CMD_NEW_SCAN_RESULTS after an external scan.  Its
\* results serve as a free periodic scan; the first request is sent again if it
\* lost its earlier results to a flush, or goes on.
NotifyExternalResults(flush) ==
    LET rest == IF sp_on THEN <<GetScanFrame>> ELSE <<>>
    IN  /\ Receive(Results(flush))
        /\ running /\ ~triggered
        /\ running' = FALSE
        /\ \/ /\ ~get_scan_cmd /\ started /\ flush
              /\ FinishFirst("EAGAIN", rest)
              /\ UNCHANGED <<start_cmd, cmdq>>
           \/ /\ ~get_scan_cmd /\ ~(started /\ flush)
              /\ work_started /\ requests # <<>>
              /\ Continue(Head(requests), rest)
           \/ /\ ~get_scan_cmd /\ ~(started /\ flush)
              /\ ~(work_started /\ requests # <<>>)
              /\ calls' = rest
              /\ UNCHANGED <<requests, start_cmd, started, work_started, told,
                             success, sp_timer, cmdq>>
           \/ /\ get_scan_cmd
              /\ UNCHANGED <<requests, start_cmd, started, work_started, told,
                             success, sp_timer, cmdq, calls>>
        /\ UNCHANGED <<cmds, cb, get_scan_cmd, triggered, work, sp_on, sp_retry,
                       periodic, kscan, env, scanned>>

\* The GET_SCAN for the results of an external scan.
ReturnGetScan ==
    /\ calls # <<>> /\ Head(calls) = GetScanFrame
    /\ calls' = Tail(calls)
    /\ cmdq' = Append(cmdq, Dump(NoReq))
    /\ get_scan_cmd' = TRUE
    /\ UNCHANGED <<reqVars, running, start_cmd, triggered, started, work_started,
                   work, spVars, evq, kscan, env, histVars>>

\* scan_notify(): NL80211_CMD_SCAN_ABORTED
NotifyAborted ==
    /\ Receive(Aborted)
    /\ running
    /\ \/ /\ triggered
          /\ OwnScanOver
          /\ FinishFirst("ECANCELED", <<>>)
          /\ UNCHANGED <<start_cmd, cmdq>>
       \/ /\ ~triggered /\ work_started /\ requests # <<>>
          /\ Continue(Head(requests), <<>>)
          /\ running' = FALSE
          /\ UNCHANGED triggered
       \/ /\ ~triggered /\ ~work_started
          /\ running' = FALSE
          /\ UNCHANGED <<requests, triggered, start_cmd, started, work_started,
                         told, success, sp_timer, calls, cmdq>>
    /\ UNCHANGED <<cmds, cb, get_scan_cmd, work, sp_on, sp_retry, periodic, kscan, env,
                   scanned>>

\* scan_notify(): the end of a scan that this context did not see starting.
NotifyIgnored ==
    /\ Receive(Aborted) \/ \E flush \in BOOLEAN : Receive(Results(flush))
    /\ ~running
    /\ UNCHANGED <<reqVars, scVars, work, calls, spVars, cmdq, kscan, env, histVars>>

\* l_queue_peek_head(sc->requests) == results->sr
ResultsWanted(sr) == IsHead(sr)

\* get_scan_done()
GetScanDone(sr) ==
    /\ Receive(DumpDone(sr))
    /\ get_scan_cmd' = FALSE
    /\ \/ ResultsWanted(sr) /\ Finish(sr, "0", <<>>)
       \/ /\ ~ResultsWanted(sr)
          /\ UNCHANGED <<requests, started, work_started, told, success, sp_timer,
                         calls>>
    /\ UNCHANGED <<cmds, cb, running, start_cmd, triggered, work, sp_on, sp_retry,
                   periodic, cmdq, kscan, env, scanned>>

\* The callback of a finished request returns and its radio work is done.
ReturnDone(r) ==
    /\ calls # <<>> /\ Head(calls) = DoneFrame(r)
    /\ calls' = Tail(calls)
    /\ WorkDone(r, cmdq, start_cmd, work_started)
    /\ UNCHANGED <<requests, running, get_scan_cmd, triggered, started, spVars,
                   evq, kscan, env>>

-----------------------------------------------------------------------------
(* The kernel (external): one scan at a time, answers in order.             *)

KernelIdle ==
    UNCHANGED <<reqVars, scVars, work, calls, spVars, env, histVars>>

\* A TRIGGER_SCAN command is refused while a scan is running; otherwise the
\* start of the scan is announced to everyone before the command is answered.
KernelTrigger ==
    /\ cmdq # <<>> /\ Head(cmdq) = Trigger
    /\ cmdq' = Tail(cmdq)
    /\ \/ /\ kscan # "idle"
          /\ evq' = Append(evq, Ack("busy"))
          /\ UNCHANGED kscan
       \/ /\ kscan = "idle"
          /\ evq' = evq \o <<Started, Ack("ok")>>
          /\ kscan' = "own"
       \/ /\ kscan = "idle" /\ "trigger_fails" \in env
          /\ evq' = Append(evq, Ack("fail"))
          /\ UNCHANGED kscan
    /\ KernelIdle

KernelDump ==
    /\ cmdq # <<>> /\ Head(cmdq) # Trigger
    /\ cmdq' = Tail(cmdq)
    /\ evq' = Append(evq, DumpDone(Head(cmdq).sr))
    /\ UNCHANGED kscan
    /\ KernelIdle

KeepsUp ==
    \/ cmdq = <<>> /\ evq = <<>>
    \/ "slow_dump" \in env /\ ToSet(cmdq) \subseteq Dumps /\ ToSet(evq) \subseteq DumpsDone
    \/ "lagging" \in env

ExternalStart ==
    /\ "ext_scan" \in env
    /\ kscan = "idle"
    /\ KeepsUp
    /\ Len(evq) < MaxEvents
    /\ kscan' = "ext"
    /\ evq' = Append(evq, Started)
    /\ UNCHANGED cmdq
    /\ KernelIdle

\* A scan ends with results or is aborted.  Only an external scan may flush the
\* results of earlier ones.
ScanEnd ==
    /\ kscan # "idle"
    /\ KeepsUp
    /\ kscan' = "idle"
    /\ \E flush \in BOOLEAN :
          /\ flush => kscan = "ext"
          /\ \/ evq' = Append(evq, Results(flush))
             \/ /\ kscan = "ext" => "ext_abort" \in env
                /\ evq' = Append(evq, Aborted)
    /\ UNCHANGED cmdq
    /\ KernelIdle

Kernel == KernelTrigger \/ KernelDump \/ ScanEnd

Handlers ==
    \/ Triggered
    \/ NotifyTrigger
    \/ \E flush \in BOOLEAN : NotifyOwnResults(flush)
    \/ \E flush \in BOOLEAN : NotifyExternalResults(flush)
    \/ NotifyAborted
    \/ NotifyIgnored
    \/ \E sr \in Reqs \cup {NoReq} : GetScanDone(sr)

Returns ==
    \/ \E r \in Reqs : ReturnDone(r)
    \/ \E r \in Reqs : ReturnCancel(r)
    \/ ReturnRetry
    \/ ReturnStop
    \/ ReturnGetScan

Clients ==
    \/ \E r \in Reqs, n \in 1 .. MaxCmds : ScanRequest(r, n)
    \/ \E r \in Reqs : ScanCancel(r)
    \/ OtherInsert
    \/ PeriodicStart
    \/ PeriodicStop

Next == Kernel \/ Handlers \/ Returns \/ Clients \/ OtherDone
            \/ PeriodicTimeout \/ ExternalStart

Spec == Init /\ [][Next]_vars

\* The main loop handles every message, active calls return, the kernel answers
\* every command and ends every scan, other radio work ends, timers fire.
FairSpec ==
    /\ Spec
    /\ WF_vars(Handlers)
    /\ WF_vars(Returns)
    /\ WF_vars(Kernel)
    /\ WF_vars(ScanEnd)
    /\ WF_vars(OtherDone)
    /\ WF_vars(PeriodicTimeout)

-----------------------------------------------------------------------------
TypeOK ==
    /\ requests \in Seq(Reqs)
    /\ cmds \in [Reqs -> 0 .. MaxCmds]
    /\ cb \in [Reqs -> BOOLEAN]
    /\ {running, start_cmd, get_scan_cmd, triggered, started, work_started}
           \subseteq BOOLEAN
    /\ work \in Seq(Reqs \cup {Other})
    /\ calls \in Seq(Frames)
    /\ {sp_on, sp_timer, sp_retry} \subseteq BOOLEAN
    /\ periodic \subseteq Reqs
    /\ cmdq \in Seq(Commands)
    /\ evq \in Seq(Events)
    /\ kscan \in {"idle", "own", "ext"}
    /\ told \in [Reqs -> Nat]
    /\ {success, scanned} \subseteq [Reqs -> BOOLEAN]

\* Between two events the requests of the context and its items in the radio
\* work queue are the same, in the same order: the handlers that act on the
\* first request (scan_request_triggered, scan_notify) act on the one that has
\* the radio, and no request is left behind in one queue only.
QueuesAgree == calls = <<>> => requests = Without(work, {Other})

\* No trigger is refused: scan_request_triggered() leaves work_started set when
\* one is.  And no request is finished that has not the radio: other radio work that
\* ends inside its callback would start it again.
NoRefusal ==
    /\ env \cap {"trigger_fails", "lagging"} = {}
    /\ "other_work" \in env => env \cap {"slow_dump", "late_cancel"} = {}

\* While the results of a request are read no scan starts or ends and nobody
\* cancels it; and no external scan ends while work_started is stale after a refusal.
Undisturbed ==
    /\ env \cap {"slow_dump", "late_cancel", "lagging"} = {}
    /\ ~({"trigger_fails", "ext_scan"} \subseteq env)

\* work_started says that the first request holds the radio; scan_notify()
\* relies on it when it continues that request without asking the work queue.
WorkStartedOwnsRadio ==
    NoRefusal /\ calls = <<>> /\ work_started =>
        requests # <<>> /\ Head(work) = Head(requests)

\* scan_notify() sends "the next command of an ongoing request, or continue[s]
\* with a previously busy scan attempt" (src/src/scan.c:1747): the request whose
\* trigger it sends holds the radio.
ContinuesOwnRequest ==
    [][NoRefusal /\ Handlers /\ cmdq' = Append(cmdq, Trigger)
         => work # <<>> /\ Head(work) = Head(requests)]_vars

\* A trigger command in flight, or a scan marked as ours, belongs to a request
\* that exists and holds the radio: the NULL request is never dereferenced and
\* no scan runs under other radio work.
TriggerOwnsRadio ==
    Undisturbed /\ calls = <<>> /\ (start_cmd \/ triggered) => work_started

\* "Non-zero if SCAN_TRIGGER is still running" (src/src/scan.c:99): the context
\* knows of every trigger command it has sent and not yet cancelled.
TriggerTracked ==
    /\ Undisturbed
    /\ Trigger \in ToSet(cmdq) \/ ToSet(evq) \cap Acks # {}
    => start_cmd

\* A request that waits for the radio has a command to send when it gets it: it never
\* fails inside its own do_work(), where scan_request_failed() would free the item that
\* wiphy_radio_work_next() then removes and destroys (src/src/wiphy.c:1540).
WaitingHaveCommands ==
    Undisturbed => \A r \in Reqs \cap ToSet(work) : r # Head(work) => cmds[r] > 0

\* A request is told its result at most once, and not after it was freed.
ToldOnce == \A r \in Reqs : told[r] <= 1

\* A request is told success only after every one of its commands has been
\* triggered and every scan of it has ended with results.
SuccessIsComplete ==
    env \cap {"slow_dump", "lagging"} = {} =>
        \A r \in Reqs : success[r] => cmds[r] = 0 /\ scanned[r]

\* Every request is told its result or cancelled, and leaves the queue, unless
\* external scans keep the interface busy for ever.  (Cancelling a request
\* during its GET_SCAN clears work_started of the next one, which then never
\* sends its second command: that case is left out here.)
RequestsEnd ==
    env \cap {"ext_scan", "late_cancel"} = {} =>
        \A r \in Reqs : Contains(requests, r) ~> ~Contains(requests, r)

\* Between two handlers the context is consistent: its queue is the radio's queue, its
\* flags tell who holds the radio and which commands are under way, and nobody is told
\* a result twice.  These are the facts that scan_notify(), scan_request_triggered() and
\* get_scan_done() rely on when they act on the first request.
Inv ==
    /\ TypeOK
    /\ QueuesAgree
    /\ WorkStartedOwnsRadio
    /\ TriggerOwnsRadio
    /\ TriggerTracked
    /\ WaitingHaveCommands
    /\ ToldOnce

-----------------------------------------------------------------------------
(* The inductive invariant: what makes the properties above hold, by how    *)
(* much the environment has to leave alone.                                  *)

\* The requests whose callback is running: they have left sc->requests, their
\* radio work is still queued.
Pending == {r \in Reqs : DoneFrame(r) \in ToSet(calls)}

\* The first request holds the radio.
Holder == work # <<>> /\ Head(work) \in ToSet(requests)

\* A trigger, or its answer, and a GET_SCAN for sr, or its end, are under way; a
\* scan has ended and iwd has not yet been told.
TriggerInFlight == Trigger \in ToSet(cmdq) \/ ToSet(evq) \cap Acks # {}
DumpInFlight(sr) == Dump(sr) \in ToSet(cmdq) \/ DumpDone(sr) \in ToSet(evq)
EndAhead == ToSet(evq) \cap Ends # {}

\* In every environment: the two queues differ by the pending requests only, which
\* are done once and not by a cancellation that is itself waiting for them.
Linked ==
    /\ requests = Without(work, {Other} \cup Pending)
    /\ Pending \subseteq ToSet(work)
    /\ \A r \in Reqs : NoneAfter(calls, {DoneFrame(r), CancelFrame(r)}, {DoneFrame(r)})
    /\ \A r \in ToSet(requests) : told[r] = 0
    /\ ToldOnce

\* In every environment: a scan of ours is a running scan, a GET_SCAN that the
\* context knows of is under way, and what only some environments do has not
\* happened in the others.
Explained ==
    /\ triggered => running
    /\ get_scan_cmd => ToSet(cmdq) \cap Dumps # {} \/ ToSet(evq) \cap DumpsDone # {}
    /\ kscan = "ext" \/ Results(TRUE) \in ToSet(evq) => "ext_scan" \in env
    /\ Ack("fail") \in ToSet(evq) => "trigger_fails" \in env
    /\ Other \in ToSet(work) => "other_work" \in env
    /\ \A r \in Reqs : CancelFrame(r) \in ToSet(calls) => "late_cancel" \in env

\* No scan starts or ends while iwd is busy.
Quiet == env \cap {"slow_dump", "lagging"} = {}

\* The end of a scan is the first thing that iwd hears of, and of its own scan the
\* only one; the GET_SCAN of a request follows at once, and nothing comes between.
EndsFirst ==
    /\ NoneAfter(evq, Events, Ends)
    /\ triggered /\ EndAhead => cmdq = <<>> /\ Tail(evq) = <<>>
    /\ GetScanFrame \in ToSet(calls) => ~triggered

DumpNext ==
    \A sr \in Reqs : DumpInFlight(sr) =>
        /\ calls = <<>> /\ get_scan_cmd /\ IsHead(sr) /\ cmds[sr] = 0 /\ scanned[sr]
        /\ Once(cmdq, Dumps) /\ Once(evq, DumpsDone)
        /\ \/ evq = <<>> /\ cmdq # <<>> /\ Head(cmdq) = Dump(sr)
           \/ evq # <<>> /\ Head(evq) = DumpDone(sr) /\ ToSet(cmdq) \cap Dumps = {}

\* In an undisturbed environment there is one trigger at a time, which the context
\* knows of; it, the scan it starts and the GET_SCAN that follows belong to the
\* request that holds the radio.
OneTrigger ==
    /\ start_cmd <=> TriggerInFlight
    /\ Once(cmdq, {Trigger}) /\ Once(evq, Acks)
    /\ Trigger \in ToSet(cmdq) => ToSet(evq) \cap Acks = {}
    /\ running /\ EndAhead => ~start_cmd
    /\ triggered => ~start_cmd

OwnScan ==
    /\ start_cmd \/ triggered => Holder
    /\ started /\ "ext_scan" \in env => Holder
    /\ \A sr \in Reqs : DumpInFlight(sr) => Holder /\ ~triggered /\ ~start_cmd
    /\ Holder => work_started
    /\ Holder /\ cmds[Head(work)] = 0 => triggered \/ DumpInFlight(Head(work))
    /\ \A r \in Pending : Head(work) = r

\* After a refused trigger work_started is stale until the next request gets the
\* radio: no scan can end in between.
Refused ==
    /\ Ack("fail") \in ToSet(evq) => kscan = "idle"
    /\ work_started /\ ~Holder =>
          "trigger_fails" \in env /\ ~EndAhead /\ kscan = "idle"

\* Without other radio work a pending request keeps the radio until all requests that
\* were finished inside its callback are done.
Alone == env \cap {"trigger_fails", "lagging", "other_work"} = {}

Nested ==
    /\ work_started => Holder
    /\ Pending # {} => Head(work) \in Pending
    /\ work # <<>> => NoneAfter(calls, {DoneFrame(Head(work))}, {DoneFrame(r) : r \in Reqs})

IInv ==
    /\ TypeOK
    /\ Linked
    /\ Explained
    /\ Quiet => EndsFirst /\ DumpNext /\ SuccessIsComplete
    /\ Undisturbed => OneTrigger /\ OwnScan /\ Refused /\ WaitingHaveCommands
    /\ Alone => Nested

=============================================================================
