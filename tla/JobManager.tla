------------------------------ MODULE JobManager ------------------------------
(***************************************************************************)
(* The Solid Edge bridge's job ledger and single-worker supervisor          *)
(* (adapters/solidedge-bridge, jobs.py: JobManager).                        *)
(*                                                                         *)
(* HTTP threads admit, cancel and read builds under one lock; a supervisor  *)
(* thread owns the backend, whose child process drives Solid Edge.  An      *)
(* action is one critical section of JobManager._lock, or one call made     *)
(* outside it, so every window the code leaves open between two sections    *)
(* is a place where any other thread may step.  The ledger is on disk; the  *)
(* bridge, the child and a single write may each fail, and Solid Edge keeps *)
(* executing whatever the child handed it.                                  *)
(*                                                                         *)
(* Left out: trace, warnings, step_index, messages and artifact contents    *)
(* (no branch of the ledger reads them), and readiness, which only decides  *)
(* whether an admission goes on.                                            *)
(***************************************************************************)
EXTENDS Naturals, Sequences, SequencesExt

CONSTANTS
  BuildIds,        \* uuid4 build ids still to be drawn; a finite supply
  RequestIds,      \* the clients' request_id values
  Digests,         \* payload digests
  HttpThreads,     \* request threads of the HTTP server
  Nil,             \* Python's None
  MaxExits,        \* bound: crashes and orderly closes of the bridge
  MaxWriteFaults,  \* bound: atomic_write_json calls that raise
  MaxWire,         \* bound: unread messages when the child reports a step
  MaxLeaked        \* bound: children lost by failed starts

ASSUME NilAssumption ==
  Nil \notin BuildIds /\ Nil \notin RequestIds \X Digests
ASSUME BoundsAssumption ==
  /\ MaxExits \in Nat /\ MaxWriteFaults \in Nat
  /\ MaxWire \in Nat /\ MaxLeaked \in Nat

VARIABLES
  \* the bridge process
  up, stop,
  state, cancelRequested, cancelSent,  \* _jobs
  byRequest, active, blocked, pending, backend,
  thread,          \* what each HTTP thread carries between submit's two sections
  pc, supJob, supEvent, supTimedOut, expired,   \* the supervisor inside run_once
  \* the disk
  disk,            \* the state in job.json
  requestFile,     \* builds whose request.json is written
  requestOf,       \* the request a build id was drawn for
  \* the child and Solid Edge
  worker, wire, native, leaked,
  \* bounds and history
  exits, writeFaults, starts, ack, reconciled

ledger  == <<state, cancelRequested, cancelSent, byRequest, active, blocked, pending>>
supVars == <<supJob, supEvent, supTimedOut>>
seVars  == <<worker, wire, native, leaked, starts>>
vars == <<up, stop, ledger, backend, thread, pc, supVars, expired,
          disk, requestFile, requestOf, seVars, exits, writeFaults, ack,
          reconciled>>

QUEUED == "queued"
RUNNING == "running"
SUCCEEDED == "succeeded"
FAILED == "failed"
CANCELLED == "cancelled"
INTERRUPTED == "interrupted"
INDETERMINATE == "indeterminate"
Absent == "absent"    \* no _Job object; on disk, no job.json

Definite == {SUCCEEDED, FAILED, CANCELLED, INTERRUPTED}
Terminal == Definite \union {INDETERMINATE}
JobState == Terminal \union {QUEUED, RUNNING}

Verdict == {"completed", "failed", "cancelled"}
Kind == Verdict \union {"step", "indeterminate", "crashed"}
Reply == {"started", "notStarted", "no"}    \* answers to a build command
Message == [kind : Kind \union Reply, build : BuildIds \union {Nil}]
NoEvent == [kind |-> "none", build |-> Nil]
Crashed == [kind |-> "crashed", build |-> Nil]

Pc == {"idle", "starting", "noBackend", "vanished", "unavailable", "select",
       "recheck", "submit", "awaitAck", "refused", "poll", "apply", "sendCancel",
       "lost", "abort"}

\* inbox: build commands the child has not read, in whatever order.
DeadWorker == [alive |-> FALSE, inbox |-> {}, building |-> Nil, cancel |-> FALSE]

-------------------------------------------------------------------------------
(* Start of the process and the disk.                                        *)

EmptyLedger ==
  /\ state = [b \in BuildIds |-> Absent]
  /\ cancelRequested = [b \in BuildIds |-> FALSE]
  /\ cancelSent = [b \in BuildIds |-> FALSE]
  /\ byRequest = [r \in RequestIds |-> Nil]
  /\ active = Nil /\ blocked = Nil /\ pending = <<>>

Init ==
  /\ up = TRUE /\ stop = FALSE
  /\ EmptyLedger
  /\ backend = FALSE
  /\ thread = [t \in HttpThreads |-> Nil]
  /\ pc = "idle" /\ supJob = Nil /\ supEvent = NoEvent /\ supTimedOut = FALSE
  /\ expired = FALSE
  /\ disk = [b \in BuildIds |-> Absent]
  /\ requestFile = {}
  /\ requestOf = [b \in BuildIds |-> Nil]
  /\ worker = DeadWorker /\ wire = <<>> /\ leaked = 0
  /\ native = [b \in BuildIds |-> "idle"]
  /\ starts = [b \in BuildIds |-> 0]
  /\ exits = 0 /\ writeFaults = 0
  /\ ack = {}
  /\ reconciled = {}

\* atomic_write_json of job.json: the new state replaces the old one ...
Persist(b, s) ==
  /\ disk' = [disk EXCEPT ![b] = s]
  /\ UNCHANGED writeFaults

\* ... or the call raises and the old file stays.
WriteRaises ==
  /\ writeFaults < MaxWriteFaults
  /\ writeFaults' = writeFaults + 1
  /\ UNCHANGED disk

\* A write that ends a handler: pc goes to ok, or to idle because the
\* supervisor loop swallows the exception.
PersistOrRaise(b, s, ok, raised) ==
  \/ Persist(b, s) /\ pc' = ok
  \/ WriteRaises /\ pc' = raised

\* Mutant: the slot is never released.
ReleaseNothing(b) == active

Release(b) == IF active = b THEN Nil ELSE active

\* Stopping the child closes its stdout: the reader thread queues its sentinel.
KillWorker ==
  /\ worker' = DeadWorker
  /\ wire' = IF worker.alive THEN Append(wire, Crashed) ELSE wire

-------------------------------------------------------------------------------
(* Handlers shared by several callers; each is one critical section.         *)

\* Mutant: no look at the state before it is overwritten.
MarkIndeterminateAgain(b, ok, raised) ==
  /\ state' = [state EXCEPT ![b] = INDETERMINATE]
  /\ \/ WriteRaises /\ pc' = raised /\ UNCHANGED <<active, blocked>>
     \/ /\ active' = Release(b)
        /\ blocked' = b
        /\ PersistOrRaise(b, INDETERMINATE, ok, raised)

\* _mark_indeterminate: the state is set before the manifest is written and
\* _active and _blocked after it, so a manifest that cannot be written leaves
\* an INDETERMINATE job that still owns _active.
MarkIndeterminate(b, ok, raised) ==
  /\ IF state[b] # RUNNING
     THEN pc' = ok /\ UNCHANGED <<state, active, blocked, disk, writeFaults>>
     ELSE /\ state' = [state EXCEPT ![b] = INDETERMINATE]
          /\ \/ WriteRaises /\ pc' = raised /\ UNCHANGED <<active, blocked>>
             \/ /\ active' = Release(b)
                /\ blocked' = b
                /\ PersistOrRaise(b, INDETERMINATE, ok, raised)

\* _finish_without_result: no check of the current state.
FinishWithoutResult(b, s) ==
  /\ state' = [state EXCEPT ![b] = s]
  /\ UNCHANGED blocked
  /\ \/ WriteRaises /\ pc' = "idle" /\ UNCHANGED active
     \/ active' = Release(b) /\ PersistOrRaise(b, s, "idle", "idle")

\* _cancel_queued.
CancelQueued(b, next) ==
  /\ state' = [state EXCEPT ![b] = CANCELLED]
  /\ active' = Release(b)
  /\ UNCHANGED blocked
  /\ PersistOrRaise(b, CANCELLED, next, next)

\* _complete: the manifest is written first; if that raises, the event is lost
\* and the job stays RUNNING.
Complete(b, s) ==
  /\ UNCHANGED blocked
  /\ \/ WriteRaises /\ pc' = "idle" /\ UNCHANGED <<state, active>>
     \/ /\ state' = [state EXCEPT ![b] = s]
        /\ active' = Release(b)
        /\ PersistOrRaise(b, s, "idle", "idle")

-------------------------------------------------------------------------------
(* HTTP threads: JobManager.submit, cancel; and reconcile.                   *)

\* History: every answer a client was given, request, build and payload.
Acknowledge(r, b, d) == ack' = ack \union {<<r, b, d>>}

\* Mutant: the payload of a known request_id is not compared.
RecordedAnyPayload(r, d) == byRequest[r] # Nil

\* A known request_id with another payload is a conflict: no answer, no step.
Recorded(r, d) == byRequest[r] # Nil /\ requestOf[byRequest[r]] = <<r, d>>

\* submit, first section, known request_id: the existing build is answered.
SubmitAgain(r, d) ==
  /\ up
  /\ Recorded(r, d)
  /\ Acknowledge(r, byRequest[r], d)
  /\ UNCHANGED <<up, stop, ledger, backend, thread, pc, supVars, expired, disk,
                 requestFile, requestOf, seVars, exits, writeFaults, reconciled>>

\* submit, first section, new request_id and a free bridge: the thread goes on
\* to readiness, outside the lock.
SubmitCheck(t, r, d) ==
  /\ up
  /\ thread[t] = Nil
  /\ byRequest[r] = Nil /\ blocked = Nil /\ active = Nil
  /\ thread' = [thread EXCEPT ![t] = <<r, d>>]
  /\ UNCHANGED <<up, stop, ledger, backend, pc, supVars, expired, disk,
                 requestFile, requestOf, seVars, exits, writeFaults, ack,
                 reconciled>>

\* submit ends without a build: not ready, calibration mismatch, or the second
\* section finds a conflicting payload or a busy bridge.
SubmitRefused(t) ==
  /\ up
  /\ thread[t] # Nil
  /\ thread' = [thread EXCEPT ![t] = Nil]
  /\ UNCHANGED <<up, stop, ledger, backend, pc, supVars, expired, disk,
                 requestFile, requestOf, seVars, exits, writeFaults, ack,
                 reconciled>>

\* submit, second section, and the same request was admitted meanwhile.
SubmitLate(t) ==
  /\ up
  /\ thread[t] # Nil
  /\ Recorded(thread[t][1], thread[t][2])
  /\ Acknowledge(thread[t][1], byRequest[thread[t][1]], thread[t][2])
  /\ thread' = [thread EXCEPT ![t] = Nil]
  /\ UNCHANGED <<up, stop, ledger, backend, pc, supVars, expired, disk,
                 requestFile, requestOf, seVars, exits, writeFaults, reconciled>>

\* The in-memory half of an admission, made before either file is written.
\* request.json and job.json follow; only then is the build queued.
Admissible(t) ==
  /\ up
  /\ thread[t] # Nil
  /\ byRequest[thread[t][1]] = Nil
  /\ blocked = Nil /\ active = Nil

Fresh(b) == state[b] = Absent /\ requestOf[b] = Nil

EnterLedger(t, b) ==
  /\ state' = [state EXCEPT ![b] = QUEUED]
  /\ cancelRequested' = [cancelRequested EXCEPT ![b] = FALSE]
  /\ cancelSent' = [cancelSent EXCEPT ![b] = FALSE]
  /\ byRequest' = [byRequest EXCEPT ![thread[t][1]] = b]
  /\ active' = b
  /\ requestOf' = [requestOf EXCEPT ![b] = thread[t]]

SubmitAdmit(t, b) ==
  /\ Admissible(t) /\ Fresh(b)
  /\ EnterLedger(t, b)
  /\ requestFile' = requestFile \union {b}
  /\ Persist(b, QUEUED)
  /\ pending' = Append(pending, b)
  /\ Acknowledge(thread[t][1], b, thread[t][2])
  /\ thread' = [thread EXCEPT ![t] = Nil]
  /\ UNCHANGED <<up, stop, blocked, backend, pc, supVars, expired, seVars,
                 exits, reconciled>>

\* One of the two writes raises: the client gets an error, and the job stays in
\* _jobs, _by_request and _active but never reaches _pending.
SubmitAdmitRaises(t, b) ==
  /\ Admissible(t) /\ Fresh(b)
  /\ EnterLedger(t, b)
  /\ WriteRaises
  /\ requestFile' \in {requestFile, requestFile \union {b}}
  /\ thread' = [thread EXCEPT ![t] = Nil]
  /\ UNCHANGED <<up, stop, blocked, pending, backend, pc, supVars, expired,
                 seVars, exits, ack, reconciled>>

\* Mutant: cancel settles a running build as if it were queued.
CancelAtOnce(b) ==
  /\ up
  /\ state[b] \in {QUEUED, RUNNING}
  /\ cancelRequested' = [cancelRequested EXCEPT ![b] = TRUE]
  /\ CancelQueued(b, pc)
  /\ UNCHANGED <<up, stop, cancelSent, byRequest, pending, backend, thread,
                 supVars, expired, requestFile, requestOf, seVars, exits, ack,
                 reconciled>>

\* cancel of a job that is not terminal.
CancelQueuedJob(b) ==
  /\ up
  /\ state[b] = QUEUED
  /\ cancelRequested' = [cancelRequested EXCEPT ![b] = TRUE]
  /\ CancelQueued(b, pc)
  /\ UNCHANGED <<up, stop, cancelSent, byRequest, pending, backend, thread,
                 supVars, expired, requestFile, requestOf, seVars, exits, ack,
                 reconciled>>

CancelRunningJob(b) ==
  /\ up
  /\ state[b] = RUNNING
  /\ cancelRequested' = [cancelRequested EXCEPT ![b] = TRUE]
  /\ PersistOrRaise(b, RUNNING, pc, pc)
  /\ UNCHANGED <<up, stop, state, cancelSent, byRequest, active, blocked, pending,
                 backend, thread, supVars, expired, requestFile, requestOf, seVars,
                 exits, ack, reconciled>>

Reconcile(b) ==
  /\ up
  /\ state[b] = INDETERMINATE
  /\ state' = [state EXCEPT ![b] = INTERRUPTED]
  /\ blocked' = IF blocked = b THEN Nil ELSE blocked
  /\ PersistOrRaise(b, INTERRUPTED, pc, pc)
  /\ reconciled' = reconciled \union {b}
  /\ UNCHANGED <<up, stop, cancelRequested, cancelSent, byRequest, active, pending,
                 backend, thread, supVars, expired, requestFile, requestOf, seVars,
                 exits, ack>>

-------------------------------------------------------------------------------
(* The supervisor: run_once, section by section.                             *)

\* What no supervisor step touches.
SupFrame == UNCHANGED <<up, stop, byRequest, thread, requestFile, requestOf, native,
                        starts, exits, ack, reconciled>>

\* A new run_once: its locals are new, and only the running job has a deadline.
\* _ensure_backend with a backend: whether its child lives is not looked at.
BackendReady ==
  /\ up /\ pc = "idle" /\ ~stop
  /\ pc' = IF backend THEN "select" ELSE "starting"
  /\ supJob' = Nil /\ supEvent' = NoEvent /\ supTimedOut' = FALSE
  /\ expired' = (expired /\ active # Nil /\ state[active] = RUNNING)
  /\ UNCHANGED <<ledger, backend, disk, worker, wire, leaked, writeFaults>>
  /\ SupFrame

\* ChildProcessBackend.start: spawn, then one health request.
StartBackend ==
  /\ up /\ pc = "starting"
  /\ worker' = [DeadWorker EXCEPT !.alive = TRUE]
  /\ wire' = <<>>
  /\ backend' = TRUE
  /\ pc' = "select"
  /\ UNCHANGED <<ledger, supVars, expired, disk, leaked, writeFaults>>
  /\ SupFrame

\* The spawn fails, or the health request does; in the second case the child
\* lives on and nothing refers to it any more.
StartBackendRaises ==
  /\ up /\ pc = "starting"
  /\ \/ UNCHANGED leaked
     \/ leaked < MaxLeaked /\ leaked' = leaked + 1
  /\ pc' = "noBackend"
  /\ UNCHANGED <<ledger, backend, supVars, expired, disk, worker, wire, writeFaults>>
  /\ SupFrame

\* run_once without a backend: _active is read under the lock, which is then
\* released ...
NoBackend ==
  /\ up /\ pc = "noBackend"
  /\ IF active # Nil /\ state[active] \in {QUEUED, RUNNING}
     THEN /\ pc' = IF state[active] = RUNNING THEN "vanished" ELSE "unavailable"
          /\ supJob' = active
     ELSE pc' = "idle" /\ UNCHANGED supJob
  /\ UNCHANGED <<ledger, backend, supEvent, supTimedOut, expired, disk, worker,
                 wire, leaked, writeFaults>>
  /\ SupFrame

\* ... and the job settled in a section of its own.
SettleWithoutBackend ==
  /\ up /\ pc \in {"vanished", "unavailable"}
  /\ IF pc = "vanished"
     THEN MarkIndeterminate(supJob, "idle", "idle")
     ELSE FinishWithoutResult(supJob, FAILED)
  /\ UNCHANGED <<cancelRequested, cancelSent, pending, backend, supVars, expired,
                 worker, wire, leaked>>
  /\ SupFrame

CanStart ==
  /\ active # Nil => state[active] = QUEUED
  /\ blocked = Nil
  /\ pending # <<>>

\* Dequeue, check, transition, _active and the durable write: one section.
StartJob ==
  /\ up /\ pc = "select"
  /\ CanStart
  /\ LET b == Head(pending) IN
       /\ state[b] = QUEUED /\ ~cancelRequested[b]
       /\ state' = [state EXCEPT ![b] = RUNNING]
       /\ active' = b
       /\ supJob' = b
       /\ PersistOrRaise(b, RUNNING, "recheck", "idle")
  /\ pending' = Tail(pending)
  /\ expired' = FALSE
  /\ UNCHANGED <<cancelRequested, cancelSent, blocked, backend, supEvent,
                 supTimedOut, worker, wire, leaked>>
  /\ SupFrame

\* A dequeued id that is no longer QUEUED is dropped.
SkipJob ==
  /\ up /\ pc = "select"
  /\ CanStart
  /\ state[Head(pending)] # QUEUED \/ cancelRequested[Head(pending)]
  /\ pending' = Tail(pending)
  /\ pc' = "poll"
  /\ UNCHANGED <<state, cancelRequested, cancelSent, active, blocked, backend,
                 supVars, expired, disk, worker, wire, leaked, writeFaults>>
  /\ SupFrame

NothingToStart ==
  /\ up /\ pc = "select"
  /\ ~CanStart
  /\ pc' = "poll"
  /\ UNCHANGED <<ledger, backend, supVars, expired, disk, worker, wire, leaked,
                 writeFaults>>
  /\ SupFrame

\* The second look before submission.
Recheck ==
  /\ up /\ pc = "recheck"
  /\ IF state[supJob] = RUNNING /\ cancelRequested[supJob]
     THEN CancelQueued(supJob, "idle")
     ELSE /\ pc' = IF state[supJob] = RUNNING THEN "submit" ELSE "idle"
          /\ UNCHANGED <<state, active, blocked, disk, writeFaults>>
  /\ UNCHANGED <<cancelRequested, cancelSent, pending, backend, supVars, expired,
                 worker, wire, leaked>>
  /\ SupFrame

\* backend.submit: _send raises when the child is gone, else the command is in
\* its stdin and the supervisor waits for build_started.
SubmitToWorker ==
  /\ up /\ pc = "submit"
  /\ IF worker.alive
     THEN /\ worker' = [worker EXCEPT !.inbox = @ \union {supJob}]
          /\ pc' = "awaitAck"
     ELSE pc' = "lost" /\ UNCHANGED worker
  /\ UNCHANGED <<ledger, backend, supVars, expired, disk, wire, leaked, writeFaults>>
  /\ SupFrame

FirstReply(i) ==
  /\ wire[i].kind \in Reply
  /\ \A j \in DOMAIN wire : j < i => wire[j].kind \notin Reply

\* The wait takes the first reply, past the events before it: build_started,
\* whichever build it names; a proof that this build was not begun
\* (BuildNotStartedError); or anything else.
Answered ==
  /\ up /\ pc = "awaitAck"
  /\ \E i \in DOMAIN wire :
       /\ FirstReply(i)
       /\ pc' = CASE wire[i].kind = "started" -> "poll"
                  [] wire[i] = [kind |-> "notStarted", build |-> supJob] -> "refused"
                  [] OTHER -> "lost"
       /\ wire' = RemoveAt(wire, i)
  /\ UNCHANGED <<ledger, backend, supVars, expired, disk, worker, leaked, writeFaults>>
  /\ SupFrame

Unanswered ==
  /\ up /\ pc = "awaitAck"
  /\ \A i \in DOMAIN wire : wire[i].kind \notin Reply

\* The wait takes the sentinel of a dead child out of the message queue, where it
\* is the last message.
WithoutSentinel ==
  IF wire # <<>> /\ wire[Len(wire)] = Crashed THEN Front(wire) ELSE wire

\* Mutants: a lost acknowledgement taken for a refusal, or sent again.
AckLostTo(next) ==
  /\ Unanswered
  /\ pc' = next
  /\ wire' = WithoutSentinel
  /\ UNCHANGED <<ledger, backend, supVars, expired, disk, worker, leaked, writeFaults>>
  /\ SupFrame
AckLostMeansRefused == AckLostTo("refused")
AckLostSendsAgain == AckLostTo("submit")

\* No answer before request_timeout, or the sentinel.
AckLost ==
  /\ Unanswered
  /\ pc' = "lost"
  /\ wire' = WithoutSentinel
  /\ UNCHANGED <<ledger, backend, supVars, expired, disk, worker, leaked, writeFaults>>
  /\ SupFrame

RefusedBeforeStart ==
  /\ up /\ pc = "refused"
  /\ FinishWithoutResult(supJob, FAILED)
  /\ UNCHANGED <<cancelRequested, cancelSent, pending, backend, supVars, expired,
                 worker, wire, leaked>>
  /\ SupFrame

\* A lost acknowledgement, a failed poll or an expired deadline.
LoseTrack ==
  /\ up /\ pc = "lost"
  /\ MarkIndeterminate(supJob, "abort", "idle")
  /\ UNCHANGED <<cancelRequested, cancelSent, pending, backend, supVars, expired,
                 worker, wire, leaked>>
  /\ SupFrame

\* _abort_backend: only the child; _backend keeps pointing at it.
AbortBackend ==
  /\ up /\ pc = "abort"
  /\ KillWorker
  /\ pc' = "idle"
  /\ UNCHANGED <<ledger, backend, supVars, expired, disk, leaked, writeFaults>>
  /\ SupFrame

\* backend.poll takes at most one message, outside the lock, and drops a late reply.
Poll ==
  /\ up /\ pc = "poll"
  /\ supEvent' = IF wire = <<>> \/ Head(wire).kind \in Reply
                 THEN NoEvent ELSE Head(wire)
  /\ wire' = IF wire = <<>> THEN wire ELSE Tail(wire)
  /\ pc' = "apply"
  /\ UNCHANGED <<ledger, backend, supJob, supTimedOut, expired, disk, worker,
                 leaked, writeFaults>>
  /\ SupFrame

PollRaises ==
  /\ up /\ pc = "poll"
  /\ IF active # Nil /\ state[active] = RUNNING
     THEN pc' = "lost" /\ supJob' = active
     ELSE pc' = "idle" /\ UNCHANGED supJob
  /\ UNCHANGED <<ledger, backend, supEvent, supTimedOut, expired, disk, worker,
                 wire, leaked, writeFaults>>
  /\ SupFrame

\* _apply_event drops an event unless the active job runs and the tag fits.
Applies ==
  /\ active # Nil
  /\ state[active] = RUNNING
  /\ supEvent # NoEvent
  /\ supEvent.build \in {Nil, active}

\* Mutant: the event kind itself becomes the state.
VerdictVerbatim(kind) == kind

VerdictState(kind) ==
  CASE kind = "completed" -> SUCCEEDED
    [] kind = "failed"    -> FAILED
    [] kind = "cancelled" -> CANCELLED

ApplyVerdict ==
  /\ up /\ pc = "apply"
  /\ Applies /\ supEvent.kind \in Verdict
  /\ Complete(active, VerdictState(supEvent.kind))
  /\ UNCHANGED <<cancelRequested, cancelSent, pending, backend, supVars, expired,
                 worker, wire, leaked>>
  /\ SupFrame

ApplyUnknown ==
  /\ up /\ pc = "apply"
  /\ Applies /\ supEvent.kind \in {"indeterminate", "crashed"}
  /\ MarkIndeterminate(active, "idle", "idle")
  /\ UNCHANGED <<cancelRequested, cancelSent, pending, backend, supVars, expired,
                 worker, wire, leaked>>
  /\ SupFrame

\* Mutants: the deadline is not looked at, or the cancel is not passed on.
CheckCancelOnly ==
  IF active = Nil \/ state[active] # RUNNING \/ ~cancelRequested[active]
  THEN pc' = "idle" /\ UNCHANGED <<cancelSent, supJob, supTimedOut>>
  ELSE /\ cancelSent' = [cancelSent EXCEPT ![active] = TRUE]
       /\ supJob' = active
       /\ supTimedOut' = FALSE
       /\ pc' = IF cancelSent[active] THEN "idle" ELSE "sendCancel"
CheckDeadlineOnly ==
  IF active = Nil \/ state[active] # RUNNING \/ ~expired
  THEN pc' = "idle" /\ UNCHANGED <<cancelSent, supJob, supTimedOut>>
  ELSE /\ supJob' = active
       /\ supTimedOut' = TRUE
       /\ pc' = "lost"
       /\ UNCHANGED cancelSent

\* After the events: is a cancel still to be sent, has the deadline passed?
CheckCancelAndDeadline ==
  IF active = Nil \/ state[active] # RUNNING
  THEN pc' = "idle" /\ UNCHANGED <<cancelSent, supJob, supTimedOut>>
  ELSE /\ cancelSent' = [cancelSent EXCEPT ![active] = @ \/ cancelRequested[active]]
       /\ supJob' = active
       /\ supTimedOut' = expired
       /\ pc' = IF cancelRequested[active] /\ ~cancelSent[active] THEN "sendCancel"
                ELSE IF expired THEN "lost" ELSE "idle"

ApplyStep ==
  /\ up /\ pc = "apply"
  /\ Applies /\ supEvent.kind = "step"
  /\ \/ Persist(active, RUNNING) /\ CheckCancelAndDeadline
     \/ WriteRaises /\ pc' = "idle" /\ UNCHANGED <<cancelSent, supJob, supTimedOut>>
  /\ UNCHANGED <<state, cancelRequested, active, blocked, pending, backend,
                 supEvent, expired, worker, wire, leaked>>
  /\ SupFrame

ApplyNothing ==
  /\ up /\ pc = "apply"
  /\ ~Applies
  /\ CheckCancelAndDeadline
  /\ UNCHANGED <<state, cancelRequested, active, blocked, pending, backend,
                 supEvent, expired, disk, worker, wire, leaked, writeFaults>>
  /\ SupFrame

SendCancel ==
  /\ up /\ pc = "sendCancel"
  /\ worker' = [worker EXCEPT !.cancel = worker.alive]
  /\ pc' = IF supTimedOut THEN "lost" ELSE "idle"
  /\ UNCHANGED <<ledger, backend, supVars, expired, disk, wire, leaked, writeFaults>>
  /\ SupFrame

Supervisor ==
  \/ BackendReady \/ StartBackend \/ StartBackendRaises
  \/ NoBackend \/ SettleWithoutBackend
  \/ StartJob \/ SkipJob \/ NothingToStart \/ Recheck
  \/ SubmitToWorker \/ Answered \/ AckLost \/ RefusedBeforeStart
  \/ LoseTrack \/ AbortBackend
  \/ Poll \/ PollRaises
  \/ ApplyVerdict \/ ApplyUnknown \/ ApplyStep \/ ApplyNothing \/ SendCancel

\* clock() moves past the running job's deadline.
DeadlinePasses ==
  /\ up /\ ~expired
  /\ active # Nil /\ state[active] = RUNNING
  /\ expired' = TRUE
  /\ UNCHANGED <<up, stop, ledger, backend, thread, pc, supVars, disk, requestFile,
                 requestOf, seVars, exits, writeFaults, ack, reconciled>>

-------------------------------------------------------------------------------
(* The child process and Solid Edge.                                         *)

WorkerFrame == UNCHANGED <<up, stop, ledger, backend, thread, pc, supVars, expired,
                           disk, requestFile, requestOf, leaked, exits, writeFaults,
                           ack, reconciled>>

\* The child reads a build command, acknowledges it and hands it to Solid Edge.
WorkerStart(b) ==
  /\ worker.alive /\ b \in worker.inbox /\ worker.building = Nil
  /\ worker' = [worker EXCEPT !.inbox = @ \ {b}, !.building = b, !.cancel = FALSE]
  /\ wire' = Append(wire, [kind |-> "started", build |-> b])
  /\ native' = [native EXCEPT ![b] = "running"]
  /\ starts' = [starts EXCEPT ![b] = @ + 1]
  /\ WorkerFrame

\* Or it does not start it, provably ("notStarted") or just by saying no.
WorkerRefuses(b) ==
  /\ worker.alive /\ b \in worker.inbox
  /\ worker' = [worker EXCEPT !.inbox = @ \ {b}]
  /\ \E answer \in {"notStarted", "no"} :
       wire' = Append(wire, [kind |-> answer, build |-> b])
  /\ UNCHANGED <<native, starts>>
  /\ WorkerFrame

WorkerStep ==
  /\ worker.building # Nil
  /\ Len(wire) < MaxWire
  /\ wire' = Append(wire, [kind |-> "step", build |-> worker.building])
  /\ UNCHANGED <<worker, native, starts>>
  /\ WorkerFrame

\* The last event of a build.  Only "indeterminate" leaves Solid Edge running.
WorkerEnds ==
  /\ worker.building # Nil
  /\ \E kind \in Verdict \union {"indeterminate"} :
       /\ kind = "cancelled" => worker.cancel
       /\ wire' = Append(wire, [kind |-> kind, build |-> worker.building])
       /\ native' = IF kind = "indeterminate" THEN native
                    ELSE [native EXCEPT ![worker.building] = "ended"]
  /\ worker' = [worker EXCEPT !.building = Nil]
  /\ UNCHANGED starts
  /\ WorkerFrame

WorkerCrash ==
  /\ worker.alive
  /\ KillWorker
  /\ UNCHANGED <<native, starts>>
  /\ WorkerFrame

\* Solid Edge finishes an operation nobody listens to any more.
NativeEnds(b) ==
  /\ native[b] = "running" /\ worker.building # b
  /\ native' = [native EXCEPT ![b] = "ended"]
  /\ UNCHANGED <<worker, wire, starts>>
  /\ WorkerFrame

-------------------------------------------------------------------------------
(* The end of the process and its restart.                                   *)

\* close(): join gives up after five seconds, so the supervisor may be anywhere.
Close ==
  /\ up /\ ~stop
  /\ exits < MaxExits
  /\ exits' = exits + 1
  /\ stop' = TRUE
  /\ IF active # Nil /\ state[active] = RUNNING
     THEN MarkIndeterminate(active, pc, pc)
     ELSE IF active # Nil /\ state[active] = QUEUED
     THEN /\ state' = [state EXCEPT ![active] = INTERRUPTED]
          /\ active' = Nil
          /\ UNCHANGED blocked
          /\ PersistOrRaise(active, INTERRUPTED, pc, pc)
     ELSE UNCHANGED <<state, active, blocked, disk, writeFaults, pc>>
  /\ IF writeFaults' # writeFaults
     THEN UNCHANGED <<backend, worker, wire>>   \* close() raised
     ELSE backend' = FALSE /\ KillWorker
  /\ UNCHANGED <<up, cancelRequested, cancelSent, byRequest, pending, thread,
                 supVars, expired, requestFile, requestOf, native, leaked, starts,
                 ack, reconciled>>

ForgetMemory ==
  /\ up' = FALSE /\ stop' = FALSE
  /\ state' = [b \in BuildIds |-> Absent]
  /\ cancelRequested' = [b \in BuildIds |-> FALSE]
  /\ cancelSent' = [b \in BuildIds |-> FALSE]
  /\ byRequest' = [r \in RequestIds |-> Nil]
  /\ active' = Nil /\ blocked' = Nil /\ pending' = <<>>
  /\ backend' = FALSE
  /\ thread' = [t \in HttpThreads |-> Nil]
  /\ pc' = "idle" /\ supJob' = Nil /\ supEvent' = NoEvent
  /\ supTimedOut' = FALSE /\ expired' = FALSE
  /\ worker' = DeadWorker /\ wire' = <<>> /\ leaked' = 0
  /\ UNCHANGED <<native, starts, writeFaults, ack, reconciled>>

\* The process ends after close(), or dies; children see their stdin close.
Exit ==
  /\ up /\ stop
  /\ ForgetMemory
  /\ UNCHANGED <<disk, requestFile, requestOf, exits>>

Crash ==
  /\ up
  /\ exits < MaxExits
  /\ exits' = exits + 1
  /\ ForgetMemory
  /\ UNCHANGED <<disk, requestFile, requestOf>>

\* It dies inside an admission, between request.json and job.json.
CrashInAdmission(t, b) ==
  /\ Admissible(t) /\ Fresh(b)
  /\ exits < MaxExits
  /\ exits' = exits + 1
  /\ requestOf' = [requestOf EXCEPT ![b] = thread[t]]
  /\ requestFile' = requestFile \union {b}
  /\ ForgetMemory
  /\ UNCHANGED disk

\* Mutants: a restart gives up on running builds, or on unknown outcomes.
AfterRestartGivesUp(s) == IF s \in {QUEUED, RUNNING} THEN INTERRUPTED ELSE s
AfterRestartForgives(s) ==
  CASE s \in {QUEUED, INDETERMINATE} -> INTERRUPTED
    [] s = RUNNING                   -> INDETERMINATE
    [] OTHER                         -> s

AfterRestart(s) ==
  CASE s = QUEUED  -> INTERRUPTED
    [] s = RUNNING -> INDETERMINATE
    [] OTHER       -> s

\* Mutant: only jobs that are not over come back.
ReadableUnsettled == {b \in requestFile : disk[b] \in {QUEUED, RUNNING, INDETERMINATE}}

\* The jobs _recover can read: both files exist.
Readable == {b \in requestFile : disk[b] # Absent}

\* Mutant: the state is looked at before it is rewritten.
UnknownBefore(recovered) == {b \in Readable : disk[b] = INDETERMINATE}

Unknown(recovered) == {b \in Readable : recovered[b] = INDETERMINATE}

\* _recover: they come back, nothing is queued again; with several indeterminate
\* jobs the last directory visited is the one that blocks.
Recover ==
  /\ ~up
  /\ up' = TRUE
  /\ disk' = [b \in BuildIds |->
                IF b \in Readable THEN AfterRestart(disk[b]) ELSE disk[b]]
  /\ state' = [b \in BuildIds |-> IF b \in Readable THEN disk'[b] ELSE Absent]
  /\ LET jobsOf(r) == {b \in Readable : requestOf[b][1] = r}
     IN  /\ byRequest' \in [RequestIds -> BuildIds \union {Nil}]
         /\ \A r \in RequestIds :
              byRequest'[r] \in IF jobsOf(r) = {} THEN {Nil} ELSE jobsOf(r)
  /\ blocked' \in IF Unknown(disk') = {} THEN {Nil} ELSE Unknown(disk')
  /\ UNCHANGED <<stop, cancelRequested, cancelSent, active, pending, backend, thread,
                 pc, supVars, expired, requestFile, requestOf, seVars, exits,
                 writeFaults, ack, reconciled>>

\* It dies inside _recover, after some of the jobs were rewritten: at most once for
\* each job, so no bound.
CrashInRecovery(b) ==
  /\ ~up
  /\ b \in Readable /\ disk[b] \in {QUEUED, RUNNING}
  /\ disk' = [disk EXCEPT ![b] = AfterRestart(@)]
  /\ UNCHANGED <<up, stop, ledger, backend, thread, pc, supVars, expired, requestFile,
                 requestOf, seVars, exits, writeFaults, ack, reconciled>>

-------------------------------------------------------------------------------
Http ==
  \/ \E r \in RequestIds, d \in Digests :
       SubmitAgain(r, d) \/ \E t \in HttpThreads : SubmitCheck(t, r, d)
  \/ \E t \in HttpThreads :
       \/ SubmitRefused(t) \/ SubmitLate(t)
       \/ \E b \in BuildIds : SubmitAdmit(t, b) \/ SubmitAdmitRaises(t, b)
  \/ \E b \in BuildIds : CancelQueuedJob(b) \/ CancelRunningJob(b) \/ Reconcile(b)

SolidEdge ==
  \/ \E b \in BuildIds : WorkerStart(b) \/ WorkerRefuses(b) \/ NativeEnds(b)
  \/ WorkerStep \/ WorkerEnds \/ WorkerCrash

Process ==
  \/ Close \/ Exit \/ Crash \/ Recover
  \/ \E b \in BuildIds :
       CrashInRecovery(b) \/ \E t \in HttpThreads : CrashInAdmission(t, b)

Next == Http \/ Supervisor \/ DeadlinePasses \/ SolidEdge \/ Process

Spec == Init /\ [][Next]_vars

\* The supervisor loop runs as long as the process does and every wait in it has a
\* deadline.  Nothing is assumed of clients, of the child or of Solid Edge.
FairSpec == Spec /\ WF_vars(Supervisor)
-------------------------------------------------------------------------------
(* Properties.                                                               *)

ProcessType ==
  /\ up \in BOOLEAN /\ stop \in BOOLEAN /\ backend \in BOOLEAN
  /\ thread \in [HttpThreads -> (RequestIds \X Digests) \union {Nil}]

LedgerType ==
  /\ state \in [BuildIds -> JobState \union {Absent}]
  /\ cancelRequested \in [BuildIds -> BOOLEAN]
  /\ cancelSent \in [BuildIds -> BOOLEAN]
  /\ byRequest \in [RequestIds -> BuildIds \union {Nil}]
  /\ active \in BuildIds \union {Nil} /\ blocked \in BuildIds \union {Nil}
  /\ pending \in Seq(BuildIds)

SupervisorType ==
  /\ pc \in Pc
  /\ supJob \in BuildIds \union {Nil}
  /\ supEvent \in Message \union {NoEvent}
  /\ supTimedOut \in BOOLEAN /\ expired \in BOOLEAN

DiskType ==
  /\ disk \in [BuildIds -> JobState \union {Absent}]
  /\ requestFile \subseteq BuildIds
  /\ requestOf \in [BuildIds -> (RequestIds \X Digests) \union {Nil}]

ChildType ==
  /\ worker \in [alive : BOOLEAN, inbox : SUBSET BuildIds,
                 building : BuildIds \union {Nil}, cancel : BOOLEAN]
  /\ wire \in Seq(Message)
  /\ native \in [BuildIds -> {"idle", "running", "ended"}]
  /\ leaked \in Nat

HistoryType ==
  /\ exits \in Nat /\ writeFaults \in Nat
  /\ starts \in [BuildIds -> Nat]
  /\ ack \subseteq RequestIds \X BuildIds \X Digests
  /\ reconciled \subseteq BuildIds

\* Every variable keeps the type the code gives it.
TypeOK ==
  /\ ProcessType /\ LedgerType /\ SupervisorType
  /\ DiskType /\ ChildType /\ HistoryType

\* What the bridge would answer about a build, now or after its next start.
Answer(b) == IF up THEN state[b] ELSE disk[b]

Unsettled == {QUEUED, RUNNING, INDETERMINATE}

\* While Solid Edge may be executing a build, the ledger keeps the only slot
\* taken by it - it is the active running build, or the one that blocks
\* admission, or it will be after a restart - until an operator reconciles it.
\* The deadline, a lost acknowledgement, a dead child, close() and a crash at
\* any point all have to preserve this (jobs.py, "blocks admission until").
NativeAccounted ==
  \A b \in BuildIds \ reconciled :
    native[b] = "running" =>
      IF up THEN \/ state[b] = RUNNING /\ active = b
                 \/ state[b] = INDETERMINATE /\ blocked = b
      ELSE b \in requestFile /\ disk[b] \in {RUNNING, INDETERMINATE}

\* The ledger never gives a definite answer about a build Solid Edge may still
\* be executing, and never forgets it, whatever write fails and wherever the
\* bridge, the child or an acknowledgement is lost.
NoFalseVerdict ==
  \A b \in BuildIds \ reconciled :
    native[b] = "running" => Answer(b) \in {RUNNING, INDETERMINATE}

\* Nothing is replayed: Solid Edge is handed a build at most once, over any
\* number of restarts, timeouts and retries of the same request.
NothingReplayed == \A b \in BuildIds : starts[b] <= 1

\* Once the ledger gives a definite answer about a build, Solid Edge never
\* begins it: a cancel that beat the supervisor stays ahead of it.  Reconciling
\* is a human's claim about Solid Edge, so reconciled builds are left out.
SettledNeverStarts ==
  [][\A b \in BuildIds \ reconciled :
       Answer(b) \in Definite => starts'[b] = starts[b]]_vars

\* Every client that was told which build its request became finds that build, for
\* that payload, under the same request_id ever after, restarts included; so no
\* two answers to one request_id name different builds or payloads, however
\* admissions of it with different payloads race.
AcknowledgedIsKept ==
  up => \A r \in RequestIds, b \in BuildIds, d \in Digests :
          <<r, b, d>> \in ack => byRequest[r] = b /\ requestOf[b] = <<r, d>>

\* A build is admitted only when no other is queued, running or indeterminate.
AdmissionIsExclusive ==
  [][\A b \in BuildIds :
       state[b] = Absent /\ state'[b] = QUEUED =>
         \A other \in BuildIds \ {b} : state[other] \notin Unsettled]_vars

\* What the supervisor keeps outside the ledger agrees with it.  The slot is held by
\* a build that can still use it; the bridge refuses work for an unknown outcome
\* exactly as long as there is one, and _blocked names it.  (A bridge that is closing
\* may learn that the build it just marked was never begun.)
SlotAgrees ==
  up => /\ active # Nil => state[active] \in {QUEUED, RUNNING}
        /\ \A b \in BuildIds :
             /\ state[b] = INDETERMINATE => blocked = b
             /\ blocked = b => state[b] = INDETERMINATE \/ stop

\* An unknown outcome becomes a definite one only by reconciliation, or when
\* the backend proves that it never began the build.
OnlyReconcileResolves ==
  [][\A b \in BuildIds :
       disk[b] = INDETERMINATE /\ disk'[b] # INDETERMINATE =>
         b \in reconciled' \/ starts[b] = 0]_vars

\* A definite outcome on disk is never taken back: it survives every restart
\* and late event.  Only a build that never began, cancelled or interrupted in
\* the queue, can still be reported as failed.
OutcomeStands ==
  [][\A b \in BuildIds :
       disk[b] \in Definite =>
         \/ disk'[b] = disk[b]
         \/ /\ disk[b] \in {CANCELLED, INTERRUPTED} /\ starts[b] = 0
            /\ disk'[b] = FAILED]_vars

\* A cancel that wins against the supervisor is the end of the build.
CancelWins ==
  [][\A b \in BuildIds : disk[b] = CANCELLED => disk'[b] = CANCELLED]_vars

\* Every admitted build gets an outcome while the bridge keeps running and deadlines
\* pass, whatever the child does.
EveryBuildSettles ==
  WF_vars(DeadlinePasses) =>
  \A b \in BuildIds :
    state[b] \in {QUEUED, RUNNING} ~> (state[b] \notin {QUEUED, RUNNING} \/ stop)

\* A cancel of a running build reaches the child, or the build is over; it does
\* not take the deadline to get it there.
CancelIsDelivered ==
  \A b \in BuildIds :
    (state[b] = RUNNING /\ cancelRequested[b])
      ~> \/ worker.building = b /\ worker.cancel
         \/ state[b] # RUNNING \/ stop

\* The ledger on disk as a BuildSlot: one build at a time holds the slot until
\* its execution is known to be over or an operator lets it go.
Phase(s) ==
  CASE s = Absent        -> "new"
    [] s = QUEUED        -> "queued"
    [] s = RUNNING       -> "running"
    [] s = INDETERMINATE -> "unknown"
    [] s \in Definite    -> "settled"

Slot == INSTANCE BuildSlot
          WITH phase <- [b \in BuildIds |-> Phase(disk[b])],
               released <- reconciled

\* Through every interleaving and crash the durable ledger is a BuildSlot.
LedgerIsSlot == Slot!Spec
===============================================================================
