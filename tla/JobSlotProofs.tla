----------------------------- MODULE JobSlotProofs -----------------------------
(***************************************************************************)
(* What JobManager promises about the one Solid Edge slot while its writes  *)
(* succeed: memory and disk agree, one build at a time holds the slot, the  *)
(* ledger on disk is a BuildSlot, and a request keeps its build.            *)
(*                                                                         *)
(* A write that raises leaves memory ahead of the disk until the next       *)
(* restart (jobs.py sets the state first), so none of this holds then; what *)
(* still does is proved in JobManagerProofs.                                *)
(***************************************************************************)
EXTENDS JobManagerProofs

USE DEF ledger, supVars, seVars

\* atomic_write_json never raises.
WritesSucceed == MaxWriteFaults = 0

-------------------------------------------------------------------------------
(* The inductive invariant.                                                  *)

\* What is in memory is what is on disk, and every job there has its request.
DiskFollows ==
  /\ up => \A b \in BuildIds : disk[b] = state[b]
  /\ \A b \in BuildIds : disk[b] # Absent => b \in requestFile

\* The slot is held by the build that is queued or running, and by no other.
SlotIsHeld == \A b \in BuildIds : state[b] \in {QUEUED, RUNNING} <=> active = b

\* An unknown outcome blocks the bridge as long as there is one.
UnknownBlocks ==
  up => \A b \in BuildIds :
          /\ state[b] = INDETERMINATE => blocked = b
          /\ blocked = b => state[b] = INDETERMINATE \/ stop

OneUnsettled ==
  \A b, c \in BuildIds : disk[b] \in Unsettled /\ disk[c] \in Unsettled => b = c

\* A build that is queued on disk was never given to the child.
QueuedOnDisk ==
  \A b \in BuildIds : disk[b] = QUEUED => native[b] = "idle" /\ b \notin worker.inbox

\* A bridge that is down remembers nothing.
DownIsEmpty ==
  ~up => ~stop /\ active = Nil /\ \A b \in BuildIds : state[b] = Absent

LedgerAgrees ==
  DiskFollows /\ SlotIsHeld /\ UnknownBlocks /\ OneUnsettled /\ QueuedOnDisk /\ DownIsEmpty

\* While it hands a build over, only a closing bridge can take it from the supervisor;
\* while it gives one up for want of a backend, a client can cancel it too.
Handing == {"recheck", "submit", "awaitAck", "refused"}
SupervisorHolds ==
  /\ pc \in Handing =>
       \/ state[supJob] = RUNNING
       \/ stop /\ state[supJob] \in {INDETERMINATE, INTERRUPTED}
  /\ pc = "unavailable" =>
       \/ state[supJob] \in {QUEUED, CANCELLED}
       \/ stop /\ state[supJob] = INTERRUPTED

Agreed == LedgerAgrees /\ SupervisorHolds

-------------------------------------------------------------------------------
(* What a step may do to the ledger on disk.                                 *)

\* One build turns to another state; Solid Edge does nothing.
Turns(b, s) ==
  /\ disk' = [disk EXCEPT ![b] = s]
  /\ UNCHANGED <<native, starts>>

DiskTurns(b) ==
  \/ /\ Turns(b, QUEUED) /\ disk[b] = Absent /\ reconciled' = reconciled
     /\ \A c \in BuildIds : disk[c] \notin Unsettled
     /\ requestOf[b] = Nil /\ requestOf'[b] # Nil
  \/ Turns(b, RUNNING) /\ disk[b] = QUEUED /\ reconciled' = reconciled
  \/ Turns(b, INDETERMINATE) /\ disk[b] = RUNNING /\ reconciled' = reconciled
  \/ \E s \in Definite :
       /\ Turns(b, s) /\ reconciled' = reconciled
       /\ \/ disk[b] \in Unsettled /\ native[b] = "idle"
          \/ disk[b] = RUNNING /\ native[b] = "ended"
  \/ /\ Turns(b, FAILED) /\ reconciled' = reconciled
     /\ disk[b] \in {CANCELLED, INTERRUPTED} /\ native[b] = "idle"
  \/ /\ Turns(b, INTERRUPTED) /\ disk[b] = INDETERMINATE
     /\ reconciled' = reconciled \union {b}

DiskStands == UNCHANGED <<disk, native, starts, reconciled>>

DiskStep == DiskStands \/ \E b \in BuildIds : DiskTurns(b)

\* Solid Edge begins a build the ledger has open, or stops executing one.
NativeStep ==
  /\ UNCHANGED <<disk, reconciled>>
  /\ \/ UNCHANGED <<native, starts>>
     \/ \E b \in BuildIds :
          /\ native[b] = "idle" /\ (disk[b] \in Open \/ b \in reconciled)
          /\ native' = [native EXCEPT ![b] = "running"]
     \/ \E b \in BuildIds :
          /\ native[b] = "running" /\ starts' = starts
          /\ native' = [native EXCEPT ![b] = "ended"]

\* The states are different strings, set by set.
LEMMA States ==
  /\ Unsettled = {QUEUED, RUNNING, INDETERMINATE}
  /\ Absent \notin Unsettled
  /\ QUEUED # RUNNING /\ QUEUED # INDETERMINATE /\ RUNNING # INDETERMINATE
  /\ Unsettled \intersect Definite = {}
  /\ {SUCCEEDED, FAILED, CANCELLED, INTERRUPTED} = Definite
  /\ Absent \notin Definite
  /\ FAILED \notin {CANCELLED, INTERRUPTED} /\ CANCELLED # INTERRUPTED
  /\ SUCCEEDED \notin {CANCELLED, INTERRUPTED}
  BY DEF Unsettled, Definite, QUEUED, RUNNING, SUCCEEDED, FAILED, CANCELLED, INTERRUPTED,
         INDETERMINATE, Absent

-------------------------------------------------------------------------------
(* Kinds of steps.                                                           *)

\* A build that neither the child nor Solid Edge has got stays so.
NothingHandedOver ==
  \A b \in BuildIds : native[b] = "idle" /\ b \notin worker.inbox =>
                        native'[b] = "idle" /\ b \notin worker'.inbox

\* Nothing of the ledger changes.
LEMMA SilentAgrees ==
  ASSUME Accounted', LedgerAgrees,
         UNCHANGED <<up, state, disk, active, blocked, requestFile>>,
         stop' = stop \/ (up /\ stop'),
         up \/ NothingHandedOver
  PROVE  LedgerAgrees'
<1>1. QueuedOnDisk'
  BY Distinct DEF LedgerAgrees, QueuedOnDisk, DiskFollows, Accounted, QueuedIsUntouched, Untouched,
     NothingHandedOver
<1> QED
  BY <1>1 DEF LedgerAgrees, DiskFollows, SlotIsHeld, UnknownBlocks, OneUnsettled, DownIsEmpty

\* A build of the running bridge turns to another state, in memory and on disk.
Moves(b, s) ==
  /\ up /\ up'
  /\ state' = [state EXCEPT ![b] = s] /\ disk' = [disk EXCEPT ![b] = s]
  /\ stop => stop'

LEMMA MoveFollows ==
  ASSUME Typed, Accounted', LedgerAgrees, NEW b \in BuildIds, NEW s, Moves(b, s),
         requestFile \subseteq requestFile', b \in requestFile'
  PROVE  /\ DiskFollows' /\ DownIsEmpty' /\ QueuedOnDisk'
         /\ \A c \in BuildIds : state'[c] = IF c = b THEN s ELSE state[c]
         /\ \A c \in BuildIds : disk'[c] = state'[c] /\ disk[c] = state[c]
<1>1. \A c \in BuildIds : /\ state'[c] = IF c = b THEN s ELSE state[c]
                          /\ disk'[c] = IF c = b THEN s ELSE disk[c]
  BY DEF Moves, Typed, TypeOK, LedgerType, DiskType
<1>2. DiskFollows' /\ DownIsEmpty'
  BY <1>1 DEF LedgerAgrees, DiskFollows, DownIsEmpty, Moves
<1>3. QueuedOnDisk'
  BY <1>2 DEF DiskFollows, QueuedOnDisk, Accounted, QueuedIsUntouched, Untouched, Moves
<1> QED
  BY <1>1, <1>2, <1>3 DEF DiskFollows, LedgerAgrees, Moves

\* A build is over: it gives the slot back, if it had it.
LEMMA EndAgrees ==
  ASSUME Typed, Accounted', LedgerAgrees, NEW b \in BuildIds, NEW s \in Definite, Moves(b, s),
         state[b] # Absent, active' = Release(b),
         blocked' = blocked \/ (blocked = b /\ blocked' = Nil),
         state[b] = INDETERMINATE => stop \/ blocked' # b,
         requestFile' = requestFile
  PROVE  LedgerAgrees'
<1>1. b \in requestFile'
  BY DEF LedgerAgrees, DiskFollows, Moves
<1>2. /\ DiskFollows' /\ DownIsEmpty' /\ QueuedOnDisk'
      /\ \A c \in BuildIds : state'[c] = IF c = b THEN s ELSE state[c]
      /\ \A c \in BuildIds : disk'[c] = state'[c] /\ disk[c] = state[c]
  BY <1>1, MoveFollows
<1>3. s \notin Unsettled
  BY States
<1>4. SlotIsHeld'
  BY <1>2, <1>3, States, NilAssumption DEF LedgerAgrees, SlotIsHeld, Release
<1>5. UnknownBlocks'
  BY <1>2, <1>3, States, NilAssumption DEF LedgerAgrees, UnknownBlocks, Moves
<1>6. OneUnsettled'
  BY <1>2, <1>3 DEF LedgerAgrees, OneUnsettled
<1> QED
  BY <1>2, <1>4, <1>5, <1>6 DEF LedgerAgrees

\* The running build's outcome becomes unknown, and blocks the bridge.
LEMMA LoseAgrees ==
  ASSUME Typed, Accounted', LedgerAgrees, NEW b \in BuildIds, state[b] = RUNNING,
         Moves(b, INDETERMINATE), active' = Release(b), blocked' = b,
         requestFile' = requestFile
  PROVE  LedgerAgrees'
<1>1. b \in requestFile'
  BY Distinct DEF LedgerAgrees, DiskFollows, Moves
<1>2. /\ DiskFollows' /\ DownIsEmpty' /\ QueuedOnDisk'
      /\ \A c \in BuildIds : state'[c] = IF c = b THEN INDETERMINATE ELSE state[c]
      /\ \A c \in BuildIds : disk'[c] = state'[c] /\ disk[c] = state[c]
  BY <1>1, MoveFollows
<1>3. \A c \in BuildIds \ {b} : state[c] \notin Unsettled
  BY <1>2, States DEF LedgerAgrees, OneUnsettled
<1>4. SlotIsHeld'
  BY <1>2, <1>3, States, NilAssumption DEF LedgerAgrees, SlotIsHeld, Release
<1>5. UnknownBlocks'
  BY <1>2, <1>3, States, NilAssumption DEF UnknownBlocks, Moves
<1>6. OneUnsettled'
  BY <1>2, <1>3 DEF OneUnsettled
<1> QED
  BY <1>2, <1>4, <1>5, <1>6 DEF LedgerAgrees

\* The queued build, which has the slot, is started.
LEMMA StartAgrees ==
  ASSUME Typed, Accounted', LedgerAgrees, NEW b \in BuildIds, state[b] = QUEUED,
         Moves(b, RUNNING), active' = b, UNCHANGED <<blocked, requestFile, stop>>
  PROVE  LedgerAgrees'
<1>1. b \in requestFile'
  BY Distinct DEF LedgerAgrees, DiskFollows, Moves
<1>2. /\ DiskFollows' /\ DownIsEmpty' /\ QueuedOnDisk'
      /\ \A c \in BuildIds : state'[c] = IF c = b THEN RUNNING ELSE state[c]
      /\ \A c \in BuildIds : disk'[c] = state'[c] /\ disk[c] = state[c]
  BY <1>1, MoveFollows
<1>3. \A c \in BuildIds \ {b} : state[c] \notin Unsettled
  BY <1>2, States DEF LedgerAgrees, OneUnsettled
<1>4. SlotIsHeld'
  BY <1>2, <1>3, States, NilAssumption DEF LedgerAgrees, SlotIsHeld
<1>5. UnknownBlocks'
  BY <1>2, <1>3, States, NilAssumption DEF LedgerAgrees, UnknownBlocks, Moves
<1>6. OneUnsettled'
  BY <1>2, <1>3 DEF OneUnsettled
<1> QED
  BY <1>2, <1>4, <1>5, <1>6 DEF LedgerAgrees

\* A new build takes the free slot: nothing else is unsettled.
LEMMA AdmitAgrees ==
  ASSUME Typed, Accounted', LedgerAgrees, NEW b \in BuildIds, state[b] = Absent,
         Moves(b, QUEUED), active = Nil, blocked = Nil, active' = b,
         UNCHANGED <<blocked, stop>>, requestFile' = requestFile \union {b}
  PROVE  LedgerAgrees' /\ \A c \in BuildIds : disk[c] \notin Unsettled
<1>2. /\ DiskFollows' /\ DownIsEmpty' /\ QueuedOnDisk'
      /\ \A c \in BuildIds : state'[c] = IF c = b THEN QUEUED ELSE state[c]
      /\ \A c \in BuildIds : disk'[c] = state'[c] /\ disk[c] = state[c]
  BY MoveFollows
<1>3. \A c \in BuildIds : state[c] \notin Unsettled
  BY NilAssumption, States DEF LedgerAgrees, SlotIsHeld, UnknownBlocks, Moves
<1>4. SlotIsHeld'
  BY <1>2, <1>3, States, NilAssumption DEF LedgerAgrees, SlotIsHeld
<1>5. UnknownBlocks'
  BY <1>2, <1>3, States, NilAssumption DEF LedgerAgrees, UnknownBlocks, Moves
<1>6. OneUnsettled'
  BY <1>2, <1>3 DEF OneUnsettled
<1> QED
  BY <1>2, <1>3, <1>4, <1>5, <1>6 DEF LedgerAgrees

-------------------------------------------------------------------------------
(* The handlers, when their write succeeds.                                  *)

LEMMA NoWriteRaises ==
  ASSUME WritesSucceed, Typed
  PROVE  ~WriteRaises
  BY DEF WritesSucceed, WriteRaises, Typed, TypeOK, HistoryType

LEMMA HandlersWrite ==
  ASSUME WritesSucceed, Typed, NEW b \in BuildIds, NEW s, NEW ok, NEW raised
  PROVE  /\ PersistOrRaise(b, s, ok, raised) =>
              disk' = [disk EXCEPT ![b] = s] /\ pc' = ok
         /\ MarkIndeterminate(b, ok, raised) =>
              /\ pc' = ok
              /\ \/ state[b] # RUNNING /\ UNCHANGED <<state, active, blocked, disk>>
                 \/ /\ state[b] = RUNNING
                    /\ state' = [state EXCEPT ![b] = INDETERMINATE]
                    /\ disk' = [disk EXCEPT ![b] = INDETERMINATE]
                    /\ active' = Release(b) /\ blocked' = b
         /\ FinishWithoutResult(b, s) =>
              /\ state' = [state EXCEPT ![b] = s] /\ disk' = [disk EXCEPT ![b] = s]
              /\ active' = Release(b) /\ blocked' = blocked /\ pc' = "idle"
         /\ CancelQueued(b, ok) =>
              /\ state' = [state EXCEPT ![b] = CANCELLED]
              /\ disk' = [disk EXCEPT ![b] = CANCELLED]
              /\ active' = Release(b) /\ blocked' = blocked /\ pc' = ok
         /\ Complete(b, s) =>
              /\ state' = [state EXCEPT ![b] = s] /\ disk' = [disk EXCEPT ![b] = s]
              /\ active' = Release(b) /\ blocked' = blocked /\ pc' = "idle"
  BY NoWriteRaises DEF PersistOrRaise, Persist, MarkIndeterminate, FinishWithoutResult,
     CancelQueued, Complete

\* Who reads the disk reads what memory says, and the running build is the active one.
LEMMA Reads ==
  ASSUME LedgerAgrees, up, NEW b \in BuildIds
  PROVE  /\ disk[b] = state[b]
         /\ state[b] \in {QUEUED, RUNNING} <=> active = b
  BY DEF LedgerAgrees, DiskFollows, SlotIsHeld

\* A build that is over, on the evidence that it ended or never began.
LEMMA SettleAgrees ==
  ASSUME Typed, Accounted', LedgerAgrees, NEW b \in BuildIds, NEW s \in Definite, up,
         state' = [state EXCEPT ![b] = s], disk' = [disk EXCEPT ![b] = s],
         active' = Release(b), state[b] = INDETERMINATE => stop,
         stop => stop',
         UNCHANGED <<up, blocked, requestFile, native, starts, reconciled>>,
         \/ state[b] \in Unsettled /\ native[b] = "idle"
         \/ state[b] = RUNNING /\ native[b] = "ended"
         \/ s = FAILED /\ state[b] \in {CANCELLED, INTERRUPTED} /\ native[b] = "idle"
  PROVE  LedgerAgrees' /\ DiskStep
<1>1. state[b] # Absent
  BY States, Distinct
<1>2. LedgerAgrees'
  BY <1>1, EndAgrees, NilAssumption DEF Moves
<1>3. Turns(b, s) /\ disk[b] = state[b]
  BY Reads DEF Turns
<1>4. DiskTurns(b)
  BY <1>3 DEF DiskTurns
<1> QED
  BY <1>2, <1>4 DEF DiskStep

\* A step that leaves the ledger and Solid Edge as they are, and does not take the
\* supervisor to a job.
LEMMA StandsAgrees ==
  ASSUME Accounted', Agreed,
         UNCHANGED <<up, stop, state, disk, active, blocked, requestFile, native, starts,
                     reconciled>>,
         up \/ NothingHandedOver,
         \/ pc' = pc /\ supJob' = supJob
         \/ pc' \in Elsewhere \ {"awaitAck"}
  PROVE  Agreed' /\ DiskStep
<1>1. LedgerAgrees'
  BY SilentAgrees DEF Agreed
<1>2. SupervisorHolds'
  BY DEF Agreed, SupervisorHolds, Elsewhere, Handing
<1> QED
  BY <1>1, <1>2 DEF Agreed, DiskStep, DiskStands

\* A step that leaves the supervisor where it is, and the state of its job.
LEMMA SupervisorStays ==
  ASSUME SupervisorHolds, UNCHANGED <<pc, supJob>>, stop => stop',
         state'[supJob] = state[supJob]
  PROVE  SupervisorHolds'
  BY DEF SupervisorHolds

-------------------------------------------------------------------------------
(* HTTP threads.                                                             *)

\* What is answered, checked or refused leaves the ledger alone.
LEMMA SubmitAgrees ==
  ASSUME Accounted', Agreed,
         \/ \E r \in RequestIds, d \in Digests :
              SubmitAgain(r, d) \/ \E t \in HttpThreads : SubmitCheck(t, r, d)
         \/ \E t \in HttpThreads : SubmitRefused(t) \/ SubmitLate(t)
  PROVE  Agreed' /\ DiskStep
<1>1. /\ UNCHANGED <<up, stop, state, disk, active, blocked, requestFile, native, starts,
                     reconciled, pc, supJob>>
      /\ up
  BY DEF SubmitAgain, SubmitCheck, SubmitRefused, SubmitLate
<1> QED
  BY <1>1, StandsAgrees

\* An admission takes the free slot.
LEMMA AdmissionAgrees ==
  ASSUME Accounted, Accounted', Agreed, WritesSucceed,
         NEW t \in HttpThreads, NEW b \in BuildIds,
         SubmitAdmit(t, b) \/ SubmitAdmitRaises(t, b)
  PROVE  Agreed' /\ DiskStep
<1>1. Typed /\ SubmitAdmit(t, b)
  BY NoWriteRaises DEF SubmitAdmitRaises, Accounted
<1>2. /\ up /\ state[b] = Absent /\ active = Nil /\ blocked = Nil
      /\ UNCHANGED <<up, stop, blocked, native, starts, reconciled, pc, supJob>>
      /\ state' = [state EXCEPT ![b] = QUEUED] /\ disk' = [disk EXCEPT ![b] = QUEUED]
      /\ active' = b /\ requestFile' = requestFile \union {b}
  BY <1>1 DEF SubmitAdmit, Admissible, Fresh, EnterLedger, Persist
<1>3. LedgerAgrees' /\ \A c \in BuildIds : disk[c] \notin Unsettled
  BY <1>1, <1>2, AdmitAgrees DEF Agreed, Moves
<1>4. SupervisorHolds'
  <2>1. pc \in Handing \union {"unavailable"} => state[supJob] # Absent
    BY Distinct, States DEF Agreed, SupervisorHolds
  <2>2. supJob # b => state'[supJob] = state[supJob]
    BY <1>1, <1>2 DEF Typed, TypeOK, LedgerType, SupervisorType
  <2> QED
    BY <1>2, <2>1, <2>2 DEF Agreed, SupervisorHolds
<1>5. DiskTurns(b)
  <2>1. requestOf[b] = Nil /\ requestOf'[b] # Nil
    BY <1>1 DEF SubmitAdmit, Admissible, Fresh, EnterLedger, Typed, TypeOK, DiskType
  <2> QED
    BY <1>2, <1>3, <2>1, Reads DEF DiskTurns, Turns, Agreed
<1> QED
  BY <1>3, <1>4, <1>5 DEF Agreed, DiskStep

\* A cancel settles a queued build, or is noted for a running one.
LEMMA CancelAgrees ==
  ASSUME Accounted, Accounted', Agreed, WritesSucceed, NEW b \in BuildIds,
         CancelQueuedJob(b) \/ CancelRunningJob(b)
  PROVE  Agreed' /\ DiskStep
<1>1. /\ Typed /\ up
      /\ UNCHANGED <<up, stop, blocked, requestFile, native, starts, reconciled, supJob>>
  BY DEF CancelQueuedJob, CancelQueued, CancelRunningJob, Accounted
<1>2. CASE CancelQueuedJob(b)
  <2>1. /\ state[b] = QUEUED /\ pc' = pc /\ active' = Release(b)
        /\ state' = [state EXCEPT ![b] = CANCELLED]
        /\ disk' = [disk EXCEPT ![b] = CANCELLED]
    BY <1>1, <1>2, HandlersWrite DEF CancelQueuedJob
  <2>2. native[b] = "idle" /\ QUEUED \in Unsettled
    BY <2>1 DEF Accounted, QueuedIsUntouched, Untouched, Unsettled
  <2>3. LedgerAgrees' /\ DiskStep
    BY <1>1, <2>1, <2>2, SettleAgrees, States, Distinct DEF Agreed
  <2>4. SupervisorHolds'
    BY <1>1, <2>1, States, Distinct DEF Agreed, SupervisorHolds, Handing, Typed, TypeOK,
       LedgerType, SupervisorHasJob
  <2> QED
    BY <2>3, <2>4 DEF Agreed
<1>3. CASE CancelRunningJob(b)
  <2>1. /\ state[b] = RUNNING /\ pc' = pc /\ disk' = [disk EXCEPT ![b] = RUNNING]
        /\ UNCHANGED <<state, active>>
    BY <1>1, <1>3, HandlersWrite DEF CancelRunningJob
  <2>2. disk' = disk
    BY <1>1, <2>1, Reads DEF Agreed, Typed, TypeOK, DiskType
  <2> QED
    BY <1>1, <2>1, <2>2, StandsAgrees
<1> QED
  BY <1>2, <1>3

\* Reconciling frees the bridge of the unknown outcome.
LEMMA ReconcileAgrees ==
  ASSUME Accounted, Accounted', Agreed, WritesSucceed, NEW b \in BuildIds, Reconcile(b)
  PROVE  Agreed' /\ DiskStep
<1>1. /\ Typed /\ up /\ state[b] = INDETERMINATE
      /\ UNCHANGED <<up, stop, active, requestFile, native, starts, supJob>>
      /\ state' = [state EXCEPT ![b] = INTERRUPTED]
      /\ blocked' = IF blocked = b THEN Nil ELSE blocked
      /\ reconciled' = reconciled \union {b}
  BY DEF Reconcile, Accounted
<1>2. disk' = [disk EXCEPT ![b] = INTERRUPTED] /\ pc' = pc
  BY <1>1, HandlersWrite DEF Reconcile
<1>3. active # b /\ disk[b] = INDETERMINATE
  BY <1>1, Reads, States DEF Agreed
<1>4. LedgerAgrees'
  BY <1>1, <1>2, <1>3, EndAgrees, NilAssumption, Distinct DEF Agreed, Moves, Release
<1>5. SupervisorHolds'
  BY <1>1, <1>2, States DEF Agreed, SupervisorHolds, Handing, Typed, TypeOK, LedgerType,
     SupervisorType
<1>6. DiskTurns(b)
  BY <1>1, <1>2, <1>3 DEF DiskTurns, Turns
<1> QED
  BY <1>4, <1>5, <1>6 DEF Agreed, DiskStep

-------------------------------------------------------------------------------
(* The supervisor.                                                           *)

\* Sections that only find out what to do next, or only talk to the child.
LEMMA RunOnceAgrees ==
  ASSUME Accounted, Accounted', Agreed,
         \/ BackendReady \/ StartBackend \/ StartBackendRaises \/ NothingToStart
         \/ SkipJob \/ AckLost \/ AbortBackend \/ Poll \/ PollRaises \/ ApplyNothing
         \/ SendCancel
  PROVE  Agreed' /\ DiskStep
<1>1. /\ UNCHANGED <<up, stop, state, disk, active, blocked, requestFile, native, starts,
                     reconciled>>
      /\ up
  BY DEF SupFrame, BackendReady, StartBackend, StartBackendRaises, NothingToStart, SkipJob,
     AckLost, Unanswered, AbortBackend, Poll, PollRaises, ApplyNothing, SendCancel
<1>2. pc' \in {"select", "starting", "noBackend", "poll", "lost", "idle", "apply",
               "sendCancel"}
  BY DEF BackendReady, StartBackend, StartBackendRaises, NothingToStart, SkipJob,
     AckLost, AbortBackend, Poll, PollRaises, ApplyNothing, SendCancel,
     CheckCancelAndDeadline
<1>3. pc' \in Elsewhere \ {"awaitAck"}
  BY <1>2 DEF Elsewhere, Pc
<1> QED
  BY <1>1, <1>3, StandsAgrees

\* Without a backend, the active build is remembered: a queued one to be failed.
LEMMA NoBackendAgrees ==
  ASSUME Accounted', Agreed, NoBackend
  PROVE  Agreed' /\ DiskStep
<1>1. /\ UNCHANGED <<up, stop, state, disk, active, blocked, requestFile, native, starts,
                     reconciled>>
      /\ up
  BY DEF SupFrame, NoBackend
<1>2. LedgerAgrees' /\ DiskStep
  BY <1>1, SilentAgrees DEF Agreed, DiskStep, DiskStands
<1>3. SupervisorHolds'
  BY <1>1, Distinct DEF NoBackend, SupervisorHolds, Handing
<1> QED
  BY <1>2, <1>3 DEF Agreed

\* Whoever marks the outcome unknown finds the build running, or does nothing.
LEMMA MarkingAgrees ==
  ASSUME Accounted, Accounted', Agreed, WritesSucceed, up, NEW b \in BuildIds,
         NEW ok \in {"abort", "idle"}, MarkIndeterminate(b, ok, "idle"),
         UNCHANGED <<up, stop, requestFile, native, starts, reconciled>>
  PROVE  Agreed' /\ DiskStep
<1>1. Typed
  BY DEF Accounted
<1>2. pc' \in Elsewhere \ {"awaitAck"}
  BY <1>1, HandlersWrite DEF Elsewhere, Pc
<1>3. CASE UNCHANGED <<state, active, blocked, disk>>
  BY <1>2, <1>3, StandsAgrees
<1>4. CASE /\ state[b] = RUNNING
           /\ state' = [state EXCEPT ![b] = INDETERMINATE]
           /\ disk' = [disk EXCEPT ![b] = INDETERMINATE]
           /\ active' = Release(b) /\ blocked' = b
  <2>1. LedgerAgrees'
    BY <1>1, <1>4, LoseAgrees DEF Agreed, Moves
  <2>2. SupervisorHolds'
    BY <1>2 DEF SupervisorHolds, Handing, Elsewhere
  <2>3. DiskTurns(b)
    BY <1>4, Reads DEF Agreed, DiskTurns, Turns
  <2> QED
    BY <2>1, <2>2, <2>3 DEF Agreed, DiskStep
<1> QED
  BY <1>1, <1>3, <1>4, HandlersWrite

\* A lost acknowledgement, a failed poll, an expired deadline or a dead child.
LEMMA LosingTrackAgrees ==
  ASSUME Accounted, Accounted', Agreed, WritesSucceed, LoseTrack \/ ApplyUnknown
  PROVE  Agreed' /\ DiskStep
<1>1. /\ UNCHANGED <<up, stop, requestFile, native, starts, reconciled>>
      /\ up
  BY DEF LoseTrack, ApplyUnknown, SupFrame
<1>2. PICK b \in BuildIds, ok \in {"abort", "idle"} : MarkIndeterminate(b, ok, "idle")
  BY NilAssumption DEF LoseTrack, ApplyUnknown, Applies, Accounted, Typed, TypeOK,
     SupervisorHasJob, LedgerType
<1> QED
  BY <1>1, <1>2, MarkingAgrees

\* A job that is failed for want of a backend, or because the child refused it, was
\* never begun.
LEMMA FailingAgrees ==
  ASSUME Accounted, Accounted', Agreed, WritesSucceed, up,
         pc \in {"refused", "unavailable"}, FinishWithoutResult(supJob, FAILED),
         UNCHANGED <<up, stop, requestFile, native, starts, reconciled>>
  PROVE  Agreed' /\ DiskStep
<1>1. Typed /\ supJob \in BuildIds /\ native[supJob] = "idle"
  BY DEF Accounted, SupervisorIsRight
<1>2. /\ state' = [state EXCEPT ![supJob] = FAILED]
      /\ disk' = [disk EXCEPT ![supJob] = FAILED]
      /\ active' = Release(supJob) /\ blocked' = blocked /\ pc' = "idle"
  BY <1>1, HandlersWrite
<1>3. \/ state[supJob] \in Unsettled
      \/ state[supJob] \in {CANCELLED, INTERRUPTED}
  BY States DEF Agreed, SupervisorHolds, Handing
<1>4. state[supJob] = INDETERMINATE => stop
  BY States, Distinct DEF Agreed, SupervisorHolds, Handing
<1>5. LedgerAgrees' /\ DiskStep
  BY <1>1, <1>2, <1>3, <1>4, SettleAgrees, Distinct DEF Agreed
<1>6. SupervisorHolds'
  BY <1>2 DEF SupervisorHolds, Handing
<1> QED
  BY <1>5, <1>6 DEF Agreed

LEMMA WithoutBackendAgrees ==
  ASSUME Accounted, Accounted', Agreed, WritesSucceed,
         SettleWithoutBackend \/ RefusedBeforeStart
  PROVE  Agreed' /\ DiskStep
<1>1. /\ UNCHANGED <<up, stop, requestFile, native, starts, reconciled>>
      /\ up
  BY DEF SettleWithoutBackend, RefusedBeforeStart, SupFrame
<1>2. CASE pc = "vanished"
  <2>1. supJob \in BuildIds /\ MarkIndeterminate(supJob, "idle", "idle")
    BY <1>2 DEF SettleWithoutBackend, RefusedBeforeStart, Accounted, Typed,
       SupervisorHasJob
  <2> QED
    BY <1>1, <2>1, MarkingAgrees
<1>3. CASE pc # "vanished"
  <2>1. pc \in {"refused", "unavailable"} /\ FinishWithoutResult(supJob, FAILED)
    BY <1>3 DEF SettleWithoutBackend, RefusedBeforeStart
  <2> QED
    BY <1>1, <2>1, FailingAgrees
<1> QED
  BY <1>2, <1>3

\* The queued build is started and becomes the supervisor's job.
LEMMA StartJobAgrees ==
  ASSUME Accounted, Accounted', Agreed, WritesSucceed, StartJob
  PROVE  Agreed' /\ DiskStep
<1>1. Typed
  BY DEF Accounted
<1>2. PICK b \in BuildIds : b = Head(pending)
  BY <1>1, TailProperties DEF StartJob, CanStart, Typed, TypeOK, LedgerType
<1>3. /\ UNCHANGED <<up, stop, blocked, requestFile, native, starts, reconciled>>
      /\ up /\ state[b] = QUEUED /\ state' = [state EXCEPT ![b] = RUNNING]
      /\ active' = b /\ supJob' = b /\ PersistOrRaise(b, RUNNING, "recheck", "idle")
  BY <1>2 DEF StartJob, SupFrame
<1>4. disk' = [disk EXCEPT ![b] = RUNNING] /\ pc' = "recheck"
  BY <1>1, <1>3, HandlersWrite
<1>5. LedgerAgrees'
  BY <1>1, <1>3, <1>4, StartAgrees DEF Agreed, Moves
<1>6. SupervisorHolds'
  BY <1>1, <1>3, <1>4 DEF SupervisorHolds, Typed, TypeOK, LedgerType
<1>7. DiskTurns(b)
  BY <1>3, <1>4, Reads DEF Agreed, DiskTurns, Turns
<1> QED
  BY <1>5, <1>6, <1>7 DEF Agreed, DiskStep

\* The second look finds the build cancelled, or running, or not its own any more.
LEMMA RecheckAgrees ==
  ASSUME Accounted, Accounted', Agreed, WritesSucceed, Recheck
  PROVE  Agreed' /\ DiskStep
<1>1. /\ UNCHANGED <<up, stop, requestFile, native, starts, reconciled, supJob>>
      /\ up /\ pc = "recheck" /\ Typed
  BY DEF Recheck, SupFrame, Accounted
<1>2. supJob \in BuildIds /\ native[supJob] = "idle"
  BY <1>1 DEF Accounted, SupervisorIsRight, Untouched
<1>3. CASE state[supJob] = RUNNING /\ cancelRequested[supJob]
  <2>1. /\ state' = [state EXCEPT ![supJob] = CANCELLED]
        /\ disk' = [disk EXCEPT ![supJob] = CANCELLED]
        /\ active' = Release(supJob) /\ blocked' = blocked /\ pc' = "idle"
    BY <1>1, <1>2, <1>3, HandlersWrite DEF Recheck
  <2>2. LedgerAgrees' /\ DiskStep
    BY <1>1, <1>2, <1>3, <2>1, SettleAgrees, States, Distinct DEF Agreed
  <2> QED
    BY <2>1, <2>2 DEF Agreed, SupervisorHolds, Handing
<1>4. CASE ~(state[supJob] = RUNNING /\ cancelRequested[supJob])
  <2>1. /\ UNCHANGED <<state, active, blocked, disk>>
        /\ pc' = IF state[supJob] = RUNNING THEN "submit" ELSE "idle"
    BY <1>4 DEF Recheck
  <2>2. LedgerAgrees' /\ DiskStep
    BY <1>1, <2>1, SilentAgrees DEF Agreed, DiskStep, DiskStands
  <2>3. SupervisorHolds'
    BY <1>1, <2>1 DEF SupervisorHolds, Handing
  <2> QED
    BY <2>2, <2>3 DEF Agreed
<1> QED
  BY <1>3, <1>4

\* The command is on its way, or its answer has come.
LEMMA HandingOverAgrees ==
  ASSUME Accounted', Agreed, SubmitToWorker \/ Answered
  PROVE  Agreed' /\ DiskStep
<1>1. /\ UNCHANGED <<up, stop, state, disk, active, blocked, requestFile, native, starts,
                     reconciled, supJob>>
      /\ up /\ pc \in {"submit", "awaitAck"}
  BY DEF SubmitToWorker, Answered, SupFrame
<1>2. pc' \in {"awaitAck", "lost", "poll", "refused"}
  BY DEF SubmitToWorker, Answered
<1>3. LedgerAgrees' /\ DiskStep
  BY <1>1, SilentAgrees DEF Agreed, DiskStep, DiskStands
<1>4. SupervisorHolds'
  BY <1>1, <1>2 DEF Agreed, SupervisorHolds, Handing
<1> QED
  BY <1>3, <1>4 DEF Agreed

\* A verdict ends the running build, which Solid Edge is done with.
LEMMA VerdictAgrees ==
  ASSUME Accounted, Accounted', Agreed, WritesSucceed, ApplyVerdict
  PROVE  Agreed' /\ DiskStep
<1>1. Typed
  BY DEF Accounted
<1>2. PICK b \in BuildIds : b = active
  BY <1>1 DEF Typed, TypeOK, LedgerType, ApplyVerdict, Applies
<1>3. /\ UNCHANGED <<up, stop, requestFile, native, starts, reconciled>>
      /\ up /\ state[b] = RUNNING
      /\ supEvent.kind \in Verdict /\ supEvent.build \in {Nil, b}
      /\ Complete(b, VerdictState(supEvent.kind))
  BY <1>2 DEF ApplyVerdict, Applies, SupFrame
<1>4. native[b] = "ended"
  BY <1>3, NilAssumption DEF Accounted, MessagesAreTrue
<1>5. VerdictState(supEvent.kind) \in Definite
  BY <1>3, Distinct DEF VerdictState, Verdict
<1> DEFINE s == VerdictState(supEvent.kind)
<1>6. /\ state' = [state EXCEPT ![b] = s] /\ disk' = [disk EXCEPT ![b] = s]
      /\ active' = Release(b) /\ blocked' = blocked /\ pc' = "idle"
  BY <1>1, <1>3, HandlersWrite
<1> HIDE DEF s
<1>7. LedgerAgrees' /\ DiskStep
  BY <1>1, <1>3, <1>4, <1>5, <1>6, SettleAgrees, Distinct DEF Agreed, s
<1> QED
  BY <1>6, <1>7 DEF Agreed, SupervisorHolds, Handing

\* A step event is written down; the build goes on running.
LEMMA StepEventAgrees ==
  ASSUME Accounted, Accounted', Agreed, WritesSucceed, ApplyStep
  PROVE  Agreed' /\ DiskStep
<1>1. /\ UNCHANGED <<up, stop, state, active, blocked, requestFile, native, starts,
                     reconciled>>
      /\ up /\ Typed /\ active \in BuildIds /\ state[active] = RUNNING
  BY DEF ApplyStep, Applies, SupFrame, Accounted, Typed, TypeOK, LedgerType
<1>2. Persist(active, RUNNING) /\ CheckCancelAndDeadline
  BY <1>1, NoWriteRaises DEF ApplyStep
<1>3. disk' = disk
  BY <1>1, <1>2, Reads DEF Persist, Agreed, Typed, TypeOK, DiskType
<1>4. pc' \in Elsewhere \ {"awaitAck"}
  BY <1>2 DEF CheckCancelAndDeadline, Elsewhere, Pc
<1> QED
  BY <1>1, <1>3, <1>4, StandsAgrees

\* The deadline of the running build passes.
LEMMA DeadlineAgrees ==
  ASSUME Accounted', Agreed, DeadlinePasses
  PROVE  Agreed' /\ DiskStep
<1>1. /\ UNCHANGED <<up, stop, state, disk, active, blocked, requestFile, native, starts,
                     reconciled, pc, supJob>>
      /\ up
  BY DEF DeadlinePasses
<1> QED
  BY <1>1, StandsAgrees

-------------------------------------------------------------------------------
(* The child and Solid Edge.                                                 *)

LEMMA SolidEdgeAgrees ==
  ASSUME Accounted, Accounted', Agreed, SolidEdge
  PROVE  Agreed' /\ NativeStep
<1>1. UNCHANGED <<up, stop, state, disk, active, blocked, requestFile, reconciled, pc,
                  supJob>>
  BY DEF SolidEdge, WorkerStart, WorkerRefuses, NativeEnds, WorkerStep, WorkerEnds,
     WorkerCrash, WorkerFrame
<1> SUFFICES NothingHandedOver /\ NativeStep
  <2>1. ASSUME NothingHandedOver PROVE LedgerAgrees'
    BY <1>1, <2>1, SilentAgrees DEF Agreed
  <2>2. SupervisorHolds'
    BY <1>1 DEF Agreed, SupervisorHolds
  <2> QED
    BY <2>1, <2>2 DEF Agreed
<1>2. /\ native \in [BuildIds -> {"idle", "running", "ended"}]
      /\ worker.inbox \subseteq BuildIds
      /\ worker.building \in BuildIds \union {Nil}
      /\ worker \in [alive : BOOLEAN, inbox : SUBSET BuildIds,
                     building : BuildIds \union {Nil}, cancel : BOOLEAN]
  BY DEF Accounted, Typed, TypeOK, ChildType
<1>3. ASSUME NEW b \in BuildIds, WorkerStart(b)
      PROVE  NothingHandedOver /\ NativeStep
  <2>1. /\ b \in worker.inbox /\ worker'.inbox = worker.inbox \ {b}
        /\ native' = [native EXCEPT ![b] = "running"]
    BY <1>2, <1>3 DEF WorkerStart
  <2>2. native[b] = "idle" /\ (disk[b] \in Open \/ b \in reconciled)
    BY <2>1 DEF Accounted, BegunOnce, LiveIsOpen, Live
  <2> QED
    BY <1>1, <1>2, <2>1, <2>2 DEF NothingHandedOver, NativeStep
<1>4. ASSUME NEW b \in BuildIds, WorkerRefuses(b)
      PROVE  NothingHandedOver /\ NativeStep
  BY <1>1, <1>2, <1>4 DEF WorkerRefuses, NothingHandedOver, NativeStep
<1>5. ASSUME NEW b \in BuildIds, NativeEnds(b)
      PROVE  NothingHandedOver /\ NativeStep
  BY <1>1, <1>2, <1>5 DEF NativeEnds, NothingHandedOver, NativeStep
<1>6. CASE WorkerStep
  <2>1. UNCHANGED <<worker, native, starts>>
    BY <1>6 DEF WorkerStep
  <2> QED
    BY <1>1, <2>1 DEF NothingHandedOver, NativeStep
<1>7. CASE WorkerEnds
  <2>1. PICK b \in BuildIds : b = worker.building /\ native[b] = "running"
    BY <1>2, <1>7 DEF WorkerEnds, Accounted, BegunOnce
  <2>2. /\ native' \in {native, [native EXCEPT ![b] = "ended"]}
        /\ worker'.inbox = worker.inbox /\ starts' = starts
    BY <1>2, <1>7, <2>1 DEF WorkerEnds
  <2>3. CASE native' = native
    BY <1>1, <2>2, <2>3 DEF NothingHandedOver, NativeStep
  <2>4. CASE native' = [native EXCEPT ![b] = "ended"]
    BY <1>1, <1>2, <2>1, <2>2, <2>4 DEF NothingHandedOver, NativeStep
  <2> QED
    BY <2>2, <2>3, <2>4
<1>8. CASE WorkerCrash
  <2>1. UNCHANGED <<native, starts>> /\ worker'.inbox = {}
    BY <1>8 DEF WorkerCrash, KillWorker, DeadWorker
  <2> QED
    BY <1>1, <2>1 DEF NothingHandedOver, NativeStep
<1> QED
  BY <1>3, <1>4, <1>5, <1>6, <1>7, <1>8 DEF SolidEdge

-------------------------------------------------------------------------------
(* The end of the process and its restart.                                   *)

\* A closing bridge gives up the build it has, which it cannot wait for.
LEMMA CloseAgrees ==
  ASSUME Accounted, Accounted', Agreed, WritesSucceed, Close
  PROVE  Agreed' /\ DiskStep
<1>1. /\ UNCHANGED <<up, requestFile, native, starts, reconciled, supJob>>
      /\ up /\ stop' /\ Typed
      /\ active \in BuildIds \union {Nil}
  BY DEF Close, Accounted, Typed, TypeOK, LedgerType
<1>2. CASE active # Nil /\ state[active] = RUNNING
  <2>1. /\ active \in BuildIds /\ pc' = pc
        /\ state' = [state EXCEPT ![active] = INDETERMINATE]
        /\ disk' = [disk EXCEPT ![active] = INDETERMINATE]
        /\ active' = Release(active) /\ blocked' = active
    BY <1>1, <1>2, HandlersWrite DEF Close
  <2>2. LedgerAgrees'
    BY <1>1, <1>2, <2>1, LoseAgrees DEF Agreed, Moves
  <2>3. DiskTurns(active)
    BY <1>1, <1>2, <2>1, Reads DEF Agreed, DiskTurns, Turns
  <2>4. SupervisorHolds'
    BY <1>1, <1>2, <2>1, States, Distinct DEF Agreed, SupervisorHolds, Handing, Typed, TypeOK,
       LedgerType, SupervisorHasJob
  <2> QED
    BY <2>1, <2>2, <2>3, <2>4 DEF Agreed, DiskStep
<1>3. CASE active # Nil /\ state[active] = QUEUED
  <2>1. /\ active \in BuildIds /\ state[active] # RUNNING
        /\ state' = [state EXCEPT ![active] = INTERRUPTED]
        /\ active' = Nil /\ blocked' = blocked
        /\ PersistOrRaise(active, INTERRUPTED, pc, pc)
    BY <1>1, <1>3, States DEF Close
  <2>2. disk' = [disk EXCEPT ![active] = INTERRUPTED] /\ pc' = pc
    BY <1>1, <2>1, HandlersWrite
  <2>3. native[active] = "idle" /\ QUEUED \in Unsettled
    BY <1>3, <2>1 DEF Accounted, QueuedIsUntouched, Untouched, Unsettled
  <2>4. LedgerAgrees' /\ DiskStep
    BY <1>1, <1>3, <2>1, <2>2, <2>3, SettleAgrees, States, Distinct DEF Agreed, Release
  <2>5. SupervisorHolds'
    BY <1>1, <1>3, <2>1, <2>2, States, Distinct DEF Agreed, SupervisorHolds, Handing, Typed,
       TypeOK, LedgerType, SupervisorHasJob
  <2> QED
    BY <2>4, <2>5 DEF Agreed
<1>4. CASE active = Nil \/ state[active] \notin {QUEUED, RUNNING}
  <2>1. UNCHANGED <<state, active, blocked, disk, pc>>
    BY <1>4 DEF Close
  <2>2. LedgerAgrees' /\ DiskStep
    BY <1>1, <2>1, SilentAgrees DEF Agreed, DiskStep, DiskStands
  <2>3. SupervisorHolds'
    BY <1>1, <2>1 DEF Agreed, SupervisorHolds
  <2> QED
    BY <2>2, <2>3 DEF Agreed
<1> QED
  BY <1>2, <1>3, <1>4

\* The end of the process leaves the disk as memory was.
LEMMA EndOfProcessAgrees ==
  ASSUME Accounted, Accounted', Agreed,
         Exit \/ Crash \/ \E t \in HttpThreads, b \in BuildIds : CrashInAdmission(t, b)
  PROVE  Agreed' /\ DiskStep
<1>1. /\ up /\ ForgetMemory /\ disk' = disk /\ requestFile \subseteq requestFile'
  BY DEF Exit, Crash, CrashInAdmission, Admissible
<1>2. /\ ~up' /\ ~stop' /\ active' = Nil /\ pc' = "idle" /\ worker'.inbox = {}
      /\ \A b \in BuildIds : state'[b] = Absent
      /\ UNCHANGED <<native, starts, reconciled>>
  BY <1>1 DEF ForgetMemory, DeadWorker
<1>3. DiskFollows' /\ UnknownBlocks' /\ OneUnsettled' /\ DownIsEmpty'
  BY <1>1, <1>2 DEF Agreed, LedgerAgrees, DiskFollows, UnknownBlocks, OneUnsettled,
     DownIsEmpty
<1>4. SlotIsHeld'
  BY <1>2, NilAssumption, Distinct DEF SlotIsHeld
<1>5. QueuedOnDisk'
  BY <1>1, <1>2, Reads DEF Agreed, QueuedOnDisk, Accounted, QueuedIsUntouched, Untouched
<1>6. SupervisorHolds'
  BY <1>2 DEF SupervisorHolds, Handing
<1> QED
  BY <1>1, <1>2, <1>3, <1>4, <1>5, <1>6 DEF Agreed, LedgerAgrees, DiskStep, DiskStands

\* What a restart makes of each state.
LEMMA Restarted ==
  /\ AfterRestart(QUEUED) = INTERRUPTED /\ AfterRestart(RUNNING) = INDETERMINATE
  /\ \A s : /\ s \notin {QUEUED, RUNNING} => AfterRestart(s) = s
            /\ AfterRestart(s) \notin {QUEUED, RUNNING}
            /\ AfterRestart(s) \in Unsettled => s \in Unsettled
            /\ AfterRestart(s) = Absent <=> s = Absent
  BY DEF AfterRestart, Unsettled, QUEUED, RUNNING, INTERRUPTED, INDETERMINATE, Absent

\* The one unsettled build is interrupted, or its outcome becomes unknown.
LEMMA RestartTurns ==
  ASSUME Agreed, Typed, NEW b \in BuildIds, disk[b] \in {QUEUED, RUNNING},
         disk' = [disk EXCEPT ![b] = AfterRestart(disk[b])],
         UNCHANGED <<native, starts, reconciled>>
  PROVE  DiskStep
<1>1. CASE disk[b] = QUEUED
  <2>1. native[b] = "idle" /\ INTERRUPTED \in Definite
    BY <1>1, States DEF Agreed, LedgerAgrees, QueuedOnDisk
  <2>2. DiskTurns(b)
    BY <1>1, <2>1, Restarted, States DEF DiskTurns, Turns
  <2> QED
    BY <2>2 DEF DiskStep
<1>2. CASE disk[b] = RUNNING
  BY <1>2, Restarted DEF DiskStep, DiskTurns, Turns
<1> QED
  BY <1>1, <1>2

\* A restart brings the one unsettled build back, and blocks the bridge for it.
LEMMA RecoverAgrees ==
  ASSUME Accounted, Accounted', Agreed, Recover
  PROVE  Agreed' /\ DiskStep
<1>1. /\ ~up /\ up' /\ Typed /\ pc = "idle"
      /\ UNCHANGED <<stop, active, requestFile, native, starts, reconciled, worker, pc>>
      /\ ~stop /\ active = Nil
  BY DEF Recover, Agreed, LedgerAgrees, DownIsEmpty, Accounted, SupervisorIsRight
<1>2. \A b \in BuildIds : b \in Readable <=> disk[b] # Absent
  BY DEF Readable, Agreed, LedgerAgrees, DiskFollows, Accounted, Typed, TypeOK, DiskType
<1>3. /\ \A b \in BuildIds : disk'[b] = AfterRestart(disk[b]) /\ state'[b] = disk'[b]
      /\ disk \in [BuildIds -> JobState \union {Absent}]
      /\ disk' \in [BuildIds -> JobState \union {Absent}]
  BY <1>1, <1>2, Restarted DEF Recover, Accounted, Typed, TypeOK, DiskType
<1>4. \A b, c \in BuildIds : disk'[b] \in Unsettled /\ disk'[c] \in Unsettled => b = c
  BY <1>3, Restarted DEF Agreed, LedgerAgrees, OneUnsettled
<1>5. Unknown(disk') = {b \in BuildIds : disk'[b] = INDETERMINATE}
  BY <1>1, <1>2, <1>3, Restarted, States
     DEF Unknown, Readable, Accounted, Typed, TypeOK, DiskType
<1>6. DiskFollows' /\ SlotIsHeld' /\ OneUnsettled' /\ QueuedOnDisk' /\ DownIsEmpty'
  BY <1>1, <1>2, <1>3, <1>4, Restarted, NilAssumption DEF Agreed, LedgerAgrees, DiskFollows,
     SlotIsHeld, OneUnsettled, QueuedOnDisk, DownIsEmpty
<1>7. UnknownBlocks'
  <2>1. blocked' \in IF Unknown(disk') = {} THEN {Nil} ELSE Unknown(disk')
    BY DEF Recover
  <2> QED
    BY <1>3, <1>4, <1>5, <2>1, NilAssumption, States DEF UnknownBlocks
<1>8. SupervisorHolds'
  BY <1>1 DEF SupervisorHolds, Handing
<1>9. DiskStep
  <2>1. CASE \E b \in BuildIds : disk[b] \in {QUEUED, RUNNING}
    <3>1. PICK b \in BuildIds : disk[b] \in {QUEUED, RUNNING}
      BY <2>1
    <3>2. \A c \in BuildIds \ {b} : disk[c] \notin {QUEUED, RUNNING}
      BY <3>1, States DEF Agreed, LedgerAgrees, OneUnsettled
    <3>3. disk' = [disk EXCEPT ![b] = AfterRestart(disk[b])]
      <4>1. \A c \in BuildIds : disk'[c] = [disk EXCEPT ![b] = AfterRestart(disk[b])][c]
        BY <1>3, <3>2, Restarted
      <4> QED
        BY <1>3, <4>1
    <3> QED
      BY <1>1, <3>1, <3>3, RestartTurns
  <2>2. CASE \A b \in BuildIds : disk[b] \notin {QUEUED, RUNNING}
    <3>1. disk' = disk
      BY <1>3, <2>2, Restarted
    <3> QED
      BY <1>1, <3>1 DEF DiskStep, DiskStands
  <2> QED
    BY <2>1, <2>2
<1> QED
  BY <1>6, <1>7, <1>8, <1>9 DEF Agreed, LedgerAgrees

\* A restart that dies half-way has rewritten the one unsettled build, or nothing.
LEMMA CrashInRecoveryAgrees ==
  ASSUME Accounted, Accounted', Agreed, NEW b \in BuildIds, CrashInRecovery(b)
  PROVE  Agreed' /\ DiskStep
<1>1. /\ ~up /\ ~up' /\ Typed /\ disk[b] \in {QUEUED, RUNNING}
      /\ UNCHANGED <<stop, active, state, requestFile, native, starts, reconciled, worker,
                     pc>>
      /\ disk' = [disk EXCEPT ![b] = AfterRestart(disk[b])]
      /\ pc = "idle"
  BY DEF CrashInRecovery, Accounted, SupervisorIsRight
<1>2. \A c \in BuildIds : disk'[c] = IF c = b THEN AfterRestart(disk[b]) ELSE disk[c]
  BY <1>1 DEF Typed, TypeOK, DiskType
<1>3. DiskFollows' /\ SlotIsHeld' /\ UnknownBlocks' /\ DownIsEmpty'
  BY <1>1, <1>2, Restarted DEF Agreed, LedgerAgrees, DiskFollows, SlotIsHeld,
     UnknownBlocks, DownIsEmpty
<1>4. OneUnsettled' /\ QueuedOnDisk'
  BY <1>1, <1>2, Restarted DEF Agreed, LedgerAgrees, OneUnsettled, QueuedOnDisk
<1>5. SupervisorHolds'
  BY <1>1 DEF SupervisorHolds, Handing
<1> QED
  BY <1>1, <1>3, <1>4, <1>5, RestartTurns DEF Agreed, LedgerAgrees

-------------------------------------------------------------------------------
(* What always holds.                                                        *)

\* Every step keeps the agreement, and turns one build at most.
LEMMA AgreedStep ==
  ASSUME WritesSucceed, Accounted, Agreed, [Next]_vars
  PROVE  Agreed' /\ (DiskStep \/ NativeStep)
<1> Accounted'
  BY AccountedStep
<1>1. CASE Http
  BY <1>1, SubmitAgrees, AdmissionAgrees, CancelAgrees, ReconcileAgrees DEF Http
<1>2. CASE Supervisor
  BY <1>2, RunOnceAgrees, NoBackendAgrees, WithoutBackendAgrees, StartJobAgrees,
     RecheckAgrees, HandingOverAgrees, LosingTrackAgrees, VerdictAgrees, StepEventAgrees
     DEF Supervisor
<1>3. CASE DeadlinePasses
  BY <1>3, DeadlineAgrees
<1>4. CASE SolidEdge
  BY <1>4, SolidEdgeAgrees
<1>5. CASE Process
  BY <1>5, CloseAgrees, EndOfProcessAgrees, RecoverAgrees, CrashInRecoveryAgrees
     DEF Process
<1>6. CASE UNCHANGED vars
  BY <1>6, StandsAgrees DEF vars, NothingHandedOver
<1> QED
  BY <1>1, <1>2, <1>3, <1>4, <1>5, <1>6 DEF Next

LEMMA AgreedInit == Init => Agreed
<1> SUFFICES ASSUME Init PROVE Agreed
  OBVIOUS
<1>1. \A b \in BuildIds : state[b] = Absent /\ disk[b] = Absent
  BY DEF Init, EmptyLedger
<1>2. up /\ active = Nil /\ blocked = Nil /\ pc = "idle"
  BY DEF Init, EmptyLedger
<1>3. LedgerAgrees
  BY <1>1, <1>2, States, Distinct, NilAssumption DEF LedgerAgrees, DiskFollows, SlotIsHeld,
     UnknownBlocks, OneUnsettled, QueuedOnDisk, DownIsEmpty
<1>4. SupervisorHolds
  BY <1>2 DEF SupervisorHolds, Handing
<1> QED
  BY <1>3, <1>4 DEF Agreed

\* Memory, disk, the slot and the supervisor always agree, as long as no write raises.
THEOREM AlwaysAgreed ==
  ASSUME WritesSucceed
  PROVE  Spec => []Agreed
<1>1. Accounted /\ Agreed /\ [Next]_vars => Agreed'
  BY AgreedStep
<1> QED
  BY <1>1, AgreedInit, AlwaysAccounted, PTL DEF Spec

\* While Solid Edge may be executing a build nobody reconciled, that build keeps the
\* only slot: it is the active running one, or it blocks admission, or it will after
\* the next start, through deadlines, lost answers, close() and crashes.
THEOREM ExecutionKeepsSlot ==
  ASSUME WritesSucceed
  PROVE  Spec => []NativeAccounted
<1>1. Accounted /\ Agreed => NativeAccounted
  <2> SUFFICES ASSUME Accounted, Agreed, NEW b \in BuildIds \ reconciled,
                      native[b] = "running"
               PROVE  IF up THEN \/ state[b] = RUNNING /\ active = b
                                 \/ state[b] = INDETERMINATE /\ blocked = b
                      ELSE b \in requestFile /\ disk[b] \in {RUNNING, INDETERMINATE}
    BY DEF NativeAccounted
  <2>1. /\ disk[b] \in {RUNNING, INDETERMINATE} /\ b \in requestFile
        /\ up => state[b] \in {RUNNING, INDETERMINATE}
    BY DEF Accounted, LiveIsOpen, Live, Open
  <2> QED
    BY <2>1 DEF Agreed, LedgerAgrees, SlotIsHeld, UnknownBlocks
<1> QED
  BY <1>1, AlwaysAccounted, AlwaysAgreed, PTL

\* The slot is held only by a build that can still use it, and _blocked names the
\* unknown outcome exactly as long as there is one.
THEOREM SlotAlwaysAgrees ==
  ASSUME WritesSucceed
  PROVE  Spec => []SlotAgrees
<1>1. Accounted /\ Agreed => SlotAgrees
  BY NilAssumption DEF Accounted, Typed, TypeOK, LedgerType, Agreed, LedgerAgrees,
     SlotIsHeld, UnknownBlocks, SlotAgrees
<1> QED
  BY <1>1, AlwaysAccounted, AlwaysAgreed, PTL

\* A build that Solid Edge has not begun has not been handed to it.
LEMMA IdleMeansZero ==
  ASSUME Accounted, NEW b \in BuildIds, native[b] = "idle"
  PROVE  starts[b] = 0
  BY DEF Accounted, BegunOnce

\* What a step does to one build on disk.
LEMMA OnDisk ==
  ASSUME Typed, NEW b \in BuildIds, NEW s, NEW c \in BuildIds, Turns(b, s)
  PROVE  disk'[c] = IF c = b THEN s ELSE disk[c]
  BY DEF Turns, Typed, TypeOK, DiskType

\* An unknown outcome is resolved only by reconciliation, or by a proof of the backend
\* that the build never began.
THEOREM UnknownIsForOperators ==
  ASSUME WritesSucceed
  PROVE  Spec => OnlyReconcileResolves
<1>1. ASSUME Accounted, Agreed, [Next]_vars
      PROVE  \A b \in BuildIds :
               disk[b] = INDETERMINATE /\ disk'[b] # INDETERMINATE =>
                 b \in reconciled' \/ starts[b] = 0
  <2> SUFFICES ASSUME NEW b \in BuildIds, disk[b] = INDETERMINATE,
                      disk'[b] # INDETERMINATE
               PROVE  b \in reconciled' \/ starts[b] = 0
    OBVIOUS
  <2>1. DiskTurns(b)
    <3>1. PICK c \in BuildIds : DiskTurns(c)
      BY <1>1, AgreedStep DEF DiskStep, DiskStands, NativeStep
    <3>2. \E s : Turns(c, s)
      BY <3>1 DEF DiskTurns
    <3>3. c = b
      BY <1>1, <3>2, OnDisk DEF Accounted
    <3> QED
      BY <3>1, <3>3
  <2>2. b \in reconciled' \/ native[b] = "idle"
    BY <1>1, <2>1, States, Distinct DEF DiskTurns
  <2> QED
    BY <1>1, <2>2, IdleMeansZero
<1>2. Spec => [][Next]_vars
  BY DEF Spec
<1> QED
  BY <1>1, <1>2, AlwaysAccounted, AlwaysAgreed, PTL DEF OnlyReconcileResolves

\* A definite outcome on disk is never taken back; only a build that never began and
\* was cancelled or interrupted in the queue can still be reported as failed.
THEOREM OutcomeAlwaysStands ==
  ASSUME WritesSucceed
  PROVE  Spec => OutcomeStands
<1>1. ASSUME Accounted, Agreed, [Next]_vars
      PROVE  \A b \in BuildIds :
               disk[b] \in Definite =>
                 \/ disk'[b] = disk[b]
                 \/ /\ disk[b] \in {CANCELLED, INTERRUPTED} /\ starts[b] = 0
                    /\ disk'[b] = FAILED
  <2> SUFFICES ASSUME NEW b \in BuildIds, disk[b] \in Definite, disk'[b] # disk[b]
               PROVE  /\ disk[b] \in {CANCELLED, INTERRUPTED} /\ starts[b] = 0
                      /\ disk'[b] = FAILED
    OBVIOUS
  <2>1. DiskTurns(b)
    <3>1. PICK c \in BuildIds : DiskTurns(c)
      BY <1>1, AgreedStep DEF DiskStep, DiskStands, NativeStep
    <3>2. \E s : Turns(c, s)
      BY <3>1 DEF DiskTurns
    <3>3. c = b
      BY <1>1, <3>2, OnDisk DEF Accounted
    <3> QED
      BY <3>1, <3>3
  <2>2. /\ Turns(b, FAILED)
        /\ disk[b] \in {CANCELLED, INTERRUPTED} /\ native[b] = "idle"
    BY <2>1, States, Distinct DEF DiskTurns, Open
  <2> QED
    BY <1>1, <2>2, IdleMeansZero, OnDisk DEF Accounted
<1>2. Spec => [][Next]_vars
  BY DEF Spec
<1> QED
  BY <1>1, <1>2, AlwaysAccounted, AlwaysAgreed, PTL DEF OutcomeStands

\* A build enters the queue only when no other is queued, running or unknown.
THEOREM AdmissionStaysExclusive ==
  ASSUME WritesSucceed
  PROVE  Spec => AdmissionIsExclusive
<1>1. ASSUME Accounted, Agreed, [Next]_vars
      PROVE  \A b \in BuildIds :
               state[b] = Absent /\ state'[b] = QUEUED =>
                 \A other \in BuildIds \ {b} : state[other] \notin Unsettled
  <2> SUFFICES ASSUME NEW b \in BuildIds, state[b] = Absent, state'[b] = QUEUED,
                      NEW other \in BuildIds \ {b}
               PROVE  state[other] \notin Unsettled
    OBVIOUS
  <2>1. CASE ~up
    BY <1>1, <2>1, States DEF Agreed, LedgerAgrees, DownIsEmpty
  <2>2. CASE up
    <3>1. Agreed' /\ (DiskStep \/ NativeStep)
      BY <1>1, AgreedStep
    <3>2. disk'[b] = QUEUED /\ disk[b] = Absent /\ disk[other] = state[other]
      BY <1>1, <2>2, <3>1, Distinct DEF Agreed, LedgerAgrees, DiskFollows, DownIsEmpty
    <3>3. PICK c \in BuildIds : DiskTurns(c)
      BY <3>1, <3>2, Distinct DEF DiskStep, DiskStands, NativeStep
    <3>4. \E s : Turns(c, s)
      BY <3>3 DEF DiskTurns
    <3>5. c = b
      BY <1>1, <3>2, <3>4, OnDisk, Distinct DEF Accounted
    <3>6. disk[other] \notin Unsettled
      BY <3>2, <3>3, <3>5, States, Distinct DEF DiskTurns
    <3> QED
      BY <3>2, <3>6
  <2> QED
    BY <2>1, <2>2
<1>2. Spec => [][Next]_vars
  BY DEF Spec
<1> QED
  BY <1>1, <1>2, AlwaysAccounted, AlwaysAgreed, PTL DEF AdmissionIsExclusive

-------------------------------------------------------------------------------
(* The ledger on disk is a BuildSlot.                                        *)

\* Each state is one phase.
LEMMA Phases ==
  /\ Phase(Absent) = "new" /\ Phase(QUEUED) = "queued" /\ Phase(RUNNING) = "running"
  /\ Phase(INDETERMINATE) = "unknown" /\ \A s \in Definite : Phase(s) = "settled"
  BY DEF Phase, Definite, QUEUED, RUNNING, SUCCEEDED, FAILED, CANCELLED, INTERRUPTED,
     INDETERMINATE, Absent

\* A settled or new build does not hold the slot.
LEMMA HoldersAreUnsettled ==
  ASSUME Typed, NEW b \in BuildIds
  PROVE  Slot!Holds(b) <=> disk[b] \in Unsettled
<1>1. disk[b] \in Unsettled \union Definite \union {Absent}
  BY DEF Typed, TypeOK, DiskType, JobState, Terminal, Unsettled
<1> QED
  BY <1>1, Phases, States DEF Slot!Holds

\* One build's turn is one phase's.
LEMMA PhaseMoves ==
  ASSUME Typed, NEW b \in BuildIds, NEW s, Turns(b, s)
  PROVE  [c \in BuildIds |-> Phase(disk'[c])] =
           [[c \in BuildIds |-> Phase(disk[c])] EXCEPT ![b] = Phase(s)]
<1>1. \A c \in BuildIds : disk'[c] = IF c = b THEN s ELSE disk[c]
  BY OnDisk
<1> QED
  BY <1>1

\* Each turn of a build is an action of the slot; a build that is over may be given
\* another verdict, which the slot does not tell apart.
LEMMA TurnIsSlotStep ==
  ASSUME Typed, NEW b \in BuildIds, DiskTurns(b)
  PROVE  Slot!Next \/ UNCHANGED Slot!vars
<1> DEFINE phase == [c \in BuildIds |-> Phase(disk[c])]
           phaseNext == [c \in BuildIds |-> Phase(disk'[c])]
<1>1. phase[b] = Phase(disk[b])
  OBVIOUS
<1>2. \A s : Turns(b, s) => phaseNext = [phase EXCEPT ![b] = Phase(s)]
  BY PhaseMoves
<1>3. CASE /\ Turns(b, QUEUED) /\ disk[b] = Absent /\ reconciled' = reconciled
           /\ \A c \in BuildIds : disk[c] \notin Unsettled
  <2>1. Slot!Admit(b)
    BY <1>1, <1>2, <1>3, Phases, HoldersAreUnsettled DEF Slot!Admit, Turns
  <2> QED
    BY <2>1 DEF Slot!Next
<1>4. CASE Turns(b, RUNNING) /\ disk[b] = QUEUED /\ reconciled' = reconciled
  <2>1. Slot!Commit(b)
    BY <1>1, <1>2, <1>4, Phases DEF Slot!Commit, Turns
  <2> QED
    BY <2>1 DEF Slot!Next
<1>5. CASE Turns(b, INDETERMINATE) /\ disk[b] = RUNNING /\ reconciled' = reconciled
  <2>1. Slot!LoseTrack(b)
    BY <1>1, <1>2, <1>5, Phases DEF Slot!LoseTrack, Turns
  <2> QED
    BY <2>1 DEF Slot!Next
<1>6. ASSUME NEW s \in Definite, Turns(b, s), reconciled' = reconciled,
             \/ disk[b] \in Unsettled /\ native[b] = "idle"
             \/ disk[b] = RUNNING /\ native[b] = "ended"
      PROVE  Slot!Next
  <2>1. Slot!Settle(b)
    BY <1>1, <1>2, <1>6, Phases, HoldersAreUnsettled DEF Slot!Settle, Turns
  <2> QED
    BY <2>1 DEF Slot!Next
<1>7. CASE /\ Turns(b, FAILED) /\ reconciled' = reconciled
           /\ disk[b] \in {CANCELLED, INTERRUPTED} /\ native[b] = "idle"
  <2>1. Phase(FAILED) = phase[b]
    BY <1>7, Phases, Distinct, States
  <2>2. phaseNext = phase
    BY <1>2, <1>7, <2>1
  <2> QED
    BY <1>7, <2>2 DEF Slot!vars, Turns
<1>8. CASE /\ Turns(b, INTERRUPTED) /\ disk[b] = INDETERMINATE
           /\ reconciled' = reconciled \union {b}
  <2>1. Slot!Resolve(b)
    BY <1>1, <1>2, <1>8, Phases, Distinct DEF Slot!Resolve, Turns
  <2> QED
    BY <2>1 DEF Slot!Next
<1> QED
  BY <1>3, <1>4, <1>5, <1>6, <1>7, <1>8 DEF DiskTurns

\* Each step of Solid Edge is one too.
LEMMA NativeIsSlotStep ==
  ASSUME Accounted, Accounted', NativeStep
  PROVE  Slot!Next \/ UNCHANGED Slot!vars
<1>1. disk' = disk /\ reconciled' = reconciled
  BY DEF NativeStep
<1>2. [c \in BuildIds |-> Phase(disk'[c])] = [c \in BuildIds |-> Phase(disk[c])]
  BY <1>1
<1>3. CASE UNCHANGED native
  BY <1>1, <1>2, <1>3 DEF Slot!vars
<1>4. ASSUME NEW b \in BuildIds, native[b] = "idle", disk[b] \in Open \/ b \in reconciled,
             native' = [native EXCEPT ![b] = "running"]
      PROVE  Slot!Next
  <2>1. Phase(disk[b]) \in {"running", "unknown"} \/ b \in reconciled
    BY <1>4, Phases DEF Open
  <2>2. Slot!Execute(b)
    BY <1>1, <1>2, <1>4, <2>1 DEF Slot!Execute
  <2> QED
    BY <2>2 DEF Slot!Next
<1>5. ASSUME NEW b \in BuildIds, native[b] = "running",
             native' = [native EXCEPT ![b] = "ended"]
      PROVE  Slot!Next
  <2>1. Slot!Finish(b)
    BY <1>1, <1>2, <1>5 DEF Slot!Finish
  <2> QED
    BY <2>1 DEF Slot!Next
<1> QED
  BY <1>3, <1>4, <1>5 DEF NativeStep

\* Through every interleaving and crash the durable ledger is a BuildSlot: one build at
\* a time holds the slot, until its execution is known to be over or an operator lets
\* it go.
THEOREM LedgerIsBuildSlot ==
  ASSUME WritesSucceed
  PROVE  Spec => LedgerIsSlot
<1>1. Init => Slot!Init
  <2> SUFFICES ASSUME Init PROVE Slot!Init
    OBVIOUS
  <2>1. disk = [b \in BuildIds |-> Absent] /\ native = [b \in BuildIds |-> "idle"]
        /\ reconciled = {}
    BY DEF Init
  <2>2. [b \in BuildIds |-> Phase(disk[b])] = [b \in BuildIds |-> "new"]
    BY <2>1, Phases
  <2> QED
    BY <2>1, <2>2 DEF Slot!Init
<1>2. ASSUME Accounted, Agreed, [Next]_vars
      PROVE  [Slot!Next]_(Slot!vars)
  <2>1. Accounted' /\ Typed
    BY <1>2, AccountedStep DEF Accounted
  <2>2. CASE DiskStands
    BY <2>2 DEF DiskStands, Slot!vars
  <2>3. ASSUME NEW b \in BuildIds, DiskTurns(b)
        PROVE  Slot!Next \/ UNCHANGED Slot!vars
    BY <2>1, <2>3, TurnIsSlotStep
  <2>4. CASE NativeStep
    BY <1>2, <2>1, <2>4, NativeIsSlotStep
  <2> QED
    BY <1>2, <2>2, <2>3, <2>4, AgreedStep DEF DiskStep
<1> QED
  BY <1>1, <1>2, AlwaysAccounted, AlwaysAgreed, PTL DEF Spec, LedgerIsSlot, Slot!Spec

\* What BuildSlot keeps: one build holds the slot, and what executes holds it or was let go.
SlotExclusive ==
  /\ native \in [BuildIds -> {"idle", "running", "ended"}]
  /\ \A a, b \in BuildIds : Slot!Holds(a) /\ Slot!Holds(b) => a = b
  /\ \A b \in BuildIds \ reconciled : native[b] = "running" => Slot!Holds(b)

LEMMA SlotStep ==
  ASSUME SlotExclusive, [Slot!Next]_(Slot!vars)
  PROVE  SlotExclusive'
<1>1. ASSUME NEW b \in BuildIds, Slot!Admit(b)
      PROVE  SlotExclusive'
  BY <1>1 DEF SlotExclusive, Slot!Holds, Slot!Admit
<1>2. ASSUME NEW b \in BuildIds, Slot!Commit(b)
      PROVE  SlotExclusive'
  <2>1. \A c \in BuildIds : Slot!Holds(c)' <=> Slot!Holds(c)
    BY <1>2 DEF Slot!Holds, Slot!Commit
  <2>2. native' = native /\ reconciled' = reconciled
    BY <1>2 DEF Slot!Commit
  <2> QED
    BY <2>1, <2>2 DEF SlotExclusive
<1>3. ASSUME NEW b \in BuildIds, Slot!Execute(b)
      PROVE  SlotExclusive'
  BY <1>3 DEF SlotExclusive, Slot!Holds, Slot!Execute
<1>4. ASSUME NEW b \in BuildIds, Slot!Finish(b)
      PROVE  SlotExclusive'
  BY <1>4 DEF SlotExclusive, Slot!Holds, Slot!Finish
<1>5. ASSUME NEW b \in BuildIds, Slot!Settle(b)
      PROVE  SlotExclusive'
  BY <1>5 DEF SlotExclusive, Slot!Holds, Slot!Settle
<1>6. ASSUME NEW b \in BuildIds, Slot!LoseTrack(b)
      PROVE  SlotExclusive'
  <2>1. \A c \in BuildIds : Slot!Holds(c)' <=> Slot!Holds(c)
    BY <1>6 DEF Slot!Holds, Slot!LoseTrack
  <2>2. native' = native /\ reconciled' = reconciled
    BY <1>6 DEF Slot!LoseTrack
  <2> QED
    BY <2>1, <2>2 DEF SlotExclusive
<1>7. ASSUME NEW b \in BuildIds, Slot!Resolve(b)
      PROVE  SlotExclusive'
  BY <1>7 DEF SlotExclusive, Slot!Holds, Slot!Resolve
<1>8. CASE UNCHANGED Slot!vars
  BY <1>8 DEF SlotExclusive, Slot!Holds, Slot!vars
<1> QED
  BY <1>1, <1>2, <1>3, <1>4, <1>5, <1>6, <1>7, <1>8 DEF Slot!Next

\* Whatever does what the abstract slot allows never has two executions that nobody let
\* go, as the docstring of jobs.py promises.
THEOREM SlotExcludes == Slot!Spec => []Slot!OneExecution
<1>1. Slot!Init => SlotExclusive
  BY DEF Slot!Init, SlotExclusive, Slot!Holds
<1>2. SlotExclusive /\ [Slot!Next]_(Slot!vars) => SlotExclusive'
  BY SlotStep
<1>3. SlotExclusive => Slot!OneExecution
  BY DEF SlotExclusive, Slot!OneExecution
<1> QED
  BY <1>1, <1>2, <1>3, PTL DEF Slot!Spec

\* So Solid Edge executes two builds at a time only if an operator let one of them go.
THEOREM OneExecutionAtATime ==
  ASSUME WritesSucceed
  PROVE  Spec => []Slot!OneExecution
BY LedgerIsBuildSlot, SlotExcludes, PTL DEF LedgerIsSlot

-------------------------------------------------------------------------------
(* A request keeps its build.                                                *)

\* The table of requests is read off the builds, of which each request has one.
OneJobEach ==
  \A b, c \in BuildIds :
    disk[b] # Absent /\ disk[c] # Absent /\ requestOf[b][1] = requestOf[c][1] => b = c

TableFollows ==
  up => \A r \in RequestIds, b \in BuildIds :
          byRequest[r] = b <=> state[b] # Absent /\ requestOf[b][1] = r

AnswersAreKept ==
  \A r \in RequestIds, b \in BuildIds, d \in Digests :
    <<r, b, d>> \in ack => disk[b] # Absent /\ requestOf[b] = <<r, d>>

RequestsKept == OneJobEach /\ TableFollows /\ AnswersAreKept

\* A build on the table or on disk was drawn for a request.
LEMMA DrawnForRequest ==
  ASSUME Accounted, NEW b \in BuildIds, disk[b] # Absent \/ state[b] # Absent
  PROVE  requestOf[b] \in RequestIds \X Digests
  BY DEF Accounted, UndrawnIsUnknown, Typed, TypeOK, DiskType

\* An answer to a request names the build it has, and the payload of that build.
LEMMA AnswerNamesBuild ==
  ASSUME Accounted, Agreed, RequestsKept, NEW r \in RequestIds, NEW d \in Digests, up,
         Recorded(r, d), Acknowledge(r, byRequest[r], d), UNCHANGED <<disk, requestOf>>
  PROVE  AnswersAreKept'
<1>1. PICK b \in BuildIds : b = byRequest[r]
  BY DEF Recorded, Accounted, Typed, TypeOK, LedgerType
<1>2. disk[b] # Absent /\ requestOf[b] = <<r, d>>
  BY <1>1, Reads DEF Recorded, RequestsKept, TableFollows, Agreed
<1>3. ack' = ack \union {<<r, b, d>>}
  BY <1>1 DEF Acknowledge
<1> QED
  BY <1>2, <1>3 DEF RequestsKept, AnswersAreKept

\* A step that neither admits nor forgets a build, and answers nobody.
LEMMA StandingKeepsRequests ==
  ASSUME Accounted, RequestsKept, UNCHANGED <<up, byRequest, requestOf, ack>>,
         \A b \in BuildIds : /\ state'[b] = Absent <=> state[b] = Absent
                             /\ disk'[b] = Absent <=> disk[b] = Absent
  PROVE  RequestsKept'
<1>1. OneJobEach' /\ TableFollows'
  BY DEF RequestsKept, OneJobEach, TableFollows
<1>2. AnswersAreKept'
  BY DEF RequestsKept, AnswersAreKept
<1> QED
  BY <1>1, <1>2 DEF RequestsKept

\* On a running bridge, a build is new to the ledger only when it is drawn.
LEMMA TurnsKeepRequests ==
  ASSUME WritesSucceed, Accounted, Agreed, RequestsKept, [Next]_vars,
         up, UNCHANGED <<up, byRequest, requestOf, ack>>
  PROVE  RequestsKept'
<1>1. Agreed' /\ (DiskStep \/ NativeStep)
  BY AgreedStep
<1>2. \A b \in BuildIds : disk'[b] = Absent <=> disk[b] = Absent
  <2>1. ASSUME NEW c \in BuildIds, DiskTurns(c), NEW b \in BuildIds
        PROVE  disk'[b] = Absent <=> disk[b] = Absent
    <3>1. \E s : Turns(c, s) /\ s # Absent /\ disk[c] # Absent
      BY <2>1, States, Distinct DEF DiskTurns
    <3> QED
      BY <2>1, <3>1, OnDisk DEF Accounted
  <2> QED
    BY <1>1, <2>1 DEF DiskStep, DiskStands, NativeStep
<1>3. \A b \in BuildIds : state'[b] = Absent <=> state[b] = Absent
  BY <1>1, <1>2 DEF Agreed, LedgerAgrees, DiskFollows
<1> QED
  BY <1>2, <1>3, StandingKeepsRequests

\* The admitted build is the first one of its request.
LEMMA AdmissionKeepsRequests ==
  ASSUME Accounted, Agreed, RequestsKept, NEW t \in HttpThreads, NEW b \in BuildIds,
         SubmitAdmit(t, b)
  PROVE  RequestsKept'
<1>1. Typed /\ up /\ up'
  BY DEF SubmitAdmit, Admissible, Accounted
<1>2. PICK r \in RequestIds, d \in Digests : thread[t] = <<r, d>>
  BY <1>1 DEF SubmitAdmit, Admissible, Typed, TypeOK, ProcessType
<1>3. /\ byRequest[r] = Nil /\ state[b] = Absent /\ disk[b] = Absent
      /\ \A c \in BuildIds : disk[c] = state[c]
  BY <1>1, <1>2, Reads DEF SubmitAdmit, Admissible, Fresh, Agreed
<1>4. /\ \A c \in BuildIds : /\ state'[c] = IF c = b THEN QUEUED ELSE state[c]
                             /\ disk'[c] = IF c = b THEN QUEUED ELSE disk[c]
                             /\ requestOf'[c] = IF c = b THEN <<r, d>> ELSE requestOf[c]
      /\ \A q \in RequestIds : byRequest'[q] = IF q = r THEN b ELSE byRequest[q]
  BY <1>1, <1>2 DEF SubmitAdmit, EnterLedger, Persist, Typed, TypeOK, LedgerType, DiskType
<1>5. ack' = ack \union {<<r, b, d>>}
  BY <1>2 DEF SubmitAdmit, Acknowledge
<1>6. \A c \in BuildIds : state[c] # Absent => requestOf[c][1] # r
  BY <1>1, <1>3, NilAssumption DEF RequestsKept, TableFollows
<1>7. OneJobEach'
  BY <1>3, <1>4, <1>6 DEF RequestsKept, OneJobEach
<1>8. TableFollows'
  BY <1>1, <1>3, <1>4, <1>6, Distinct DEF RequestsKept, TableFollows
<1>9. AnswersAreKept'
  <2>1. \A q \in RequestIds, e \in Digests : <<q, b, e>> \notin ack
    BY <1>3 DEF RequestsKept, AnswersAreKept
  <2> QED
    BY <1>4, <1>5, <2>1, Distinct DEF RequestsKept, AnswersAreKept
<1> QED
  BY <1>7, <1>8, <1>9 DEF RequestsKept

\* What the disk says of requests survives the process.
LEMMA EndKeepsRequests ==
  ASSUME Accounted, Agreed, RequestsKept,
         Exit \/ Crash \/ \E t \in HttpThreads, b \in BuildIds : CrashInAdmission(t, b)
  PROVE  RequestsKept'
<1>1. /\ ~up' /\ up /\ UNCHANGED <<disk, ack>>
      /\ \A b \in BuildIds : disk[b] # Absent => requestOf'[b] = requestOf[b]
  BY Reads DEF Exit, Crash, CrashInAdmission, Admissible, Fresh, ForgetMemory, Agreed,
     Accounted, Typed, TypeOK, DiskType
<1>2. OneJobEach' /\ TableFollows'
  BY <1>1 DEF RequestsKept, OneJobEach, TableFollows
<1>3. AnswersAreKept'
  BY <1>1 DEF RequestsKept, AnswersAreKept
<1> QED
  BY <1>2, <1>3 DEF RequestsKept

\* A restart reads the table of requests off the disk.
LEMMA RecoveryKeepsRequests ==
  ASSUME Accounted, Agreed, RequestsKept, Recover
  PROVE  RequestsKept'
<1>1. /\ UNCHANGED <<requestOf, ack>>
      /\ \A b \in BuildIds : b \in Readable <=> disk[b] # Absent
      /\ Readable \subseteq BuildIds
  BY DEF Recover, Readable, Agreed, LedgerAgrees, DiskFollows, Accounted, Typed, TypeOK,
     DiskType
<1>2. \A b \in BuildIds : /\ disk'[b] = Absent <=> disk[b] = Absent
                          /\ state'[b] = disk'[b]
  BY <1>1, Restarted DEF Recover
<1>3. OneJobEach'
  BY <1>1, <1>2 DEF RequestsKept, OneJobEach
<1>4. TableFollows'
  <2> SUFFICES ASSUME NEW r \in RequestIds, NEW b \in BuildIds
               PROVE  byRequest'[r] = b <=> state'[b] # Absent /\ requestOf[b][1] = r
    BY <1>1 DEF TableFollows
  <2> DEFINE jobs == {c \in Readable : requestOf[c][1] = r}
  <2>1. byRequest'[r] \in IF jobs = {} THEN {Nil} ELSE jobs
    BY DEF Recover
  <2>2. b \in jobs <=> state'[b] # Absent /\ requestOf[b][1] = r
    BY <1>1, <1>2
  <2>3. \A c, e \in jobs : c = e
    BY <1>1 DEF RequestsKept, OneJobEach
  <2> HIDE DEF jobs
  <2> QED
    BY <2>1, <2>2, <2>3, NilAssumption
<1>5. AnswersAreKept'
  BY <1>1, <1>2 DEF RequestsKept, AnswersAreKept
<1> QED
  BY <1>3, <1>4, <1>5 DEF RequestsKept

\* Nobody else draws a build, enters a request or tells a client of one.
LEMMA RequestsFrame ==
  ASSUME WritesSucceed, Accounted, [Next]_vars
  PROVE  \/ UNCHANGED <<up, byRequest, requestOf, ack>>
            /\ (up \/ UNCHANGED <<state, disk>> \/ \E b \in BuildIds : CrashInRecovery(b))
         \/ \E r \in RequestIds, d \in Digests : SubmitAgain(r, d)
         \/ \E t \in HttpThreads : SubmitLate(t)
         \/ \E t \in HttpThreads, b \in BuildIds : SubmitAdmit(t, b)
         \/ Exit \/ Crash \/ \E t \in HttpThreads, b \in BuildIds : CrashInAdmission(t, b)
         \/ Recover
<1>1. CASE Http
  BY <1>1, NoWriteRaises DEF Http, SubmitCheck, SubmitRefused, SubmitAdmitRaises,
     CancelQueuedJob, CancelRunningJob, Reconcile, Accounted
<1>2. CASE Supervisor
  BY <1>2 DEF Supervisor, SupFrame, BackendReady, StartBackend, StartBackendRaises,
     NoBackend, SettleWithoutBackend, StartJob, SkipJob, NothingToStart, Recheck,
     SubmitToWorker, Answered, AckLost, RefusedBeforeStart, LoseTrack, AbortBackend,
     Poll, PollRaises, ApplyVerdict, ApplyUnknown, ApplyStep, ApplyNothing, SendCancel,
     Unanswered
<1>3. CASE DeadlinePasses
  BY <1>3 DEF DeadlinePasses
<1>4. CASE SolidEdge
  BY <1>4 DEF SolidEdge, WorkerStart, WorkerRefuses, WorkerStep, WorkerEnds, WorkerCrash,
     NativeEnds, WorkerFrame
<1>5. CASE Process
  BY <1>5 DEF Process, Close, CrashInRecovery
<1>6. CASE UNCHANGED vars
  BY <1>6 DEF vars
<1> QED
  BY <1>1, <1>2, <1>3, <1>4, <1>5, <1>6 DEF Next

LEMMA RequestsStep ==
  ASSUME WritesSucceed, Accounted, Agreed, RequestsKept, [Next]_vars
  PROVE  RequestsKept'
<1>1. ASSUME NEW r \in RequestIds, NEW d \in Digests, up, Recorded(r, d),
             Acknowledge(r, byRequest[r], d),
             UNCHANGED <<up, state, byRequest, disk, requestOf>>
      PROVE  RequestsKept'
  BY <1>1, AnswerNamesBuild DEF RequestsKept, OneJobEach, TableFollows
<1>2. ASSUME NEW r \in RequestIds, NEW d \in Digests, SubmitAgain(r, d)
      PROVE  RequestsKept'
  BY <1>1, <1>2 DEF SubmitAgain
<1>3. ASSUME NEW t \in HttpThreads, SubmitLate(t)
      PROVE  RequestsKept'
  <2>1. thread[t] \in RequestIds \X Digests
    BY <1>3 DEF SubmitLate, Accounted, Typed, TypeOK, ProcessType
  <2> QED
    BY <1>1, <1>3, <2>1 DEF SubmitLate
<1>4. CASE ~up /\ UNCHANGED <<up, byRequest, requestOf, ack, state, disk>>
  BY <1>4, StandingKeepsRequests
<1>5. ASSUME NEW b \in BuildIds, CrashInRecovery(b)
      PROVE  RequestsKept'
  BY <1>5, StandingKeepsRequests, Restarted
     DEF CrashInRecovery, Accounted, Typed, TypeOK, DiskType
<1> QED
  BY <1>2, <1>3, <1>4, <1>5, RequestsFrame, TurnsKeepRequests, AdmissionKeepsRequests,
     EndKeepsRequests, RecoveryKeepsRequests

\* Every client that was told which build its request became finds that build, for
\* that payload, under the same request_id ever after, restarts included; so no two
\* answers to one request_id name different builds or payloads.
THEOREM RequestKeepsBuild ==
  ASSUME WritesSucceed
  PROVE  Spec => []AcknowledgedIsKept
<1>1. Init => RequestsKept
  BY NilAssumption DEF Init, EmptyLedger, RequestsKept, OneJobEach, TableFollows, AnswersAreKept
<1>2. Accounted /\ Agreed /\ RequestsKept /\ [Next]_vars => RequestsKept'
  BY RequestsStep
<1>3. Accounted /\ Agreed /\ RequestsKept => AcknowledgedIsKept
  <2> SUFFICES ASSUME Accounted, Agreed, RequestsKept, up, NEW r \in RequestIds,
                      NEW b \in BuildIds, NEW d \in Digests, <<r, b, d>> \in ack
               PROVE  byRequest[r] = b /\ requestOf[b] = <<r, d>>
    BY DEF AcknowledgedIsKept, Accounted, Typed, TypeOK, HistoryType
  <2>1. state[b] # Absent /\ requestOf[b] = <<r, d>>
    BY Reads DEF Agreed, RequestsKept, AnswersAreKept
  <2> QED
    BY <2>1 DEF RequestsKept, TableFollows
<1> QED
  BY <1>1, <1>2, <1>3, AlwaysAccounted, AlwaysAgreed, PTL DEF Spec

================================================================================
