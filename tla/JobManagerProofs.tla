--------------------------- MODULE JobManagerProofs ---------------------------
(***************************************************************************)
(* What JobManager promises about Solid Edge, for any number of builds,     *)
(* clients, threads and failures: no definite answer while it may still be  *)
(* executing, nothing handed over twice, nothing begun once settled.        *)
(*                                                                         *)
(* The argument follows one build.  It is untouched until the supervisor    *)
(* takes it; from then on it is live - the supervisor is about to hand it   *)
(* over, or the child has yet to read it, or Solid Edge executes it - and   *)
(* the ledger shows it as open, in memory and on disk, until the child      *)
(* proves that it ended or that it never began.  Types come first, and what *)
(* the queue of messages keeps.                                             *)
(***************************************************************************)
EXTENDS JobManager, SequenceTheorems, TLAPS

-------------------------------------------------------------------------------
(* The queue of messages.                                                    *)

\* Taking one message out leaves a queue of some of the same messages.
LEMMA RemoveAtProperties ==
  ASSUME NEW S, NEW w \in Seq(S), NEW i \in DOMAIN w
  PROVE  /\ RemoveAt(w, i) \in Seq(S)
         /\ \A j \in DOMAIN RemoveAt(w, i) :
              \E k \in DOMAIN w : RemoveAt(w, i)[j] = w[k]
<1>1. i \in 1 .. Len(w) /\ Len(w) \in Nat
  BY LenProperties
<1> DEFINE u == SubSeq(w, 1, i - 1)
           v == SubSeq(w, i + 1, Len(w))
<1>2. /\ u \in Seq(S) /\ Len(u) = i - 1
      /\ \A j \in 1 .. i - 1 : u[j] = w[j]
  <2>1. \A j \in 1 .. i - 1 : w[j] \in S
    BY <1>1, ElementOfSeq
  <2> QED
    BY <1>1, <2>1, SubSeqProperties
<1>3. /\ v \in Seq(S) /\ Len(v) = Len(w) - i
      /\ \A j \in 1 .. Len(w) - i : v[j] = w[i + j]
  <2>1. \A j \in i + 1 .. Len(w) : w[j] \in S
    BY <1>1, ElementOfSeq
  <2> QED
    BY <1>1, <2>1, SubSeqProperties
<1>4. RemoveAt(w, i) = u \o v
  BY DEF RemoveAt
<1> HIDE DEF u, v
<1>5. u \o v \in Seq(S) /\ Len(u \o v) = Len(w) - 1
  BY <1>1, <1>2, <1>3, ConcatProperties
<1>6. ASSUME NEW j \in 1 .. Len(w) - 1
      PROVE  \E k \in DOMAIN w : (u \o v)[j] = w[k]
  <2>1. CASE j <= i - 1
    <3>1. (u \o v)[j] = w[j]
      BY <1>6, <2>1, <1>1, <1>2, <1>3, ConcatProperties
    <3> QED
      BY <1>6, <3>1, <1>1, LenProperties
  <2>2. CASE ~(j <= i - 1)
    <3>1. (u \o v)[j] = w[i + (j - (i - 1))]
      BY SMTT(20), <1>6, <2>2, <1>1, <1>2, <1>3, ConcatProperties
    <3> QED
      BY <1>6, <2>2, <3>1, <1>1, LenProperties
  <2> QED
    BY <2>1, <2>2
<1> QED
  BY <1>1, <1>4, <1>5, <1>6, LenProperties

\* So does dropping the last message, and reading the first.
LEMMA FrontProperties ==
  ASSUME NEW S, NEW w \in Seq(S), w # <<>>
  PROVE  /\ Front(w) \in Seq(S)
         /\ \A j \in DOMAIN Front(w) : \E k \in DOMAIN w : Front(w)[j] = w[k]
<1>1. Len(w) \in Nat \ {0} /\ DOMAIN w = 1 .. Len(w)
  BY LenProperties, EmptySeq
<1> DEFINE u == SubSeq(w, 1, Len(w) - 1)
<1>2. /\ u \in Seq(S) /\ Len(u) = Len(w) - 1
      /\ \A j \in 1 .. Len(w) - 1 : u[j] = w[j]
  <2>1. \A j \in 1 .. Len(w) - 1 : w[j] \in S
    BY <1>1, ElementOfSeq
  <2> QED
    BY <1>1, <2>1, SubSeqProperties
<1>3. Front(w) = u
  BY DEF Front
<1> HIDE DEF u
<1> QED
  BY <1>1, <1>2, <1>3, LenProperties

\* Reading the first message leaves the others.
LEMMA TailProperties ==
  ASSUME NEW S, NEW w \in Seq(S), w # <<>>
  PROVE  /\ Head(w) \in S /\ 1 \in DOMAIN w /\ Head(w) = w[1]
         /\ Tail(w) \in Seq(S)
         /\ \A j \in DOMAIN Tail(w) : \E k \in DOMAIN w : Tail(w)[j] = w[k]
<1>1. Len(w) \in Nat \ {0} /\ DOMAIN w = 1 .. Len(w)
  BY LenProperties, EmptySeq
<1>2. /\ Head(w) \in S /\ Tail(w) \in Seq(S)
      /\ Len(Tail(w)) = Len(w) - 1
      /\ \A i \in 1 .. Len(Tail(w)) : Tail(w)[i] = w[i + 1]
  BY HeadTailProperties
<1>3. Head(w) = w[1]
  OBVIOUS
<1> QED
  BY <1>1, <1>2, <1>3, LenProperties

\* What the wait for an acknowledgement leaves behind.
LEMMA WithoutSentinelProperties ==
  ASSUME wire \in Seq(Message)
  PROVE  /\ WithoutSentinel \in Seq(Message)
         /\ \A j \in DOMAIN WithoutSentinel :
              \E k \in DOMAIN wire : WithoutSentinel[j] = wire[k]
  BY FrontProperties DEF WithoutSentinel


\* The names the code gives to states, program points and messages are of their
\* types.
LEMMA Names ==
  /\ {QUEUED, RUNNING, SUCCEEDED, FAILED, CANCELLED, INTERRUPTED, INDETERMINATE}
       \subseteq JobState
  /\ {"idle", "starting", "noBackend", "vanished", "unavailable", "select",
      "recheck", "submit", "awaitAck", "refused", "poll", "apply", "sendCancel",
      "lost", "abort"} \subseteq Pc
  /\ Crashed \in Message
  /\ \A k \in Kind \union Reply, b \in BuildIds : [kind |-> k, build |-> b] \in Message
  /\ Kind = {"completed", "failed", "cancelled", "step", "indeterminate", "crashed"}
  /\ Reply = {"started", "notStarted", "no"}
  BY DEF JobState, Terminal, Definite, QUEUED, RUNNING, SUCCEEDED, FAILED, CANCELLED,
         INTERRUPTED, INDETERMINATE, Pc, Message, Kind, Verdict, Reply, Crashed


USE DEF ledger, supVars, seVars

\* The supervisor's local job is never None where run_once uses it.
SupervisorHasJob ==
  pc \in {"vanished", "unavailable", "recheck", "submit", "awaitAck", "refused",
          "sendCancel", "lost"} => supJob \in BuildIds

Typed == TypeOK /\ SupervisorHasJob

-------------------------------------------------------------------------------
(* Every step keeps the types: HTTP threads.                                  *)

\* SubmitAgain keeps every type.
LEMMA SubmitAgainTypes ==
  ASSUME Typed, NEW r \in RequestIds, NEW d \in Digests, SubmitAgain(r, d)
  PROVE  Typed'
  BY SMTT(20), NilAssumption
     DEF Typed, TypeOK, ProcessType, LedgerType, SupervisorType,
     DiskType, ChildType, HistoryType, SupervisorHasJob, SubmitAgain, Recorded,
     Acknowledge

\* SubmitCheck keeps every type.
LEMMA SubmitCheckTypes ==
  ASSUME Typed, NEW t \in HttpThreads, NEW r \in RequestIds, NEW d \in Digests,
         SubmitCheck(t, r, d)
  PROVE  Typed'
  BY NilAssumption DEF Typed, TypeOK, ProcessType, LedgerType, SupervisorType,
     DiskType, ChildType, HistoryType, SupervisorHasJob, SubmitCheck

\* SubmitRefused keeps every type.
LEMMA SubmitRefusedTypes ==
  ASSUME Typed, NEW t \in HttpThreads, SubmitRefused(t)
  PROVE  Typed'
  BY SMTT(20), NilAssumption
     DEF Typed, TypeOK, ProcessType, LedgerType, SupervisorType,
     DiskType, ChildType, HistoryType, SupervisorHasJob, SubmitRefused

\* SubmitLate keeps every type.
LEMMA SubmitLateTypes ==
  ASSUME Typed, NEW t \in HttpThreads, SubmitLate(t)
  PROVE  Typed'
  BY SMTT(20), NilAssumption
     DEF Typed, TypeOK, ProcessType, LedgerType, SupervisorType,
     DiskType, ChildType, HistoryType, SupervisorHasJob, SubmitLate, Recorded,
     Acknowledge

\* SubmitAdmit keeps every type.
LEMMA SubmitAdmitTypes ==
  ASSUME Typed, NEW t \in HttpThreads, NEW b \in BuildIds, SubmitAdmit(t, b)
  PROVE  Typed'
  BY SMTT(20), NilAssumption, Names DEF Typed, TypeOK, ProcessType, LedgerType,
     SupervisorType, DiskType, ChildType, HistoryType, SupervisorHasJob,
     SubmitAdmit, Admissible, Fresh, EnterLedger, Acknowledge, Persist

\* SubmitAdmitRaises keeps every type.
LEMMA SubmitAdmitRaisesTypes ==
  ASSUME Typed, NEW t \in HttpThreads, NEW b \in BuildIds, SubmitAdmitRaises(t, b)
  PROVE  Typed'
  BY NilAssumption, Names DEF Typed, TypeOK, ProcessType, LedgerType,
     SupervisorType, DiskType, ChildType, HistoryType, SupervisorHasJob,
     SubmitAdmitRaises, Admissible, Fresh, EnterLedger, WriteRaises

\* CancelQueuedJob keeps every type.
LEMMA CancelQueuedJobTypes ==
  ASSUME Typed, NEW b \in BuildIds, CancelQueuedJob(b)
  PROVE  Typed'
<1>1. /\ UNCHANGED <<up, stop, cancelSent, byRequest, pending, backend, thread, supVars,
                     expired, requestFile, requestOf, seVars, exits, ack, reconciled>>
      /\ pc' = pc
  BY DEF CancelQueuedJob, CancelQueued, PersistOrRaise
<1>2. LedgerType'
  BY <1>1, Names DEF Typed, TypeOK, LedgerType, CancelQueuedJob, CancelQueued, Release
<1>3. DiskType' /\ writeFaults' \in Nat
  BY <1>1, Names DEF Typed, TypeOK, DiskType, HistoryType, CancelQueuedJob, CancelQueued,
     PersistOrRaise, Persist, WriteRaises
<1> QED
  BY <1>1, <1>2, <1>3 DEF Typed, TypeOK, ProcessType, SupervisorType, ChildType,
     HistoryType, SupervisorHasJob, supVars, seVars

\* CancelRunningJob keeps every type.
LEMMA CancelRunningJobTypes ==
  ASSUME Typed, NEW b \in BuildIds, CancelRunningJob(b)
  PROVE  Typed'
<1>1. ProcessType' /\ ChildType'
  BY DEF Typed, TypeOK, CancelRunningJob, ProcessType, ChildType
<1>2. LedgerType'
  BY NilAssumption, Names DEF Typed, TypeOK, CancelRunningJob, Persist, WriteRaises,
     PersistOrRaise, Release, LedgerType
<1>3. SupervisorType'
  BY NilAssumption, Names DEF Typed, TypeOK, CancelRunningJob, Persist, WriteRaises,
     PersistOrRaise, Release, SupervisorType, LedgerType
<1>4. DiskType'
  BY NilAssumption, Names DEF Typed, TypeOK, CancelRunningJob, Persist, WriteRaises,
     PersistOrRaise, Release, DiskType, LedgerType
<1>5. HistoryType'
  BY DEF Typed, TypeOK, CancelRunningJob, Persist, WriteRaises, PersistOrRaise,
     Release, HistoryType, LedgerType
<1>6. SupervisorHasJob'
  BY DEF Typed, TypeOK, CancelRunningJob, Persist, WriteRaises, PersistOrRaise,
     Release, SupervisorHasJob, SupervisorType, LedgerType
<1> QED
  BY <1>1, <1>2, <1>3, <1>4, <1>5, <1>6 DEF Typed, TypeOK

\* Reconcile keeps every type.
LEMMA ReconcileTypes ==
  ASSUME Typed, NEW b \in BuildIds, Reconcile(b)
  PROVE  Typed'
<1>1. ProcessType' /\ ChildType'
  BY DEF Typed, TypeOK, Reconcile, ProcessType, ChildType
<1>2. LedgerType'
  BY NilAssumption, Names DEF Typed, TypeOK, Reconcile, Persist, WriteRaises,
     PersistOrRaise, Release, LedgerType
<1>3. SupervisorType'
  BY NilAssumption, Names DEF Typed, TypeOK, Reconcile, Persist, WriteRaises,
     PersistOrRaise, Release, SupervisorType, LedgerType
<1>4. DiskType'
  BY NilAssumption, Names DEF Typed, TypeOK, Reconcile, Persist, WriteRaises,
     PersistOrRaise, Release, DiskType, LedgerType
<1>5. HistoryType'
  BY DEF Typed, TypeOK, Reconcile, Persist, WriteRaises, PersistOrRaise, Release,
     HistoryType, LedgerType
<1>6. SupervisorHasJob'
  BY DEF Typed, TypeOK, Reconcile, Persist, WriteRaises, PersistOrRaise, Release,
     SupervisorHasJob, SupervisorType, LedgerType
<1> QED
  BY <1>1, <1>2, <1>3, <1>4, <1>5, <1>6 DEF Typed, TypeOK

-------------------------------------------------------------------------------
(* Every step keeps the types: the supervisor.                                *)

\* BackendReady keeps every type.
LEMMA BackendReadyTypes ==
  ASSUME Typed, BackendReady
  PROVE  Typed'
  BY Names DEF Typed, TypeOK, ProcessType, LedgerType, SupervisorType, DiskType,
     ChildType, HistoryType, SupervisorHasJob, BackendReady, SupFrame

\* StartBackend keeps every type.
LEMMA StartBackendTypes ==
  ASSUME Typed, StartBackend
  PROVE  Typed'
  BY Names, EmptySeq DEF Typed, TypeOK, ProcessType, LedgerType, SupervisorType,
     DiskType, ChildType, HistoryType, SupervisorHasJob, StartBackend, SupFrame,
     DeadWorker

\* StartBackendRaises keeps every type.
LEMMA StartBackendRaisesTypes ==
  ASSUME Typed, StartBackendRaises
  PROVE  Typed'
  BY SMTT(20), Names
     DEF Typed, TypeOK, ProcessType, LedgerType, SupervisorType, DiskType,
     ChildType, HistoryType, SupervisorHasJob, StartBackendRaises, SupFrame

\* NoBackend keeps every type.
LEMMA NoBackendTypes ==
  ASSUME Typed, NoBackend
  PROVE  Typed'
  BY SMTT(20), Names
     DEF Typed, TypeOK, ProcessType, LedgerType, SupervisorType, DiskType,
     ChildType, HistoryType, SupervisorHasJob, NoBackend, SupFrame

\* SettleWithoutBackend keeps every type.
LEMMA SettleWithoutBackendTypes ==
  ASSUME Typed, SettleWithoutBackend
  PROVE  Typed'
<1>1. ProcessType' /\ ChildType'
  BY DEF Typed, TypeOK, SettleWithoutBackend, SupFrame, ProcessType, ChildType
<1>2. LedgerType'
  BY NilAssumption, Names DEF Typed, TypeOK, SettleWithoutBackend, SupFrame,
     MarkIndeterminate, FinishWithoutResult, Persist, WriteRaises, PersistOrRaise,
     Release, LedgerType, SupervisorType
<1>3. SupervisorType'
  BY NilAssumption, Names DEF Typed, TypeOK, SettleWithoutBackend, SupFrame,
     MarkIndeterminate, FinishWithoutResult, Persist, WriteRaises, PersistOrRaise,
     Release, SupervisorType, LedgerType
<1>4. DiskType'
  BY NilAssumption, Names DEF Typed, TypeOK, SettleWithoutBackend, SupFrame,
     MarkIndeterminate, FinishWithoutResult, Persist, WriteRaises, PersistOrRaise,
     Release, DiskType, LedgerType
<1>5. HistoryType'
  BY DEF Typed, TypeOK, SettleWithoutBackend, SupFrame, MarkIndeterminate,
     FinishWithoutResult, Persist, WriteRaises, PersistOrRaise, Release,
     HistoryType, LedgerType
<1>6. SupervisorHasJob'
  BY DEF Typed, TypeOK, SettleWithoutBackend, SupFrame, MarkIndeterminate,
     FinishWithoutResult, Persist, WriteRaises, PersistOrRaise, Release,
     SupervisorHasJob, SupervisorType, LedgerType
<1> QED
  BY <1>1, <1>2, <1>3, <1>4, <1>5, <1>6 DEF Typed, TypeOK

\* StartJob keeps every type.
LEMMA StartJobTypes ==
  ASSUME Typed, StartJob
  PROVE  Typed'
<1>1. ProcessType' /\ ChildType'
  BY DEF Typed, TypeOK, StartJob, SupFrame, ProcessType, ChildType
<1>2. LedgerType'
  BY NilAssumption, Names, HeadTailProperties DEF Typed, TypeOK, StartJob, SupFrame,
     CanStart, Persist, WriteRaises, PersistOrRaise, Release, LedgerType
<1>3. SupervisorType'
  BY NilAssumption, Names, HeadTailProperties DEF Typed, TypeOK, StartJob, SupFrame,
     CanStart, Persist, WriteRaises, PersistOrRaise, Release, SupervisorType,
     LedgerType
<1>4. DiskType'
  BY NilAssumption, Names DEF Typed, TypeOK, StartJob, SupFrame, CanStart, Persist,
     WriteRaises, PersistOrRaise, Release, DiskType, LedgerType
<1>5. HistoryType'
  BY DEF Typed, TypeOK, StartJob, SupFrame, CanStart, Persist, WriteRaises,
     PersistOrRaise, Release, HistoryType, LedgerType
<1>6. SupervisorHasJob'
  BY HeadTailProperties DEF Typed, TypeOK, StartJob, SupFrame, CanStart, Persist,
     WriteRaises, PersistOrRaise, Release, SupervisorHasJob, SupervisorType,
     LedgerType
<1> QED
  BY <1>1, <1>2, <1>3, <1>4, <1>5, <1>6 DEF Typed, TypeOK

\* SkipJob keeps every type.
LEMMA SkipJobTypes ==
  ASSUME Typed, SkipJob
  PROVE  Typed'
  BY SMTT(20), Names, HeadTailProperties DEF Typed, TypeOK, ProcessType, LedgerType,
     SupervisorType, DiskType, ChildType, HistoryType, SupervisorHasJob, SkipJob,
     SupFrame, CanStart

\* NothingToStart keeps every type.
LEMMA NothingToStartTypes ==
  ASSUME Typed, NothingToStart
  PROVE  Typed'
  BY SMTT(20), Names
     DEF Typed, TypeOK, ProcessType, LedgerType, SupervisorType, DiskType,
     ChildType, HistoryType, SupervisorHasJob, NothingToStart, SupFrame

\* Recheck keeps every type.
LEMMA RecheckTypes ==
  ASSUME Typed, Recheck
  PROVE  Typed'
<1>1. ProcessType' /\ ChildType'
  BY DEF Typed, TypeOK, Recheck, SupFrame, ProcessType, ChildType
<1>2. LedgerType'
  BY NilAssumption, Names DEF Typed, TypeOK, Recheck, SupFrame, CancelQueued,
     Persist, WriteRaises, PersistOrRaise, Release, LedgerType
<1>3. SupervisorType'
  BY NilAssumption, Names DEF Typed, TypeOK, Recheck, SupFrame, CancelQueued,
     Persist, WriteRaises, PersistOrRaise, Release, SupervisorType, LedgerType
<1>4. DiskType'
  BY NilAssumption, Names DEF Typed, TypeOK, Recheck, SupFrame, CancelQueued,
     Persist, WriteRaises, PersistOrRaise, Release, DiskType, LedgerType
<1>5. HistoryType'
  BY DEF Typed, TypeOK, Recheck, SupFrame, CancelQueued, Persist, WriteRaises,
     PersistOrRaise, Release, HistoryType, LedgerType
<1>6. SupervisorHasJob'
  BY DEF Typed, TypeOK, Recheck, SupFrame, CancelQueued, Persist, WriteRaises,
     PersistOrRaise, Release, SupervisorHasJob, SupervisorType, LedgerType
<1> QED
  BY <1>1, <1>2, <1>3, <1>4, <1>5, <1>6 DEF Typed, TypeOK

\* SubmitToWorker keeps every type.
LEMMA SubmitToWorkerTypes ==
  ASSUME Typed, SubmitToWorker
  PROVE  Typed'
<1>1. ProcessType' /\ LedgerType' /\ DiskType' /\ HistoryType'
  BY DEF Typed, TypeOK, SubmitToWorker, SupFrame, ProcessType, LedgerType, DiskType,
     HistoryType
<1>2. SupervisorType'
  BY NilAssumption, Names DEF Typed, TypeOK, SubmitToWorker, SupFrame,
     SupervisorType, LedgerType
<1>3. ChildType'
  BY NilAssumption, Names DEF Typed, TypeOK, SubmitToWorker, SupFrame, ChildType,
     SupervisorHasJob, LedgerType
<1>4. SupervisorHasJob'
  BY DEF Typed, TypeOK, SubmitToWorker, SupFrame, SupervisorHasJob, SupervisorType,
     LedgerType
<1> QED
  BY <1>1, <1>2, <1>3, <1>4 DEF Typed, TypeOK

\* Answered keeps every type.
LEMMA AnsweredTypes ==
  ASSUME Typed, Answered
  PROVE  Typed'
  BY SMTT(20), Names, RemoveAtProperties DEF Typed, TypeOK, ProcessType, LedgerType,
     SupervisorType, DiskType, ChildType, HistoryType, SupervisorHasJob, Answered,
     SupFrame

\* AckLost keeps every type.
LEMMA AckLostTypes ==
  ASSUME Typed, AckLost
  PROVE  Typed'
  BY SMTT(20), Names, WithoutSentinelProperties
     DEF Typed, TypeOK, ProcessType, LedgerType,
     SupervisorType, DiskType, ChildType, HistoryType, SupervisorHasJob, AckLost,
     SupFrame, Unanswered

\* RefusedBeforeStart keeps every type.
LEMMA RefusedBeforeStartTypes ==
  ASSUME Typed, RefusedBeforeStart
  PROVE  Typed'
<1>1. ProcessType' /\ ChildType'
  BY DEF Typed, TypeOK, RefusedBeforeStart, SupFrame, ProcessType, ChildType
<1>2. LedgerType'
  BY NilAssumption, Names DEF Typed, TypeOK, RefusedBeforeStart, SupFrame,
     FinishWithoutResult, Persist, WriteRaises, PersistOrRaise, Release, LedgerType
<1>3. SupervisorType'
  BY NilAssumption, Names DEF Typed, TypeOK, RefusedBeforeStart, SupFrame,
     FinishWithoutResult, Persist, WriteRaises, PersistOrRaise, Release,
     SupervisorType, LedgerType
<1>4. DiskType'
  BY SMTT(20), NilAssumption, Names DEF Typed, TypeOK, RefusedBeforeStart, SupFrame,
     FinishWithoutResult, Persist, WriteRaises, PersistOrRaise, Release, DiskType,
     LedgerType
<1>5. HistoryType'
  BY DEF Typed, TypeOK, RefusedBeforeStart, SupFrame, FinishWithoutResult, Persist,
     WriteRaises, PersistOrRaise, Release, HistoryType, LedgerType
<1>6. SupervisorHasJob'
  BY DEF Typed, TypeOK, RefusedBeforeStart, SupFrame, FinishWithoutResult, Persist,
     WriteRaises, PersistOrRaise, Release, SupervisorHasJob, SupervisorType,
     LedgerType
<1> QED
  BY <1>1, <1>2, <1>3, <1>4, <1>5, <1>6 DEF Typed, TypeOK

\* LoseTrack keeps every type.
LEMMA LoseTrackTypes ==
  ASSUME Typed, LoseTrack
  PROVE  Typed'
<1>1. ProcessType' /\ ChildType'
  BY DEF Typed, TypeOK, LoseTrack, SupFrame, ProcessType, ChildType
<1>2. LedgerType'
  BY NilAssumption, Names DEF Typed, TypeOK, LoseTrack, SupFrame, MarkIndeterminate,
     Persist, WriteRaises, PersistOrRaise, Release, LedgerType, SupervisorType
<1>3. SupervisorType'
  BY NilAssumption, Names DEF Typed, TypeOK, LoseTrack, SupFrame, MarkIndeterminate,
     Persist, WriteRaises, PersistOrRaise, Release, SupervisorType, LedgerType
<1>4. DiskType'
  BY NilAssumption, Names DEF Typed, TypeOK, LoseTrack, SupFrame, MarkIndeterminate,
     Persist, WriteRaises, PersistOrRaise, Release, DiskType, LedgerType
<1>5. HistoryType'
  BY DEF Typed, TypeOK, LoseTrack, SupFrame, MarkIndeterminate, Persist,
     WriteRaises, PersistOrRaise, Release, HistoryType, LedgerType
<1>6. SupervisorHasJob'
  BY DEF Typed, TypeOK, LoseTrack, SupFrame, MarkIndeterminate, Persist,
     WriteRaises, PersistOrRaise, Release, SupervisorHasJob, SupervisorType,
     LedgerType
<1> QED
  BY <1>1, <1>2, <1>3, <1>4, <1>5, <1>6 DEF Typed, TypeOK

\* AbortBackend keeps every type.
LEMMA AbortBackendTypes ==
  ASSUME Typed, AbortBackend
  PROVE  Typed'
  BY Names, AppendProperties DEF Typed, TypeOK, ProcessType, LedgerType,
     SupervisorType, DiskType, ChildType, HistoryType, SupervisorHasJob,
     AbortBackend, SupFrame, KillWorker, DeadWorker

\* Poll keeps every type.
LEMMA PollTypes ==
  ASSUME Typed, Poll
  PROVE  Typed'
  BY Names, TailProperties DEF Typed, TypeOK, ProcessType, LedgerType,
     SupervisorType, DiskType, ChildType, HistoryType, SupervisorHasJob, Poll,
     SupFrame

\* PollRaises keeps every type.
LEMMA PollRaisesTypes ==
  ASSUME Typed, PollRaises
  PROVE  Typed'
  BY Names DEF Typed, TypeOK, ProcessType, LedgerType, SupervisorType, DiskType,
     ChildType, HistoryType, SupervisorHasJob, PollRaises, SupFrame

\* ApplyVerdict keeps every type.
LEMMA ApplyVerdictTypes ==
  ASSUME Typed, ApplyVerdict
  PROVE  Typed'
<1>1. ProcessType' /\ ChildType'
  BY DEF Typed, TypeOK, ApplyVerdict, SupFrame, ProcessType, ChildType
<1>0. VerdictState(supEvent.kind) \in JobState
  BY Names DEF ApplyVerdict, VerdictState, Verdict
<1>2. LedgerType'
  BY <1>0, NilAssumption DEF Typed, TypeOK, ApplyVerdict, SupFrame, Applies, Complete,
     PersistOrRaise, Release, LedgerType
<1>3. SupervisorType'
  BY NilAssumption, Names DEF Typed, TypeOK, ApplyVerdict, SupFrame, Applies,
     Complete, VerdictState, Persist, WriteRaises, PersistOrRaise, Release,
     SupervisorType, LedgerType
<1>4. DiskType'
  BY <1>0 DEF Typed, TypeOK, ApplyVerdict, SupFrame, Applies, Complete, Persist,
     WriteRaises, PersistOrRaise, DiskType, LedgerType
<1>5. HistoryType'
  BY DEF Typed, TypeOK, ApplyVerdict, SupFrame, Applies, Complete, VerdictState,
     Persist, WriteRaises, PersistOrRaise, Release, HistoryType, LedgerType
<1>6. SupervisorHasJob'
  BY DEF Typed, TypeOK, ApplyVerdict, SupFrame, Applies, Complete, VerdictState,
     Persist, WriteRaises, PersistOrRaise, Release, SupervisorHasJob,
     SupervisorType, LedgerType
<1> QED
  BY <1>1, <1>2, <1>3, <1>4, <1>5, <1>6 DEF Typed, TypeOK

\* ApplyUnknown keeps every type.
LEMMA ApplyUnknownTypes ==
  ASSUME Typed, ApplyUnknown
  PROVE  Typed'
<1>1. ProcessType' /\ ChildType'
  BY DEF Typed, TypeOK, ApplyUnknown, SupFrame, ProcessType, ChildType
<1>2. LedgerType'
  BY NilAssumption, Names DEF Typed, TypeOK, ApplyUnknown, SupFrame, Applies,
     MarkIndeterminate, Persist, WriteRaises, PersistOrRaise, Release, LedgerType
<1>3. SupervisorType'
  BY NilAssumption, Names DEF Typed, TypeOK, ApplyUnknown, SupFrame, Applies,
     MarkIndeterminate, Persist, WriteRaises, PersistOrRaise, Release,
     SupervisorType, LedgerType
<1>4. DiskType'
  BY NilAssumption, Names DEF Typed, TypeOK, ApplyUnknown, SupFrame, Applies,
     MarkIndeterminate, Persist, WriteRaises, PersistOrRaise, Release, DiskType,
     LedgerType
<1>5. HistoryType'
  BY DEF Typed, TypeOK, ApplyUnknown, SupFrame, Applies, MarkIndeterminate, Persist,
     WriteRaises, PersistOrRaise, Release, HistoryType, LedgerType
<1>6. SupervisorHasJob'
  BY DEF Typed, TypeOK, ApplyUnknown, SupFrame, Applies, MarkIndeterminate, Persist,
     WriteRaises, PersistOrRaise, Release, SupervisorHasJob, SupervisorType,
     LedgerType
<1> QED
  BY <1>1, <1>2, <1>3, <1>4, <1>5, <1>6 DEF Typed, TypeOK

\* ApplyStep keeps every type.
LEMMA ApplyStepTypes ==
  ASSUME Typed, ApplyStep
  PROVE  Typed'
<1>1. ProcessType' /\ ChildType'
  BY DEF Typed, TypeOK, ApplyStep, SupFrame, ProcessType, ChildType
<1>2. LedgerType'
  BY NilAssumption, Names DEF Typed, TypeOK, ApplyStep, SupFrame, Applies,
     CheckCancelAndDeadline, Persist, WriteRaises, LedgerType
<1>3. SupervisorType'
  BY NilAssumption, Names DEF Typed, TypeOK, ApplyStep, SupFrame, Applies,
     CheckCancelAndDeadline, Persist, WriteRaises, SupervisorType, LedgerType
<1>4. DiskType'
  BY NilAssumption, Names DEF Typed, TypeOK, ApplyStep, SupFrame, Applies,
     CheckCancelAndDeadline, Persist, WriteRaises, DiskType, LedgerType
<1>5. HistoryType'
  BY DEF Typed, TypeOK, ApplyStep, SupFrame, Applies, CheckCancelAndDeadline,
     Persist, WriteRaises, HistoryType, LedgerType
<1>6. SupervisorHasJob'
  BY DEF Typed, TypeOK, ApplyStep, SupFrame, Applies, CheckCancelAndDeadline,
     Persist, WriteRaises, SupervisorHasJob, SupervisorType, LedgerType
<1> QED
  BY <1>1, <1>2, <1>3, <1>4, <1>5, <1>6 DEF Typed, TypeOK

\* ApplyNothing keeps every type.
LEMMA ApplyNothingTypes ==
  ASSUME Typed, ApplyNothing
  PROVE  Typed'
<1>1. ProcessType' /\ DiskType' /\ ChildType' /\ HistoryType'
  BY DEF Typed, TypeOK, ApplyNothing, SupFrame, ProcessType, DiskType, ChildType,
     HistoryType
<1>2. LedgerType'
  BY NilAssumption, Names DEF Typed, TypeOK, ApplyNothing, SupFrame,
     CheckCancelAndDeadline, LedgerType
<1>3. SupervisorType'
  BY NilAssumption, Names DEF Typed, TypeOK, ApplyNothing, SupFrame,
     CheckCancelAndDeadline, SupervisorType, LedgerType
<1>4. SupervisorHasJob'
  BY DEF Typed, TypeOK, ApplyNothing, SupFrame, CheckCancelAndDeadline,
     SupervisorHasJob, SupervisorType, LedgerType
<1> QED
  BY <1>1, <1>2, <1>3, <1>4 DEF Typed, TypeOK

\* SendCancel keeps every type.
LEMMA SendCancelTypes ==
  ASSUME Typed, SendCancel
  PROVE  Typed'
  BY Names DEF Typed, TypeOK, ProcessType, LedgerType, SupervisorType, DiskType,
     ChildType, HistoryType, SupervisorHasJob, SendCancel, SupFrame

\* DeadlinePasses keeps every type.
LEMMA DeadlinePassesTypes ==
  ASSUME Typed, DeadlinePasses
  PROVE  Typed'
  BY SMTT(20) DEF Typed, TypeOK, ProcessType, LedgerType, SupervisorType, DiskType,
     ChildType, HistoryType, SupervisorHasJob, DeadlinePasses

-------------------------------------------------------------------------------
(* Every step keeps the types: the child and Solid Edge.                      *)

\* WorkerStart keeps every type.
LEMMA WorkerStartTypes ==
  ASSUME Typed, NEW b \in BuildIds, WorkerStart(b)
  PROVE  Typed'
<1>1. /\ ProcessType' /\ LedgerType' /\ SupervisorType' /\ DiskType'
      /\ SupervisorHasJob'
  BY DEF Typed, TypeOK, WorkerStart, WorkerFrame, ProcessType, LedgerType,
     SupervisorType, DiskType, SupervisorHasJob
<1>2. ChildType'
  BY NilAssumption, Names, AppendProperties DEF Typed, TypeOK, WorkerStart,
     WorkerFrame, ChildType, LedgerType
<1>3. HistoryType'
  BY DEF Typed, TypeOK, WorkerStart, WorkerFrame, HistoryType, LedgerType
<1> QED
  BY <1>1, <1>2, <1>3 DEF Typed, TypeOK

\* WorkerRefuses keeps every type.
LEMMA WorkerRefusesTypes ==
  ASSUME Typed, NEW b \in BuildIds, WorkerRefuses(b)
  PROVE  Typed'
<1>1. /\ ProcessType' /\ LedgerType' /\ SupervisorType' /\ DiskType' /\ HistoryType'
      /\ SupervisorHasJob'
  BY DEF Typed, TypeOK, WorkerRefuses, WorkerFrame, ProcessType, LedgerType,
     SupervisorType, DiskType, HistoryType, SupervisorHasJob
<1>2. ChildType'
  <2>1. PICK answer \in Reply :
          wire' = Append(wire, [kind |-> answer, build |-> b])
    BY Names DEF WorkerRefuses
  <2>2. wire' \in Seq(Message)
    BY <2>1, Names, AppendProperties DEF Typed, TypeOK, ChildType
  <2> QED
    BY <2>2 DEF Typed, TypeOK, WorkerRefuses, WorkerFrame, ChildType
<1> QED
  BY <1>1, <1>2 DEF Typed, TypeOK

\* WorkerStep keeps every type.
LEMMA WorkerStepTypes ==
  ASSUME Typed, WorkerStep
  PROVE  Typed'
  BY SMTT(20), Names, AppendProperties DEF Typed, TypeOK, ProcessType, LedgerType,
     SupervisorType, DiskType, ChildType, HistoryType, SupervisorHasJob, WorkerStep,
     WorkerFrame

\* WorkerEnds keeps every type.
LEMMA WorkerEndsTypes ==
  ASSUME Typed, WorkerEnds
  PROVE  Typed'
<1>1. /\ ProcessType' /\ LedgerType' /\ SupervisorType' /\ DiskType' /\ HistoryType'
      /\ SupervisorHasJob'
  BY DEF Typed, TypeOK, WorkerEnds, WorkerFrame, ProcessType, LedgerType,
     SupervisorType, DiskType, HistoryType, SupervisorHasJob
<1>2. ChildType'
  <2>1. worker.building \in BuildIds
    BY DEF Typed, TypeOK, WorkerEnds, ChildType
  <2>2. PICK kind \in Kind :
          wire' = Append(wire, [kind |-> kind, build |-> worker.building])
    BY DEF WorkerEnds, Kind
  <2>3. wire' \in Seq(Message)
    BY <2>1, <2>2, Names, AppendProperties DEF Typed, TypeOK, ChildType
  <2> QED
    BY <2>1, <2>3 DEF Typed, TypeOK, WorkerEnds, WorkerFrame, ChildType
<1> QED
  BY <1>1, <1>2 DEF Typed, TypeOK

\* WorkerCrash keeps every type.
LEMMA WorkerCrashTypes ==
  ASSUME Typed, WorkerCrash
  PROVE  Typed'
  BY SMTT(20), Names, AppendProperties DEF Typed, TypeOK, ProcessType, LedgerType,
     SupervisorType, DiskType, ChildType, HistoryType, SupervisorHasJob,
     WorkerCrash, WorkerFrame, KillWorker, DeadWorker

\* NativeEnds keeps every type.
LEMMA NativeEndsTypes ==
  ASSUME Typed, NEW b \in BuildIds, NativeEnds(b)
  PROVE  Typed'
  BY DEF Typed, TypeOK, ProcessType, LedgerType, SupervisorType, DiskType,
     ChildType, HistoryType, SupervisorHasJob, NativeEnds, WorkerFrame

-------------------------------------------------------------------------------
(* Every step keeps the types: the end of the process and its restart.        *)

\* Close keeps every type.
LEMMA CloseTypes ==
  ASSUME Typed, Close
  PROVE  Typed'
<1>1. ProcessType'
  BY DEF Typed, TypeOK, Close, KillWorker, DeadWorker, MarkIndeterminate, Persist,
     WriteRaises, PersistOrRaise, Release, ProcessType, LedgerType
<1>2. LedgerType'
  BY NilAssumption, Names DEF Typed, TypeOK, Close, KillWorker, DeadWorker,
     MarkIndeterminate, Persist, WriteRaises, PersistOrRaise, Release, LedgerType
<1>3. SupervisorType'
  BY NilAssumption, Names DEF Typed, TypeOK, Close, KillWorker, DeadWorker,
     MarkIndeterminate, Persist, WriteRaises, PersistOrRaise, Release,
     SupervisorType, LedgerType
<1>4. DiskType'
  <2>1. \/ disk' = disk
        \/ \E b \in BuildIds, s \in {INDETERMINATE, INTERRUPTED} :
             disk' = [disk EXCEPT ![b] = s]
    BY DEF Typed, TypeOK, Close, MarkIndeterminate, Persist, WriteRaises,
       PersistOrRaise, LedgerType
  <2> QED
    BY <2>1, Names DEF Typed, TypeOK, Close, DiskType
<1>5. ChildType'
  <2>1. UNCHANGED <<worker, wire>> \/ KillWorker
    BY DEF Close
  <2>2. wire' \in Seq(Message)
    <3>1. wire \in Seq(Message) /\ Crashed \in Message
      BY Names DEF Typed, TypeOK, ChildType
    <3>2. wire' = wire \/ wire' = Append(wire, Crashed)
      BY <2>1 DEF KillWorker
    <3>3. Append(wire, Crashed) \in Seq(Message)
      BY <3>1, AppendProperties
    <3> QED
      BY <3>1, <3>2, <3>3
  <2>3. worker' = worker \/ worker' = DeadWorker
    BY <2>1 DEF KillWorker
  <2>4. worker' \in [alive : BOOLEAN, inbox : SUBSET BuildIds,
                     building : BuildIds \union {Nil}, cancel : BOOLEAN]
    <3>1. DeadWorker \in [alive : BOOLEAN, inbox : SUBSET BuildIds,
                         building : BuildIds \union {Nil}, cancel : BOOLEAN]
      BY DEF DeadWorker
    <3> QED
      BY <3>1, <2>3 DEF Typed, TypeOK, ChildType
  <2>5. UNCHANGED <<native, leaked>>
    BY DEF Close
  <2> QED
    BY <2>2, <2>4, <2>5 DEF Typed, TypeOK, ChildType
<1>6. HistoryType'
  BY DEF Typed, TypeOK, Close, KillWorker, DeadWorker, MarkIndeterminate, Persist,
     WriteRaises, PersistOrRaise, Release, HistoryType, LedgerType
<1>7. SupervisorHasJob'
  BY DEF Typed, TypeOK, Close, KillWorker, DeadWorker, MarkIndeterminate, Persist,
     WriteRaises, PersistOrRaise, Release, SupervisorHasJob, SupervisorType,
     LedgerType
<1> QED
  BY <1>1, <1>2, <1>3, <1>4, <1>5, <1>6, <1>7 DEF Typed, TypeOK

\* Exit keeps every type.
LEMMA ExitTypes ==
  ASSUME Typed, Exit
  PROVE  Typed'
  BY NilAssumption, Names, EmptySeq DEF Typed, TypeOK, ProcessType, LedgerType,
     SupervisorType, DiskType, ChildType, HistoryType, SupervisorHasJob, Exit,
     ForgetMemory, DeadWorker

\* Crash keeps every type.
LEMMA CrashTypes ==
  ASSUME Typed, Crash
  PROVE  Typed'
<1>1. DiskType'
  BY DEF Typed, TypeOK, Crash, ForgetMemory, DiskType
<1>2. ProcessType'
  BY DEF Typed, TypeOK, Crash, ForgetMemory, DeadWorker, ProcessType, LedgerType
<1>3. LedgerType'
  BY NilAssumption, Names DEF Typed, TypeOK, Crash, ForgetMemory, DeadWorker,
     LedgerType
<1>4. SupervisorType'
  BY NilAssumption, Names DEF Typed, TypeOK, Crash, ForgetMemory, DeadWorker,
     SupervisorType, LedgerType
<1>5. ChildType'
  BY NilAssumption, Names, EmptySeq DEF Typed, TypeOK, Crash, ForgetMemory,
     DeadWorker, ChildType, LedgerType
<1>6. HistoryType'
  BY DEF Typed, TypeOK, Crash, ForgetMemory, DeadWorker, HistoryType, LedgerType
<1>7. SupervisorHasJob'
  BY DEF Typed, TypeOK, Crash, ForgetMemory, DeadWorker, SupervisorHasJob,
     SupervisorType, LedgerType
<1> QED
  BY <1>1, <1>2, <1>3, <1>4, <1>5, <1>6, <1>7 DEF Typed, TypeOK

\* CrashInAdmission keeps every type.
LEMMA CrashInAdmissionTypes ==
  ASSUME Typed, NEW t \in HttpThreads, NEW b \in BuildIds, CrashInAdmission(t, b)
  PROVE  Typed'
<1>1. ProcessType'
  BY DEF Typed, TypeOK, CrashInAdmission, ForgetMemory, DeadWorker, Admissible,
     ProcessType, LedgerType
<1>2. LedgerType'
  BY NilAssumption, Names DEF Typed, TypeOK, CrashInAdmission, ForgetMemory,
     DeadWorker, Admissible, LedgerType
<1>3. SupervisorType'
  BY NilAssumption, Names DEF Typed, TypeOK, CrashInAdmission, ForgetMemory,
     DeadWorker, Admissible, SupervisorType, LedgerType
<1>4. DiskType'
  BY NilAssumption, Names DEF Typed, TypeOK, CrashInAdmission, ForgetMemory,
     DeadWorker, Admissible, DiskType, ProcessType, LedgerType
<1>5. ChildType'
  BY NilAssumption, Names, EmptySeq DEF Typed, TypeOK, CrashInAdmission,
     ForgetMemory, DeadWorker, Admissible, ChildType, LedgerType
<1>6. HistoryType'
  BY DEF Typed, TypeOK, CrashInAdmission, ForgetMemory, DeadWorker, Admissible,
     HistoryType, LedgerType
<1>7. SupervisorHasJob'
  BY DEF Typed, TypeOK, CrashInAdmission, ForgetMemory, DeadWorker, Admissible,
     SupervisorHasJob, SupervisorType, LedgerType
<1> QED
  BY <1>1, <1>2, <1>3, <1>4, <1>5, <1>6, <1>7 DEF Typed, TypeOK

\* Recover keeps every type.
LEMMA RecoverTypes ==
  ASSUME Typed, Recover
  PROVE  Typed'
<1>1. /\ SupervisorType' /\ ChildType' /\ HistoryType'
      /\ SupervisorHasJob'
  BY DEF Typed, TypeOK, Recover, SupervisorType, ChildType, HistoryType,
     SupervisorHasJob
<1>2. ProcessType'
  BY DEF Typed, TypeOK, Recover, AfterRestart, Readable, ProcessType, LedgerType
<1>3. LedgerType'
  BY NilAssumption, Names DEF Typed, TypeOK, Recover, AfterRestart, Readable, Unknown,
     LedgerType, DiskType
<1>4. DiskType'
  BY NilAssumption, Names DEF Typed, TypeOK, Recover, AfterRestart, Readable,
     DiskType, LedgerType
<1> QED
  BY <1>1, <1>2, <1>3, <1>4 DEF Typed, TypeOK

\* CrashInRecovery keeps every type.
LEMMA CrashInRecoveryTypes ==
  ASSUME Typed, NEW b \in BuildIds, CrashInRecovery(b)
  PROVE  Typed'
  BY NilAssumption, Names DEF Typed, TypeOK, ProcessType, LedgerType,
     SupervisorType, DiskType, ChildType, HistoryType, SupervisorHasJob,
     CrashInRecovery, AfterRestart, Readable

-------------------------------------------------------------------------------
(* Type correctness of the specification.                                    *)

\* Whatever happens next, the types stay.
LEMMA TypedStep ==
  ASSUME Typed, [Next]_vars
  PROVE  Typed'
<1>1. CASE Http
  BY <1>1, SubmitAgainTypes, SubmitCheckTypes, SubmitRefusedTypes, SubmitLateTypes,
     SubmitAdmitTypes, SubmitAdmitRaisesTypes, CancelQueuedJobTypes,
     CancelRunningJobTypes, ReconcileTypes DEF Http
<1>2. CASE Supervisor
  BY <1>2, BackendReadyTypes, StartBackendTypes, StartBackendRaisesTypes,
     NoBackendTypes, SettleWithoutBackendTypes, StartJobTypes, SkipJobTypes,
     NothingToStartTypes, RecheckTypes, SubmitToWorkerTypes, AnsweredTypes,
     AckLostTypes, RefusedBeforeStartTypes, LoseTrackTypes, AbortBackendTypes,
     PollTypes, PollRaisesTypes, ApplyVerdictTypes, ApplyUnknownTypes,
     ApplyStepTypes, ApplyNothingTypes, SendCancelTypes DEF Supervisor
<1>3. CASE DeadlinePasses
  BY <1>3, DeadlinePassesTypes
<1>4. CASE SolidEdge
  BY <1>4, WorkerStartTypes, WorkerRefusesTypes, WorkerStepTypes, WorkerEndsTypes,
     WorkerCrashTypes, NativeEndsTypes DEF SolidEdge
<1>5. CASE Process
  BY <1>5, CloseTypes, ExitTypes, CrashTypes, RecoverTypes, CrashInRecoveryTypes,
     CrashInAdmissionTypes DEF Process
<1>6. CASE UNCHANGED vars
  BY SMTT(20), <1>6
     DEF vars, Typed, TypeOK, ProcessType, LedgerType, SupervisorType, DiskType,
     ChildType, HistoryType, SupervisorHasJob
<1> QED
  BY <1>1, <1>2, <1>3, <1>4, <1>5, <1>6 DEF Next

\* They hold when the bridge starts for the first time.
LEMMA TypedInit == Init => Typed
<1> SUFFICES ASSUME Init PROVE Typed
  OBVIOUS
<1>1. ProcessType
  BY DEF Init, ProcessType
<1>2. LedgerType
  BY EmptySeq DEF Init, EmptyLedger, LedgerType
<1>3. SupervisorType /\ SupervisorHasJob
  BY DEF Init, SupervisorType, SupervisorHasJob, Pc
<1>4. DiskType
  BY DEF Init, DiskType
<1>5. ChildType /\ HistoryType
  BY EmptySeq DEF Init, ChildType, HistoryType, DeadWorker
<1> QED
  BY <1>1, <1>2, <1>3, <1>4, <1>5 DEF Typed, TypeOK

\* The types hold in every reachable state, together with the supervisor's local job.
THEOREM AlwaysTyped == Spec => []Typed
<1>1. Typed /\ [Next]_vars => Typed'
  BY TypedStep
<1> QED
  BY <1>1, TypedInit, PTL DEF Spec

\* Every variable keeps the type the code gives it, whatever runs, fails or restarts.
THEOREM TypeCorrect == Spec => []TypeOK
<1>1. Typed => TypeOK
  BY DEF Typed
<1> QED
  BY <1>1, AlwaysTyped, PTL

-------------------------------------------------------------------------------
(* The inductive invariant of the account.                                   *)

Open == {RUNNING, INDETERMINATE}

\* Neither the child nor any message has heard of the build.
Untouched(b) ==
  /\ native[b] = "idle"
  /\ b \notin worker.inbox
  /\ \A m \in Range(wire) : m.build # b

\* Solid Edge may be executing the build, or may still begin it.
Live(b) ==
  \/ native[b] = "running"
  \/ b \in worker.inbox
  \/ pc \in {"recheck", "submit"} /\ supJob = b

\* What a message claims holds.
Proves(m) ==
  /\ m.kind \in Verdict => m.build \in BuildIds /\ native[m.build] = "ended"
  /\ m.kind = "notStarted" => /\ m.build \in BuildIds
                              /\ native[m.build] = "idle"
                              /\ m.build \notin worker.inbox

LiveIsOpen ==
  \A b \in BuildIds \ reconciled :
    Live(b) => /\ disk[b] \in Open
               /\ b \in requestFile
               /\ up => state[b] \in Open

UndrawnIsUnknown ==
  \A b \in BuildIds :
    requestOf[b] = Nil => /\ Untouched(b)
                          /\ state[b] = Absent /\ disk[b] = Absent
                          /\ b \notin requestFile

QueuedIsUntouched == \A b \in BuildIds : state[b] = QUEUED => Untouched(b)

PendingHasRequest == Range(pending) \subseteq requestFile

\* The supervisor hands over only what is untouched, and calls refused only what
\* Solid Edge has not got.
SupervisorIsRight ==
  /\ pc \in {"recheck", "submit"} =>
       /\ supJob \in BuildIds /\ requestOf[supJob] # Nil
       /\ state[supJob] # QUEUED /\ Untouched(supJob)
  /\ pc \in {"refused", "unavailable"} =>
       /\ supJob \in BuildIds /\ requestOf[supJob] # Nil
       /\ native[supJob] = "idle" /\ supJob \notin worker.inbox
  /\ ~up => pc = "idle"

MessagesAreTrue ==
  /\ \A m \in Range(wire) : Proves(m)
  /\ supEvent.kind \in Verdict =>
       supEvent.build \in BuildIds /\ native[supEvent.build] = "ended"

BegunOnce ==
  /\ \A b \in BuildIds : starts[b] = IF native[b] = "idle" THEN 0 ELSE 1
  /\ \A b \in worker.inbox : native[b] = "idle"
  /\ worker.building # Nil => native[worker.building] = "running"

Accounted ==
  /\ Typed
  /\ LiveIsOpen /\ UndrawnIsUnknown /\ QueuedIsUntouched /\ PendingHasRequest
  /\ SupervisorIsRight /\ MessagesAreTrue /\ BegunOnce
-------------------------------------------------------------------------------
(* Names and messages.                                                       *)

\* The states are different strings.
LEMMA Distinct ==
  /\ QUEUED \notin Open \union Definite \union {Absent}
  /\ Absent \notin Open \union Definite
  /\ Open \intersect Definite = {}
  /\ RUNNING # INDETERMINATE
  /\ RUNNING \in Open /\ INDETERMINATE \in Open
  /\ {SUCCEEDED, FAILED, CANCELLED, INTERRUPTED} = Definite
  BY DEF Open, Definite, QUEUED, RUNNING, SUCCEEDED, FAILED, CANCELLED, INTERRUPTED,
         INDETERMINATE, Absent

\* What queueing, dequeueing and taking out does to the set of messages.
LEMMA RangeOfQueue ==
  /\ Range(<<>>) = {}
  /\ \A S, m : \A w \in Seq(S) : m \in S => Range(Append(w, m)) = Range(w) \union {m}
  /\ \A S : \A w \in Seq(S) :
       /\ \A i \in DOMAIN w :
            w[i] \in Range(w) /\ Range(RemoveAt(w, i)) \subseteq Range(w)
       /\ w # <<>> => Head(w) \in Range(w) /\ Range(Tail(w)) \subseteq Range(w)
<1>1. Range(<<>>) = {}
  BY DEF Range
<1>2. ASSUME NEW S, NEW m \in S, NEW w \in Seq(S)
      PROVE  Range(Append(w, m)) = Range(w) \union {m}
  <2>1. /\ Len(w) \in Nat /\ DOMAIN w = 1 .. Len(w)
        /\ DOMAIN Append(w, m) = 1 .. Len(w) + 1
        /\ \A i \in 1 .. Len(w) : Append(w, m)[i] = w[i]
        /\ Append(w, m)[Len(w) + 1] = m
    BY <1>2, AppendProperties, LenProperties
  <2> QED
    BY <2>1 DEF Range
<1>3. ASSUME NEW S, NEW w \in Seq(S)
      PROVE  /\ \A i \in DOMAIN w :
                  w[i] \in Range(w) /\ Range(RemoveAt(w, i)) \subseteq Range(w)
             /\ w # <<>> => Head(w) \in Range(w) /\ Range(Tail(w)) \subseteq Range(w)
  <2>1. ASSUME NEW i \in DOMAIN w
        PROVE  w[i] \in Range(w) /\ Range(RemoveAt(w, i)) \subseteq Range(w)
    BY <1>3, <2>1, RemoveAtProperties DEF Range
  <2>2. ASSUME w # <<>>
        PROVE  Head(w) \in Range(w) /\ Range(Tail(w)) \subseteq Range(w)
    BY <1>3, <2>2, TailProperties DEF Range
  <2> QED
    BY <2>1, <2>2
<1> QED
  BY <1>1, <1>2, <1>3

\* The wait for an acknowledgement invents no message.
LEMMA RangeWithoutSentinel ==
  ASSUME wire \in Seq(Message)
  PROVE  Range(WithoutSentinel) \subseteq Range(wire)
  BY WithoutSentinelProperties DEF Range

-------------------------------------------------------------------------------
(* Steps that begin nothing.                                                 *)

\* Nothing goes forward in Solid Edge, and nothing is said that was not said.
Quiet ==
  /\ native' = native /\ starts' = starts
  /\ worker'.inbox \subseteq worker.inbox
  /\ worker'.building \in {worker.building, Nil}
  /\ Range(wire') \subseteq Range(wire) \union {Crashed}
  /\ supEvent' \in Range(wire) \union {supEvent, NoEvent}

\* The books are kept: only a drawn build changes, and is queued only untouched.
Booked ==
  /\ requestFile \subseteq requestFile' /\ reconciled \subseteq reconciled'
  /\ Range(pending') \subseteq requestFile'
  /\ \A b \in BuildIds :
       /\ \/ state'[b] \in {state[b], Absent}
          \/ requestOf'[b] # Nil /\ (state'[b] = QUEUED => Untouched(b))
       /\ disk'[b] = disk[b] \/ requestOf'[b] # Nil
       /\ b \in requestFile' \/ requestOf[b] # Nil => requestOf'[b] # Nil

\* What may still execute is open.
Kept ==
  \A b \in BuildIds \ reconciled' :
    Live(b)' => disk'[b] \in Open /\ b \in requestFile' /\ (up' => state'[b] \in Open)

\* What is untouched stays untouched in a quiet step.
LEMMA UntouchedStays ==
  ASSUME Quiet, NEW b \in BuildIds, Untouched(b)
  PROVE  Untouched(b)'
  BY NilAssumption DEF Quiet, Untouched, Crashed

\* A quiet step that keeps the books keeps the invariant.
LEMMA NothingBegins ==
  ASSUME Accounted, Typed', Quiet, Booked, Kept, SupervisorIsRight'
  PROVE  Accounted'
<1>1. LiveIsOpen'
  BY DEF Accounted, LiveIsOpen, Booked, Kept
<1>2. UndrawnIsUnknown'
  <2> SUFFICES ASSUME NEW b \in BuildIds, requestOf'[b] = Nil
               PROVE  /\ Untouched(b)' /\ state'[b] = Absent
                      /\ disk'[b] = Absent /\ b \notin requestFile'
    BY DEF UndrawnIsUnknown
  <2>1. Untouched(b)' /\ state[b] = Absent /\ disk[b] = Absent
    BY UntouchedStays DEF Accounted, UndrawnIsUnknown, Booked
  <2> QED
    BY <2>1 DEF Booked
<1>3. QueuedIsUntouched'
  <2> SUFFICES ASSUME NEW b \in BuildIds, state'[b] = QUEUED
               PROVE  Untouched(b)'
    BY DEF QueuedIsUntouched
  <2>1. Untouched(b)
    BY Distinct DEF Accounted, QueuedIsUntouched, Booked
  <2> QED
    BY <2>1, UntouchedStays
<1>4. PendingHasRequest'
  BY DEF Accounted, PendingHasRequest, Booked
<1>5. MessagesAreTrue'
  <2>1. Crashed.kind \notin Verdict /\ NoEvent.kind \notin Verdict
        /\ Crashed.kind # "notStarted"
    BY DEF Crashed, NoEvent, Verdict
  <2>2. \A m \in Range(wire) : Proves(m)'
    BY DEF Accounted, MessagesAreTrue, Proves, Quiet
  <2>3. \A m \in Range(wire') : Proves(m)'
    BY <2>1, <2>2 DEF Quiet, Proves
  <2>4. supEvent'.kind \in Verdict =>
          supEvent'.build \in BuildIds /\ native'[supEvent'.build] = "ended"
    BY <2>1 DEF Accounted, MessagesAreTrue, Proves, Quiet
  <2> QED
    BY <2>3, <2>4 DEF MessagesAreTrue
<1>6. BegunOnce'
  BY DEF Accounted, BegunOnce, Quiet
<1> QED
  BY <1>1, <1>2, <1>3, <1>4, <1>5, <1>6 DEF Accounted
\* Program points at which the supervisor's local job says nothing about Solid Edge.
Elsewhere == Pc \ {"recheck", "submit", "refused", "unavailable"}

\* What the account keeps about builds.
Books == <<up, state, disk, requestFile, requestOf, reconciled>>

\* Only this build's state changes, in memory or on disk.
OnlyMoves(b) ==
  \A c \in BuildIds \ {b} : state'[c] = state[c] /\ disk'[c] = disk[c]

\* A step in which no build changes its state and nothing begins.
LEMMA Unconcerned ==
  ASSUME Accounted, Typed', Quiet, UNCHANGED Books,
         Range(pending') \subseteq Range(pending),
         (pc' = pc /\ supJob' = supJob) \/ (up /\ pc' \in Elsewhere)
  PROVE  Accounted'
<1>1. Booked
  BY DEF Accounted, UndrawnIsUnknown, PendingHasRequest, Booked, Books
<1>2. Kept
  BY DEF Accounted, LiveIsOpen, Live, Kept, Elsewhere, Books, Quiet
<1>3. SupervisorIsRight'
  <2>1. \A b \in BuildIds : Untouched(b) => Untouched(b)'
    BY UntouchedStays
  <2> QED
    BY <2>1 DEF Accounted, SupervisorIsRight, Elsewhere, Books, Quiet
<1> QED
  BY <1>1, <1>2, <1>3, NothingBegins

\* A step that leaves one build open, in memory and on disk; it was running.
LEMMA StaysOpen ==
  ASSUME Accounted, Typed', Quiet, SupervisorIsRight',
         NEW b \in BuildIds, state[b] = RUNNING, OnlyMoves(b),
         state'[b] \in Open, disk'[b] \in Open \union {disk[b]},
         \A c \in BuildIds : Live(c)' => Live(c),
         UNCHANGED <<up, requestFile, requestOf, reconciled, pending>>
  PROVE  Accounted'
<1>1. Booked
  BY Distinct DEF Accounted, UndrawnIsUnknown, PendingHasRequest, Booked,
         OnlyMoves
<1>2. Kept
  BY DEF Accounted, LiveIsOpen, Kept, OnlyMoves
<1> QED
  BY <1>1, <1>2, NothingBegins

\* A step that settles one build, which is not live any more.
LEMMA Settles ==
  ASSUME Accounted, Typed', Quiet, SupervisorIsRight',
         NEW b \in BuildIds, requestOf[b] # Nil, OnlyMoves(b),
         state'[b] \in Definite \union {state[b]},
         b \in reconciled' \/ ~Live(b)',
         \A c \in BuildIds : Live(c)' => Live(c),
         reconciled \subseteq reconciled',
         UNCHANGED <<up, requestFile, requestOf, pending>>
  PROVE  Accounted'
<1>1. Booked
  BY Distinct DEF Accounted, UndrawnIsUnknown, PendingHasRequest, Booked,
         OnlyMoves
<1>2. Kept
  BY DEF Accounted, LiveIsOpen, Kept, OnlyMoves
<1> QED
  BY <1>1, <1>2, NothingBegins

-------------------------------------------------------------------------------
(* HTTP threads.                                                             *)

\* A request that is answered, checked or refused leaves Solid Edge alone.
LEMMA SubmitKeeps ==
  ASSUME Accounted,
         \/ \E r \in RequestIds, d \in Digests :
              SubmitAgain(r, d) \/ \E t \in HttpThreads : SubmitCheck(t, r, d)
         \/ \E t \in HttpThreads : SubmitRefused(t) \/ SubmitLate(t)
  PROVE  Accounted'
<1>1. Typed'
  BY SubmitAgainTypes, SubmitCheckTypes, SubmitRefusedTypes, SubmitLateTypes
     DEF Accounted
<1>2. UNCHANGED Books
  BY DEF SubmitAgain, SubmitCheck, SubmitRefused, SubmitLate, Books
<1>3. pending' = pending /\ pc' = pc /\ supJob' = supJob /\ Quiet
  BY DEF SubmitAgain, SubmitCheck, SubmitRefused, SubmitLate, Quiet
<1> QED
  BY <1>1, <1>2, <1>3, Unconcerned

\* A cancel settles only what is still queued, which nobody has touched.
LEMMA CancelKeeps ==
  ASSUME Accounted, NEW b \in BuildIds, CancelQueuedJob(b) \/ CancelRunningJob(b)
  PROVE  Accounted'
<1>1. Typed'
  BY CancelQueuedJobTypes, CancelRunningJobTypes DEF Accounted
<1>2. /\ UNCHANGED <<up, requestFile, requestOf, reconciled, worker, wire, native,
                     starts, supEvent, pending, pc, supJob>>
      /\ OnlyMoves(b) /\ state'[b] \in {RUNNING, CANCELLED}
  BY DEF Accounted, Typed, TypeOK, LedgerType, DiskType, CancelQueuedJob, CancelQueued,
         CancelRunningJob, PersistOrRaise, Persist, WriteRaises, OnlyMoves
<1>3. Quiet /\ SupervisorIsRight' /\ \A c \in BuildIds : Live(c)' <=> Live(c)
  BY <1>2, Distinct DEF Quiet, Live, Accounted, SupervisorIsRight, Untouched, OnlyMoves
<1>4. CASE CancelQueuedJob(b)
  <2>1. state[b] = QUEUED /\ state'[b] = CANCELLED
    BY <1>4 DEF CancelQueuedJob, CancelQueued, Accounted, Typed, TypeOK, LedgerType
  <2>2. b \in reconciled' \/ ~Live(b)'
    BY <1>2, <1>3, <1>4, <2>1, Distinct DEF Accounted, LiveIsOpen, CancelQueuedJob
  <2>3. requestOf[b] # Nil
    BY <2>1, Distinct DEF Accounted, UndrawnIsUnknown
  <2> QED
    BY <1>1, <1>2, <1>3, <2>1, <2>2, <2>3, Settles, Distinct
<1>5. CASE CancelRunningJob(b)
  <2>1. state[b] = RUNNING /\ state'[b] = RUNNING /\ disk'[b] \in {RUNNING, disk[b]}
    BY <1>5 DEF CancelRunningJob, PersistOrRaise, Persist, WriteRaises, Accounted,
       Typed, TypeOK, LedgerType, DiskType
  <2> QED
    BY <1>1, <1>2, <1>3, <2>1, StaysOpen, Distinct
<1> QED
  BY <1>4, <1>5

\* Reconciling is an operator's claim: from then on the build is out of account.
LEMMA ReconcileKeeps ==
  ASSUME Accounted, NEW b \in BuildIds, Reconcile(b)
  PROVE  Accounted'
<1>1. Typed'
  BY ReconcileTypes DEF Accounted
<1>2. /\ UNCHANGED <<up, requestFile, requestOf, worker, wire, native, starts, supEvent,
                     pending, pc, supJob>>
      /\ OnlyMoves(b)
      /\ state[b] = INDETERMINATE /\ state'[b] = INTERRUPTED
      /\ reconciled' = reconciled \union {b}
  BY DEF Accounted, Typed, TypeOK, LedgerType, DiskType, Reconcile, PersistOrRaise,
         Persist, WriteRaises, OnlyMoves
<1>3. Quiet /\ SupervisorIsRight' /\ \A c \in BuildIds : Live(c)' <=> Live(c)
  BY <1>2, Distinct DEF Quiet, Live, Accounted, SupervisorIsRight, Untouched, OnlyMoves
<1>4. requestOf[b] # Nil
  BY <1>2, Distinct DEF Accounted, UndrawnIsUnknown
<1> QED
  BY <1>1, <1>2, <1>3, <1>4, Settles, Distinct
-------------------------------------------------------------------------------
(* The supervisor: handlers, and steps that change no build.                 *)

\* _mark_indeterminate leaves a build as it is or makes a running one unknown.
LEMMA MarkIndeterminateMoves ==
  ASSUME LedgerType, DiskType, NEW b \in BuildIds, NEW ok, NEW raised,
         MarkIndeterminate(b, ok, raised)
  PROVE  /\ OnlyMoves(b)
         /\ \/ UNCHANGED <<state, disk>> /\ pc' = ok
            \/ /\ state[b] = RUNNING /\ state'[b] = INDETERMINATE
               /\ disk'[b] \in {INDETERMINATE, disk[b]}
               /\ pc' \in {ok, raised}
  BY DEF OnlyMoves, LedgerType, DiskType, MarkIndeterminate, PersistOrRaise, Persist,
         WriteRaises

\* The handlers that end a build give it the verdict, or leave it as it is.
LEMMA HandlersMove ==
  ASSUME LedgerType, DiskType, NEW b \in BuildIds, NEW s, NEW next
  PROVE  /\ FinishWithoutResult(b, s) =>
              OnlyMoves(b) /\ state'[b] = s /\ pc' = "idle"
         /\ CancelQueued(b, next) =>
              OnlyMoves(b) /\ state'[b] = CANCELLED /\ pc' = next
         /\ Complete(b, s) =>
              OnlyMoves(b) /\ state'[b] \in {s, state[b]} /\ pc' = "idle"
<1>1. FinishWithoutResult(b, s) => OnlyMoves(b) /\ state'[b] = s /\ pc' = "idle"
  BY DEF OnlyMoves, LedgerType, DiskType, FinishWithoutResult, PersistOrRaise, Persist,
         WriteRaises
<1>2. CancelQueued(b, next) => OnlyMoves(b) /\ state'[b] = CANCELLED /\ pc' = next
  BY DEF OnlyMoves, LedgerType, DiskType, CancelQueued, PersistOrRaise, Persist,
         WriteRaises
<1>3. Complete(b, s) => OnlyMoves(b) /\ state'[b] \in {s, state[b]} /\ pc' = "idle"
  BY DEF OnlyMoves, LedgerType, DiskType, Complete, PersistOrRaise, Persist, WriteRaises
<1> QED
  BY <1>1, <1>2, <1>3

\* Steps of run_once that neither concern a build nor the child.
LEMMA RunOnceKeeps ==
  ASSUME Accounted,
         \/ BackendReady \/ StartBackendRaises \/ NothingToStart \/ PollRaises
         \/ ApplyNothing \/ DeadlinePasses
  PROVE  Accounted'
<1>1. Typed'
  BY BackendReadyTypes, StartBackendRaisesTypes, NothingToStartTypes, PollRaisesTypes,
     ApplyNothingTypes, DeadlinePassesTypes DEF Accounted
<1>2. UNCHANGED Books
  BY DEF Books, BackendReady, StartBackendRaises, NothingToStart, PollRaises,
         ApplyNothing, DeadlinePasses, SupFrame
<1>3. Quiet /\ pending' = pending
  BY DEF Quiet, BackendReady, StartBackendRaises, NothingToStart, PollRaises,
         ApplyNothing, DeadlinePasses, SupFrame
<1>4. (pc' = pc /\ supJob' = supJob) \/ (up /\ pc' \in Elsewhere)
  BY DEF BackendReady, StartBackendRaises, NothingToStart, PollRaises, ApplyNothing,
         CheckCancelAndDeadline, DeadlinePasses, Elsewhere, Pc
<1> QED
  BY <1>1, <1>2, <1>3, <1>4, Unconcerned

\* Dropping a dequeued id.
LEMMA SkipJobKeeps ==
  ASSUME Accounted, SkipJob
  PROVE  Accounted'
<1>1. Typed' /\ UNCHANGED Books /\ Quiet
  BY SkipJobTypes DEF Accounted, SkipJob, SupFrame, Books, Quiet
<1>2. Range(pending') \subseteq Range(pending)
  BY RangeOfQueue DEF SkipJob, CanStart, Accounted, Typed, TypeOK, LedgerType
<1>3. up /\ pc' \in Elsewhere
  BY DEF SkipJob, Elsewhere, Pc
<1> QED
  BY <1>1, <1>2, <1>3, Unconcerned

\* Steps that talk to the child, or end it, without handing it a build.
LEMMA ChildKeeps ==
  ASSUME Accounted,
         StartBackend \/ AckLost \/ Poll \/ SendCancel \/ AbortBackend \/ WorkerCrash
  PROVE  Accounted'
<1>1. Typed'
  BY StartBackendTypes, AckLostTypes, PollTypes, SendCancelTypes, AbortBackendTypes,
     WorkerCrashTypes DEF Accounted
<1>2. UNCHANGED Books /\ pending' = pending
  BY DEF Books, StartBackend, AckLost, Poll, SendCancel, AbortBackend, WorkerCrash,
         SupFrame, WorkerFrame
<1>3. (pc' = pc /\ supJob' = supJob) \/ (up /\ pc' \in Elsewhere)
  BY DEF StartBackend, AckLost, Unanswered, Poll, SendCancel, AbortBackend,
         WorkerCrash, WorkerFrame, Elsewhere, Pc
<1>4. /\ worker'.inbox \subseteq worker.inbox
      /\ worker'.building \in {worker.building, Nil}
  BY DEF StartBackend, AckLost, Poll, SendCancel, AbortBackend, WorkerCrash, KillWorker,
         DeadWorker, Accounted, Typed, TypeOK, ChildType
<1>5. Range(wire') \subseteq Range(wire) \union {Crashed}
  <2>1. \/ wire' \in {wire, <<>>, WithoutSentinel, Append(wire, Crashed)}
        \/ wire # <<>> /\ wire' = Tail(wire)
    BY DEF StartBackend, AckLost, Poll, SendCancel, AbortBackend, WorkerCrash,
       KillWorker
  <2>2. wire \in Seq(Message) /\ Crashed \in Message
    BY Names DEF Accounted, Typed, TypeOK, ChildType
  <2>3. /\ Range(Append(wire, Crashed)) = Range(wire) \union {Crashed}
        /\ wire # <<>> => Range(Tail(wire)) \subseteq Range(wire)
        /\ Range(<<>>) = {}
    BY <2>2, RangeOfQueue
  <2> QED
    BY <2>1, <2>2, <2>3, RangeWithoutSentinel
<1>6. supEvent' \in Range(wire) \union {supEvent, NoEvent}
  BY RangeOfQueue
     DEF StartBackend, AckLost, Poll, SendCancel, AbortBackend, WorkerCrash, SupFrame,
         WorkerFrame, Accounted, Typed, TypeOK, ChildType
<1>7. native' = native /\ starts' = starts
  BY DEF StartBackend, AckLost, Poll, SendCancel, AbortBackend, WorkerCrash, SupFrame
<1>8. Quiet
  BY <1>4, <1>5, <1>6, <1>7 DEF Quiet
<1> QED
  BY <1>1, <1>2, <1>3, <1>8, Unconcerned
-------------------------------------------------------------------------------
(* The supervisor: steps that take, hand over or settle a build.             *)

\* Without a backend a queued build is about to be called refused: it is untouched.
LEMMA NoBackendKeeps ==
  ASSUME Accounted, NoBackend
  PROVE  Accounted'
<1>1. Typed' /\ UNCHANGED Books /\ Quiet /\ up /\ pending' = pending
  BY NoBackendTypes DEF Accounted, NoBackend, SupFrame, Books, Quiet
<1>2. CASE pc' = "unavailable"
  <2>1. supJob' = active /\ active \in BuildIds /\ state[active] = QUEUED
    BY <1>2, NilAssumption DEF NoBackend, Accounted, Typed, TypeOK, LedgerType
  <2>2. Untouched(active) /\ requestOf[active] # Nil
    BY <2>1, Distinct DEF Accounted, QueuedIsUntouched, UndrawnIsUnknown
  <2>3. SupervisorIsRight'
    BY <1>1, <1>2, <2>1, <2>2 DEF SupervisorIsRight, Untouched, Quiet, Books
  <2>4. Booked /\ Kept
    BY <1>1, <1>2 DEF Accounted, LiveIsOpen, UndrawnIsUnknown, PendingHasRequest,
       Live, Quiet, Books, Booked, Kept
  <2> QED
    BY <1>1, <2>3, <2>4, NothingBegins
<1>3. CASE pc' # "unavailable"
  <2>1. pc' \in Elsewhere
    BY <1>3 DEF NoBackend, Elsewhere, Pc
  <2> QED
    BY <1>1, <2>1, Unconcerned
<1> QED
  BY <1>2, <1>3

\* Without a backend a running build becomes unknown, and an untouched one fails.
LEMMA SettleWithoutBackendKeeps ==
  ASSUME Accounted, SettleWithoutBackend
  PROVE  Accounted'
<1>1. Typed' /\ LedgerType /\ DiskType
  BY SettleWithoutBackendTypes DEF Accounted, Typed, TypeOK
<1>2. /\ UNCHANGED <<up, requestFile, requestOf, reconciled, pending, native, starts,
                     worker, wire, supEvent, supJob>>
      /\ Quiet /\ up
  BY DEF SettleWithoutBackend, SupFrame, Quiet
<1>3. supJob \in BuildIds /\ pc \in {"vanished", "unavailable"}
  BY DEF SettleWithoutBackend, Accounted, Typed, SupervisorHasJob
<1>4. OnlyMoves(supJob) /\ pc' = "idle"
  BY <1>1, <1>3, MarkIndeterminateMoves, HandlersMove DEF SettleWithoutBackend
<1>5. SupervisorIsRight' /\ \A c \in BuildIds : Live(c)' => Live(c)
  BY <1>2, <1>4 DEF SupervisorIsRight, Live
<1>6. CASE pc = "vanished"
  <2>1. \/ UNCHANGED <<state, disk>>
        \/ /\ state[supJob] = RUNNING /\ state'[supJob] = INDETERMINATE
           /\ disk'[supJob] \in {INDETERMINATE, disk[supJob]}
    BY <1>1, <1>3, <1>6, MarkIndeterminateMoves DEF SettleWithoutBackend
  <2>2. CASE UNCHANGED <<state, disk>>
    BY <1>1, <1>2, <1>4, <2>2, Unconcerned DEF Books, Elsewhere, Pc
  <2>3. CASE ~ UNCHANGED <<state, disk>>
    BY <1>1, <1>2, <1>3, <1>4, <1>5, <2>1, <2>3, StaysOpen, Distinct
  <2> QED
    BY <2>2, <2>3
<1>7. CASE pc = "unavailable"
  <2>1. state'[supJob] = FAILED
    BY <1>1, <1>3, <1>7, HandlersMove DEF SettleWithoutBackend
  <2>2. ~Live(supJob)'
    BY <1>2, <1>4, <1>7 DEF Accounted, SupervisorIsRight, Live
  <2>3. requestOf[supJob] # Nil
    BY <1>7 DEF Accounted, SupervisorIsRight
  <2> QED
    BY <1>1, <1>2, <1>3, <1>4, <1>5, <2>1, <2>2, <2>3, Settles, Distinct
<1> QED
  BY <1>3, <1>6, <1>7
\* Taking the next build: it is queued, so nobody has touched it, and it is written
\* down as running before anybody can.
LEMMA StartJobKeeps ==
  ASSUME Accounted, StartJob
  PROVE  Accounted'
<1>1. Typed' /\ LedgerType /\ DiskType
  BY StartJobTypes DEF Accounted, Typed, TypeOK
<1>2. PICK b \in BuildIds : b = Head(pending)
  BY TailProperties DEF StartJob, CanStart, Accounted, Typed, TypeOK, LedgerType
<1>3. b \in requestFile /\ Range(pending') \subseteq Range(pending)
  BY <1>1, <1>2, RangeOfQueue
     DEF StartJob, CanStart, Accounted, PendingHasRequest, LedgerType
<1>4. /\ UNCHANGED <<up, requestFile, requestOf, reconciled, native, starts, worker,
                     wire, supEvent>>
      /\ up /\ state[b] = QUEUED /\ Quiet
  BY <1>2 DEF StartJob, SupFrame, Quiet
<1>5. /\ OnlyMoves(b) /\ state'[b] = RUNNING /\ supJob' = b
      /\ \/ pc' = "recheck" /\ disk'[b] = RUNNING
         \/ pc' = "idle"
  BY <1>1, <1>2 DEF StartJob, PersistOrRaise, Persist, WriteRaises, OnlyMoves,
         LedgerType, DiskType
<1>6. Untouched(b) /\ requestOf[b] # Nil
  BY <1>3, <1>4, Distinct DEF Accounted, QueuedIsUntouched, UndrawnIsUnknown
<1>7. SupervisorIsRight' /\ Booked
  <2>1. Untouched(b)'
    BY <1>3, <1>4, <1>6, UntouchedStays
  <2>2. SupervisorIsRight'
    BY <1>3, <1>4, <1>5, <1>6, <2>1, Distinct DEF SupervisorIsRight
  <2> QED
    BY <1>3, <1>4, <1>5, <1>6, <2>2, Distinct
       DEF Accounted, UndrawnIsUnknown, PendingHasRequest, Booked,
         OnlyMoves
<1>8. \A c \in BuildIds \ reconciled :
        Live(c)' => /\ disk'[c] \in Open /\ c \in requestFile' /\ state'[c] \in Open
  BY <1>3, <1>4, <1>5, <1>6, Distinct
     DEF Accounted, LiveIsOpen, Live, Untouched, OnlyMoves
<1> QED
  BY <1>1, <1>3, <1>4, <1>7, <1>8, NothingBegins DEF Kept
\* The second look: a build cancelled meanwhile has not been handed over.
LEMMA RecheckKeeps ==
  ASSUME Accounted, Recheck
  PROVE  Accounted'
<1>1. Typed' /\ LedgerType /\ DiskType
  BY RecheckTypes DEF Accounted, Typed, TypeOK
<1>2. /\ UNCHANGED <<up, requestFile, requestOf, reconciled, pending, native, starts,
                     worker, wire, supEvent, supJob>>
      /\ Quiet /\ up /\ pc = "recheck"
  BY DEF Recheck, SupFrame, Quiet
<1>3. supJob \in BuildIds /\ Untouched(supJob)
  BY <1>2 DEF Accounted, SupervisorIsRight
<1>4. /\ pc' \in {"idle", "submit"}
      /\ \/ UNCHANGED <<state, disk>>
         \/ /\ OnlyMoves(supJob) /\ pc' = "idle"
            /\ state[supJob] = RUNNING /\ state'[supJob] = CANCELLED
  BY <1>1, <1>3, HandlersMove DEF Recheck
<1>5. SupervisorIsRight' /\ \A c \in BuildIds : Live(c)' => Live(c)
  BY <1>2, <1>3, <1>4 DEF Accounted, SupervisorIsRight, Live, Untouched
<1>6. CASE UNCHANGED <<state, disk>>
  <2>1. Booked /\ Kept
    BY <1>2, <1>5, <1>6 DEF Accounted, LiveIsOpen, UndrawnIsUnknown,
       PendingHasRequest, Booked, Kept
  <2> QED
    BY <1>1, <1>2, <1>5, <2>1, NothingBegins
<1>7. CASE ~ UNCHANGED <<state, disk>>
  <2>1. ~Live(supJob)' /\ requestOf[supJob] # Nil
    BY <1>2, <1>3, <1>4, <1>7, Distinct DEF Accounted, UndrawnIsUnknown, Untouched, Live
  <2> QED
    BY <1>1, <1>2, <1>3, <1>4, <1>5, <1>7, <2>1, Settles, Distinct
<1> QED
  BY <1>6, <1>7

\* Handing a build over: the child knows it now, and nothing was said of it before.
LEMMA SubmitToWorkerKeeps ==
  ASSUME Accounted, SubmitToWorker
  PROVE  Accounted'
<1>1. Typed'
  BY SubmitToWorkerTypes DEF Accounted
<1>2. supJob \in BuildIds /\ Untouched(supJob) /\ Live(supJob)
  BY DEF SubmitToWorker, Accounted, SupervisorIsRight, Live
<1>3. UNCHANGED <<up, state, disk, requestFile, requestOf, reconciled, pending, native,
                  starts, wire, supEvent, supJob>>
  BY DEF SubmitToWorker, SupFrame
<1>4. /\ pc' \in {"awaitAck", "lost"}
      /\ worker'.inbox \subseteq worker.inbox \union {supJob}
      /\ worker'.building = worker.building
  BY DEF SubmitToWorker, Accounted, Typed, TypeOK, ChildType
<1>5. LiveIsOpen' /\ SupervisorIsRight'
  <2>1. \A c \in BuildIds : Live(c)' => Live(c)
    BY <1>2, <1>3, <1>4 DEF Live
  <2>2. up
    BY DEF SubmitToWorker
  <2> QED
    BY <1>3, <1>4, <2>1, <2>2 DEF Accounted, LiveIsOpen, SupervisorIsRight
<1>6. requestOf[supJob] # Nil /\ state[supJob] # QUEUED
  BY DEF Accounted, SupervisorIsRight, SubmitToWorker
<1>7. UndrawnIsUnknown' /\ QueuedIsUntouched'
  BY <1>2, <1>3, <1>4, <1>6
     DEF Accounted, UndrawnIsUnknown, QueuedIsUntouched, Untouched
<1>8. PendingHasRequest' /\ MessagesAreTrue' /\ BegunOnce'
  BY <1>2, <1>3, <1>4
     DEF Accounted, PendingHasRequest, MessagesAreTrue, Proves, BegunOnce, Untouched
<1> QED
  BY <1>1, <1>5, <1>7, <1>8 DEF Accounted

\* The first reply: a refusal that names this build proves that it never began.
LEMMA AnsweredKeeps ==
  ASSUME Accounted, Answered
  PROVE  Accounted'
<1>1. Typed' /\ wire \in Seq(Message)
  BY AnsweredTypes DEF Accounted, Typed, TypeOK, ChildType
<1>2. UNCHANGED Books /\ up /\ pending' = pending /\ supJob' = supJob
  BY DEF Answered, SupFrame, Books
<1>3. PICK i \in DOMAIN wire :
        /\ wire' = RemoveAt(wire, i)
        /\ pc' = CASE wire[i].kind = "started" -> "poll"
                   [] wire[i] = [kind |-> "notStarted", build |-> supJob] -> "refused"
                   [] OTHER -> "lost"
  BY DEF Answered
<1>4. wire[i] \in Range(wire) /\ Range(wire') \subseteq Range(wire)
  BY <1>1, <1>3, RangeOfQueue
<1>5. Quiet
  BY <1>4 DEF Answered, SupFrame, Quiet
<1>6. CASE pc' = "refused"
  <2>1. wire[i] = [kind |-> "notStarted", build |-> supJob]
    BY <1>3, <1>6
  <2>2. /\ supJob \in BuildIds /\ native[supJob] = "idle"
        /\ supJob \notin worker.inbox /\ requestOf[supJob] # Nil
    BY <1>4, <2>1 DEF Accounted, MessagesAreTrue, Proves, UndrawnIsUnknown, Untouched
  <2>3. SupervisorIsRight'
    BY <1>2, <1>5, <1>6, <2>2 DEF SupervisorIsRight, Quiet, Books
  <2>4. Booked /\ Kept
    BY <1>2, <1>5, <1>6 DEF Accounted, LiveIsOpen, UndrawnIsUnknown, PendingHasRequest,
       Live, Quiet, Books, Booked, Kept
  <2> QED
    BY <1>1, <1>5, <2>3, <2>4, NothingBegins
<1>7. CASE pc' # "refused"
  <2>1. pc' \in Elsewhere
    BY <1>3, <1>7 DEF Elsewhere, Pc
  <2> QED
    BY <1>1, <1>2, <1>5, <2>1, Unconcerned
<1> QED
  BY <1>6, <1>7
\* A build proven not to be begun fails.
LEMMA RefusedBeforeStartKeeps ==
  ASSUME Accounted, RefusedBeforeStart
  PROVE  Accounted'
<1>1. Typed' /\ LedgerType /\ DiskType
  BY RefusedBeforeStartTypes DEF Accounted, Typed, TypeOK
<1>2. /\ UNCHANGED <<up, requestFile, requestOf, reconciled, pending, native, starts,
                     worker, wire, supEvent, supJob>>
      /\ Quiet /\ up /\ pc = "refused"
  BY DEF RefusedBeforeStart, SupFrame, Quiet
<1>3. supJob \in BuildIds /\ requestOf[supJob] # Nil
  BY <1>2 DEF Accounted, SupervisorIsRight
<1>4. OnlyMoves(supJob) /\ state'[supJob] = FAILED /\ pc' = "idle"
  BY <1>1, <1>3, HandlersMove DEF RefusedBeforeStart
<1>5. SupervisorIsRight' /\ (\A c \in BuildIds : Live(c)' => Live(c)) /\ ~Live(supJob)'
  BY <1>2, <1>4 DEF Accounted, SupervisorIsRight, Live
<1> QED
  BY <1>1, <1>2, <1>3, <1>4, <1>5, Settles, Distinct

\* A lost acknowledgement, a failed poll and an expired deadline make a running build
\* unknown, and so does an event that says so.
LEMMA LosingTrackKeeps ==
  ASSUME Accounted, LoseTrack \/ ApplyUnknown
  PROVE  Accounted'
<1>1. Typed' /\ LedgerType /\ DiskType
  BY LoseTrackTypes, ApplyUnknownTypes DEF Accounted, Typed, TypeOK
<1>2. /\ UNCHANGED <<up, requestFile, requestOf, reconciled, pending, native, starts,
                     worker, wire, supEvent>>
      /\ Quiet /\ up
  BY DEF LoseTrack, ApplyUnknown, SupFrame, Quiet
<1>3. PICK b \in BuildIds, ok \in {"abort", "idle"} : MarkIndeterminate(b, ok, "idle")
  BY <1>1, NilAssumption
     DEF LoseTrack, ApplyUnknown, Applies, Accounted, Typed, SupervisorHasJob,
         LedgerType
<1>4. /\ OnlyMoves(b) /\ pc' \in {"abort", "idle"}
      /\ \/ UNCHANGED <<state, disk>>
         \/ /\ state[b] = RUNNING /\ state'[b] = INDETERMINATE
            /\ disk'[b] \in {INDETERMINATE, disk[b]}
  BY <1>1, <1>3, MarkIndeterminateMoves
<1>5. SupervisorIsRight' /\ \A c \in BuildIds : Live(c)' => Live(c)
  BY <1>2, <1>4 DEF SupervisorIsRight, Live
<1>6. CASE UNCHANGED <<state, disk>>
  BY <1>1, <1>2, <1>4, <1>6, Unconcerned DEF Books, Elsewhere, Pc
<1>7. CASE ~ UNCHANGED <<state, disk>>
  BY <1>1, <1>2, <1>4, <1>5, <1>7, StaysOpen, Distinct
<1> QED
  BY <1>6, <1>7

\* A verdict about the active build is about an execution that has ended.
LEMMA ApplyVerdictKeeps ==
  ASSUME Accounted, ApplyVerdict
  PROVE  Accounted'
<1>1. Typed' /\ LedgerType /\ DiskType
  BY ApplyVerdictTypes DEF Accounted, Typed, TypeOK
<1>2. PICK b \in BuildIds : b = active
  BY <1>1 DEF LedgerType, ApplyVerdict, Applies
<1>3. /\ UNCHANGED <<up, requestFile, requestOf, reconciled, pending, native, starts,
                     worker, wire, supEvent>>
      /\ Quiet /\ up /\ pc = "apply" /\ state[b] = RUNNING
  BY <1>2 DEF ApplyVerdict, Applies, SupFrame, Quiet
<1>4. OnlyMoves(b) /\ pc' = "idle" /\ state'[b] \in Definite \union {state[b]}
  <2>1. VerdictState(supEvent.kind) \in Definite
    BY Distinct DEF ApplyVerdict, Verdict, VerdictState
  <2> QED
    BY <1>1, <1>2, <2>1, HandlersMove DEF ApplyVerdict
<1>5. native[b] = "ended" /\ b \notin worker.inbox
  <2>1. native[b] = "ended"
    BY <1>2, NilAssumption DEF ApplyVerdict, Applies, Accounted, MessagesAreTrue
  <2> QED
    BY <2>1 DEF Accounted, BegunOnce
<1>6. SupervisorIsRight' /\ \A c \in BuildIds : Live(c)' => Live(c)
  BY <1>3, <1>4 DEF SupervisorIsRight, Live
<1>7. ~Live(b)' /\ requestOf[b] # Nil
  BY <1>3, <1>4, <1>5, Distinct DEF Live, Accounted, UndrawnIsUnknown
<1> QED
  BY <1>1, <1>3, <1>4, <1>6, <1>7, Settles

\* A step report keeps the build running.
LEMMA ApplyStepKeeps ==
  ASSUME Accounted, ApplyStep
  PROVE  Accounted'
<1>1. Typed' /\ LedgerType /\ DiskType /\ active \in BuildIds
  BY ApplyStepTypes DEF Accounted, Typed, TypeOK, LedgerType, ApplyStep, Applies
<1>2. /\ UNCHANGED <<up, state, requestFile, requestOf, reconciled, pending, native,
                     starts, worker, wire, supEvent>>
      /\ Quiet /\ up /\ state[active] = RUNNING
  BY DEF ApplyStep, Applies, SupFrame, Quiet
<1>3. /\ pc' \in {"idle", "sendCancel", "lost"}
      /\ OnlyMoves(active) /\ disk'[active] \in {RUNNING, disk[active]}
  BY <1>1, <1>2 DEF ApplyStep, CheckCancelAndDeadline, Persist, WriteRaises, OnlyMoves,
     DiskType
<1>4. SupervisorIsRight' /\ \A c \in BuildIds : Live(c)' => Live(c)
  BY <1>2, <1>3 DEF SupervisorIsRight, Live
<1> QED
  BY <1>1, <1>2, <1>3, <1>4, StaysOpen, Distinct

-------------------------------------------------------------------------------
(* Admission.                                                                *)

\* An admitted build, whole, halved by a failed write or cut off by a crash, is one
\* that nobody had heard of.
LEMMA AdmissionKeeps ==
  ASSUME Accounted, NEW t \in HttpThreads, NEW b \in BuildIds,
         SubmitAdmit(t, b) \/ SubmitAdmitRaises(t, b)
  PROVE  Accounted'
<1>1. /\ Typed' /\ LedgerType /\ DiskType /\ ProcessType
      /\ Untouched(b) /\ state[b] = Absent /\ b \notin requestFile
  BY SubmitAdmitTypes, SubmitAdmitRaisesTypes
     DEF Accounted, Typed, TypeOK, UndrawnIsUnknown, SubmitAdmit, SubmitAdmitRaises,
         Fresh
<1>2. /\ UNCHANGED <<up, reconciled, native, starts, worker, wire, supEvent, pc,
                     supJob>>
      /\ Quiet /\ up
  BY DEF SubmitAdmit, SubmitAdmitRaises, Admissible, Quiet
<1>3. OnlyMoves(b) /\ state'[b] = QUEUED /\ disk'[b] \in {QUEUED, disk[b]}
  BY <1>1 DEF SubmitAdmit, SubmitAdmitRaises, EnterLedger, Persist, WriteRaises,
     OnlyMoves, LedgerType, DiskType
<1>4. /\ requestOf'[b] # Nil
      /\ \A c \in BuildIds \ {b} : requestOf'[c] = requestOf[c]
      /\ requestFile' \in {requestFile, requestFile \union {b}}
  BY <1>1, NilAssumption
     DEF SubmitAdmit, SubmitAdmitRaises, Admissible, EnterLedger, DiskType
<1>5. Range(pending') \subseteq requestFile'
  <2>1. CASE SubmitAdmit(t, b)
    <3>1. pending' = Append(pending, b) /\ requestFile' = requestFile \union {b}
      BY <2>1 DEF SubmitAdmit
    <3>2. pending \in Seq(BuildIds)
      BY <1>1 DEF LedgerType
    <3>3. Range(pending') = Range(pending) \union {b}
      BY <3>1, <3>2, RangeOfQueue
    <3> QED
      BY <3>1, <3>3 DEF Accounted, PendingHasRequest
  <2>2. CASE SubmitAdmitRaises(t, b)
    BY <1>4, <2>2 DEF SubmitAdmitRaises, Accounted, PendingHasRequest
  <2> QED
    BY <2>1, <2>2
<1>6. Booked
  BY <1>1, <1>2, <1>3, <1>4, <1>5 DEF Accounted, UndrawnIsUnknown, Booked, OnlyMoves
<1>7. ~Live(b)' /\ \A c \in BuildIds : Live(c)' <=> Live(c)
  BY <1>1, <1>2 DEF Accounted, SupervisorIsRight, Live, Untouched, SubmitAdmit,
     SubmitAdmitRaises, Fresh
<1>8. SupervisorIsRight'
  <2>1. \A c \in BuildIds : Untouched(c) => Untouched(c)'
    BY <1>2, UntouchedStays
  <2>2. pc \in {"recheck", "submit", "refused", "unavailable"} => supJob # b
    BY DEF Accounted, SupervisorIsRight, SubmitAdmit, SubmitAdmitRaises, Fresh
  <2> QED
    BY <1>2, <1>3, <1>4, <2>1, <2>2 DEF Accounted, SupervisorIsRight, OnlyMoves
<1>9. Kept
  BY <1>2, <1>3, <1>4, <1>7 DEF Accounted, LiveIsOpen, Kept, OnlyMoves
<1> QED
  BY <1>1, <1>2, <1>6, <1>8, <1>9, NothingBegins
-------------------------------------------------------------------------------
(* The child and Solid Edge.                                                 *)

\* The child says m.
Says(m) == m \in Message /\ wire' = Append(wire, m)

\* The queue gains what the child says, and nothing else.
LEMMA SaidMessages ==
  ASSUME Accounted, NEW m, Says(m)
  PROVE  Range(wire') = Range(wire) \union {m}
  BY RangeOfQueue DEF Says, Accounted, Typed, TypeOK, ChildType

\* Steps of the child and of Solid Edge change nothing in the bridge.
LEMMA WorkerFrames ==
  ASSUME WorkerFrame
  PROVE  UNCHANGED <<up, state, disk, requestFile, requestOf, reconciled, pending, pc,
                     supJob, supEvent>>
  BY DEF WorkerFrame

\* Solid Edge begins a build the child has read: it was live and idle, and it is
\* running and live.
LEMMA WorkerStartKeeps ==
  ASSUME Accounted, NEW b \in BuildIds, WorkerStart(b)
  PROVE  Accounted'
<1>1. Typed' /\ b \in worker.inbox /\ native[b] = "idle" /\ ~Untouched(b) /\ Live(b)
  BY WorkerStartTypes DEF Accounted, BegunOnce, WorkerStart, Untouched, Live
<1>2. UNCHANGED <<up, state, disk, requestFile, requestOf, reconciled, pending, pc,
                  supJob, supEvent>>
  BY WorkerFrames DEF WorkerStart
<1>3. /\ worker'.inbox = worker.inbox \ {b} /\ worker'.building = b
      /\ native' = [native EXCEPT ![b] = "running"]
      /\ starts' = [starts EXCEPT ![b] = @ + 1]
      /\ native \in [BuildIds -> {"idle", "running", "ended"}]
      /\ starts \in [BuildIds -> Nat]
  BY DEF WorkerStart, Accounted, Typed, TypeOK, ChildType, HistoryType
<1>4. Range(wire') = Range(wire) \union {[kind |-> "started", build |-> b]}
  BY Names, SaidMessages DEF WorkerStart, Says
<1>5. \A c \in BuildIds : (Live(c)' => Live(c)) /\ (Untouched(c) => Untouched(c)')
  BY <1>1, <1>2, <1>3, <1>4 DEF Live, Untouched
<1>6. LiveIsOpen' /\ UndrawnIsUnknown' /\ QueuedIsUntouched' /\ PendingHasRequest'
  BY <1>2, <1>5 DEF Accounted, LiveIsOpen, UndrawnIsUnknown, QueuedIsUntouched,
     PendingHasRequest
<1>7. SupervisorIsRight'
  BY <1>1, <1>2, <1>3, <1>5 DEF Accounted, SupervisorIsRight
<1>8. MessagesAreTrue'
  <2>1. \A m \in Range(wire) : Proves(m)'
    BY <1>1, <1>3 DEF Accounted, MessagesAreTrue, Proves
  <2>2. Proves([kind |-> "started", build |-> b])'
    BY DEF Proves, Verdict
  <2> QED
    BY <1>1, <1>2, <1>3, <1>4, <2>1, <2>2 DEF Accounted, MessagesAreTrue
<1>9. BegunOnce'
  BY <1>1, <1>3 DEF Accounted, BegunOnce
<1> QED
  BY <1>1, <1>6, <1>7, <1>8, <1>9 DEF Accounted

\* The child refuses a build it has read, and will never begin it.
LEMMA WorkerRefusesKeeps ==
  ASSUME Accounted, NEW b \in BuildIds, WorkerRefuses(b)
  PROVE  Accounted'
<1>1. Typed' /\ b \in worker.inbox /\ native[b] = "idle" /\ ~Untouched(b) /\ Live(b)
  BY WorkerRefusesTypes DEF Accounted, BegunOnce, WorkerRefuses, Untouched, Live
<1>2. UNCHANGED <<up, state, disk, requestFile, requestOf, reconciled, pending, pc,
                  supJob, supEvent>>
  BY WorkerFrames DEF WorkerRefuses
<1>3. /\ worker'.inbox = worker.inbox \ {b} /\ worker'.building = worker.building
      /\ native' = native /\ starts' = starts
  BY DEF WorkerRefuses, Accounted, Typed, TypeOK, ChildType
<1>4. PICK answer \in {"notStarted", "no"} :
        Range(wire') = Range(wire) \union {[kind |-> answer, build |-> b]}
  BY Names, SaidMessages DEF WorkerRefuses, Says
<1>5. \A c \in BuildIds : (Live(c)' => Live(c)) /\ (Untouched(c) => Untouched(c)')
  BY <1>1, <1>2, <1>3, <1>4 DEF Live, Untouched
<1>6. LiveIsOpen' /\ UndrawnIsUnknown' /\ QueuedIsUntouched' /\ PendingHasRequest'
  BY <1>2, <1>5 DEF Accounted, LiveIsOpen, UndrawnIsUnknown, QueuedIsUntouched,
     PendingHasRequest
<1>7. SupervisorIsRight'
  BY <1>1, <1>2, <1>3, <1>5 DEF Accounted, SupervisorIsRight
<1>8. MessagesAreTrue'
  <2>1. \A m \in Range(wire) : Proves(m)'
    BY <1>1, <1>3 DEF Accounted, MessagesAreTrue, Proves
  <2>2. Proves([kind |-> answer, build |-> b])'
    BY <1>1, <1>3, <1>4 DEF Proves, Verdict
  <2> QED
    BY <1>1, <1>2, <1>3, <1>4, <2>1, <2>2 DEF Accounted, MessagesAreTrue
<1>9. BegunOnce'
  BY <1>1, <1>3 DEF Accounted, BegunOnce
<1> QED
  BY <1>1, <1>6, <1>7, <1>8, <1>9 DEF Accounted

\* A step of an execution: at most it ends, and at most that is said.
LEMMA ExecutionStep ==
  ASSUME Accounted, Typed', NEW b \in BuildIds, native[b] = "running",
         native' \in {native, [native EXCEPT ![b] = "ended"]},
         starts' = starts, worker'.inbox = worker.inbox,
         worker'.building # Nil => native'[worker'.building] = "running",
         \A m \in Range(wire') :
           \/ m \in Range(wire)
           \/ /\ m.build = b /\ m.kind # "notStarted"
              /\ m.kind \in Verdict => native'[b] = "ended",
         UNCHANGED <<up, state, disk, requestFile, requestOf, reconciled, pending, pc,
                     supJob, supEvent>>
  PROVE  Accounted'
<1>1. native \in [BuildIds -> {"idle", "running", "ended"}]
  BY DEF Accounted, Typed, TypeOK, ChildType
<1>2. \A c \in BuildIds : (Live(c)' => Live(c)) /\ (Untouched(c) => Untouched(c)')
  BY <1>1 DEF Live, Untouched
<1>3. LiveIsOpen' /\ UndrawnIsUnknown' /\ QueuedIsUntouched' /\ PendingHasRequest'
  BY <1>2 DEF Accounted, LiveIsOpen, UndrawnIsUnknown, QueuedIsUntouched,
     PendingHasRequest
<1>4. SupervisorIsRight'
  BY <1>1, <1>2 DEF Accounted, SupervisorIsRight
<1>5. MessagesAreTrue'
  <2>1. \A m \in Range(wire) : Proves(m)'
    BY <1>1 DEF Accounted, MessagesAreTrue, Proves
  <2>2. \A m \in Range(wire') : Proves(m)'
    BY <2>1 DEF Proves
  <2> QED
    BY <1>1, <2>2 DEF Accounted, MessagesAreTrue
<1>6. BegunOnce'
  <2>1. \A c \in BuildIds : native'[c] = "idle" <=> native[c] = "idle"
    BY <1>1
  <2>2. worker.inbox \subseteq BuildIds
    BY DEF Accounted, Typed, TypeOK, ChildType
  <2> QED
    BY <2>1, <2>2 DEF Accounted, BegunOnce
<1> QED
  BY <1>3, <1>4, <1>5, <1>6 DEF Accounted

\* Solid Edge goes on with a build, or stops executing it, and the child may say so.
LEMMA ExecutionKeeps ==
  ASSUME Accounted, WorkerStep \/ WorkerEnds \/ \E b \in BuildIds : NativeEnds(b)
  PROVE  Accounted'
<1>1. /\ Typed'
      /\ UNCHANGED <<up, state, disk, requestFile, requestOf, reconciled, pending, pc,
                     supJob, supEvent>>
      /\ starts' = starts
  BY WorkerStepTypes, WorkerEndsTypes, NativeEndsTypes, WorkerFrames
     DEF Accounted, WorkerStep, WorkerEnds, NativeEnds
<1>2. /\ native \in [BuildIds -> {"idle", "running", "ended"}]
      /\ worker.building \in BuildIds \union {Nil}
      /\ worker.building # Nil => native[worker.building] = "running"
  BY DEF Accounted, Typed, TypeOK, ChildType, BegunOnce
<1>3. CASE WorkerStep
  <2>1. PICK b \in BuildIds : b = worker.building
    BY <1>2, <1>3 DEF WorkerStep
  <2>2. /\ native[b] = "running" /\ worker' = worker /\ native' = native
        /\ Says([kind |-> "step", build |-> b])
    BY <1>2, <1>3, <2>1, Names DEF WorkerStep, Says
  <2>3. "step" \notin Verdict
    BY DEF Verdict
  <2>4. Range(wire') = Range(wire) \union {[kind |-> "step", build |-> b]}
    BY <2>2, SaidMessages
  <2> QED
    BY <1>1, <1>2, <2>1, <2>2, <2>3, <2>4, ExecutionStep
<1>4. CASE WorkerEnds
  <2>1. PICK b \in BuildIds : b = worker.building
    BY <1>2, <1>4 DEF WorkerEnds
  <2>2. PICK k \in Verdict \union {"indeterminate"} :
          /\ wire' = Append(wire, [kind |-> k, build |-> b])
          /\ native' = IF k = "indeterminate" THEN native
                       ELSE [native EXCEPT ![b] = "ended"]
    BY <1>4, <2>1 DEF WorkerEnds
  <2>3. k \in Kind /\ k # "notStarted" /\ (k \in Verdict => k # "indeterminate")
    BY DEF Kind, Verdict
  <2>4. Range(wire') = Range(wire) \union {[kind |-> k, build |-> b]}
    BY <2>2, <2>3, Names, SaidMessages DEF Says
  <2>5. worker'.building = Nil /\ worker'.inbox = worker.inbox /\ native[b] = "running"
    BY <1>2, <1>4, <2>1, NilAssumption
       DEF WorkerEnds, Accounted, Typed, TypeOK, ChildType
  <2>6. native' \in {native, [native EXCEPT ![b] = "ended"]}
        /\ (k \in Verdict => native'[b] = "ended")
    BY <1>2, <2>2, <2>3
  <2> QED
    BY <1>1, <2>3, <2>4, <2>5, <2>6, ExecutionStep
<1>5. CASE \E b \in BuildIds : NativeEnds(b)
  <2>1. PICK b \in BuildIds : NativeEnds(b)
    BY <1>5
  <2>2. /\ native[b] = "running" /\ worker.building # b
        /\ native' = [native EXCEPT ![b] = "ended"]
        /\ worker' = worker /\ wire' = wire
    BY <2>1 DEF NativeEnds
  <2> QED
    BY <1>1, <1>2, <2>2, ExecutionStep
<1> QED
  BY <1>3, <1>4, <1>5
-------------------------------------------------------------------------------
(* The end of the process and its restart.                                   *)

\* An end of the process forgets its memory and its child, not the disk.
LEMMA EndKeeps ==
  ASSUME Accounted, Exit \/ Crash \/ \E t \in HttpThreads, b \in BuildIds :
                                       CrashInAdmission(t, b)
  PROVE  Accounted'
<1>1. Typed'
  BY ExitTypes, CrashTypes, CrashInAdmissionTypes DEF Accounted
<1>2. ForgetMemory /\ disk' = disk
  BY DEF Exit, Crash, CrashInAdmission
<1>3. Quiet
  BY <1>2, RangeOfQueue DEF ForgetMemory, Quiet, DeadWorker
<1>4. SupervisorIsRight'
  BY <1>2 DEF ForgetMemory, SupervisorIsRight
<1>5. /\ requestFile \subseteq requestFile'
      /\ \A b \in BuildIds :
           b \in requestFile' \/ requestOf[b] # Nil => requestOf'[b] # Nil
  <2>1. CASE Exit \/ Crash
    BY <2>1 DEF Exit, Crash, Accounted, UndrawnIsUnknown
  <2>2. ASSUME NEW t \in HttpThreads, NEW b \in BuildIds, CrashInAdmission(t, b)
        PROVE  <1>5!1 /\ <1>5!2
    BY <2>2, NilAssumption
       DEF CrashInAdmission, Admissible, Accounted, UndrawnIsUnknown, Typed, TypeOK,
           DiskType
  <2> QED
    BY <2>1, <2>2
<1>6. Booked
  BY <1>2, <1>5, RangeOfQueue DEF ForgetMemory, Booked
<1>7. Kept
  BY <1>2, <1>5 DEF ForgetMemory, DeadWorker, Kept, Live, Accounted, LiveIsOpen
<1> QED
  BY <1>1, <1>3, <1>4, <1>6, <1>7, NothingBegins

\* What a restart makes of an open state is open.
LEMMA RestartStaysOpen ==
  /\ \A s \in Open : AfterRestart(s) \in Open
  /\ \A s : AfterRestart(s) # QUEUED
  BY DEF Open, AfterRestart, QUEUED, RUNNING, INDETERMINATE, INTERRUPTED

\* A restart brings the jobs back as the disk has them.
LEMMA RecoverKeeps ==
  ASSUME Accounted, Recover \/ \E b \in BuildIds : CrashInRecovery(b)
  PROVE  Accounted'
<1>1. /\ Typed' /\ ~up /\ pc = "idle"
      /\ disk \in [BuildIds -> JobState \union {Absent}]
  BY RecoverTypes, CrashInRecoveryTypes
     DEF Accounted, SupervisorIsRight, Recover, CrashInRecovery, Typed, TypeOK, DiskType
<1>2. UNCHANGED <<requestFile, requestOf, reconciled, pending, native, starts, worker,
                  wire, supEvent, pc, supJob>>
  BY DEF Recover, CrashInRecovery
<1>3. Quiet /\ SupervisorIsRight' /\ \A b \in BuildIds : Live(b)' <=> Live(b)
  BY <1>1, <1>2 DEF Quiet, SupervisorIsRight, Live
<1>4. \A b \in BuildIds :
        /\ \/ disk'[b] = disk[b]
           \/ b \in requestFile /\ disk'[b] = AfterRestart(disk[b])
        /\ \/ ~up' /\ state'[b] = state[b]
           \/ /\ b \notin Readable /\ state'[b] = Absent
           \/ /\ b \in Readable /\ state'[b] = disk'[b]
              /\ disk'[b] = AfterRestart(disk[b])
  BY <1>1 DEF Recover, CrashInRecovery, Readable
<1>5. Booked
  BY <1>2, <1>4, RestartStaysOpen
     DEF Booked, Readable, Accounted, PendingHasRequest, UndrawnIsUnknown
<1>6. Kept
  BY <1>2, <1>3, <1>4, RestartStaysOpen, Distinct
     DEF Kept, Readable, Accounted, LiveIsOpen
<1> QED
  BY <1>1, <1>3, <1>5, <1>6, NothingBegins

\* close() makes the running build unknown and gives up the queued one.
LEMMA CloseKeeps ==
  ASSUME Accounted, Close
  PROVE  Accounted'
<1>1. /\ Typed' /\ LedgerType /\ DiskType /\ active \in BuildIds \union {Nil}
      /\ wire \in Seq(Message) /\ worker.inbox \subseteq BuildIds
  BY CloseTypes DEF Accounted, Typed, TypeOK, LedgerType, ChildType
<1>2. /\ UNCHANGED <<up, requestFile, requestOf, reconciled, pending, native, starts,
                     supEvent, supJob>>
      /\ up
  BY DEF Close
<1>3. UNCHANGED <<worker, wire>> \/ KillWorker
  BY DEF Close
<1>4. Quiet
  <2>1. Range(Append(wire, Crashed)) = Range(wire) \union {Crashed}
    BY <1>1, RangeOfQueue, Names
  <2>2. worker' \in {worker, DeadWorker} /\ wire' \in {wire, Append(wire, Crashed)}
    BY <1>3 DEF KillWorker
  <2>3. Range(wire') \subseteq Range(wire) \union {Crashed}
    BY <2>1, <2>2
  <2> QED
    BY <1>2, <2>2, <2>3 DEF Quiet, DeadWorker
<1>5. /\ pc' = pc
      /\ \/ UNCHANGED <<state, disk>>
         \/ \E b \in BuildIds :
              /\ OnlyMoves(b)
              /\ \/ /\ state[b] = RUNNING /\ state'[b] = INDETERMINATE
                    /\ disk'[b] \in {INDETERMINATE, disk[b]}
                 \/ state[b] = QUEUED /\ state'[b] = INTERRUPTED
  <2>1. CASE active # Nil /\ state[active] = RUNNING
    BY <1>1, <2>1, MarkIndeterminateMoves DEF Close
  <2>2. CASE active # Nil /\ state[active] = QUEUED
    BY <1>1, <2>2, Distinct
       DEF Close, PersistOrRaise, Persist, WriteRaises, OnlyMoves, LedgerType, DiskType
  <2> QED
    BY <2>1, <2>2, Distinct DEF Close
<1>6. \A c \in BuildIds : Live(c)' => Live(c)
  BY <1>2, <1>4, <1>5 DEF Quiet, Live
<1>7. SupervisorIsRight'
  <2>1. \A c \in BuildIds : Untouched(c) => Untouched(c)'
    BY <1>4, UntouchedStays
  <2> QED
    BY <1>2, <1>4, <1>5, <2>1, Distinct
       DEF Accounted, SupervisorIsRight, Quiet, OnlyMoves
<1>8. CASE UNCHANGED <<state, disk>>
  BY <1>1, <1>2, <1>4, <1>5, <1>8, Unconcerned DEF Books, Accounted, PendingHasRequest
<1>9. ASSUME NEW b \in BuildIds, OnlyMoves(b), state[b] = RUNNING,
             state'[b] = INDETERMINATE, disk'[b] \in {INDETERMINATE, disk[b]}
      PROVE  Accounted'
  BY <1>1, <1>2, <1>4, <1>6, <1>7, <1>9, StaysOpen, Distinct
<1>10. ASSUME NEW b \in BuildIds, OnlyMoves(b), state[b] = QUEUED,
              state'[b] = INTERRUPTED
       PROVE  Accounted'
  <2>1. b \in reconciled' \/ ~Live(b)'
    BY <1>2, <1>6, <1>10, Distinct DEF Accounted, LiveIsOpen
  <2>2. requestOf[b] # Nil
    BY <1>10, Distinct DEF Accounted, UndrawnIsUnknown
  <2> QED
    BY <1>1, <1>2, <1>4, <1>6, <1>7, <1>10, <2>1, <2>2, Settles, Distinct
<1> QED
  BY <1>5, <1>8, <1>9, <1>10

-------------------------------------------------------------------------------
(* The theorems.                                                             *)

\* Every step keeps the account of live builds.
LEMMA AccountedStep ==
  ASSUME Accounted, [Next]_vars
  PROVE  Accounted'
<1>1. CASE Http
  BY <1>1, SubmitKeeps, AdmissionKeeps, CancelKeeps, ReconcileKeeps DEF Http
<1>2. CASE Supervisor
  BY <1>2, RunOnceKeeps, ChildKeeps, NoBackendKeeps, SettleWithoutBackendKeeps,
     StartJobKeeps, SkipJobKeeps, RecheckKeeps, SubmitToWorkerKeeps, AnsweredKeeps,
     RefusedBeforeStartKeeps, LosingTrackKeeps, ApplyVerdictKeeps, ApplyStepKeeps
     DEF Supervisor
<1>3. CASE DeadlinePasses
  BY <1>3, RunOnceKeeps
<1>4. CASE SolidEdge
  BY <1>4, WorkerStartKeeps, WorkerRefusesKeeps, ExecutionKeeps, ChildKeeps
     DEF SolidEdge
<1>5. CASE Process
  BY <1>5, CloseKeeps, EndKeeps, RecoverKeeps DEF Process
<1>6. CASE UNCHANGED vars
  <2>1. Typed' /\ Quiet /\ UNCHANGED Books /\ pending' = pending
        /\ pc' = pc /\ supJob' = supJob
    BY <1>6, TypedStep DEF Accounted, vars, Quiet, Books
  <2> QED
    BY <2>1, Unconcerned DEF Accounted, PendingHasRequest
<1> QED
  BY <1>1, <1>2, <1>3, <1>4, <1>5, <1>6 DEF Next

\* It holds at the first start.
LEMMA AccountedInit == Init => Accounted
<1> SUFFICES ASSUME Init PROVE Accounted
  OBVIOUS
<1>1. Typed
  BY TypedInit
<1>2. \A b \in BuildIds : Untouched(b) /\ ~Live(b)
  BY RangeOfQueue DEF Init, Untouched, Live, DeadWorker
<1>3. LiveIsOpen /\ UndrawnIsUnknown /\ QueuedIsUntouched /\ PendingHasRequest
  BY <1>2, RangeOfQueue DEF Init, EmptyLedger, LiveIsOpen, UndrawnIsUnknown,
     QueuedIsUntouched, PendingHasRequest
<1>4. SupervisorIsRight /\ MessagesAreTrue /\ BegunOnce
  BY RangeOfQueue DEF Init, SupervisorIsRight, MessagesAreTrue, BegunOnce, NoEvent,
     Verdict, DeadWorker
<1> QED
  BY <1>1, <1>3, <1>4 DEF Accounted

\* The account of live builds is right in every reachable state.
THEOREM AlwaysAccounted == Spec => []Accounted
<1>1. Accounted /\ [Next]_vars => Accounted'
  BY AccountedStep
<1> QED
  BY <1>1, AccountedInit, PTL DEF Spec

\* The ledger never gives a definite answer about a build Solid Edge may still be
\* executing: for any number of builds, threads, crashes and failed writes, what
\* jobs.py answers for it is running or indeterminate.
THEOREM NoDefiniteAnswerTooEarly == Spec => []NoFalseVerdict
<1>1. Accounted => NoFalseVerdict
  BY DEF Accounted, LiveIsOpen, Live, Open, NoFalseVerdict, Answer
<1> QED
  BY <1>1, AlwaysAccounted, PTL

\* No build is handed to Solid Edge twice, whatever times out, restarts or is retried.
THEOREM AtMostOnce == Spec => []NothingReplayed
<1>1. Accounted => NothingReplayed
  BY DEF Accounted, BegunOnce, NothingReplayed
<1> QED
  BY <1>1, AlwaysAccounted, PTL

\* Only the child's reading of a build command begins an execution.
LEMMA OnlyWorkerStartBegins ==
  ASSUME [Next]_vars
  PROVE  starts' = starts \/ \E b \in BuildIds : WorkerStart(b)
<1>1. CASE Http
  BY <1>1 DEF Http, SubmitAgain, SubmitCheck, SubmitRefused, SubmitLate, SubmitAdmit,
     SubmitAdmitRaises, CancelQueuedJob, CancelRunningJob, Reconcile
<1>2. CASE Supervisor
  BY <1>2 DEF Supervisor, SupFrame, BackendReady, StartBackend, StartBackendRaises,
     NoBackend, SettleWithoutBackend, StartJob, SkipJob, NothingToStart, Recheck,
     SubmitToWorker, Answered, AckLost, RefusedBeforeStart, LoseTrack, AbortBackend,
     Poll, PollRaises, ApplyVerdict, ApplyUnknown, ApplyStep, ApplyNothing, SendCancel
<1>3. CASE DeadlinePasses
  BY <1>3 DEF DeadlinePasses
<1>4. CASE SolidEdge
  BY <1>4 DEF SolidEdge, WorkerRefuses, WorkerStep, WorkerEnds, WorkerCrash, NativeEnds
<1>5. CASE Process
  BY <1>5 DEF Process, Close, Exit, Crash, CrashInAdmission, ForgetMemory, Recover,
     CrashInRecovery
<1>6. CASE UNCHANGED vars
  BY <1>6 DEF vars
<1> QED
  BY <1>1, <1>2, <1>3, <1>4, <1>5, <1>6 DEF Next

\* Solid Edge begins no build about which the ledger already gives a definite answer:
\* a cancel that beat the supervisor stays ahead of it.
THEOREM SettledStaysIdle == Spec => SettledNeverStarts
<1>1. ASSUME Accounted, [Next]_vars
      PROVE  \A b \in BuildIds \ reconciled :
               Answer(b) \in Definite => starts'[b] = starts[b]
  <2>1. CASE starts' = starts
    BY <2>1
  <2>2. ASSUME NEW c \in BuildIds, WorkerStart(c)
        PROVE  \A b \in BuildIds \ reconciled :
                 Answer(b) \in Definite => starts'[b] = starts[b]
    <3>1. c \in reconciled \/ Answer(c) \in Open
      BY <1>1, <2>2 DEF WorkerStart, Accounted, LiveIsOpen, Live, Answer
    <3>2. \A b \in BuildIds \ {c} : starts'[b] = starts[b]
      BY <1>1, <2>2 DEF WorkerStart, Accounted, Typed, TypeOK, HistoryType
    <3> QED
      BY <3>1, <3>2, Distinct
  <2> QED
    BY <1>1, <2>1, <2>2, OnlyWorkerStartBegins
<1>2. Spec => [][Next]_vars
  BY DEF Spec
<1> QED
  BY <1>1, <1>2, AlwaysAccounted, PTL DEF SettledNeverStarts
===============================================================================
