-------------------------- MODULE ApplicationProofs --------------------------
(***************************************************************************)
(* Proofs about Application: types, that a stored decision stays what it   *)
(* is, that the revisions are one chain of what was approved, and that the *)
(* stored workflow is what the stored decision of its checkpoint made it.  *)
(***************************************************************************)
EXTENDS Application, SequenceTheorems, FiniteSetTheorems, WellFoundedInduction, TLAPS

-----------------------------------------------------------------------------
(* The inductive invariant.                                                *)

Workflows == WorkflowStates({WorkflowId})
Places == {"read", "exported", "worked", "rolled_back", "committed"}
Units == [by : Threads, db : Databases]
Calls == [at : Places, op : Operations, request : Requests, verdict : {None} \cup Verdicts,
          seen : {None} \cup Workflows, exported : {None} \cup Policies]

Typed ==
  /\ policy \in Policies
  /\ db \in Databases
  /\ unit \in {None} \cup Units
  /\ task \in [Threads -> {None} \cup Calls]

\* What an operation has read is what its unit needs.
CallRight(c) ==
  /\ c.op \in {"prepare", "decide"} => c.request \in Commits
  /\ c.op \in {"decide", "checkpoint"} => c.verdict \in Verdicts
  /\ c.op = "checkpoint" => /\ c.seen \in Workflows
                            /\ c.seen.pending # None /\ c.seen.pending.status = "pending"
  /\ c.at \in {"exported", "worked", "rolled_back"} => c.exported \in Policies

\* The thread at work is the one whose unit is open.
CallsRight ==
  /\ \A t \in Threads : task[t] # None =>
       /\ CallRight(task[t])
       /\ task[t].at = "worked" <=> unit # None /\ unit.by = t
  /\ unit # None => task[unit.by] \in Calls /\ CallRight(task[unit.by])
                    /\ task[unit.by].at = "worked"

\* The chain of a database is approved, and an approved commit is accounted for once.
InChain(d, r) == \E k \in DOMAIN d.revisions : d.revisions[k] = r
Accounted(d) ==
  /\ \A k \in DOMAIN d.revisions : /\ d.revisions[k].parent = k - 1
                                   /\ d.rows[d.revisions[k]] = "approved"
  /\ \A r \in d.conflicts : d.rows[r] = "approved"
  /\ \A r \in Commits : d.rows[r] = "approved" => (r \in d.conflicts) # InChain(d, r)

\* A later database keeps what was decided in an earlier one.
Keeps(d, e) == \A r \in Requests : d.rows[r] \in Verdicts => e.rows[r] = d.rows[r]

IInv ==
  /\ Typed
  /\ CallsRight
  /\ Accounted(db)
  /\ unit # None => Accounted(unit.db) /\ Keeps(db, unit.db)

-----------------------------------------------------------------------------
(* Workflows.                                                              *)

\* A set of naturals that is not empty has a least element.
LEMMA LeastNat ==
  ASSUME NEW T \in SUBSET Nat, T # {}
  PROVE  \E m \in T : \A k \in T : m <= k
<1>1. \E m \in T : \A k \in T : ~ (<<k, m>> \in OpToRel(<, Nat))
  BY NatLessThanWellFounded, WFMin
<1>2. PICK m \in T : \A k \in T : ~ (<<k, m>> \in OpToRel(<, Nat))
  BY <1>1
<1>3. ASSUME NEW k \in T
      PROVE  m <= k
  <2>1. m \in Nat /\ k \in Nat
    OBVIOUS
  <2>2. k < m => <<k, m>> \in OpToRel(<, Nat)
    BY <2>1 DEF OpToRel
  <2>3. ~ (k < m)
    BY <1>2, <2>2
  <2> QED
    BY <2>1, <2>3
<1> QED
  BY <1>2, <1>3

\* The names the code gives to statuses are of their types.
LEMMA Names ==
  /\ Statuses = {"created", "running", "waiting_for_approval", "completed", "failed", "cancelled"}
  /\ Terminals = {"completed", "failed", "cancelled"}
  /\ ApprovalStatuses = {"pending", "approved", "aborted", "invalidated"}
  /\ Verdicts \subseteq RecordStatuses /\ Undecided \subseteq RecordStatuses
  /\ {"none", "pending"} = Undecided /\ {"approved", "rejected"} = Verdicts
  BY DEF Statuses, Terminals, ApprovalStatuses, RecordStatuses, Undecided, Verdicts

\* The fields of a workflow.
LEMMA Fields ==
  ASSUME NEW s \in Workflows
  PROVE  /\ s.attempts \in Seq(Attempts) /\ s.completed \in Seq(Steps) /\ s.at \in States
         /\ s.history \in Seq([t : TransitionIds, n : Nat])
         /\ s.pending # None <=> s.pending \in Approvals({WorkflowId})
         /\ Digest(s) \in Digests({WorkflowId})
  BY NoneAssumption DEF Workflows, WorkflowStates, Digest, Digests

\* The definition is a sequence of transitions between its states.
LEMMA TransitionTypes ==
  ASSUME NEW t \in TransitionIds
  PROVE  Transitions[t].to \in States /\ Transitions[t].step \in Steps /\ t \in Nat
<1> DEFINE S == [from : States, to : States, step : Steps, gate : BOOLEAN]
<1>1. Transitions \in Seq(S) /\ t \in DOMAIN Transitions
  BY WorkflowAssumption DEF TransitionIds
<1> HIDE DEF S
<1>2. t \in 1 .. Len(Transitions) /\ Len(Transitions) \in Nat
  BY <1>1, LenProperties
<1>3. Transitions[t] \in S
  BY <1>1, <1>2, ElementOfSeq
<1> QED
  BY <1>2, <1>3 DEF S

\* Attempts can be counted.
LEMMA AttemptCountType ==
  ASSUME NEW s \in Workflows, NEW step
  PROVE  AttemptCount(s, step) \in Nat
<1>1. s.attempts \in Seq(Attempts)
  BY Fields
<1>2. IsFiniteSet(DOMAIN s.attempts)
  BY <1>1, LenProperties, FS_Interval
<1> QED
  BY <1>2, FS_Subset, FS_CardinalityType DEF AttemptCount

\* An operation that does not end with an error ends with a workflow.
EndsWell(o) == o.next \in Workflows

\* Another status or approval leaves a workflow.
LEMMA StatusTypes ==
  ASSUME NEW s \in Workflows
  PROVE  /\ \A status \in Statuses : [s EXCEPT !.status = status] \in Workflows
         /\ \A status \in Statuses, a \in {None} \cup Approvals({WorkflowId}) :
              [s EXCEPT !.pending = a, !.status = status] \in Workflows
  BY DEF Workflows, WorkflowStates

\* A transition, or the failure of a step without attempts left.
LEMMA ApplyTypes ==
  ASSUME NEW s \in Workflows, NEW t \in TransitionIds
  PROVE  EndsWell(ApplyTransition(s, t))
<1> DEFINE tr == Transitions[t]
           n == AttemptCount(s, tr.step) + 1
           a == [step |-> tr.step, n |-> n, ok |-> TRUE]
           h == [t |-> t, n |-> n]
           moved == [s EXCEPT !.at = tr.to,
                              !.attempts = Append(@, a),
                              !.completed = Append(@, tr.step),
                              !.history = Append(@, h)]
           status == IF Outgoing(moved) = {} THEN "completed" ELSE "running"
<1>1. tr.step \in Steps /\ tr.to \in States /\ n \in Nat
  BY TransitionTypes, AttemptCountType
<1>2. a \in Attempts /\ h \in [t : TransitionIds, n : Nat]
  BY <1>1 DEF Attempts
<1>3. ApplyTransition(s, t).next = IF Exhausted(s, tr.step) THEN [s EXCEPT !.status = "failed"]
                                   ELSE [moved EXCEPT !.status = status]
  BY DEF ApplyTransition, FailState, Outcome
<1>4. status \in Statuses /\ "failed" \in Statuses
  BY Names
<1> HIDE DEF a, h, status
<1>5. /\ Append(s.attempts, a) \in Seq(Attempts) /\ Append(s.completed, tr.step) \in Seq(Steps)
      /\ Append(s.history, h) \in Seq([t : TransitionIds, n : Nat])
  BY <1>1, <1>2, Fields, AppendProperties
<1>6. moved \in Workflows
  BY <1>1, <1>5 DEF Workflows, WorkflowStates
<1> HIDE DEF moved
<1> QED
  BY <1>3, <1>4, <1>6, StatusTypes DEF EndsWell

\* A checkpoint.
LEMMA AwaitTypes ==
  ASSUME NEW s \in Workflows, NEW t \in TransitionIds
  PROVE  EndsWell(AwaitApproval(s, t))
<1> DEFINE a == [t |-> t, digest |-> Digest(s), status |-> "pending"]
<1>1. a \in Approvals({WorkflowId})
  BY Fields, Names DEF Approvals
<1>2. AwaitApproval(s, t).next = [s EXCEPT !.pending = a, !.status = "waiting_for_approval"]
  BY DEF AwaitApproval, Outcome, Workflows, WorkflowStates
<1> HIDE DEF a
<1>3. [s EXCEPT !.pending = a, !.status = "waiting_for_approval"] \in Workflows
  BY <1>1, Names DEF Workflows, WorkflowStates
<1> QED
  BY <1>2, <1>3 DEF EndsWell

\* An approval withdrawn.
LEMMA InvalidateTypes ==
  ASSUME NEW s \in Workflows, s.pending # None
  PROVE  EndsWell(Invalidate(s))
<1> DEFINE a == [s.pending EXCEPT !.status = "invalidated"]
<1>1. a \in Approvals({WorkflowId})
  BY Fields, Names DEF Approvals
<1>2. Invalidate(s).next = [s EXCEPT !.pending = a, !.status = "waiting_for_approval"]
  BY DEF Invalidate, Outcome, Workflows, WorkflowStates
<1> HIDE DEF a
<1>3. [s EXCEPT !.pending = a, !.status = "waiting_for_approval"] \in Workflows
  BY <1>1, Names DEF Workflows, WorkflowStates
<1> QED
  BY <1>2, <1>3 DEF EndsWell

\* The step out of a running workflow.
LEMMA AdvanceFromTypes ==
  ASSUME NEW s \in Workflows
  PROVE  /\ AdvanceFrom(s, None) # {}
         /\ \A o \in AdvanceFrom(s, None) : EndsWell(o)
<1>1. CASE Outgoing(s) = {}
  <2>1. AdvanceFrom(s, None) = {CompleteIfTerminal(s)}
    BY <1>1 DEF AdvanceFrom
  <2>2. EndsWell(CompleteIfTerminal(s))
    BY StatusTypes, Names DEF CompleteIfTerminal, Unchanged, Outcome, EndsWell
  <2> QED
    BY <2>1, <2>2
<1>2. CASE Outgoing(s) # {}
  <2>1. AdvanceFrom(s, None) = {Leave(s, t) : t \in Select(s, None)}
    BY <1>2 DEF AdvanceFrom
  <2>2. Outgoing(s) \subseteq TransitionIds /\ Outgoing(s) \subseteq Nat
    BY TransitionTypes DEF Outgoing
  <2>3. PICK t \in Outgoing(s) : \A u \in Outgoing(s) : t <= u
    BY <1>2, <2>2, LeastNat
  <2>4. t \in Select(s, None)
    BY <2>3 DEF Select
  <2>5. \A u \in Select(s, None) : u \in TransitionIds
    BY <2>2 DEF Select
  <2>6. \A u \in Select(s, None) : EndsWell(Leave(s, u))
    BY <2>5, ApplyTypes, AwaitTypes DEF Leave
  <2> QED
    BY <2>1, <2>4, <2>6
<1> QED
  BY <1>1, <1>2

\* run on a workflow that neither ended nor waits.
LEMMA AdvancedTypes ==
  ASSUME NEW s \in Workflows, ~ Terminal(s), s.pending = None
  PROVE  Advanced(s) \in Workflows
<1>1. ~ Ungranted(s) /\ ~ Granted(s) /\ ~ Stale(s)
  BY DEF Ungranted, Granted, Stale
<1>2. Advance(s, None) # {} /\ \A o \in Advance(s, None) : EndsWell(o)
  <2>1. CASE s.status = "created"
    <3> DEFINE m == [s EXCEPT !.status = "running"]
               e == <<Event(s, "status_changed", None)>>
    <3>1. m \in Workflows
      BY StatusTypes, Names
    <3>2. Advance(s, None) = {After(e, o) : o \in AdvanceFrom(m, None)}
      BY <1>1, <2>1 DEF Advance
    <3> HIDE DEF m, e
    <3>3. \A o : EndsWell(o) => EndsWell(After(e, o))
      BY DEF After, Outcome, EndsWell
    <3> QED
      BY <3>1, <3>2, <3>3, AdvanceFromTypes
  <2>2. CASE s.status # "created"
    <3>1. Advance(s, None) = AdvanceFrom(s, None)
      BY <1>1, <2>2 DEF Advance
    <3> QED
      BY <3>1, AdvanceFromTypes
  <2> QED
    BY <2>1, <2>2
<1> QED
  BY <1>2 DEF Advanced, EndsWell

\* What a run has made of a workflow after n steps, from what it made of it before.
Waits(w) == Terminal(w) \/ w.pending # None
Following(f, s, n) ==
  IF n = 0 THEN s ELSE IF Waits(f[n - 1]) THEN f[n - 1] ELSE Advanced(f[n - 1])

\* The steps of a run.  The function they are defined by exists, so it is the
\* function, and each of its values follows from the one before it.
LEMMA ProgressSteps ==
  ASSUME NEW s
  PROVE  \E f : /\ Progress(s) = f[Len(Transitions)]
                /\ \A n \in 0 .. Len(Transitions) : f[n] = Following(f, s, n)
<1> DEFINE L == Len(Transitions)
           Defined(f, m) == f = [n \in 0 .. m |-> Following(f, s, n)]
<1>1. L \in Nat
  BY WorkflowAssumption, LenProperties
<1>2. ASSUME NEW m \in Nat, NEW f, Defined(f, m)
      PROVE  \E g : Defined(g, m + 1)
  <2> DEFINE g == [n \in 0 .. m + 1 |-> IF n <= m THEN f[n] ELSE Following(f, s, m + 1)]
  <2>1. ASSUME NEW n \in 0 .. m + 1
        PROVE  g[n] = Following(g, s, n)
    <3>1. CASE n = 0
      <4>1. g[n] = f[0] /\ f[0] = Following(f, s, 0)
        BY <1>2, <3>1
      <4> QED
        BY <3>1, <4>1 DEF Following
    <3>2. CASE n # 0
      <4>1. n - 1 \in 0 .. m /\ g[n - 1] = f[n - 1]
        BY <3>2
      <4>2. Following(g, s, n) = Following(f, s, n)
        BY <4>1, <3>2 DEF Following
      <4>3. CASE n <= m
        <5>1. n \in 0 .. m /\ g[n] = f[n]
          BY <4>3
        <5>2. f[n] = Following(f, s, n)
          BY <5>1, <1>2
        <5> QED
          BY <5>1, <5>2, <4>2
      <4>4. CASE n = m + 1
        <5>1. g[n] = Following(f, s, m + 1)
          BY <4>4
        <5> QED
          BY <5>1, <4>2, <4>4
      <4> QED
        BY <4>3, <4>4
    <3> QED
      BY <3>1, <3>2
  <2>2. g = [n \in 0 .. m + 1 |-> g[n]]
    OBVIOUS
  <2> HIDE DEF g
  <2>3. Defined(g, m + 1)
    BY <2>1, <2>2
  <2> QED
    BY <2>3
<1>3. \E f : Defined(f, 0)
  <2> DEFINE f == [n \in 0 .. 0 |-> s]
  <2>1. f = [n \in 0 .. 0 |-> Following(f, s, n)]
    BY DEF Following
  <2> QED
    BY <2>1
<1> HIDE DEF Defined
<1>4. \E f : Defined(f, L)
  <2> DEFINE T == {m \in Nat : ~ \E f : Defined(f, m)}
  <2> SUFFICES ASSUME T # {}
               PROVE  FALSE
    BY <1>1
  <2>1. PICK m \in T : \A k \in T : m <= k
    BY LeastNat
  <2>2. m # 0
    BY <1>3
  <2>3. m - 1 \in Nat /\ m - 1 \notin T
    BY <2>1, <2>2
  <2>4. PICK f : Defined(f, m - 1)
    BY <2>3
  <2>5. \E g : Defined(g, (m - 1) + 1)
    BY <2>3, <2>4, <1>2
  <2>6. (m - 1) + 1 = m
    OBVIOUS
  <2> QED
    BY <2>5, <2>6
<1> DEFINE after == CHOOSE f : Defined(f, L)
<1>5. Defined(after, L)
  BY <1>4
<1>6. Progress(s) = after[L]
  BY DEF Progress, Defined, Following, Waits
<1> HIDE DEF after
<1>7. \A n \in 0 .. L : after[n] = Following(after, s, n)
  BY <1>5 DEF Defined
<1> QED
  BY <1>6, <1>7

\* Each of its values is a workflow if the one before it is.
LEMMA ProgressTypes ==
  ASSUME NEW s \in Workflows
  PROVE  Progress(s) \in Workflows
<1> DEFINE L == Len(Transitions)
<1>1. L \in Nat
  BY WorkflowAssumption, LenProperties
<1>2. PICK after : /\ Progress(s) = after[L]
                   /\ \A n \in 0 .. L : after[n] = Following(after, s, n)
  BY ProgressSteps
<1>3. ASSUME after[L] \notin Workflows
      PROVE  FALSE
  <2> DEFINE T == {n \in 0 .. L : after[n] \notin Workflows}
  <2>1. T # {} /\ T \in SUBSET Nat
    BY <1>1, <1>3
  <2>2. PICK n \in T : \A k \in T : n <= k
    BY <2>1, LeastNat
  <2>3. n # 0
    BY <1>2 DEF Following
  <2>4. n - 1 \in 0 .. L /\ n - 1 \notin T
    BY <1>1, <2>2, <2>3
  <2>5. after[n - 1] \in Workflows
    BY <2>4
  <2>6. after[n] = IF Waits(after[n - 1]) THEN after[n - 1] ELSE Advanced(after[n - 1])
    BY <1>2, <2>3 DEF Following
  <2>7. after[n] \in Workflows
    BY <2>5, <2>6, AdvancedTypes DEF Waits
  <2> QED
    BY <2>7
<1> QED
  BY <1>2, <1>3

\* What a run of a new workflow begins with.
LEMMA FreshTypes ==
  Fresh(WorkflowId) \in Workflows
<1>1. 0 \in 0 .. MaxReplans /\ "created" \in Statuses
  BY WorkflowAssumption, Names
<1>2. InitialState \in States
  BY DEF States
<1> QED
  BY <1>1, <1>2, EmptySeq DEF Fresh, Workflows, WorkflowStates

\* A decision of the checkpoint a workflow waits at.
LEMMA ResolvedTypes ==
  ASSUME NEW s \in Workflows, s.pending # None, s.pending.status = "pending", NEW verdict
  PROVE  Resolved(s, verdict) \in Workflows
<1> DEFINE a == [s.pending EXCEPT !.status = "approved"]
           g == [s EXCEPT !.pending = a]
           granted == CHOOSE o \in Approve(s, s.pending.digest) : TRUE
           refused == CHOOSE o \in Refuse(s, s.pending.digest, verdict) : TRUE
<1>1. a \in Approvals({WorkflowId}) /\ a.t = s.pending.t /\ a.t \in TransitionIds
  BY Fields, Names DEF Approvals
<1>2. granted.next = g
  <2>1. Approve(s, s.pending.digest) = {Outcome(<<Verdict("approved", s.pending)>>,
                                              [s EXCEPT !.pending.status = "approved"])}
    BY DEF Approve
  <2>2. [s EXCEPT !.pending.status = "approved"] = g
    BY DEF Workflows, WorkflowStates
  <2>3. granted \in Approve(s, s.pending.digest)
    BY <2>1
  <2> QED
    BY <2>1, <2>2, <2>3 DEF Outcome
<1>3. refused.next \in Workflows
  <2> DEFINE r == [s EXCEPT !.pending = None,
                            !.status = IF verdict = "aborted" THEN "cancelled" ELSE "failed"]
  <2>1. Refuse(s, s.pending.digest, verdict) = {Outcome(<<Verdict(verdict, s.pending)>>, r)}
    BY DEF Refuse
  <2>2. r \in Workflows
    BY StatusTypes, Names
  <2>3. refused \in Refuse(s, s.pending.digest, verdict)
    BY <2>1
  <2> QED
    BY <2>1, <2>2, <2>3 DEF Outcome
<1>4. g.pending = a /\ a # None /\ g \in Workflows
  BY <1>1, NoneAssumption DEF Workflows, WorkflowStates
<1> HIDE DEF a, g
<1>5. Taken(g) \in Workflows
  BY <1>4, StatusTypes, Names DEF Taken
<1>6. Resume(g) # {} /\ \A o \in Resume(g) : EndsWell(o)
  <2>1. Granted(g)
    BY <1>4 DEF Granted, a
  <2>2. Resume(g) = IF Stale(g) THEN {Invalidate(g)} ELSE {ApplyTransition(Taken(g), g.pending.t)}
    BY <2>1 DEF Resume
  <2> QED
    BY <2>2, <1>1, <1>4, <1>5, InvalidateTypes, ApplyTypes
<1>7. (CHOOSE o \in Resume(granted.next) : TRUE).next \in Workflows
  BY <1>2, <1>6 DEF EndsWell
<1> QED
  BY <1>3, <1>7 DEF Resolved

-----------------------------------------------------------------------------
(* The reference workflow: where a run of it stops, and what each verdict  *)
(* makes of it there.                                                      *)

Last == Len(Transitions)

\* Where a run of a new workflow stops.
Waiting == Progress(Fresh(WorkflowId))

\* A workflow that has taken the first n transitions, none of them twice.
Passed(s, n) ==
  /\ s \in Workflows
  /\ s.status \in {"created", "running"} /\ s.pending = None
  /\ s.at = Transitions[n + 1].from
  /\ \A i \in DOMAIN s.attempts : \E t \in 1 .. n : s.attempts[i].step = Transitions[t].step

\* The definition has a last transition, and its transitions are its first to its last.
LEMMA LastIsTransition ==
  /\ Last \in Nat /\ Last # 0 /\ TransitionIds = 1 .. Last
  /\ Last \in TransitionIds
<1>1. Last \in Nat /\ TransitionIds = 1 .. Last
  BY WorkflowAssumption, LenProperties DEF Last, TransitionIds
<1>2. Last # 0
  BY WorkflowAssumption, ReferenceAssumption, EmptySeq DEF Last
<1> QED
  BY <1>1, <1>2

\* No state of the chain comes twice, so one transition leaves each but the last.
LEMMA OneWayOut ==
  ASSUME NEW s, NEW n \in TransitionIds
  PROVE  /\ s.at = Transitions[n].from => Outgoing(s) = {n}
         /\ s.at = Transitions[Last].to => Outgoing(s) = {}
<1>1. ASSUME NEW t \in TransitionIds, NEW u \in TransitionIds,
             Transitions[t].from = Transitions[u].from
      PROVE  t = u
  <2>1. t \in 1 .. Last /\ u \in 1 .. Last /\ Last \in Nat
    BY LastIsTransition
  <2>2. CASE t = 1 \/ u = 1
    <3>1. t # 1 => t - 1 \in TransitionIds
      BY <2>1, LastIsTransition
    <3>2. u # 1 => u - 1 \in TransitionIds
      BY <2>1, LastIsTransition
    <3> QED
      BY <1>1, <2>2, <3>1, <3>2, ReferenceAssumption
  <2>3. CASE t # 1 /\ u # 1
    <3>1. t - 1 \in TransitionIds /\ u - 1 \in TransitionIds
      BY <2>1, <2>3, LastIsTransition
    <3>2. Transitions[t - 1].to = Transitions[u - 1].to
      BY <1>1, <2>3, ReferenceAssumption
    <3>3. t - 1 = u - 1
      BY <3>1, <3>2, ReferenceAssumption
    <3> QED
      BY <2>1, <3>3
  <2> QED
    BY <2>2, <2>3
<1>2. ASSUME NEW t \in TransitionIds
      PROVE  Transitions[t].from # Transitions[Last].to
  <2>1. t \in 1 .. Last /\ Last \in Nat /\ Last \in TransitionIds
    BY LastIsTransition
  <2>2. CASE t = 1
    BY <2>1, <2>2, ReferenceAssumption
  <2>3. CASE t # 1
    <3>1. t - 1 \in TransitionIds /\ t - 1 # Last
      BY <2>1, <2>3, LastIsTransition
    <3> QED
      BY <2>1, <2>3, <3>1, ReferenceAssumption
  <2> QED
    BY <2>2, <2>3
<1> QED
  BY <1>1, <1>2 DEF Outgoing

\* The next step was never attempted.
LEMMA NotAttempted ==
  ASSUME NEW n \in Nat, n + 1 \in TransitionIds, NEW s, Passed(s, n)
  PROVE  /\ AttemptCount(s, Transitions[n + 1].step) = 0
         /\ ~ Exhausted(s, Transitions[n + 1].step)
<1>1. n + 1 \in 1 .. Last /\ Last \in Nat
  BY LastIsTransition
<1>2. \A t \in 1 .. n : t \in TransitionIds /\ t # n + 1
  BY <1>1, LastIsTransition
<1>3. \A i \in DOMAIN s.attempts : s.attempts[i].step # Transitions[n + 1].step
  BY <1>2, ReferenceAssumption DEF Passed
<1>4. {i \in DOMAIN s.attempts : s.attempts[i].step = Transitions[n + 1].step} = {}
  BY <1>3
<1>5. AttemptCount(s, Transitions[n + 1].step) = 0
  BY <1>4, FS_EmptySet DEF AttemptCount
<1>6. Limit[Transitions[n + 1].step] \in Nat \ {0}
  BY TransitionTypes, WorkflowAssumption
<1> QED
  BY <1>5, <1>6 DEF Exhausted

\* A step of a run leaves by the one transition there is.
LEMMA AdvancedLeaves ==
  ASSUME NEW n \in Nat, n + 1 \in TransitionIds, NEW s, Passed(s, n)
  PROVE  \E r : Passed(r, n) /\ Advanced(s) = Leave(r, n + 1).next
<1> DEFINE r == [s EXCEPT !.status = "running"]
           e == <<Event(s, "status_changed", None)>>
<1>1. /\ s \in Workflows /\ s.status \in {"created", "running"} /\ s.pending = None
      /\ ~ Terminal(s)
  BY Names DEF Passed, Terminal
<1>2. r \in Workflows
  BY <1>1, StatusTypes, Names
<1>3. /\ r.status = "running" /\ r.pending = None /\ r.at = s.at /\ r.attempts = s.attempts
      /\ s.status = "running" => r = s
  BY <1>1 DEF Workflows, WorkflowStates
<1>4. Passed(r, n)
  BY <1>2, <1>3 DEF Passed
<1>5. Outgoing(r) = {n + 1} /\ n + 1 \in Nat
  <2>1. r.at = Transitions[n + 1].from
    BY <1>4 DEF Passed
  <2> HIDE DEF r
  <2> QED
    BY <2>1, OneWayOut
<1>6. Select(r, None) = {n + 1}
  BY <1>5 DEF Select
<1>7. AdvanceFrom(r, None) = {Leave(r, n + 1)}
  BY <1>5, <1>6 DEF AdvanceFrom
<1>8. ~ Ungranted(s) /\ ~ Granted(s) /\ ~ Stale(s)
  BY <1>1 DEF Ungranted, Granted, Stale
<1> HIDE DEF e
<1>9. Advance(s, None) = {IF s.status = "created" THEN After(e, Leave(r, n + 1))
                          ELSE Leave(r, n + 1)}
  <2>1. CASE s.status = "created"
    <3>1. Advance(s, None) = {After(e, o) : o \in AdvanceFrom(r, None)}
      BY <1>1, <1>8, <2>1 DEF Advance, e
    <3> QED
      BY <2>1, <3>1, <1>7
  <2>2. CASE s.status # "created"
    <3>1. Advance(s, None) = AdvanceFrom(s, None) /\ r = s
      BY <1>1, <1>3, <1>8, <2>2 DEF Advance
    <3> QED
      BY <2>2, <3>1, <1>7
  <2> QED
    BY <2>1, <2>2
<1>10. After(e, Leave(r, n + 1)).next = Leave(r, n + 1).next
  BY DEF After, Outcome
<1>11. Advanced(s) = Leave(r, n + 1).next
  BY <1>9, <1>10 DEF Advanced
<1> QED
  BY <1>4, <1>11

\* A transition that is not the last is taken, and the step is not attempted again.
LEMMA PassesOn ==
  ASSUME NEW n \in Nat, n + 1 \in TransitionIds, n + 1 # Last, NEW s, Passed(s, n)
  PROVE  Passed(Leave(s, n + 1).next, n + 1)
<1> DEFINE t == n + 1
           tr == Transitions[t]
           k == AttemptCount(s, tr.step) + 1
           a == [step |-> tr.step, n |-> k, ok |-> TRUE]
           h == [t |-> t, n |-> k]
           moved == [s EXCEPT !.at = tr.to,
                              !.attempts = Append(@, a),
                              !.completed = Append(@, tr.step),
                              !.history = Append(@, h)]
           w == [moved EXCEPT !.status = IF Outgoing(moved) = {} THEN "completed" ELSE "running"]
<1>1. t + 1 \in TransitionIds /\ t \in 1 .. Last /\ Last \in Nat /\ t \in Nat
  BY LastIsTransition
<1>2. Leave(s, t) = ApplyTransition(s, t)
  BY ReferenceAssumption DEF Leave, Last
<1>3. ~ Exhausted(s, tr.step) /\ s \in Workflows
  BY NotAttempted DEF Passed
<1>4. Leave(s, t).next = w
  BY <1>2, <1>3 DEF ApplyTransition, Outcome
<1>5. w \in Workflows
  BY <1>2, <1>3, <1>4, ApplyTypes DEF EndsWell
<1> HIDE DEF a, h
<1>6. /\ moved.at = tr.to /\ moved.attempts = Append(s.attempts, a) /\ moved.pending = None
      /\ w.at = moved.at /\ w.attempts = moved.attempts /\ w.pending = None
      /\ w.status = IF Outgoing(moved) = {} THEN "completed" ELSE "running"
  BY <1>3 DEF Workflows, WorkflowStates, Passed
<1> HIDE DEF moved, w
<1>7. tr.to = Transitions[t + 1].from
  BY <1>1, ReferenceAssumption
<1>8. w.status = "running"
  BY <1>1, <1>6, <1>7, OneWayOut
<1>9. s.attempts \in Seq(Attempts) /\ a \in Attempts /\ a.step = tr.step
  <2>1. tr.step \in Steps /\ k \in Nat /\ s.attempts \in Seq(Attempts)
    BY <1>3, Fields, TransitionTypes, AttemptCountType
  <2> HIDE DEF k, tr
  <2> QED
    BY <2>1 DEF a, Attempts
<1>10. ASSUME NEW i \in DOMAIN w.attempts
       PROVE  \E u \in 1 .. t : w.attempts[i].step = Transitions[u].step
  <2>1. /\ i \in 1 .. Len(s.attempts) + 1 /\ Len(s.attempts) \in Nat
        /\ DOMAIN s.attempts = 1 .. Len(s.attempts)
    BY <1>6, <1>9, AppendProperties, LenProperties
  <2>2. CASE i = Len(s.attempts) + 1
    <3>1. w.attempts[i] = a
      BY <2>2, <1>6, <1>9, AppendProperties
    <3> QED
      BY <3>1, <1>1, <1>9
  <2>3. CASE i \in 1 .. Len(s.attempts)
    <3>1. w.attempts[i] = s.attempts[i]
      BY <2>3, <1>6, <1>9, AppendProperties
    <3>2. \E u \in 1 .. n : s.attempts[i].step = Transitions[u].step
      BY <2>1, <2>3 DEF Passed
    <3> QED
      BY <3>1, <3>2, <1>1
  <2> QED
    BY <2>1, <2>2, <2>3
<1> QED
  BY <1>4, <1>5, <1>6, <1>7, <1>8, <1>10 DEF Passed

\* A run of a new workflow takes every transition but the last, and waits at that one.
LEMMA WaitingAtLast ==
  \E s : Passed(s, Last - 1) /\ Waiting = AwaitApproval(s, Last).next
<1> DEFINE s == Fresh(WorkflowId)
<1>1. PICK f : Progress(s) = f[Last] /\ \A n \in 0 .. Last : f[n] = Following(f, s, n)
  BY ProgressSteps DEF Last
<1>2. /\ Last \in Nat /\ Last # 0 /\ Last \in TransitionIds
      /\ \A n \in 0 .. Last - 1 : n \in Nat /\ n + 1 \in TransitionIds
  BY LastIsTransition
<1>3. Passed(s, 0)
  <2>1. Transitions[0 + 1].from = InitialState
    BY <1>2, LastIsTransition, ReferenceAssumption
  <2> QED
    BY <2>1, FreshTypes DEF Passed, Fresh
<1> HIDE DEF s
<1>4. ASSUME NEW n \in 1 .. Last, Passed(f[n - 1], n - 1)
      PROVE  \E r : Passed(r, n - 1) /\ f[n] = Leave(r, n).next
  <2>1. n - 1 \in Nat /\ (n - 1) + 1 = n /\ n \in TransitionIds /\ n # 0
    BY <1>2, LastIsTransition
  <2>2. ~ Waits(f[n - 1])
    BY <1>4 DEF Waits, Terminal, Terminals, Passed
  <2>3. f[n] = Advanced(f[n - 1])
    BY <1>1, <1>2, <2>1, <2>2 DEF Following
  <2>4. \E r : Passed(r, n - 1) /\ Advanced(f[n - 1]) = Leave(r, (n - 1) + 1).next
    BY <2>1, <1>4, AdvancedLeaves
  <2> QED
    BY <2>1, <2>3, <2>4
<1>5. Passed(f[Last - 1], Last - 1)
  <2> SUFFICES ASSUME ~ Passed(f[Last - 1], Last - 1)
               PROVE  FALSE
    OBVIOUS
  <2> DEFINE T == {n \in 0 .. Last - 1 : ~ Passed(f[n], n)}
  <2>1. T # {} /\ T \in SUBSET Nat
    BY <1>2
  <2>2. PICK n \in T : \A k \in T : n <= k
    BY <2>1, LeastNat
  <2>3. n # 0
    <3>1. f[0] = s
      BY <1>1, <1>2 DEF Following
    <3> QED
      BY <2>2, <3>1, <1>3
  <2>4. n - 1 \in 0 .. Last - 1 /\ n - 1 \notin T /\ n \in 1 .. Last /\ n # Last
    BY <1>2, <2>2, <2>3
  <2>5. PICK r : Passed(r, n - 1) /\ f[n] = Leave(r, n).next
    BY <2>4, <1>4
  <2>6. n - 1 \in Nat /\ (n - 1) + 1 = n /\ n \in TransitionIds
    BY <2>4, <1>2, LastIsTransition
  <2>7. Passed(Leave(r, (n - 1) + 1).next, (n - 1) + 1)
    BY <2>4, <2>5, <2>6, PassesOn
  <2> QED
    BY <2>5, <2>6, <2>7
<1>6. PICK r : Passed(r, Last - 1) /\ f[Last] = Leave(r, Last).next
  BY <1>2, <1>4, <1>5
<1>7. Leave(r, Last) = AwaitApproval(r, Last)
  BY <1>2, ReferenceAssumption DEF Leave, Last
<1> QED
  BY <1>1, <1>6, <1>7 DEF Waiting, s

\* What the workflow is there.
LEMMA WaitingIs ==
  /\ Waiting \in Workflows /\ Waiting # None
  /\ Waiting.status = "waiting_for_approval" /\ ~ Terminal(Waiting)
  /\ Waiting.pending = [t |-> Last, digest |-> Digest(Waiting), status |-> "pending"]
  /\ Waiting.pending # None
  /\ Passed(Taken(Waiting), Last - 1)
<1>1. PICK s : Passed(s, Last - 1) /\ Waiting = AwaitApproval(s, Last).next
  BY WaitingAtLast
<1>2. s \in Workflows /\ Last \in TransitionIds /\ Last - 1 \in Nat
  BY <1>1, LastIsTransition DEF Passed
<1>3. Waiting \in Workflows /\ Waiting # None
  BY <1>1, <1>2, AwaitTypes, NoneAssumption DEF EndsWell, Workflows
<1> DEFINE a == [t |-> Last, digest |-> Digest(s), status |-> "pending"]
<1>4. Waiting = [s EXCEPT !.status = "waiting_for_approval", !.pending = a]
  BY <1>1 DEF AwaitApproval, Outcome
<1>5. a \in Approvals({WorkflowId}) /\ a # None /\ a.digest = Digest(s)
  <2>1. Digest(s) \in Digests({WorkflowId}) /\ "pending" \in ApprovalStatuses
    BY <1>2, Fields, Names
  <2>2. a \in Approvals({WorkflowId})
    BY <1>2, <2>1 DEF Approvals
  <2> HIDE DEF a
  <2> QED
    BY <2>2, NoneAssumption DEF a
<1> HIDE DEF a
<1>6. /\ Waiting.status = "waiting_for_approval" /\ Waiting.pending = a
      /\ Waiting.id = s.id /\ Waiting.attempts = s.attempts /\ Waiting.completed = s.completed
      /\ Waiting.at = s.at /\ Waiting.replans = s.replans
  BY <1>2, <1>4 DEF Workflows, WorkflowStates
<1>7. Digest(Waiting) = Digest(s)
  BY <1>6 DEF Digest
<1>8. ~ Terminal(Waiting)
  BY <1>6 DEF Terminal, Terminals
<1>9. Passed(Taken(Waiting), Last - 1)
  <2>1. Taken(Waiting) \in Workflows
    BY <1>3, StatusTypes, Names DEF Taken
  <2>2. /\ Taken(Waiting).status = "running" /\ Taken(Waiting).pending = None
        /\ Taken(Waiting).at = s.at /\ Taken(Waiting).attempts = s.attempts
    BY <1>3, <1>6 DEF Taken, Workflows, WorkflowStates
  <2> QED
    BY <1>1, <2>1, <2>2 DEF Passed
<1> QED
  BY <1>3, <1>5, <1>6, <1>7, <1>8, <1>9 DEF a

\* A run of a workflow that waits leaves it as it is.
LEMMA WaitingStays ==
  Progress(Waiting) = Waiting
<1>1. PICK f : Progress(Waiting) = f[Last] /\ \A n \in 0 .. Last : f[n] = Following(f, Waiting, n)
  BY ProgressSteps DEF Last
<1>2. Last \in Nat /\ Waits(Waiting)
  BY LastIsTransition, WaitingIs DEF Waits
<1> SUFFICES ASSUME f[Last] # Waiting
             PROVE  FALSE
  BY <1>1
<1> DEFINE T == {n \in 0 .. Last : f[n] # Waiting}
<1>3. T # {} /\ T \in SUBSET Nat
  BY <1>2
<1>4. PICK n \in T : \A k \in T : n <= k
  BY <1>3, LeastNat
<1>5. n # 0
  BY <1>1 DEF Following
<1>6. n - 1 \in 0 .. Last /\ n - 1 \notin T
  BY <1>2, <1>4, <1>5
<1>7. f[n] = f[n - 1]
  BY <1>1, <1>2, <1>5, <1>6 DEF Following
<1> QED
  BY <1>6, <1>7

\* An approval completes the workflow that waits, a rejection fails it.
LEMMA VerdictsEnd ==
  /\ Resolved(Waiting, "approved").status = "completed"
  /\ Resolved(Waiting, "rejected").status = "failed"
  /\ \A v \in Verdicts : Resolved(Waiting, v) \in Workflows /\ Resolved(Waiting, v) # None
<1> DEFINE w == Waiting
           p == w.pending
           g == [w EXCEPT !.pending.status = "approved"]
<1>1. /\ w \in Workflows /\ p # None /\ p.status = "pending" /\ p.t = Last
      /\ p.digest = Digest(w) /\ Passed(Taken(w), Last - 1)
      /\ p = [t |-> Last, digest |-> Digest(w), status |-> "pending"]
  BY WaitingIs
<1>2. Last \in TransitionIds /\ Last - 1 \in Nat /\ (Last - 1) + 1 = Last
  BY LastIsTransition
<1> HIDE DEF w
<1>3. /\ g.pending = [t |-> Last, digest |-> Digest(w), status |-> "approved"]
      /\ g.at = w.at /\ Digest(g) = Digest(w) /\ Taken(g) = Taken(w)
  BY <1>1 DEF Workflows, WorkflowStates, Digest, Taken
<1>4. (CHOOSE o \in Approve(w, p.digest) : TRUE).next = g
  <2> DEFINE granted == CHOOSE o \in Approve(w, p.digest) : TRUE
  <2>1. Approve(w, p.digest) = {Outcome(<<Verdict("approved", p)>>, g)}
    BY <1>1 DEF Approve
  <2>2. granted \in Approve(w, p.digest)
    BY <2>1
  <2> HIDE DEF g
  <2> QED
    BY <2>1, <2>2 DEF Outcome
<1>5. Transitions[Last].from = w.at
  BY <1>1, <1>2 DEF Passed, Taken, Workflows, WorkflowStates
<1>6. Granted(g) /\ ~ Stale(g) /\ g.pending.t = Last
  <2>1. g.pending \in Approvals({WorkflowId}) /\ g.pending # None
    <3>1. Digest(w) \in Digests({WorkflowId}) /\ "approved" \in ApprovalStatuses
      BY <1>1, Fields, Names
    <3> HIDE DEF g
    <3>2. g.pending \in Approvals({WorkflowId})
      BY <1>2, <1>3, <3>1 DEF Approvals
    <3> QED
      BY <3>2, NoneAssumption
  <2> HIDE DEF g
  <2> QED
    BY <2>1, <1>3, <1>5 DEF Granted, Stale, ApprovalMatches
<1> HIDE DEF g
<1>7. Resume(g) = {ApplyTransition(Taken(w), Last)}
  BY <1>3, <1>6 DEF Resume
<1>8. Resolved(w, "approved") = ApplyTransition(Taken(w), Last).next
  BY <1>4, <1>7 DEF Resolved
<1>9. ApplyTransition(Taken(w), Last).next.status = "completed"
  <2> DEFINE s == Taken(w)
             tr == Transitions[Last]
             k == AttemptCount(s, tr.step) + 1
             a == [step |-> tr.step, n |-> k, ok |-> TRUE]
             h == [t |-> Last, n |-> k]
             moved == [s EXCEPT !.at = tr.to,
                                !.attempts = Append(@, a),
                                !.completed = Append(@, tr.step),
                                !.history = Append(@, h)]
  <2>1. s \in Workflows /\ ~ Exhausted(s, tr.step)
    BY <1>1, <1>2, NotAttempted DEF Passed
  <2> HIDE DEF s, a, h
  <2>2. moved.at = tr.to /\ "status" \in DOMAIN moved
    BY <2>1 DEF Workflows, WorkflowStates
  <2>3. Outgoing(moved) = {}
    BY <2>2, <1>2, OneWayOut
  <2>4. ApplyTransition(s, Last).next = [moved EXCEPT !.status = "completed"]
    BY <2>1, <2>3 DEF ApplyTransition, Outcome, a, h
  <2> HIDE DEF moved
  <2> QED
    BY <2>2, <2>4 DEF s
<1>10. Resolved(w, "rejected").status = "failed"
  <2> DEFINE r == [w EXCEPT !.pending = None, !.status = "failed"]
  <2>1. Refuse(w, p.digest, "rejected") = {Outcome(<<Verdict("rejected", p)>>, r)}
    BY <1>1 DEF Refuse
  <2> DEFINE refused == CHOOSE o \in Refuse(w, p.digest, "rejected") : TRUE
  <2>2. refused \in Refuse(w, p.digest, "rejected")
    BY <2>1
  <2>3. r.status = "failed"
    BY <1>1 DEF Workflows, WorkflowStates
  <2> HIDE DEF r
  <2>4. refused.next = r
    BY <2>1, <2>2 DEF Outcome
  <2>5. Resolved(w, "rejected") = refused.next
    BY DEF Resolved
  <2> QED
    BY <2>3, <2>4, <2>5
<1>11. \A v \in Verdicts : Resolved(w, v) \in Workflows /\ Resolved(w, v) # None
  BY <1>1, ResolvedTypes, NoneAssumption DEF Workflows
<1> QED
  BY <1>8, <1>9, <1>10, <1>11 DEF w

-----------------------------------------------------------------------------
(* The units.                                                              *)

\* What a unit of work that does not raise would commit: a database whose history
\* is in order and that keeps what was decided.
UnitRight(e, d) ==
  /\ e.policy \in Policies
  /\ e.db # None => e.db \in Databases /\ Accounted(e.db) /\ Keeps(d, e.db)

\* The record of a request, made if there is none.
LEMMA RequestTypes ==
  ASSUME NEW p \in Policies, NEW r \in Requests
  PROVE  Request(p, r) \in Policies
  BY Names DEF Request, Policies

\* The row of an undecided request is written: its commit is in no chain and in no
\* conflict, so what was approved stays accounted for.
LEMMA SaveRowKeeps ==
  ASSUME NEW d \in Databases, Accounted(d), NEW r \in Requests, d.rows[r] \in Undecided,
         NEW status \in RecordStatuses, status # "approved" \/ r \notin Commits
  PROVE  /\ SaveRow(d, r, status) \in Databases
         /\ Accounted(SaveRow(d, r, status)) /\ Keeps(d, SaveRow(d, r, status))
<1> DEFINE e == SaveRow(d, r, status)
<1>1. e = [d EXCEPT !.rows = [d.rows EXCEPT ![r] = status]]
  BY DEF SaveRow, Databases
<1>2. d.rows \in Policies /\ [d.rows EXCEPT ![r] = status] \in Policies
  BY DEF Databases, Policies
<1>3. e \in Databases
  BY <1>1, <1>2 DEF Databases
<1>4. /\ e.revisions = d.revisions /\ e.conflicts = d.conflicts
      /\ \A q \in Requests : e.rows[q] = IF q = r THEN status ELSE d.rows[q]
  BY <1>1, <1>2 DEF Databases, Policies
<1> HIDE DEF e
<1>5. d.rows[r] # "approved" /\ d.rows[r] \notin Verdicts
  BY DEF Undecided, Verdicts
<1>6. d.conflicts \subseteq Requests /\ \A k \in DOMAIN d.revisions : d.revisions[k] \in Requests
  BY ElementOfSeq, LenProperties DEF Databases, Requests
<1>7. Keeps(d, e)
  BY <1>4, <1>5 DEF Keeps
<1>8. Accounted(e)
  <2>1. \A k \in DOMAIN e.revisions : /\ e.revisions[k].parent = k - 1
                                      /\ e.rows[e.revisions[k]] = "approved"
    BY <1>4, <1>5, <1>6 DEF Accounted
  <2>2. \A q \in e.conflicts : e.rows[q] = "approved"
    BY <1>4, <1>5, <1>6 DEF Accounted
  <2>3. ASSUME NEW q \in Commits, e.rows[q] = "approved"
        PROVE  (q \in e.conflicts) # InChain(e, q)
    <3>1. q \in Requests
      BY DEF Requests
    <3>2. d.rows[q] = "approved"
      BY <1>4, <2>3, <3>1
    <3>3. InChain(e, q) = InChain(d, q)
      BY <1>4 DEF InChain
    <3>4. (q \in d.conflicts) # InChain(d, q)
      BY <3>2 DEF Accounted
    <3>5. e.conflicts = d.conflicts
      BY <1>4
    <3> HIDE <2>3
    <3> QED
      BY ONLY <3>3, <3>4, <3>5, Zenon
  <2> QED
    BY <2>1, <2>2, <2>3 DEF Accounted
<1> QED
  BY <1>3, <1>7, <1>8 DEF e

\* Only the rows, the chain and the conflicts matter to the history.
LEMMA SameHistory ==
  ASSUME NEW d, NEW e, e.rows = d.rows, e.revisions = d.revisions, e.conflicts = d.conflicts,
         Accounted(d)
  PROVE  Accounted(e)
<1>1. \A q : InChain(e, q) = InChain(d, q)
  BY DEF InChain
<1>2. \A q \in Commits : e.rows[q] = "approved" => (q \in e.conflicts) # InChain(e, q)
  BY <1>1 DEF Accounted
<1> QED
  BY <1>2 DEF Accounted

\* The checkpoint is no commit.
LEMMA CheckpointIsNoCommit ==
  Checkpoint \in Requests /\ Checkpoint \notin Commits
<1>1. 0 .. MaxRevisions - 1 \subseteq Nat
  BY ApplicationAssumption
<1>2. Commits \subseteq [draft : Drafts, parent : Nat]
  BY <1>1 DEF Commits
<1> QED
  BY <1>2, ApplicationAssumption DEF Requests

\* The approved commit extends the chain or is a conflict with its head: never both.
LEMMA WriteRevisionKeeps ==
  ASSUME NEW d \in Databases, Accounted(d), NEW r \in Commits, d.rows[r] \in Undecided
  PROVE  LET e == WriteRevision(SaveRow(d, r, "approved"), r)
         IN  e \in Databases /\ Accounted(e) /\ Keeps(d, e)
<1> DEFINE b == SaveRow(d, r, "approved")
           e == WriteRevision(b, r)
           n == Len(d.revisions)
<1>1. b = [d EXCEPT !.rows = [d.rows EXCEPT ![r] = "approved"]]
  BY DEF SaveRow, Databases
<1>2. r \in Requests /\ d.rows \in Policies /\ [d.rows EXCEPT ![r] = "approved"] \in Policies
  BY Names DEF Databases, Policies, Requests
<1>3. b \in Databases
  BY <1>1, <1>2 DEF Databases
<1>4. /\ b.revisions = d.revisions /\ b.conflicts = d.conflicts
      /\ \A q \in Requests : b.rows[q] = IF q = r THEN "approved" ELSE d.rows[q]
  BY <1>1, <1>2 DEF Databases, Policies
<1> HIDE DEF b
<1>5. d.rows[r] # "approved" /\ d.rows[r] \notin Verdicts
  BY DEF Undecided, Verdicts
<1>6. /\ d.revisions \in Seq(Commits) /\ n \in Nat /\ DOMAIN d.revisions = 1 .. n
      /\ d.conflicts \subseteq Requests
      /\ \A k \in DOMAIN d.revisions : d.revisions[k] \in Requests
  BY ElementOfSeq, LenProperties DEF Databases, Requests
<1>7. r \notin d.conflicts /\ ~ InChain(d, r)
  BY <1>5 DEF Accounted, InChain
<1>8. \A q \in Commits : q \in Requests
  BY DEF Requests
<1>9. CASE Extends(b, r)
  <2>1. /\ e = [b EXCEPT !.revisions = Append(d.revisions, r)]
        /\ r.parent = n
    BY <1>4, <1>9 DEF WriteRevision, Extends, DesignHead
  <2>2. /\ Append(d.revisions, r) \in Seq(Commits)
        /\ DOMAIN Append(d.revisions, r) = 1 .. n + 1
        /\ \A k \in 1 .. n : Append(d.revisions, r)[k] = d.revisions[k]
        /\ Append(d.revisions, r)[n + 1] = r
    BY <1>6, AppendProperties
  <2>3. e \in Databases
    BY <2>1, <2>2, <1>3 DEF Databases
  <2>4. e.rows = b.rows /\ e.conflicts = d.conflicts /\ e.revisions = Append(d.revisions, r)
    BY <2>1, <1>3, <1>4 DEF Databases
  <2> HIDE DEF e
  <2>5. ASSUME NEW k \in DOMAIN e.revisions
        PROVE  e.revisions[k].parent = k - 1 /\ e.rows[e.revisions[k]] = "approved"
    <3>1. CASE k \in 1 .. n
      <4>1. e.revisions[k] = d.revisions[k] /\ e.revisions[k] \in Requests
        BY <3>1, <2>2, <2>4, <1>6
      <4>2. d.revisions[k].parent = k - 1 /\ d.rows[d.revisions[k]] = "approved"
        BY <3>1, <1>6 DEF Accounted
      <4> QED
        BY <4>1, <4>2, <2>4, <1>4
    <3>2. CASE k = n + 1
      BY <3>2, <2>1, <2>2, <2>4, <1>2, <1>4, <1>6
    <3> QED
      BY <3>1, <3>2, <2>2, <2>4, <1>6
  <2>6. \A q \in e.conflicts : e.rows[q] = "approved"
    BY <2>4, <1>4, <1>6 DEF Accounted
  <2>7. InChain(e, r)
    <3>1. n + 1 \in DOMAIN e.revisions /\ e.revisions[n + 1] = r
      BY <2>2, <2>4, <1>6
    <3> QED
      BY <3>1 DEF InChain
  <2>8. ASSUME NEW q \in Commits, q # r
        PROVE  InChain(e, q) = InChain(d, q)
    <3>1. InChain(d, q) => InChain(e, q)
      <4> SUFFICES ASSUME NEW k \in 1 .. n, d.revisions[k] = q
                   PROVE  InChain(e, q)
        BY <1>6 DEF InChain
      <4> QED
        BY <2>2, <2>4, <1>6 DEF InChain
    <3>2. InChain(e, q) => InChain(d, q)
      <4> SUFFICES ASSUME NEW k \in 1 .. n + 1, e.revisions[k] = q
                   PROVE  InChain(d, q)
        BY <2>2, <2>4 DEF InChain
      <4>1. k # n + 1
        BY <2>2, <2>4, <2>8
      <4> QED
        BY <4>1, <2>2, <2>4, <1>6 DEF InChain
    <3> QED
      BY <3>1, <3>2 DEF InChain
  <2>9. ASSUME NEW q \in Commits, e.rows[q] = "approved"
        PROVE  (q \in e.conflicts) # InChain(e, q)
    <3>1. CASE q = r
      BY <3>1, <2>4, <2>7, <1>7
    <3>2. CASE q # r
      <4>1. d.rows[q] = "approved"
        BY <2>4, <2>9, <3>2, <1>4, <1>8
      <4>2. (q \in d.conflicts) # InChain(d, q)
        BY <4>1 DEF Accounted
      <4>3. InChain(e, q) = InChain(d, q)
        BY <2>8, <3>2
      <4>4. e.conflicts = d.conflicts
        BY <2>4
      <4> QED
        BY ONLY <4>2, <4>3, <4>4, Zenon
    <3> QED
      BY <3>1, <3>2
  <2>10. Accounted(e)
    BY <2>5, <2>6, <2>9 DEF Accounted
  <2>11. Keeps(d, e)
    BY <2>4, <1>4, <1>5 DEF Keeps
  <2> QED
    BY <2>3, <2>10, <2>11 DEF e, b
<1>10. CASE ~ Extends(b, r)
  <2>1. e = [b EXCEPT !.conflicts = d.conflicts \cup {r}]
    BY <1>4, <1>10 DEF WriteRevision
  <2>2. d.conflicts \cup {r} \subseteq Commits
    BY DEF Databases
  <2>3. e \in Databases
    BY <2>1, <2>2, <1>3 DEF Databases
  <2>4. e.rows = b.rows /\ e.conflicts = d.conflicts \cup {r} /\ e.revisions = d.revisions
    BY <2>1, <1>3, <1>4 DEF Databases
  <2> HIDE DEF e
  <2>5. \A k \in DOMAIN e.revisions : /\ e.revisions[k].parent = k - 1
                                      /\ e.rows[e.revisions[k]] = "approved"
    BY <2>4, <1>4, <1>6 DEF Accounted
  <2>6. \A q \in e.conflicts : e.rows[q] = "approved"
    BY <2>4, <1>2, <1>4, <1>6 DEF Accounted
  <2>7. \A q : InChain(e, q) = InChain(d, q)
    BY <2>4 DEF InChain
  <2>8. ASSUME NEW q \in Commits, e.rows[q] = "approved"
        PROVE  (q \in e.conflicts) # InChain(e, q)
    <3>1. CASE q = r
      BY <3>1, <2>4, <2>7, <1>7
    <3>2. CASE q # r
      <4>1. d.rows[q] = "approved"
        BY <2>4, <2>8, <3>2, <1>4, <1>8
      <4>2. (q \in d.conflicts) # InChain(d, q)
        BY <4>1 DEF Accounted
      <4>3. (q \in e.conflicts) = (q \in d.conflicts)
        BY <2>4, <3>2
      <4> QED
        BY ONLY <4>2, <4>3, <2>7, Zenon
    <3> QED
      BY <3>1, <3>2
  <2>9. Accounted(e)
    BY <2>5, <2>6, <2>8 DEF Accounted
  <2>10. Keeps(d, e)
    BY <2>4, <1>4, <1>5 DEF Keeps
  <2> QED
    BY <2>3, <2>9, <2>10 DEF e, b
<1> QED
  BY <1>9, <1>10

\* A prepared commit.
LEMMA PrepareUnitRight ==
  ASSUME NEW p \in Policies, NEW d \in Databases, Accounted(d), NEW r \in Commits
  PROVE  UnitRight(PrepareUnit(p, d, r), d)
<1> DEFINE b == SaveRow(d, r, "pending")
           e == [b EXCEPT !.prepared = @ \cup {r}]
<1>1. CASE ~ UndecidedCommit(p, d, r)
  BY <1>1 DEF PrepareUnit, Raise, Effect, UnitRight
<1>2. CASE UndecidedCommit(p, d, r)
  <2>1. r \in Requests /\ d.rows[r] \in Undecided /\ "pending" \in RecordStatuses
    BY <1>2, Names DEF UndecidedCommit, Requests
  <2>2. b \in Databases /\ Accounted(b) /\ Keeps(d, b)
    BY <2>1, SaveRowKeeps
  <2>3. PrepareUnit(p, d, r) = Effect(Request(p, r), e)
    BY <1>2 DEF PrepareUnit
  <2> HIDE DEF b
  <2>4. e \in Databases /\ e.rows = b.rows /\ e.revisions = b.revisions
        /\ e.conflicts = b.conflicts
    BY <2>2 DEF Databases
  <2> HIDE DEF e
  <2>5. Accounted(e) /\ Keeps(d, e)
    BY <2>2, <2>4, SameHistory DEF Keeps
  <2>6. Request(p, r) \in Policies
    BY <2>1, RequestTypes
  <2> QED
    BY <2>3, <2>4, <2>5, <2>6 DEF Effect, UnitRight
<1> QED
  BY <1>1, <1>2

\* A decided commit.
LEMMA DecideUnitRight ==
  ASSUME NEW p \in Policies, NEW d \in Databases, Accounted(d), NEW r \in Commits,
         NEW verdict \in Verdicts
  PROVE  UnitRight(DecideUnit(p, d, r, verdict), d)
<1> DEFINE q == [p EXCEPT ![r] = verdict]
<1>1. CASE ~ UndecidedCommit(p, d, r)
  BY <1>1 DEF DecideUnit, Raise, Effect, UnitRight
<1>2. CASE UndecidedCommit(p, d, r)
  <2>1. r \in Requests /\ d.rows[r] \in Undecided /\ verdict \in RecordStatuses
    BY <1>2, Names DEF UndecidedCommit, Requests
  <2>2. q \in Policies
    BY <2>1 DEF Policies
  <2>3. CASE verdict = "approved"
    <3> DEFINE e == WriteRevision(SaveRow(d, r, "approved"), r)
    <3>1. DecideUnit(p, d, r, verdict) = Effect(q, e)
      BY <1>2, <2>3 DEF DecideUnit
    <3>2. e \in Databases /\ Accounted(e) /\ Keeps(d, e)
      BY <2>1, WriteRevisionKeeps
    <3> QED
      BY <2>2, <3>1, <3>2 DEF Effect, UnitRight
  <2>4. CASE verdict # "approved"
    <3> DEFINE e == SaveRow(d, r, verdict)
    <3>1. DecideUnit(p, d, r, verdict) = Effect(q, e)
      BY <1>2, <2>4 DEF DecideUnit
    <3>2. e \in Databases /\ Accounted(e) /\ Keeps(d, e)
      BY <2>1, <2>4, SaveRowKeeps
    <3> QED
      BY <2>2, <3>1, <3>2 DEF Effect, UnitRight
  <2> QED
    BY <2>3, <2>4
<1> QED
  BY <1>1, <1>2

\* The record of the checkpoint.
LEMMA RegisterRight ==
  ASSUME NEW p \in Policies, NEW d \in Databases, Accounted(d)
  PROVE  UnitRight(RegisterCheckpoint(p, d), d)
<1> DEFINE q == Request(p, Checkpoint)
           e == SaveRow(d, Checkpoint, "pending")
<1>1. q \in Policies
  BY CheckpointIsNoCommit, RequestTypes
<1>2. \/ RegisterCheckpoint(p, d) = Raise(q)
      \/ RegisterCheckpoint(p, d) = Effect(q, e) /\ Savable(d, Checkpoint)
  BY DEF RegisterCheckpoint
<1>3. Savable(d, Checkpoint) => e \in Databases /\ Accounted(e) /\ Keeps(d, e)
  BY CheckpointIsNoCommit, SaveRowKeeps, Names DEF Savable
<1> QED
  BY <1>1, <1>2, <1>3 DEF Raise, Effect, UnitRight

\* A run of the workflow.
LEMMA RunUnitRight ==
  ASSUME NEW p \in Policies, NEW d \in Databases, Accounted(d), NEW seen \in {None} \cup Workflows
  PROVE  UnitRight(RunUnit(p, d, seen), d)
<1> DEFINE w == Progress(IF seen = None THEN Fresh(WorkflowId) ELSE seen)
           e == [d EXCEPT !.workflow = w]
<1>1. w \in Workflows
  BY FreshTypes, ProgressTypes
<1> HIDE DEF w
<1>2. /\ e \in Databases /\ e.rows = d.rows /\ e.revisions = d.revisions
      /\ e.conflicts = d.conflicts
  BY <1>1 DEF Databases, Workflows
<1>3. RunUnit(p, d, seen) = IF w.pending = None THEN Effect(p, e) ELSE RegisterCheckpoint(p, e)
  BY DEF RunUnit, w
<1> HIDE DEF e
<1>4. Accounted(e) /\ Keeps(d, e)
  BY <1>2, SameHistory DEF Keeps
<1>5. UnitRight(RegisterCheckpoint(p, e), e)
  BY <1>2, <1>4, RegisterRight
<1>6. UnitRight(RegisterCheckpoint(p, e), d)
  BY <1>2, <1>5 DEF UnitRight, Keeps
<1>7. UnitRight(Effect(p, e), d)
  BY <1>2, <1>4 DEF Effect, UnitRight
<1> QED
  BY <1>3, <1>6, <1>7

\* A decision of the checkpoint.
LEMMA CheckpointUnitRight ==
  ASSUME NEW p \in Policies, NEW d \in Databases, Accounted(d), NEW verdict \in Verdicts,
         NEW seen \in Workflows, seen.pending # None, seen.pending.status = "pending"
  PROVE  UnitRight(CheckpointUnit(p, d, seen, verdict), d)
<1> DEFINE q == Request(p, Checkpoint)
           u == [q EXCEPT ![Checkpoint] = verdict]
           w == Resolved(seen, verdict)
           b == SaveRow(d, Checkpoint, verdict)
           e == [b EXCEPT !.workflow = w]
<1>1. Checkpoint \in Requests /\ Checkpoint \notin Commits /\ verdict \in RecordStatuses
  BY CheckpointIsNoCommit, Names
<1>2. q \in Policies
  BY <1>1, RequestTypes
<1> HIDE DEF q
<1>3. u \in Policies
  BY <1>1, <1>2 DEF Policies
<1>4. w \in Workflows
  BY ResolvedTypes
<1>5. CheckpointUnit(p, d, seen, verdict) \in {Raise(q), Raise(u), Effect(u, e)}
  BY DEF CheckpointUnit, q
<1>6. CheckpointUnit(p, d, seen, verdict).db = e \/ CheckpointUnit(p, d, seen, verdict).db = None
  BY DEF CheckpointUnit, Raise, Effect
<1>7. CheckpointUnit(p, d, seen, verdict).db # None => Savable(d, Checkpoint)
  BY DEF CheckpointUnit, Raise, Effect
<1> HIDE DEF u, w
<1>8. ASSUME Savable(d, Checkpoint)
      PROVE  e \in Databases /\ Accounted(e) /\ Keeps(d, e)
  <2>1. b \in Databases /\ Accounted(b) /\ Keeps(d, b)
    BY <1>1, <1>8, SaveRowKeeps DEF Savable
  <2> HIDE DEF b
  <2>2. /\ e \in Databases /\ e.rows = b.rows /\ e.revisions = b.revisions
        /\ e.conflicts = b.conflicts
    BY <2>1, <1>4 DEF Databases, Workflows
  <2> QED
    BY <2>1, <2>2, SameHistory DEF Keeps
<1>9. CheckpointUnit(p, d, seen, verdict).policy \in Policies
  BY <1>2, <1>3, <1>5 DEF Raise, Effect
<1> QED
  BY <1>6, <1>7, <1>8, <1>9 DEF UnitRight

-----------------------------------------------------------------------------
(* The steps.                                                              *)

LEMMA InitOK ==
  Init => IInv
<1> SUFFICES ASSUME Init
             PROVE  IInv
  OBVIOUS
<1>1. NoRequest \in Policies
  BY Names DEF NoRequest, Policies
<1>2. db \in Databases /\ db.revisions = << >> /\ db.rows = NoRequest /\ db.conflicts = {}
  BY <1>1, EmptySeq DEF Init, Databases
<1>3. Typed
  BY <1>1, <1>2 DEF Init, Typed
<1>4. CallsRight
  BY DEF Init, CallsRight
<1>5. Accounted(db)
  <2>1. \A r \in Requests : db.rows[r] = "none"
    BY <1>2 DEF NoRequest
  <2>2. \A r \in Commits : db.rows[r] # "approved"
    BY <2>1 DEF Requests
  <2>3. DOMAIN db.revisions = {}
    BY <1>2
  <2> QED
    BY <1>2, <2>2, <2>3 DEF Accounted
<1> QED
  BY <1>3, <1>4, <1>5 DEF IInv, Init

\* The invariant speaks of the variables only.
LEMMA StutterOK ==
  IInv /\ UNCHANGED vars => IInv'
  BY DEF IInv, Typed, CallsRight, vars

\* A call that is entered, or left, while no unit is open.
LEMMA EnterOK ==
  ASSUME IInv, NEW t \in Threads, NEW c, Enter(t, c), unit = None,
         c = None \/ (c \in Calls /\ c.at = "read" /\ CallRight(c))
  PROVE  IInv'
<1>1. /\ policy' = policy /\ db' = db /\ unit' = unit
      /\ task' = [task EXCEPT ![t] = c]
  BY DEF Enter
<1>2. \A u \in Threads : task'[u] = IF u = t THEN c ELSE task[u]
  BY <1>1 DEF IInv, Typed
<1>3. Typed'
  BY <1>1 DEF IInv, Typed
<1>4. CallsRight'
  BY <1>1, <1>2 DEF IInv, CallsRight
<1> QED
  BY <1>1, <1>3, <1>4 DEF IInv

\* What an operation begins with is a call.
LEMMA CallTypes ==
  ASSUME NEW op \in Operations, NEW r \in Requests, NEW v \in {None} \cup Verdicts,
         NEW w \in {None} \cup Workflows
  PROVE  /\ Call(op, r, v, w) \in Calls
         /\ Call(op, r, v, w).at = "read" /\ Call(op, r, v, w).op = op
         /\ Call(op, r, v, w).request = r /\ Call(op, r, v, w).verdict = v
         /\ Call(op, r, v, w).seen = w
  BY DEF Call, Calls, Places

\* A commit derived from a head below the bound.
LEMMA DerivedTypes ==
  ASSUME IInv, DesignHead(db) < MaxRevisions, NEW draft \in Drafts
  PROVE  Derived(draft) \in Commits /\ Derived(draft) \in Requests
<1>1. Len(db.revisions) \in Nat
  BY LenProperties DEF IInv, Typed, Databases
<1>2. DesignHead(db) \in 0 .. MaxRevisions - 1
  BY <1>1, ApplicationAssumption DEF DesignHead
<1> QED
  BY <1>2 DEF Derived, Commits, Requests

LEMMA PrepareOK ==
  ASSUME IInv, NEW t \in Threads, NEW draft \in Drafts, Prepare(t, draft)
  PROVE  IInv'
<1> DEFINE r == Derived(draft)
           c == Call("prepare", r, None, None)
<1>1. unit = None /\ Enter(t, c) /\ r \in Commits /\ r \in Requests
  BY DerivedTypes DEF Prepare, Reading
<1> HIDE DEF r
<1>2. c \in Calls /\ c.at = "read" /\ c.op = "prepare" /\ c.request = r
  BY <1>1, CallTypes DEF Operations
<1> HIDE DEF c
<1>3. CallRight(c)
  BY <1>1, <1>2 DEF CallRight
<1> QED
  BY <1>1, <1>2, <1>3, EnterOK

LEMMA DecideOK ==
  ASSUME IInv, NEW t \in Threads, NEW r \in Commits, NEW verdict \in Verdicts,
         Decide(t, r, verdict)
  PROVE  IInv'
<1> DEFINE c == Call("decide", r, verdict, None)
<1>1. unit = None /\ Enter(t, c) /\ r \in Requests
  BY DEF Decide, Reading, Requests
<1>2. c \in Calls /\ c.at = "read" /\ c.op = "decide" /\ c.request = r /\ c.verdict = verdict
  BY <1>1, CallTypes DEF Operations
<1> HIDE DEF c
<1>3. CallRight(c)
  BY <1>2 DEF CallRight
<1> QED
  BY <1>1, <1>2, <1>3, EnterOK

LEMMA RunOK ==
  ASSUME IInv, NEW t \in Threads, Run(t)
  PROVE  IInv'
<1> DEFINE c == Call("run", Checkpoint, None, db.workflow)
<1>1. unit = None /\ Enter(t, c) /\ db.workflow \in {None} \cup Workflows
  BY DEF Run, Reading, IInv, Typed, Databases, Workflows
<1>2. c \in Calls /\ c.at = "read" /\ c.op = "run"
  BY <1>1, CallTypes, CheckpointIsNoCommit DEF Operations
<1> HIDE DEF c
<1>3. CallRight(c)
  BY <1>2 DEF CallRight
<1> QED
  BY <1>1, <1>2, <1>3, EnterOK

LEMMA DecideCheckpointOK ==
  ASSUME IInv, NEW t \in Threads, NEW verdict \in Verdicts, DecideCheckpoint(t, verdict)
  PROVE  IInv'
<1> DEFINE c == Call("checkpoint", Checkpoint, verdict, db.workflow)
<1>1. /\ unit = None /\ Enter(t, c) /\ db.workflow \in Workflows
      /\ db.workflow.pending # None /\ db.workflow.pending.status = "pending"
  BY DEF DecideCheckpoint, Reading, IInv, Typed, Databases, Workflows
<1>2. /\ c \in Calls /\ c.at = "read" /\ c.op = "checkpoint" /\ c.verdict = verdict
      /\ c.seen = db.workflow
  BY <1>1, CallTypes, CheckpointIsNoCommit DEF Operations
<1> HIDE DEF c
<1>3. CallRight(c)
  BY <1>1, <1>2 DEF CallRight
<1> QED
  BY <1>1, <1>2, <1>3, EnterOK

LEMMA PrepareOwnOK ==
  ASSUME IInv, NEW t \in Threads, PrepareOwn(t)
  PROVE  IInv'
<1> DEFINE r == Derived(Own)
           b == Call("prepare", r, None, None)
           c == [b EXCEPT !.verdict = "approved"]
<1>1. unit = None
  BY DEF PrepareOwn
<1>2. Enter(t, None) \/ (Enter(t, c) /\ DesignHead(db) < MaxRevisions)
  BY DEF PrepareOwn
<1>3. CASE Enter(t, None)
  BY <1>1, <1>3, EnterOK
<1>4. CASE Enter(t, c) /\ DesignHead(db) < MaxRevisions
  <2>1. r \in Commits /\ r \in Requests
    BY <1>4, DerivedTypes, ApplicationAssumption
  <2> HIDE DEF r
  <2>2. b \in Calls /\ b.at = "read" /\ b.op = "prepare" /\ b.request = r
    BY <2>1, CallTypes DEF Operations
  <2>3. "approved" \in Verdicts
    BY Names
  <2> HIDE DEF b
  <2>4. c \in Calls /\ c.at = "read" /\ c.op = "prepare" /\ c.request = r
    BY <2>2, <2>3 DEF Calls
  <2> HIDE DEF c
  <2>5. CallRight(c)
    BY <2>1, <2>4 DEF CallRight
  <2> QED
    BY <1>1, <1>4, <2>4, <2>5, EnterOK
<1> QED
  BY <1>2, <1>3, <1>4

LEMMA DecideOwnOK ==
  ASSUME IInv, NEW t \in Threads, DecideOwn(t)
  PROVE  IInv'
<1> DEFINE r == task[t].request
           c == Call("decide", r, "approved", None)
<1>1. unit = None
  BY DEF DecideOwn
<1>2. Enter(t, None) \/ Enter(t, c)
  BY DEF DecideOwn
<1>3. r \in Commits /\ r \in Requests
  <2>1. task[t] # None /\ task[t].op = "prepare"
    BY DEF DecideOwn, Idle
  <2> QED
    BY <2>1 DEF IInv, CallsRight, CallRight, Requests
<1> HIDE DEF r
<1>4. /\ c \in Calls /\ c.at = "read" /\ c.op = "decide" /\ c.request = r
      /\ c.verdict = "approved" /\ "approved" \in Verdicts
  BY <1>3, CallTypes, Names DEF Operations
<1> HIDE DEF c
<1>5. CallRight(c)
  BY <1>3, <1>4 DEF CallRight
<1> QED
  BY <1>1, <1>2, <1>4, <1>5, EnterOK

LEMMA ExportOK ==
  ASSUME IInv, NEW t \in Threads, Export(t)
  PROVE  IInv'
<1> DEFINE c == [task[t] EXCEPT !.at = "exported", !.exported = policy]
<1>1. /\ policy' = policy /\ db' = db /\ unit' = unit
      /\ task[t] # None /\ task[t].at = "read" /\ task[t] \in Calls /\ policy \in Policies
      /\ CallRight(task[t])
  BY DEF Export, Idle, IInv, Typed, CallsRight
<1>2. task' = [task EXCEPT ![t] = c]
  BY DEF Export
<1>3. /\ c \in Calls /\ c.at = "exported" /\ c.exported = policy /\ c.op = task[t].op
      /\ c.request = task[t].request /\ c.verdict = task[t].verdict /\ c.seen = task[t].seen
  BY <1>1 DEF Calls, Places
<1> HIDE DEF c
<1>4. CallRight(c)
  BY <1>1, <1>3 DEF CallRight
<1>5. \A u \in Threads : task'[u] = IF u = t THEN c ELSE task[u]
  BY <1>2 DEF IInv, Typed
<1>6. Typed'
  BY <1>1, <1>2, <1>3 DEF IInv, Typed
<1>7. CallsRight'
  <2>1. ~ (unit # None /\ unit.by = t)
    BY <1>1 DEF IInv, CallsRight
  <2>2. unit # None => unit.by \in Threads
    BY DEF IInv, Typed, Units
  <2> QED
    BY <1>1, <1>3, <1>4, <1>5, <2>1, <2>2 DEF IInv, CallsRight
<1> QED
  BY <1>1, <1>6, <1>7 DEF IInv

\* Whatever the call, its unit is right.
LEMMA UnitOfRight ==
  ASSUME IInv, NEW c \in Calls, CallRight(c)
  PROVE  UnitRight(UnitOf(c), db)
<1>1. policy \in Policies /\ db \in Databases /\ Accounted(db)
  BY DEF IInv, Typed
<1>2. c.op \in {"prepare", "decide", "run", "checkpoint"} /\ c.seen \in {None} \cup Workflows
  BY DEF Calls, Operations
<1>3. CASE c.op = "prepare"
  <2>1. c.request \in Commits /\ UnitOf(c) = PrepareUnit(policy, db, c.request)
    BY <1>3 DEF CallRight, UnitOf
  <2> QED
    BY <1>1, <2>1, PrepareUnitRight
<1>4. CASE c.op = "decide"
  <2>1. /\ c.request \in Commits /\ c.verdict \in Verdicts
        /\ UnitOf(c) = DecideUnit(policy, db, c.request, c.verdict)
    BY <1>4 DEF CallRight, UnitOf
  <2> QED
    BY <1>1, <2>1, DecideUnitRight
<1>5. CASE c.op = "run"
  <2>1. UnitOf(c) = RunUnit(policy, db, c.seen)
    BY <1>5 DEF UnitOf
  <2> QED
    BY <1>1, <1>2, <2>1, RunUnitRight
<1>6. CASE c.op = "checkpoint"
  <2>1. /\ c.verdict \in Verdicts /\ c.seen \in Workflows
        /\ c.seen.pending # None /\ c.seen.pending.status = "pending"
        /\ UnitOf(c) = CheckpointUnit(policy, db, c.seen, c.verdict)
    BY <1>6 DEF CallRight, UnitOf
  <2> QED
    BY <1>1, <2>1, CheckpointUnitRight
<1> QED
  BY <1>2, <1>3, <1>4, <1>5, <1>6

LEMMA WorkOK ==
  ASSUME IInv, NEW t \in Threads, Work(t)
  PROVE  IInv'
<1> DEFINE effect == UnitOf(task[t])
           at == IF effect.db = None THEN "rolled_back" ELSE "worked"
           c == [task[t] EXCEPT !.at = at]
<1>1. /\ task[t] # None /\ task[t].at = "exported" /\ task[t] \in Calls
      /\ CallRight(task[t]) /\ unit = None /\ db' = db
  BY DEF Work, Idle, IInv, Typed, CallsRight
<1>2. UnitRight(effect, db)
  BY <1>1, UnitOfRight
<1>3. /\ policy' = effect.policy
      /\ task' = [task EXCEPT ![t] = c]
      /\ effect.db = None => unit' = None
      /\ effect.db # None => unit' = [by |-> t, db |-> effect.db]
  BY <1>1 DEF Work
<1> HIDE DEF effect
<1>4. /\ policy' \in Policies
      /\ effect.db # None => /\ effect.db \in Databases /\ Accounted(effect.db)
                             /\ Keeps(db, effect.db)
  BY <1>2, <1>3 DEF UnitRight
<1>5. effect.db # None => /\ unit' \in Units /\ unit'.by = t /\ unit'.db = effect.db
                          /\ unit' # None
  BY <1>3, <1>4, NoneAssumption DEF Units
<1>6. /\ c \in Calls /\ c.at = at /\ c.op = task[t].op /\ c.exported = task[t].exported
      /\ c.request = task[t].request /\ c.verdict = task[t].verdict /\ c.seen = task[t].seen
  BY <1>1 DEF Calls, Places
<1> HIDE DEF c
<1>7. CallRight(c)
  BY <1>1, <1>6 DEF CallRight
<1>8. \A u \in Threads : task'[u] = IF u = t THEN c ELSE task[u]
  BY <1>3 DEF IInv, Typed
<1>9. Typed'
  BY <1>1, <1>3, <1>4, <1>5, <1>6 DEF IInv, Typed
<1>10. CallsRight'
  BY <1>1, <1>3, <1>5, <1>6, <1>7, <1>8 DEF IInv, CallsRight
<1>11. unit' # None => Accounted(unit'.db) /\ Keeps(db', unit'.db)
  BY <1>1, <1>3, <1>4, <1>5
<1> QED
  BY <1>1, <1>9, <1>10, <1>11 DEF IInv

LEMMA CommitOK ==
  ASSUME IInv, NEW t \in Threads, Commit(t)
  PROVE  IInv' /\ Keeps(db, db')
<1> DEFINE c == [task[t] EXCEPT !.at = "committed", !.exported = None]
           n == IF GoesOn(task[t]) THEN c ELSE None
<1>1. /\ unit # None /\ unit.by = t /\ unit \in Units /\ policy \in Policies
      /\ policy' = policy /\ unit' = None
      /\ db' = [unit.db EXCEPT !.policy = policy]
      /\ task' = [task EXCEPT ![t] = n]
      /\ Accounted(unit.db) /\ Keeps(db, unit.db)
  BY DEF Commit, IInv, Typed
<1>2. /\ db' \in Databases /\ db'.rows = unit.db.rows
      /\ db'.revisions = unit.db.revisions /\ db'.conflicts = unit.db.conflicts
  BY <1>1 DEF Units, Databases
<1>3. Accounted(db') /\ Keeps(db, db')
  BY <1>1, <1>2, SameHistory DEF Keeps
<1>4. task[t] \in Calls /\ CallRight(task[t])
  BY <1>1 DEF IInv, CallsRight
<1>5. /\ c \in Calls /\ c.at = "committed" /\ c.op = task[t].op
      /\ c.request = task[t].request /\ c.verdict = task[t].verdict /\ c.seen = task[t].seen
  BY <1>4 DEF Calls, Places
<1>6. \A u \in Threads : task'[u] = IF u = t THEN n ELSE task[u]
  BY <1>1 DEF IInv, Typed
<1> HIDE DEF c
<1>7. CallRight(c)
  BY <1>4, <1>5 DEF CallRight
<1>8. n = None \/ (n \in Calls /\ CallRight(n) /\ n.at = "committed")
  BY <1>5, <1>7
<1> HIDE DEF n
<1>9. Typed'
  BY <1>1, <1>2, <1>8 DEF IInv, Typed
<1>10. CallsRight'
  BY <1>1, <1>6, <1>8 DEF IInv, CallsRight
<1> QED
  BY <1>1, <1>3, <1>9, <1>10 DEF IInv

LEMMA RollBackOK ==
  ASSUME IInv, NEW t \in Threads, RollBack(t)
  PROVE  IInv'
<1> DEFINE c == [task[t] EXCEPT !.at = "rolled_back"]
<1>1. /\ unit # None /\ unit.by = t /\ unit' = None /\ policy' = policy /\ db' = db
      /\ task' = [task EXCEPT ![t] = c]
      /\ task[t] \in Calls /\ CallRight(task[t]) /\ task[t].at = "worked"
  BY DEF RollBack, IInv, CallsRight
<1>2. /\ c \in Calls /\ c.at = "rolled_back" /\ c.op = task[t].op
      /\ c.exported = task[t].exported /\ c.request = task[t].request
      /\ c.verdict = task[t].verdict /\ c.seen = task[t].seen
  BY <1>1 DEF Calls, Places
<1> HIDE DEF c
<1>3. CallRight(c)
  BY <1>1, <1>2 DEF CallRight
<1>4. \A u \in Threads : task'[u] = IF u = t THEN c ELSE task[u]
  BY <1>1 DEF IInv, Typed
<1>5. Typed'
  BY <1>1, <1>2 DEF IInv, Typed
<1>6. CallsRight'
  BY <1>1, <1>2, <1>3, <1>4 DEF IInv, CallsRight
<1> QED
  BY <1>1, <1>5, <1>6 DEF IInv

LEMMA ImportOK ==
  ASSUME IInv, NEW t \in Threads, Import(t)
  PROVE  IInv'
<1>1. /\ task[t] # None /\ task[t].at = "rolled_back" /\ CallRight(task[t])
      /\ policy' = task[t].exported /\ db' = db /\ unit' = unit
      /\ task' = [task EXCEPT ![t] = None]
  BY DEF Import, Idle, IInv, CallsRight
<1>2. policy' \in Policies
  BY <1>1 DEF CallRight
<1>3. \A u \in Threads : task'[u] = IF u = t THEN None ELSE task[u]
  BY <1>1 DEF IInv, Typed
<1>4. Typed'
  BY <1>1, <1>2 DEF IInv, Typed
<1>5. CallsRight'
  <2>1. ~ (unit # None /\ unit.by = t)
    BY <1>1 DEF IInv, CallsRight
  <2>2. unit # None => unit.by \in Threads
    BY DEF IInv, Typed, Units
  <2> QED
    BY <1>1, <1>3, <2>1, <2>2 DEF IInv, CallsRight
<1> QED
  BY <1>1, <1>4, <1>5 DEF IInv

LEMMA RestartOK ==
  ASSUME IInv, Restart
  PROVE  IInv'
<1>1. /\ policy' = db.policy /\ db.policy \in Policies /\ unit' = None /\ db' = db
      /\ task' = [u \in Threads |-> None]
  BY DEF Restart, IInv, Typed, Databases
<1>2. Typed'
  BY <1>1 DEF IInv, Typed
<1>3. CallsRight'
  BY <1>1 DEF CallsRight
<1> QED
  BY <1>1, <1>2, <1>3 DEF IInv

LEMMA NextOK ==
  IInv /\ [Next]_vars => IInv'
<1> SUFFICES ASSUME IInv, [Next]_vars
             PROVE  IInv'
  OBVIOUS
<1>1. CASE UNCHANGED vars
  BY <1>1, StutterOK
<1>2. CASE Restart
  BY <1>2, RestartOK
<1>3. ASSUME NEW t \in Threads, Step(t)
      PROVE  IInv'
  <2>1. ASSUME NEW draft \in Drafts, Prepare(t, draft)
        PROVE  IInv'
    BY <2>1, PrepareOK
  <2>2. ASSUME NEW r \in Commits, NEW verdict \in Verdicts, Decide(t, r, verdict)
        PROVE  IInv'
    BY <2>2, DecideOK
  <2>3. CASE Run(t)
    BY <2>3, RunOK
  <2>4. ASSUME NEW verdict \in Verdicts, DecideCheckpoint(t, verdict)
        PROVE  IInv'
    BY <2>4, DecideCheckpointOK
  <2>5. CASE PrepareOwn(t)
    BY <2>5, PrepareOwnOK
  <2>6. CASE DecideOwn(t)
    BY <2>6, DecideOwnOK
  <2>7. CASE Export(t)
    BY <2>7, ExportOK
  <2>8. CASE Work(t)
    BY <2>8, WorkOK
  <2>9. CASE Commit(t)
    BY <2>9, CommitOK
  <2>10. CASE RollBack(t)
    BY <2>10, RollBackOK
  <2>11. CASE Import(t)
    BY <2>11, ImportOK
  <2> QED
    BY <1>3, <2>1, <2>2, <2>3, <2>4, <2>5, <2>6, <2>7, <2>8, <2>9, <2>10, <2>11 DEF Step
<1> QED
  BY <1>1, <1>2, <1>3 DEF Next

-----------------------------------------------------------------------------
(* The theorems.                                                           *)

\* What the threads read, what a unit would commit and what is stored are always of
\* their types: a policy taken from an export or from the database included.
THEOREM TypesHold ==
  Spec => []TypeOK
<1>1. IInv => TypeOK
  <2> SUFFICES ASSUME IInv
               PROVE  TypeOK
    OBVIOUS
  <2>1. unit # None => unit.by \in Threads /\ unit.db \in Databases
    BY DEF IInv, Typed, Units
  <2>2. ASSUME NEW t \in Threads, task[t] # None
        PROVE  /\ task[t].at \in {"read", "exported", "worked", "rolled_back", "committed"}
               /\ task[t].op \in Operations
               /\ task[t].at = "worked" <=> unit # None /\ unit.by = t
    <3>1. task[t] \in Calls
      BY <2>2 DEF IInv, Typed
    <3> QED
      BY <2>2, <3>1 DEF Calls, Places, IInv, CallsRight
  <2> QED
    BY <2>1, <2>2 DEF IInv, Typed, TypeOK
<1> QED
  BY <1>1, InitOK, NextOK, PTL DEF Spec

\* The stored revisions are one chain of approved commits, each approved for the very
\* revision it extends, and an approved commit is in the chain or its conflict is on
\* record, never both: whatever the threads read before their units, however these
\* interleave, and whichever units fail or die with the process.
THEOREM HistoryHolds ==
  Spec => []HistoryIsApproved
<1>1. IInv => HistoryIsApproved
  <2> SUFFICES ASSUME IInv
               PROVE  HistoryIsApproved
    OBVIOUS
  <2>1. Accounted(db)
    BY DEF IInv
  <2> QED
    BY <2>1, Zenon DEF Accounted, InChain, HistoryIsApproved
<1> QED
  BY <1>1, InitOK, NextOK, PTL DEF Spec

\* A decision that is stored is never written over: only a commit changes the
\* database, and what it commits kept every decision it found under the lock.
THEOREM DecidedOnceHolds ==
  Spec => DecidedOnce
<1> DEFINE Kept == \A r \in Requests : db.rows[r] \in Verdicts => db'.rows[r] = db.rows[r]
<1>1. IInv /\ [Next]_vars => [Kept]_vars
  <2> SUFFICES ASSUME IInv, [Next]_vars
               PROVE  [Kept]_vars
    OBVIOUS
  <2>1. CASE db' = db
    BY <2>1
  <2>2. ASSUME NEW t \in Threads, Commit(t)
        PROVE  Kept
    BY <2>2, CommitOK DEF Keeps
  <2>3. Next => db' = db \/ \E t \in Threads : Commit(t)
    BY DEF Next, Step, Restart, Prepare, Decide, Run, DecideCheckpoint, PrepareOwn, DecideOwn,
           Enter, Export, Work, RollBack, Import
  <2> QED
    BY <2>1, <2>2, <2>3
<1> QED
  BY <1>1, InitOK, NextOK, PTL DEF Spec, DecidedOnce

-----------------------------------------------------------------------------
(* The workflow and the decision of its checkpoint.                        *)

\* The stored workflow was never run, waits, or is what its decision made of it.
Story(d) ==
  \/ d.workflow = None /\ d.rows[Checkpoint] = "none"
  \/ d.workflow = Waiting /\ d.rows[Checkpoint] = "pending"
  \/ \E v \in Verdicts : d.workflow = Resolved(Waiting, v) /\ d.rows[Checkpoint] = v

\* A run goes on from nothing or from the checkpoint, a decision from the checkpoint.
SeenRight(c) ==
  /\ c.op = "run" => c.seen \in {None, Waiting}
  /\ c.op = "checkpoint" => c.seen = Waiting

\* A thread in an operation, that of the open unit among them.
Busy(t) == task[t] # None \/ (unit # None /\ unit.by = t)

FollowInv ==
  /\ Story(db)
  /\ unit # None => Story(unit.db)
  /\ \A t \in Threads : Busy(t) => SeenRight(task[t])

\* The stored workflow an operation may go on from is the one that waits.
LEMMA StoryOpen ==
  ASSUME NEW d, Story(d), d.workflow # None, ~ Terminal(d.workflow)
  PROVE  d.workflow = Waiting
<1> SUFFICES ASSUME NEW v \in Verdicts, d.workflow = Resolved(Waiting, v)
             PROVE  FALSE
  BY DEF Story
<1>1. v \in {"approved", "rejected"}
  BY DEF Verdicts
<1> QED
  BY <1>1, VerdictsEnd DEF Terminal, Terminals

\* A unit about a commit touches neither the checkpoint's row nor the workflow.
LEMMA OtherStory ==
  ASSUME NEW d \in Databases, Story(d), NEW e, e.workflow = d.workflow,
         e.rows[Checkpoint] = d.rows[Checkpoint]
  PROVE  Story(e)
  BY DEF Story

LEMMA OtherRow ==
  ASSUME NEW d \in Databases, NEW r \in Commits, NEW status
  PROVE  LET e == SaveRow(d, r, status)
         IN  /\ e.workflow = d.workflow /\ e.rows[Checkpoint] = d.rows[Checkpoint]
             /\ \A X : /\ [e EXCEPT !.prepared = X].workflow = e.workflow
                       /\ [e EXCEPT !.prepared = X].rows = e.rows
                       /\ [e EXCEPT !.revisions = X].workflow = e.workflow
                       /\ [e EXCEPT !.revisions = X].rows = e.rows
                       /\ [e EXCEPT !.conflicts = X].workflow = e.workflow
                       /\ [e EXCEPT !.conflicts = X].rows = e.rows
<1>1. r # Checkpoint /\ d.rows \in Policies
  BY CheckpointIsNoCommit DEF Databases
<1> QED
  BY <1>1 DEF SaveRow, Databases, Policies

LEMMA PrepareTells ==
  ASSUME NEW p, NEW d \in Databases, Story(d), NEW r \in Commits,
         PrepareUnit(p, d, r).db # None
  PROVE  Story(PrepareUnit(p, d, r).db)
<1> DEFINE b == SaveRow(d, r, "pending")
           e == [b EXCEPT !.prepared = b.prepared \cup {r}]
<1>1. PrepareUnit(p, d, r).db = e
  BY DEF PrepareUnit, Raise, Effect
<1>2. e.workflow = d.workflow /\ e.rows[Checkpoint] = d.rows[Checkpoint]
  BY OtherRow
<1> HIDE DEF e
<1> QED
  BY <1>1, <1>2, OtherStory

LEMMA DecideTells ==
  ASSUME NEW p, NEW d \in Databases, Story(d), NEW r \in Commits, NEW verdict,
         DecideUnit(p, d, r, verdict).db # None
  PROVE  Story(DecideUnit(p, d, r, verdict).db)
<1> DEFINE b == SaveRow(d, r, verdict)
           e == DecideUnit(p, d, r, verdict).db
<1>1. \/ e = b
      \/ e = [b EXCEPT !.revisions = Append(b.revisions, r)]
      \/ e = [b EXCEPT !.conflicts = b.conflicts \cup {r}]
  BY DEF DecideUnit, Raise, Effect, WriteRevision
<1>2. e.workflow = b.workflow /\ e.rows = b.rows
  <2> DEFINE X == Append(b.revisions, r)
             Y == b.conflicts \cup {r}
  <2>1. [b EXCEPT !.revisions = X].workflow = b.workflow /\ [b EXCEPT !.revisions = X].rows = b.rows
    BY OtherRow
  <2>2. [b EXCEPT !.conflicts = Y].workflow = b.workflow /\ [b EXCEPT !.conflicts = Y].rows = b.rows
    BY OtherRow
  <2>3. e = b \/ e = [b EXCEPT !.revisions = X] \/ e = [b EXCEPT !.conflicts = Y]
    BY <1>1
  <2> HIDE DEF e, b, X, Y
  <2> QED
    BY <2>1, <2>2, <2>3
<1>3. b.workflow = d.workflow /\ b.rows[Checkpoint] = d.rows[Checkpoint]
  BY OtherRow
<1> HIDE DEF e, b
<1> QED
  BY <1>2, <1>3, OtherStory DEF e

\* Whatever a run read before its unit, it ends at the checkpoint, and its unit fails
\* unless the stored row is undecided.
LEMMA RunTells ==
  ASSUME NEW p, NEW d \in Databases, NEW seen \in {None, Waiting}, RunUnit(p, d, seen).db # None
  PROVE  Story(RunUnit(p, d, seen).db)
<1> DEFINE s == Progress(IF seen = None THEN Fresh(WorkflowId) ELSE seen)
           b == [d EXCEPT !.workflow = Waiting]
           e == SaveRow(b, Checkpoint, "pending")
<1>1. s = Waiting
  BY WaitingStays DEF Waiting
<1>2. RunUnit(p, d, seen) = RegisterCheckpoint(p, b)
  BY <1>1, WaitingIs DEF RunUnit
<1>3. RegisterCheckpoint(p, b).db = e
  BY <1>2 DEF RegisterCheckpoint, Raise, Effect
<1>4. e.workflow = Waiting /\ e.rows[Checkpoint] = "pending"
  BY CheckpointIsNoCommit DEF SaveRow, Databases, Policies
<1> HIDE DEF e
<1> QED
  BY <1>2, <1>3, <1>4 DEF Story

\* The decision and what it makes of the workflow are written together.
LEMMA CheckpointTells ==
  ASSUME NEW p, NEW d \in Databases, NEW verdict \in Verdicts,
         CheckpointUnit(p, d, Waiting, verdict).db # None
  PROVE  Story(CheckpointUnit(p, d, Waiting, verdict).db)
<1> DEFINE w == Resolved(Waiting, verdict)
           b == SaveRow(d, Checkpoint, verdict)
           e == [b EXCEPT !.workflow = w]
<1>1. CheckpointUnit(p, d, Waiting, verdict).db = e
  BY DEF CheckpointUnit, Raise, Effect
<1> HIDE DEF w
<1>2. e.workflow = w /\ e.rows[Checkpoint] = verdict
  BY CheckpointIsNoCommit DEF SaveRow, Databases, Policies
<1> HIDE DEF e
<1> QED
  BY <1>1, <1>2 DEF Story, w

LEMMA UnitTells ==
  ASSUME IInv, Story(db), NEW c \in Calls, CallRight(c), SeenRight(c), UnitOf(c).db # None
  PROVE  Story(UnitOf(c).db)
<1>1. db \in Databases /\ c.op \in {"prepare", "decide", "run", "checkpoint"}
  BY DEF IInv, Typed, Calls, Operations
<1>2. CASE c.op = "prepare"
  <2>1. c.request \in Commits /\ UnitOf(c) = PrepareUnit(policy, db, c.request)
    BY <1>2 DEF CallRight, UnitOf
  <2> QED
    BY <1>1, <2>1, PrepareTells
<1>3. CASE c.op = "decide"
  <2>1. c.request \in Commits /\ UnitOf(c) = DecideUnit(policy, db, c.request, c.verdict)
    BY <1>3 DEF CallRight, UnitOf
  <2> QED
    BY <1>1, <2>1, DecideTells
<1>4. CASE c.op = "run"
  <2>1. c.seen \in {None, Waiting} /\ UnitOf(c) = RunUnit(policy, db, c.seen)
    BY <1>4 DEF SeenRight, UnitOf
  <2> QED
    BY <1>1, <2>1, RunTells
<1>5. CASE c.op = "checkpoint"
  <2>1. /\ c.verdict \in Verdicts /\ c.seen = Waiting
        /\ UnitOf(c) = CheckpointUnit(policy, db, Waiting, c.verdict)
    BY <1>5 DEF SeenRight, CallRight, UnitOf
  <2> QED
    BY <1>1, <2>1, CheckpointTells
<1> QED
  BY <1>1, <1>2, <1>3, <1>4, <1>5

\* A call that is entered or left, with what it has seen.
LEMMA EnterTells ==
  ASSUME IInv, FollowInv, NEW t \in Threads, unit = None, NEW c, Enter(t, c),
         c # None => SeenRight(c)
  PROVE  FollowInv'
<1>1. db' = db /\ unit' = unit /\ task' = [task EXCEPT ![t] = c]
  BY DEF Enter
<1>2. \A u \in Threads : task'[u] = IF u = t THEN c ELSE task[u]
  BY <1>1 DEF IInv, Typed
<1> QED
  BY <1>1, <1>2 DEF FollowInv, Busy

\* A call that goes on keeps what it has seen.
LEMMA GoesOnTells ==
  ASSUME IInv, FollowInv, NEW t \in Threads, Busy(t), NEW c,
         \/ c.op = task[t].op /\ c.seen = task[t].seen
         \/ c = None /\ ~ (unit' # None /\ unit'.by = t),
         task' = [task EXCEPT ![t] = c],
         unit' = unit \/ unit' = None \/ unit'.by = t
  PROVE  \A u \in Threads : Busy(u)' => SeenRight(task'[u])
<1>1. \A u \in Threads : task'[u] = IF u = t THEN c ELSE task[u]
  BY DEF IInv, Typed
<1>2. ASSUME NEW u \in Threads, u # t, Busy(u)'
      PROVE  SeenRight(task'[u])
  <2>1. Busy(u) /\ task'[u] = task[u]
    BY <1>1, <1>2 DEF Busy
  <2> QED
    BY <2>1 DEF FollowInv
<1>3. Busy(t)' => SeenRight(task'[t])
  BY <1>1 DEF FollowInv, SeenRight, Busy
<1> QED
  BY <1>2, <1>3

LEMMA FollowInit ==
  Init => FollowInv
<1>1. Init => db.workflow = None /\ db.rows[Checkpoint] = "none"
  BY CheckpointIsNoCommit DEF Init, NoRequest
<1> QED
  BY <1>1 DEF Init, FollowInv, Story, Busy

LEMMA FollowNext ==
  IInv /\ FollowInv /\ [Next]_vars => FollowInv'
<1> SUFFICES ASSUME IInv, FollowInv, [Next]_vars
             PROVE  FollowInv'
  OBVIOUS
<1>1. CASE UNCHANGED vars
  BY <1>1 DEF FollowInv, Busy, vars
<1>2. CASE Restart
  BY <1>2 DEF Restart, FollowInv, Busy
<1>3. ASSUME NEW t \in Threads, Step(t)
      PROVE  FollowInv'
  <2>1. ASSUME NEW draft \in Drafts, Prepare(t, draft)
        PROVE  FollowInv'
    <3> DEFINE c == Call("prepare", Derived(draft), None, None)
    <3>1. unit = None /\ Enter(t, c) /\ SeenRight(c)
      BY <2>1 DEF Prepare, Reading, Call, SeenRight
    <3> HIDE DEF c
    <3> QED
      BY <3>1, EnterTells
  <2>2. ASSUME NEW r \in Commits, NEW verdict \in Verdicts, Decide(t, r, verdict)
        PROVE  FollowInv'
    <3> DEFINE c == Call("decide", r, verdict, None)
    <3>1. unit = None /\ Enter(t, c) /\ SeenRight(c)
      BY <2>2 DEF Decide, Reading, Call, SeenRight
    <3> HIDE DEF c
    <3> QED
      BY <3>1, EnterTells
  <2>3. CASE Run(t)
    <3> DEFINE c == Call("run", Checkpoint, None, db.workflow)
    <3>1. unit = None /\ Enter(t, c) /\ db.workflow \in {None, Waiting}
      BY <2>3, StoryOpen DEF Run, Reading, FollowInv
    <3>2. SeenRight(c)
      BY <3>1 DEF Call, SeenRight
    <3> HIDE DEF c
    <3> QED
      BY <3>1, <3>2, EnterTells
  <2>4. ASSUME NEW verdict \in Verdicts, DecideCheckpoint(t, verdict)
        PROVE  FollowInv'
    <3> DEFINE c == Call("checkpoint", Checkpoint, verdict, db.workflow)
    <3>1. unit = None /\ Enter(t, c) /\ db.workflow = Waiting
      BY <2>4, StoryOpen DEF DecideCheckpoint, Reading, FollowInv
    <3>2. SeenRight(c)
      BY <3>1 DEF Call, SeenRight
    <3> HIDE DEF c
    <3> QED
      BY <3>1, <3>2, EnterTells
  <2>5. CASE PrepareOwn(t)
    <3> DEFINE c == [Call("prepare", Derived(Own), None, None) EXCEPT !.verdict = "approved"]
    <3>1. unit = None /\ (Enter(t, c) \/ Enter(t, None))
      BY <2>5 DEF PrepareOwn
    <3>2. SeenRight(c)
      BY DEF Call, SeenRight
    <3> HIDE DEF c
    <3> QED
      BY <3>1, <3>2, EnterTells
  <2>6. CASE DecideOwn(t)
    <3> DEFINE c == Call("decide", task[t].request, "approved", None)
    <3>1. unit = None /\ (Enter(t, c) \/ Enter(t, None))
      BY <2>6 DEF DecideOwn
    <3>2. SeenRight(c)
      BY DEF Call, SeenRight
    <3> HIDE DEF c
    <3> QED
      BY <3>1, <3>2, EnterTells
  <2>7. CASE Export(t)
    <3> DEFINE c == [task[t] EXCEPT !.at = "exported", !.exported = policy]
    <3>1. /\ Busy(t) /\ task[t] \in Calls /\ task' = [task EXCEPT ![t] = c]
          /\ db' = db /\ unit' = unit /\ ~ (unit # None /\ unit.by = t)
      BY <2>7 DEF Export, Idle, IInv, Typed, CallsRight, Busy
    <3>2. c.op = task[t].op /\ c.seen = task[t].seen
      BY <3>1 DEF Calls
    <3> HIDE DEF c
    <3> QED
      BY <3>1, <3>2, GoesOnTells DEF FollowInv
  <2>8. CASE Work(t)
    <3> DEFINE effect == UnitOf(task[t])
               at == IF effect.db = None THEN "rolled_back" ELSE "worked"
               c == [task[t] EXCEPT !.at = at]
    <3>1. /\ Busy(t) /\ task[t] \in Calls /\ CallRight(task[t]) /\ SeenRight(task[t])
          /\ unit = None /\ db' = db
      BY <2>8 DEF Work, Idle, IInv, Typed, CallsRight, FollowInv, Busy
    <3>2. effect.db # None => Story(effect.db)
      BY <3>1, UnitTells DEF FollowInv
    <3>3. /\ task' = [task EXCEPT ![t] = c]
          /\ effect.db = None => unit' = None
          /\ effect.db # None => unit' = [by |-> t, db |-> effect.db]
      BY <2>8, <3>1 DEF Work
    <3>4. c.op = task[t].op /\ c.seen = task[t].seen
      BY <3>1 DEF Calls
    <3> HIDE DEF c, effect
    <3>5. unit' # None => Story(unit'.db)
      BY <3>2, <3>3
    <3>6. unit' = None \/ unit'.by = t
      BY <3>3
    <3>7. \A u \in Threads : Busy(u)' => SeenRight(task'[u])
      BY <3>1, <3>3, <3>4, <3>6, GoesOnTells
    <3> QED
      BY <3>1, <3>5, <3>7 DEF FollowInv
  <2>9. CASE Commit(t)
    <3> DEFINE c == [task[t] EXCEPT !.at = "committed", !.exported = None]
               n == IF GoesOn(task[t]) THEN c ELSE None
    <3>1. /\ unit # None /\ unit.by = t /\ unit \in Units /\ unit' = None
          /\ db' = [unit.db EXCEPT !.policy = policy]
          /\ task' = [task EXCEPT ![t] = n]
          /\ task[t] \in Calls /\ Busy(t)
      BY <2>9 DEF Commit, IInv, Typed, CallsRight, Busy
    <3>2. db'.rows = unit.db.rows /\ db'.workflow = unit.db.workflow
      BY <3>1 DEF Units, Databases
    <3>3. c.op = task[t].op /\ c.seen = task[t].seen
      BY <3>1 DEF Calls
    <3> HIDE DEF c
    <3>4. n = None \/ (n.op = task[t].op /\ n.seen = task[t].seen)
      BY <3>3
    <3> HIDE DEF n
    <3> QED
      BY <3>1, <3>2, <3>4, GoesOnTells DEF FollowInv, Story
  <2>10. CASE RollBack(t)
    <3> DEFINE c == [task[t] EXCEPT !.at = "rolled_back"]
    <3>1. /\ unit # None /\ unit.by = t /\ unit' = None /\ db' = db
          /\ task' = [task EXCEPT ![t] = c]
          /\ task[t] \in Calls /\ Busy(t)
      BY <2>10 DEF RollBack, IInv, CallsRight, Busy
    <3>2. c.op = task[t].op /\ c.seen = task[t].seen
      BY <3>1 DEF Calls
    <3> HIDE DEF c
    <3> QED
      BY <3>1, <3>2, GoesOnTells DEF FollowInv
  <2>11. CASE Import(t)
    <3>1. /\ Busy(t) /\ task' = [task EXCEPT ![t] = None] /\ db' = db /\ unit' = unit
          /\ ~ (unit # None /\ unit.by = t)
      BY <2>11 DEF Import, Idle, IInv, CallsRight, Busy
    <3> QED
      BY <3>1, GoesOnTells DEF FollowInv
  <2> QED
    BY <1>3, <2>1, <2>2, <2>3, <2>4, <2>5, <2>6, <2>7, <2>8, <2>9, <2>10, <2>11 DEF Step
<1> QED
  BY <1>1, <1>2, <1>3 DEF Next

\* The stored workflow and the stored decision of its checkpoint tell one story, for
\* every chain of steps that ends with the gated one: a run never puts the workflow
\* back behind a decision it did not see, and only an approval completes it.
THEOREM WorkflowFollows ==
  Spec => []WorkflowFollowsDecision
<1>1. IInv /\ FollowInv => WorkflowFollowsDecision
  <2> SUFFICES ASSUME Story(db)
               PROVE  WorkflowFollowsDecision
    BY DEF FollowInv
  <2>1. CASE db.workflow = None /\ db.rows[Checkpoint] = "none"
    BY <2>1 DEF WorkflowFollowsDecision
  <2>2. CASE db.workflow = Waiting /\ db.rows[Checkpoint] = "pending"
    BY <2>2, WaitingIs DEF WorkflowFollowsDecision
  <2>3. ASSUME NEW v \in Verdicts, db.workflow = Resolved(Waiting, v), db.rows[Checkpoint] = v
        PROVE  WorkflowFollowsDecision
    <3>1. v \in {"approved", "rejected"}
      BY DEF Verdicts
    <3> QED
      BY <2>3, <3>1, VerdictsEnd DEF WorkflowFollowsDecision
  <2> QED
    BY <2>1, <2>2, <2>3 DEF Story
<1> QED
  BY <1>1, InitOK, NextOK, FollowInit, FollowNext, PTL DEF Spec

=============================================================================
