----------------------------- MODULE Application -----------------------------
(***************************************************************************)
(* The decisions of kala-application/src/application.rs: revision commits  *)
(* and the checkpoint of the reference workflow, made by several threads   *)
(* of one process over one database and one policy engine in memory.       *)
(*                                                                         *)
(* Every operation reads what it is about first, and then opens a unit of  *)
(* work: it exports the policy engine, takes the database's lock, does its *)
(* work, saves the policy engine as it then is, and commits.  A unit that  *)
(* fails is rolled back, and after the lock is released the exported       *)
(* policy is imported over whatever the policy engine holds by then.       *)
(***************************************************************************)
EXTENDS Workflow

CONSTANTS
  Threads,
  Drafts,          \* what a revision may contain
  Own,             \* the draft of the workflow's own revision
  WorkflowId,
  Checkpoint,      \* the request of the workflow's checkpoint
  MaxRevisions,    \* bound: how long the chain of revisions grows
  MaxFaults,       \* bound: failed writes and restarts
  Does             \* thread -> the operations it calls

Operations == {"prepare", "decide", "run", "checkpoint"}

ASSUME ApplicationAssumption ==
  /\ Own \in Drafts
  /\ Checkpoint \notin [draft : Drafts, parent : Nat]
  /\ MaxRevisions \in Nat \ {0}
  /\ MaxFaults \in Nat
  /\ Does \in [Threads -> SUBSET Operations]

\* workflow_definition of the reference package: a chain of states none of which
\* comes twice, each step once, and a checkpoint at the last transition only.
ASSUME ReferenceAssumption ==
  /\ Transitions # <<>>
  /\ \A t \in TransitionIds :
       /\ Transitions[t].from = IF t = 1 THEN InitialState ELSE Transitions[t - 1].to
       /\ Transitions[t].to # InitialState
       /\ Transitions[t].gate <=> t = Len(Transitions)
  /\ \A t, u \in TransitionIds :
       t # u => Transitions[t].to # Transitions[u].to /\ Transitions[t].step # Transitions[u].step

VARIABLES
  policy,          \* the policy engine: request -> status of its approval record
  db,              \* what is committed
  unit,            \* the open transaction: its thread and what it would commit
  task,            \* thread -> the operation it is in, or None
  faults           \* failed writes and restarts so far

vars == <<policy, db, unit, task, faults>>

\* A commit is bound to the head it was prepared on, by the state digest its
\* request id is made of.  A head is named by the length of the chain.
Commits == [draft : Drafts, parent : 0 .. MaxRevisions - 1]
Requests == Commits \cup {Checkpoint}

Verdicts == {"approved", "rejected"}
Undecided == {"none", "pending"}
RecordStatuses == Undecided \cup Verdicts

Policies == [Requests -> RecordStatuses]
Databases ==
  [policy : Policies, rows : Policies, prepared : SUBSET Commits, revisions : Seq(Commits),
   conflicts : SUBSET Commits, workflow : {None} \cup WorkflowStates({WorkflowId})]

ASSUME NoneAssumption ==
  /\ None \notin Approvals({WorkflowId}) \cup WorkflowStates({WorkflowId})
  /\ None \notin [by : Threads, db : Databases]

DesignHead(d) == Len(d.revisions)

-----------------------------------------------------------------------------
(* What a unit does to the policy engine and the database.  A unit that    *)
(* raises leaves its mark on the policy engine and has no database.        *)

Effect(p, d) == [policy |-> p, db |-> d]
Raise(p) == Effect(p, None)

\* request_approval: an existing record is returned as it is.
Request(p, r) == [p EXCEPT ![r] = IF @ = "none" THEN "pending" ELSE @]

\* Mutant: an upsert without the condition on what it replaces.
AlwaysSavable(d, r) == TRUE

\* ApprovalRequestRepository.save: a decided row is never written again.
Savable(d, r) == d.rows[r] \in Undecided
SaveRow(d, r, status) == [d EXCEPT !.rows[r] = status]

\* require_undecided_commit asks the policy engine and the stored row.
UndecidedCommit(p, d, r) == p[r] \in Undecided /\ d.rows[r] \in Undecided

PrepareUnit(p, d, r) ==
  IF ~ UndecidedCommit(p, d, r) THEN Raise(p)
  ELSE Effect(Request(p, r),
              [SaveRow(d, r, "pending") EXCEPT !.prepared = @ \cup {r}])

\* Mutant: the revision is appended to whatever the head is by now.
ExtendsAnything(d, r) == TRUE

\* commit_revision compares the head with the one the commit extends.
Extends(d, r) == r.parent = DesignHead(d)

\* write_revision: a moved head leaves an event instead of a revision.
WriteRevision(d, r) ==
  IF Extends(d, r) THEN [d EXCEPT !.revisions = Append(@, r)]
  ELSE [d EXCEPT !.conflicts = @ \cup {r}]

DecideUnit(p, d, r, verdict) ==
  LET decided == SaveRow(d, r, verdict)
  IN  IF ~ UndecidedCommit(p, d, r) THEN Raise(p)
      ELSE Effect([p EXCEPT ![r] = verdict],
                  IF verdict = "approved" THEN WriteRevision(decided, r) ELSE decided)

\* Mutant: a record that is already decided is answered, not refused.
RegisterCheckpointAgain(p, d) ==
  LET q == Request(p, Checkpoint)
  IN  IF q[Checkpoint] # "pending" \/ ~ Savable(d, Checkpoint) THEN Effect(q, d)
      ELSE Effect(q, SaveRow(d, Checkpoint, "pending"))

\* register_checkpoint
RegisterCheckpoint(p, d) ==
  LET q == Request(p, Checkpoint)
  IN  IF q[Checkpoint] # "pending" \/ ~ Savable(d, Checkpoint) THEN Raise(q)
      ELSE Effect(q, SaveRow(d, Checkpoint, "pending"))

\* run_mechanical_reference_workflow: steps until the workflow ends or waits.
\* The reference evaluation always passes, so every step advances.
Advanced(s) == (CHOOSE o \in Advance(s, None) : TRUE).next
Progress(s) ==
  LET after[n \in 0 .. Len(Transitions)] ==
        IF n = 0 THEN s
        ELSE IF Terminal(after[n - 1]) \/ after[n - 1].pending # None THEN after[n - 1]
        ELSE Advanced(after[n - 1])
  IN  after[Len(Transitions)]

\* The state it goes on from was read before the unit.
RunUnit(p, d, seen) ==
  LET s == Progress(IF seen = None THEN Fresh(WorkflowId) ELSE seen)
      saved == [d EXCEPT !.workflow = s]
  IN  IF s.pending = None THEN Effect(p, saved) ELSE RegisterCheckpoint(p, saved)

\* approve_checkpoint and resume, or reject_checkpoint, on the state that was read.
Resolved(seen, verdict) ==
  LET granted == CHOOSE o \in Approve(seen, seen.pending.digest) : TRUE
      refused == CHOOSE o \in Refuse(seen, seen.pending.digest, verdict) : TRUE
  IN  IF verdict = "approved" THEN (CHOOSE o \in Resume(granted.next) : TRUE).next
      ELSE refused.next

\* decide_workflow_checkpoint
CheckpointUnit(p, d, seen, verdict) ==
  LET q == Request(p, Checkpoint)
      decided == [SaveRow(d, Checkpoint, verdict) EXCEPT !.workflow = Resolved(seen, verdict)]
  IN  IF q[Checkpoint] # "pending" THEN Raise(q)
      ELSE IF ~ Savable(d, Checkpoint) THEN Raise([q EXCEPT ![Checkpoint] = verdict])
      ELSE Effect([q EXCEPT ![Checkpoint] = verdict], decided)

UnitOf(c) ==
  CASE c.op = "prepare"    -> PrepareUnit(policy, db, c.request)
    [] c.op = "decide"     -> DecideUnit(policy, db, c.request, c.verdict)
    [] c.op = "run"        -> RunUnit(policy, db, c.seen)
    [] c.op = "checkpoint" -> CheckpointUnit(policy, db, c.seen, c.verdict)

-----------------------------------------------------------------------------
(* What an operation reads before its unit, one lock at a time; "next" is  *)
(* what its caller goes on with when the unit is committed.                *)

Idle(t) == task[t] = None
Reading(t, op) == Idle(t) /\ op \in Does[t] /\ unit = None

Call(op, request, verdict, seen) ==
  [at |-> "read", op |-> op, request |-> request, verdict |-> verdict, seen |-> seen,
   exported |-> None]

Enter(t, c) == task' = [task EXCEPT ![t] = c] /\ UNCHANGED <<policy, db, unit, faults>>

\* derive_commit reads the head the commit is to extend.
Derived(draft) == [draft |-> draft, parent |-> DesignHead(db)]

Prepare(t, draft) ==
  /\ Reading(t, "prepare")
  /\ DesignHead(db) < MaxRevisions
  /\ Enter(t, Call("prepare", Derived(draft), None, None))

\* prepared_commit, require_undecided_commit and rederive_commit, which refuses
\* a commit whose head has moved.
Decidable(r) ==
  /\ r \in db.prepared
  /\ UndecidedCommit(policy, db, r)
  /\ r.parent = DesignHead(db)

Decide(t, r, verdict) ==
  /\ Reading(t, "decide")
  /\ Decidable(r)
  /\ Enter(t, Call("decide", r, verdict, None))

Run(t) ==
  /\ Reading(t, "run")
  /\ ~ (db.workflow # None /\ Terminal(db.workflow))
  /\ Enter(t, Call("run", Checkpoint, None, db.workflow))

DecideCheckpoint(t, verdict) ==
  /\ Reading(t, "checkpoint")
  /\ db.workflow # None /\ ~ Terminal(db.workflow)
  /\ db.workflow.pending # None /\ db.workflow.pending.status = "pending"
  /\ Enter(t, Call("checkpoint", Checkpoint, verdict, db.workflow))

\* commit_workflow_revision follows a decision that completed the workflow: it
\* prepares its own draft, and then approves it if workflow_commit_actor finds
\* the completed workflow and its approved checkpoint.
PrepareOwn(t) ==
  /\ ~ Idle(t) /\ unit = None
  /\ task[t].at = "committed" /\ task[t].op = "checkpoint"
  /\ IF /\ Resolved(task[t].seen, task[t].verdict).status = "completed"
        /\ DesignHead(db) < MaxRevisions
     THEN Enter(t, [Call("prepare", Derived(Own), None, None) EXCEPT !.verdict = "approved"])
     ELSE Enter(t, None)

DecideOwn(t) ==
  /\ ~ Idle(t) /\ unit = None
  /\ task[t].at = "committed" /\ task[t].op = "prepare"
  /\ LET r == task[t].request
         authorised == /\ db.workflow.status = "completed"
                       /\ db.rows[Checkpoint] = "approved"
     IN  IF Decidable(r) /\ authorised THEN Enter(t, Call("decide", r, "approved", None))
         ELSE Enter(t, None)

-----------------------------------------------------------------------------
(* unit_of_work *)

Export(t) ==
  /\ ~ Idle(t) /\ task[t].at = "read"
  /\ task' = [task EXCEPT ![t].at = "exported", ![t].exported = policy]
  /\ UNCHANGED <<policy, db, unit, faults>>

\* BEGIN IMMEDIATE under the database's lock, and the operation.
Work(t) ==
  /\ ~ Idle(t) /\ task[t].at = "exported"
  /\ unit = None
  /\ LET effect == UnitOf(task[t])
     IN  /\ policy' = effect.policy
         /\ IF effect.db = None
            THEN /\ task' = [task EXCEPT ![t].at = "rolled_back"]
                 /\ UNCHANGED unit
            ELSE /\ unit' = [by |-> t, db |-> effect.db]
                 /\ task' = [task EXCEPT ![t].at = "worked"]
  /\ UNCHANGED <<db, faults>>

\* A chained call goes on; any other is over.
GoesOn(c) == c.op = "checkpoint" \/ (c.op = "prepare" /\ c.verdict # None)

\* persist_kernel_state saves the policy engine as it is now, and the commit.
Commit(t) ==
  /\ unit # None /\ unit.by = t
  /\ db' = [unit.db EXCEPT !.policy = policy]
  /\ unit' = None
  /\ task' = [task EXCEPT ![t] = IF GoesOn(@) THEN [@ EXCEPT !.at = "committed",
                                                          !.exported = None]
                                ELSE None]
  /\ UNCHANGED <<policy, faults>>

\* Mutant: a transaction whose commit failed is left open.
RollBackNothing(t) ==
  /\ unit # None /\ unit.by = t
  /\ task' = [task EXCEPT ![t].at = "rolled_back"]
  /\ faults < MaxFaults /\ faults' = faults + 1
  /\ UNCHANGED <<policy, db, unit>>

Fault == faults < MaxFaults /\ faults' = faults + 1

\* A write of the unit fails: the transaction is rolled back.
RollBack(t) ==
  /\ unit # None /\ unit.by = t
  /\ unit' = None
  /\ task' = [task EXCEPT ![t].at = "rolled_back"]
  /\ Fault
  /\ UNCHANGED <<policy, db>>

\* The lock is released by now.
Import(t) ==
  /\ ~ Idle(t) /\ task[t].at = "rolled_back"
  /\ policy' = task[t].exported
  /\ task' = [task EXCEPT ![t] = None]
  /\ UNCHANGED <<db, unit, faults>>

\* The process dies and is launched again: restore_kernel_state.
Restart ==
  /\ policy' = db.policy
  /\ unit' = None
  /\ task' = [t \in Threads |-> None]
  /\ Fault
  /\ UNCHANGED db

-----------------------------------------------------------------------------
NoRequest == [r \in Requests |-> "none"]

Init ==
  /\ policy = NoRequest
  /\ db = [policy |-> NoRequest, rows |-> NoRequest, prepared |-> {}, revisions |-> <<>>,
           conflicts |-> {}, workflow |-> None]
  /\ unit = None
  /\ task = [t \in Threads |-> None]
  /\ faults = 0

Step(t) ==
  \/ \E draft \in Drafts : Prepare(t, draft)
  \/ \E r \in Commits, verdict \in Verdicts : Decide(t, r, verdict)
  \/ Run(t)
  \/ \E verdict \in Verdicts : DecideCheckpoint(t, verdict)
  \/ PrepareOwn(t)
  \/ DecideOwn(t)
  \/ Export(t)
  \/ Work(t)
  \/ Commit(t)
  \/ RollBack(t)
  \/ Import(t)

Next == Restart \/ \E t \in Threads : Step(t)

Spec == Init /\ [][Next]_vars

-----------------------------------------------------------------------------
\* Types: records, rows and chains of the requests there are, and what every
\* open unit would commit is again such a database.
TypeOK ==
  /\ policy \in Policies
  /\ db \in Databases
  /\ unit # None => unit.by \in Threads /\ unit.db \in Databases
  /\ \A t \in Threads : task[t] # None =>
       /\ task[t].at \in {"read", "exported", "worked", "rolled_back", "committed"}
       /\ task[t].op \in Operations
       /\ task[t].at = "worked" <=> unit # None /\ unit.by = t

\* A decision that is stored stays what it is, whichever thread read what before
\* it, whatever unit failed beside it and whenever the process died.
DecidedOnce ==
  [][\A r \in Requests : db.rows[r] \in Verdicts => db'.rows[r] = db.rows[r]]_vars

\* The stored workflow and the stored row of its checkpoint tell one story: no
\* run that read an older state puts the workflow back behind the decision, and
\* the workflow completes on an approval only.
WorkflowFollowsDecision ==
  LET row == db.rows[Checkpoint]
  IN  IF db.workflow = None THEN row = "none"
      ELSE CASE row = "pending"  -> db.workflow.status = "waiting_for_approval"
             [] row = "approved" -> db.workflow.status = "completed"
             [] row = "rejected" -> db.workflow.status = "failed"
             [] OTHER            -> FALSE

\* The history is what was approved, and all of it: revisions form one chain, each
\* approved for the very revision it extends, however many commits were prepared on
\* the same head; and an approved commit is in the chain, or its conflict with the
\* head that moved is on record, and never both.
HistoryIsApproved ==
  LET InChain(r) == \E k \in DOMAIN db.revisions : db.revisions[k] = r IN
  /\ \A k \in DOMAIN db.revisions : /\ db.revisions[k].parent = k - 1
                                    /\ db.rows[db.revisions[k]] = "approved"
  /\ \A r \in Commits : db.rows[r] = "approved" => (r \in db.conflicts) # InChain(r)

\* What the stored policy says is decided is what the stored rows say.
DecisionSurvives ==
  \A r \in Requests : db.rows[r] \in Verdicts => db.policy[r] = db.rows[r]

=============================================================================
