--------------------------- MODULE WorkflowEngine ---------------------------
(***************************************************************************)
(* One WorkflowEngine of kala-kernel/src/workflow.rs shared by the threads *)
(* that call it.  The mutex covers a read of the state and a store of it,  *)
(* never both: require_state clones the state and lets the lock go, the    *)
(* operation computes its outcome and hands its events to the callback,    *)
(* which runs outside the lock and may fail, and store takes the lock      *)
(* again.  A callback that fails ends the operation: the events it took    *)
(* before stay, the state is not stored.  Only start stores before it      *)
(* emits, in a section of its own after the look at the state.             *)
(***************************************************************************)
EXTENDS Workflow

CONSTANTS
  Callers,         \* the threads that share the engine
  Ids,             \* workflow identifiers
  Offered          \* the operations those threads call

ASSUME EngineAssumption ==
  /\ Offered \subseteq {"run", "result", "resume", "approve", "refuse", "cancel", "replan"}
  /\ None \notin Approvals(Ids)

VARIABLES
  engine,          \* the state under the mutex, or None before start
  call,            \* caller -> the rest of the operation it is in, or None
  journal          \* the approvals and transitions the callback accepted

vars == <<engine, call, journal>>

\* The rest of an operation: events still to emit, the state to store, how often
\* it is stored after them, and whether it is stored before them, as start does;
\* an operation that ends with an error stores nothing.
Rest(outcome, stores) ==
  [emits |-> outcome.emits, next |-> outcome.next, first |-> FALSE,
   stores |-> IF outcome.next = None THEN 0 ELSE stores]

Init ==
  /\ engine = None
  /\ call = [c \in Callers |-> None]
  /\ journal = {}

Idle(c) == call[c] = None

Recorded == {"approved", "transition"}

\* require_state reads a clone; what follows is computed from that clone.
Begin(c, rests) ==
  /\ Idle(c)
  /\ engine # None
  /\ \E rest \in rests : call' = [call EXCEPT ![c] = rest]
  /\ UNCHANGED <<engine, journal>>

\* invalidate_approval stores what it returns; run then stores it once more.
Voids(o) == o.next.pending # None /\ o.next.pending.status = "invalidated" /\ o.emits # <<>>
Once(outcomes) == {Rest(o, 1) : o \in outcomes}
OnceOrTwice(outcomes) == {Rest(o, IF Voids(o) THEN 2 ELSE 1) : o \in outcomes}

\* start: a state of this workflow is returned as it is, any other is to be
\* replaced.  The lock is let go after the look ...
Start(c, id) ==
  /\ Idle(c)
  /\ ~ (engine # None /\ engine.id = id)
  /\ call' = [call EXCEPT ![c] =
                [emits |-> <<Event(Fresh(id), "created", None)>>, next |-> Fresh(id),
                 first |-> TRUE, stores |-> 0]]
  /\ UNCHANGED <<engine, journal>>

\* ... and taken again to store the new state, whatever is there by now; the event
\* follows.
StartStores(c) ==
  /\ ~ Idle(c)
  /\ call[c].first
  /\ engine' = call[c].next
  /\ call' = [call EXCEPT ![c].first = FALSE]
  /\ UNCHANGED journal

Asks == TransitionIds \cup {None}
\* Digests an operator may send along: those it was shown, or some other state's.
Supplied == {engine.pending.digest, Digest([engine EXCEPT !.replans = MaxReplans + 1])}

Run(c) == /\ "run" \in Offered
          /\ \E ask \in Asks : Begin(c, OnceOrTwice(Advance(engine, ask)))
RunResult(c) == /\ "result" \in Offered
                /\ \E ok \in BOOLEAN, ask \in Asks :
                     Begin(c, OnceOrTwice(StepResult(engine, ok, ask)))
ResumeCall(c) == /\ "resume" \in Offered
                 /\ ~ (engine # None /\ Ungranted(engine))
                 /\ Begin(c, Once(Resume(engine)))
ApproveCheckpoint(c) ==
  /\ "approve" \in Offered
  /\ engine # None /\ engine.pending # None
  /\ \E d \in Supplied : Begin(c, Once(Approve(engine, d)))
ResolveCheckpoint(c) ==
  /\ "refuse" \in Offered
  /\ engine # None /\ engine.pending # None
  /\ \E d \in Supplied, verdict \in {"rejected", "aborted"} :
       Begin(c, Once(Refuse(engine, d, verdict)))
CancelCall(c) == "cancel" \in Offered /\ Begin(c, Once(Cancel(engine)))
Replan(c) == "replan" \in Offered /\ Begin(c, Once(RequestReplan(engine)))

\* The callback takes the next event ...
Emit(c) ==
  /\ ~ Idle(c) /\ ~ call[c].first
  /\ call[c].emits # <<>>
  /\ journal' = journal \cup {e \in {Head(call[c].emits)} : e.kind \in Recorded}
  /\ LET rest == [call[c] EXCEPT !.emits = Tail(@)]
     IN  call' = [call EXCEPT ![c] =
                    IF rest.emits = <<>> /\ rest.stores = 0 THEN None ELSE rest]
  /\ UNCHANGED engine

\* Mutant: a callback that fails is passed over.
EmitIgnored(c) ==
  /\ ~ Idle(c) /\ ~ call[c].first
  /\ call[c].emits # <<>>
  /\ call' = [call EXCEPT ![c] = IF Tail(@.emits) = <<>> /\ @.stores = 0 THEN None
                                 ELSE [@ EXCEPT !.emits = Tail(@)]]
  /\ UNCHANGED <<engine, journal>>

\* ... or fails, and the operation answers with its error.
EmitFails(c) ==
  /\ ~ Idle(c) /\ ~ call[c].first
  /\ call[c].emits # <<>>
  /\ call' = [call EXCEPT ![c] = None]
  /\ UNCHANGED <<engine, journal>>

Store(c) ==
  /\ ~ Idle(c)
  /\ call[c].emits = <<>>
  /\ engine' = call[c].next
  /\ LET rest == [call[c] EXCEPT !.stores = @ - 1]
     IN  call' = [call EXCEPT ![c] = IF call[c].stores > 1 THEN rest ELSE None]
  /\ UNCHANGED journal

CallerStep(c) ==
  \/ \E id \in Ids : Start(c, id)
  \/ StartStores(c)
  \/ Run(c)
  \/ RunResult(c)
  \/ ResumeCall(c)
  \/ ApproveCheckpoint(c)
  \/ ResolveCheckpoint(c)
  \/ CancelCall(c)
  \/ Replan(c)
  \/ Emit(c)
  \/ EmitFails(c)
  \/ Store(c)

Next == \E c \in Callers : CallerStep(c)

Spec == Init /\ [][Next]_vars

-----------------------------------------------------------------------------
Kinds == Recorded \cup Terminals \cup
  {"created", "status_changed", "checkpoint", "rejected", "aborted", "invalidated",
   "step_retry", "replanning_requested"}

\* Types: the state is one the engine's records can hold, and what a thread
\* carries is an operation's own outcome.
TypeOK ==
  /\ engine \in {None} \cup WorkflowStates(Ids)
  /\ \A c \in Callers : call[c] # None =>
       /\ call[c].next \in {None} \cup WorkflowStates(Ids)
       /\ call[c].first \in BOOLEAN /\ call[c].stores \in 0 .. 2
       /\ \A i \in DOMAIN call[c].emits : call[c].emits[i].kind \in Kinds
  /\ \A e \in journal : e.kind \in Recorded

\* Whatever two threads overwrite of each other, what is under the mutex is a
\* state validate_restored takes: a snapshot of it can always be restored.
RestorableAlways == engine # None => Restorable(engine)

\* A gated transition is taken only on an approval given for that transition
\* and for the very state it leaves: a retry or a replan in between voids it
\* (approval_matches_inner), and no failure of the callback skips it.
GatesWereGranted ==
  \A e \in journal : e.kind = "transition" /\ Transitions[e.t].gate
                       => [e EXCEPT !.kind = "approved"] \in journal

\* The journal leads: a transition in the history, and an approval the engine
\* holds as granted, were accepted by the callback before they were stored.
JournalLeads ==
  engine # None =>
    /\ \A k \in DOMAIN engine.history :
         \E e \in journal : e.kind = "transition" /\ e.t = engine.history[k].t
    /\ Granted(engine) => Verdict("approved", engine.pending) \in journal

\* A workflow waits exactly when an approval is on it that is not aborted, and
\* a step that used up its attempts without success has failed the workflow or
\* the workflow was cancelled before: it is never left running without a step
\* it may take.
WaitsOrMoves ==
  engine # None =>
    /\ engine.status = "waiting_for_approval"
         <=> engine.pending # None /\ engine.pending.status # "aborted"
    /\ \A step \in Steps :
         /\ AttemptCount(engine, step) <= Limit[step]
         /\ engine.status = "running" /\ AttemptCount(engine, step) = Limit[step]
              => \E k \in DOMAIN engine.completed : engine.completed[k] = step

\* A workflow that has ended is not advanced again (the engine is documented as
\* thread-safe, and terminal states as never advanced).  A start that looked before
\* another one stored begins the workflow anew; that is not meant here.
TerminalIsFinal ==
  [][engine # None /\ Terminal(engine) /\ engine'.id = engine.id
       => Terminal(engine') \/ engine' = Fresh(engine.id)]_vars

=============================================================================
