------------------------------ MODULE Workflow ------------------------------
(***************************************************************************)
(* The values of kala-kernel/src/workflow.rs: the state of one workflow    *)
(* and what each operation of the engine makes of it.  Nothing here has a  *)
(* variable; WorkflowEngine and Application step these operators.          *)
(*                                                                         *)
(* A digest is the tuple of fields state_digest_of hashes.  An action      *)
(* digest is a function of that digest and the transition, so an approval  *)
(* keeps the transition and the state digest and nothing else.             *)
(***************************************************************************)
EXTENDS Integers, Sequences, FiniteSets

CONSTANTS
  Transitions,     \* sequence of [from, to, step, gate]: the definition, in its order
  InitialState,    \* the state a workflow starts in
  Limit,           \* step -> how often it may be attempted (attempt_limit)
  MaxReplans,      \* definition.max_replanning_attempts
  None             \* no approval, no state, no transition asked for

TransitionIds == DOMAIN Transitions
Steps == {Transitions[t].step : t \in TransitionIds}
States == {InitialState} \cup {Transitions[t].from : t \in TransitionIds}
                         \cup {Transitions[t].to : t \in TransitionIds}

ASSUME WorkflowAssumption ==
  /\ Transitions \in Seq([from : States, to : States, step : Steps, gate : BOOLEAN])
  /\ Limit \in [Steps -> Nat \ {0}]
  /\ MaxReplans \in Nat
  /\ None \notin TransitionIds

Terminals == {"completed", "failed", "cancelled"}
Statuses == {"created", "running", "waiting_for_approval"} \cup Terminals
ApprovalStatuses == {"pending", "approved", "aborted", "invalidated"}

Terminal(s) == s.status \in Terminals

-----------------------------------------------------------------------------
(* What the operations read off a state. *)

\* state_digest_of: neither the status, nor the approval, nor the history is in it.
Digest(s) == [id |-> s.id, attempts |-> s.attempts, completed |-> s.completed,
              at |-> s.at, replans |-> s.replans]

Outgoing(s) == {t \in TransitionIds : Transitions[t].from = s.at}

\* The transitions select_transition may return: the one asked for if it leaves
\* this state, else, when none is asked for, the first that does.
Select(s, ask) ==
  {t \in Outgoing(s) : IF ask = None THEN \A u \in Outgoing(s) : t <= u ELSE t = ask}

AttemptCount(s, step) == Cardinality({i \in DOMAIN s.attempts : s.attempts[i].step = step})
Exhausted(s, step) == AttemptCount(s, step) + 1 > Limit[step]

\* Mutant: the approval still belongs to this place of the definition, that is all.
MatchesPlace(s, approval) == Transitions[approval.t].from = s.at

ApprovalMatches(s, approval) ==
  /\ Transitions[approval.t].from = s.at
  /\ approval.digest = Digest(s)

\* An approval nobody has granted yet, or that was withdrawn.
Ungranted(s) == s.pending # None /\ s.pending.status # "approved"
Granted(s) == s.pending # None /\ s.pending.status = "approved"
Stale(s) == Granted(s) /\ ~ ApprovalMatches(s, s.pending)

-----------------------------------------------------------------------------
(* An outcome is what an operation emits, event after event, and the state *)
(* it then has, or None when it ends with an error.  An event is its kind, *)
(* the transition or None, and at a gate the digest of the state it is     *)
(* about: the one the approval carries when it reports an approval.        *)

Gated(t) == t # None /\ Transitions[t].gate

Event(s, kind, t) ==
  [kind |-> kind, t |-> t, about |-> IF Gated(t) THEN Digest(s) ELSE None]
Verdict(kind, approval) == [kind |-> kind, t |-> approval.t, about |-> approval.digest]
Outcome(emits, next) == [emits |-> emits, next |-> next]
Unchanged(s) == Outcome(<<>>, s)
After(first, outcome) == Outcome(first \o outcome.emits, outcome.next)

Fresh(id) == [id |-> id, status |-> "created", at |-> InitialState, attempts |-> <<>>,
              completed |-> <<>>, history |-> <<>>, pending |-> None, replans |-> 0]

FailState(s) == Outcome(<<Event(s, "failed", None)>>, [s EXCEPT !.status = "failed"])

CompleteIfTerminal(s) ==
  IF Terminal(s) THEN Unchanged(s)
  ELSE Outcome(<<Event(s, "completed", None)>>, [s EXCEPT !.status = "completed"])

Invalidate(s) ==
  LET void == [s EXCEPT !.pending.status = "invalidated",
                        !.status = "waiting_for_approval"]
  IN  Outcome(<<Verdict("invalidated", s.pending)>>, void)

ApplyTransition(s, t) ==
  LET tr == Transitions[t]
      n == AttemptCount(s, tr.step) + 1
      moved == [s EXCEPT
                  !.at = tr.to,
                  !.attempts = Append(@, [step |-> tr.step, n |-> n, ok |-> TRUE]),
                  !.completed = Append(@, tr.step),
                  !.history = Append(@, [t |-> t, n |-> n])]
      status == IF Outgoing(moved) = {} THEN "completed" ELSE "running"
  IN  IF Exhausted(s, tr.step) THEN FailState(s)
      ELSE Outcome(<<Event(s, "transition", t)>>, [moved EXCEPT !.status = status])

\* Mutant: the last failure is not told from the ones before it.
RecordFailureOnly(s, t) ==
  LET step == Transitions[t].step
      n == AttemptCount(s, step) + 1
  IN  IF Exhausted(s, step) THEN FailState(s)
      ELSE Outcome(<<Event(s, "step_retry", t)>>,
                   [s EXCEPT !.attempts = Append(@, [step |-> step, n |-> n, ok |-> FALSE]),
                             !.status = "running"])

RecordFailure(s, t) ==
  LET step == Transitions[t].step
      n == AttemptCount(s, step) + 1
      tried == [s EXCEPT !.attempts = Append(@, [step |-> step, n |-> n, ok |-> FALSE]),
                         !.status = "running"]
      retry == <<Event(s, "step_retry", t)>>
  IN  IF Exhausted(s, step) THEN FailState(s)
      ELSE IF n >= Limit[step] THEN After(retry, FailState(tried))
      ELSE Outcome(retry, tried)

\* Mutant: the approval is left on the state it was used in.
TakenUsed(s) == [s EXCEPT !.status = "running"]

\* The granted approval is taken off the state before its transition is applied.
Taken(s) == [s EXCEPT !.pending = None, !.status = "running"]

AwaitApproval(s, t) ==
  Outcome(<<Event(s, "checkpoint", t)>>,
          [s EXCEPT !.status = "waiting_for_approval",
                    !.pending = [t |-> t, digest |-> Digest(s), status |-> "pending"]])

Leave(s, t) == IF Transitions[t].gate THEN AwaitApproval(s, t) ELSE ApplyTransition(s, t)

-----------------------------------------------------------------------------
(* The operations, as the set of outcomes they may have: empty when they   *)
(* answer with an error.                                                   *)

\* The step after a possible status_changed event of a workflow just created.
AdvanceFrom(s, ask) ==
  IF ask = None /\ Outgoing(s) = {} THEN {CompleteIfTerminal(s)}
  ELSE {Leave(s, t) : t \in Select(s, ask)}

Advance(s, ask) ==
  IF Terminal(s) \/ Ungranted(s) THEN {Unchanged(s)}
  ELSE IF Stale(s) THEN {Invalidate(s)}
  ELSE IF Granted(s) THEN {ApplyTransition(Taken(s), s.pending.t)}
  ELSE IF s.status = "created"
       THEN {After(<<Event(s, "status_changed", None)>>, o) :
               o \in IF ask \in Outgoing(s) \cup {None}
                     THEN AdvanceFrom([s EXCEPT !.status = "running"], ask)
                     ELSE {Outcome(<<>>, None)}}
  ELSE AdvanceFrom(s, ask)

\* record_step_result: a success on a gated transition needs that transition's
\* own granted approval; a failure may be recorded without one.
StepResult(s, ok, ask) ==
  LET open == IF Granted(s) THEN Taken(s) ELSE s
      passable == {t \in Select(open, ask) :
                     ok /\ Transitions[t].gate => Granted(s) /\ s.pending.t = t}
  IN  IF Terminal(s) THEN {Unchanged(s)}
      ELSE IF Ungranted(s) THEN {}
      ELSE IF Stale(s) THEN {Invalidate(s)}
      ELSE IF ask = None /\ Outgoing(open) = {} THEN {CompleteIfTerminal(open)}
      ELSE {IF ok THEN ApplyTransition(open, t) ELSE RecordFailure(open, t) : t \in passable}

Resume(s) ==
  IF Granted(s) /\ ~ Stale(s) THEN {ApplyTransition(Taken(s), s.pending.t)}
  ELSE IF Stale(s) THEN {Invalidate(s)}
  ELSE Advance(s, None)

\* The digests the operator sends are those of the approval, or stale ones.
Approve(s, supplied) ==
  IF s.pending = None \/ s.pending.status # "pending" THEN {}
  ELSE IF supplied # s.pending.digest THEN {Invalidate(s)}
  ELSE {Outcome(<<Verdict("approved", s.pending)>>,
                [s EXCEPT !.pending.status = "approved"])}

Refuse(s, supplied, verdict) ==
  IF s.pending = None \/ s.pending.status # "pending" THEN {}
  ELSE IF supplied # s.pending.digest THEN {Invalidate(s)}
  ELSE {Outcome(<<Verdict(verdict, s.pending)>>,
                [s EXCEPT !.pending = None,
                          !.status = IF verdict = "aborted" THEN "cancelled" ELSE "failed"])}

Cancel(s) ==
  IF Terminal(s) THEN {}
  ELSE {Outcome(<<Event(s, "cancelled", None)>>,
                [s EXCEPT !.status = "cancelled",
                          !.pending = IF @ = None THEN @ ELSE [@ EXCEPT !.status = "aborted"]])}

\* Mutant: the bound is noticed one attempt late.
RequestReplanOnce(s) ==
  IF Terminal(s) \/ s.replans > MaxReplans THEN {}
  ELSE {Outcome(<<Event(s, "replanning_requested", None)>>, [s EXCEPT !.replans = @ + 1])}

RequestReplan(s) ==
  IF Terminal(s) \/ s.replans >= MaxReplans THEN {}
  ELSE {Outcome(<<Event(s, "replanning_requested", None)>>, [s EXCEPT !.replans = @ + 1])}

-----------------------------------------------------------------------------
(* validate_restored: what a saved state must be for an engine to take it. *)

\* The attempts that succeeded, and which of them, in their order, the one at i is.
Successes(s) == {i \in DOMAIN s.attempts : s.attempts[i].ok}
Place(s, i) == Cardinality({j \in Successes(s) : j <= i})

HistoryFollowsDefinition(s) ==
  LET state == [k \in 0 .. Len(s.history) |->
                  IF k = 0 THEN InitialState ELSE Transitions[s.history[k].t].to]
  IN  /\ \A k \in DOMAIN s.history : Transitions[s.history[k].t].from = state[k - 1]
      /\ s.at = state[Len(s.history)]

Restorable(s) ==
  /\ s.at \in States
  /\ s.replans <= MaxReplans
  /\ s.status = "created" => s.history = <<>>
  /\ Cardinality(Successes(s)) = Len(s.history)
  /\ Len(s.completed) = Len(s.history)
  /\ \A i \in Successes(s) :
       LET k == Place(s, i)
       IN  /\ s.attempts[i].step = Transitions[s.history[k].t].step
           /\ s.attempts[i].n = s.history[k].n
           /\ s.completed[k] = s.attempts[i].step
  /\ HistoryFollowsDefinition(s)
  /\ s.pending # None => /\ Transitions[s.pending.t].from = s.at
                         /\ Transitions[s.pending.t].gate

-----------------------------------------------------------------------------
(* The types of a state, for the invariants of the modules that hold one.  *)

Attempts == [step : Steps, n : Nat, ok : BOOLEAN]
Digests(ids) == [id : ids, attempts : Seq(Attempts), completed : Seq(Steps),
                 at : States, replans : 0 .. MaxReplans]
Approvals(ids) == [t : TransitionIds, digest : Digests(ids), status : ApprovalStatuses]
WorkflowStates(ids) ==
  [id : ids, status : Statuses, at : States, attempts : Seq(Attempts),
   completed : Seq(Steps), history : Seq([t : TransitionIds, n : Nat]),
   pending : {None} \cup Approvals(ids), replans : 0 .. MaxReplans]

=============================================================================
