------------------------ MODULE WorkflowEngineProofs ------------------------
(***************************************************************************)
(* Proofs about WorkflowEngine: whatever the threads overwrite of each     *)
(* other, every state one of them is about to store is sound by itself,    *)
(* and what it rests on was accepted by the callback before.               *)
(***************************************************************************)
EXTENDS WorkflowEngine, SequenceTheorems, FiniteSetTheorems, TLAPS

-----------------------------------------------------------------------------
(* The inductive invariant.                                                *)

Events == [kind : Kinds, t : {None} \cup TransitionIds, about : {None} \cup Digests(Ids)]
\* What a thread carries; only start stores before it emits, and it stores a new state.
Rests ==
  {r \in [emits : Seq(Events), next : {None} \cup WorkflowStates(Ids), first : BOOLEAN,
          stores : 0 .. 2] :
     r.first => \E id \in Ids : r.next = Fresh(id)}
Emitted(emits) == {emits[i] : i \in DOMAIN emits}

\* What holds of a state while an operation is still changing it.
Sane(s) ==
  /\ s \in WorkflowStates(Ids)
  /\ Restorable(s)
  /\ \A step \in Steps : AttemptCount(s, step) <= Limit[step]

\* A state waits exactly when an approval is on it that is not aborted.
Waits(s) ==
  s.status = "waiting_for_approval" <=> s.pending # None /\ s.pending.status # "aborted"

\* A step that used up its attempts was completed, or the workflow has ended.
Moves(s) ==
  \A step \in Steps : ~ Terminal(s) /\ AttemptCount(s, step) = Limit[step]
                        => \E k \in DOMAIN s.completed : s.completed[k] = step

Sound(s) == Sane(s) /\ Waits(s) /\ Moves(s)

\* The transitions of the history and the approval in force are among the accepted events.
Backed(s, accepted) ==
  /\ \A k \in DOMAIN s.history :
       \E e \in accepted : e.kind = "transition" /\ e.t = s.history[k].t
  /\ Granted(s) => Verdict("approved", s.pending) \in accepted

\* A gated transition has its approval among them.
Approved(e, accepted) ==
  e.kind = "transition" /\ Transitions[e.t].gate => [e EXCEPT !.kind = "approved"] \in accepted

\* What an operation may come to when these events were accepted before it.
Good(o, accepted) ==
  /\ o.emits \in Seq(Events)
  /\ o.next \in {None} \cup WorkflowStates(Ids)
  /\ o.next # None => Sound(o.next) /\ Backed(o.next, accepted \cup Emitted(o.emits))
  /\ \A i \in DOMAIN o.emits : Approved(o.emits[i], accepted)

IInv ==
  /\ journal \subseteq {e \in Events : e.kind \in Recorded}
  /\ \A e \in journal : Approved(e, journal)
  /\ engine \in {None} \cup WorkflowStates(Ids)
  /\ engine # None => Sound(engine) /\ Backed(engine, journal)
  /\ call \in [Callers -> {None} \cup Rests]
  /\ \A c \in Callers : call[c] # None => Good(call[c], journal)

-----------------------------------------------------------------------------
(* Counting in a sequence.                                                 *)

Picked(w, M) == {i \in DOMAIN w : w[i] \in M}

\* The places of the members of M, and what one more element adds to them.
LEMMA PickedAppend ==
  ASSUME NEW S, NEW M, NEW w \in Seq(S), NEW a \in S
  PROVE  /\ Picked(w, M) \subseteq 1 .. Len(w)
         /\ IsFiniteSet(Picked(w, M)) /\ Cardinality(Picked(w, M)) \in Nat
         /\ a \in M => Picked(Append(w, a), M) = Picked(w, M) \cup {Len(w) + 1}
         /\ a \notin M => Picked(Append(w, a), M) = Picked(w, M)
         /\ Cardinality(Picked(Append(w, a), M)) =
              IF a \in M THEN Cardinality(Picked(w, M)) + 1 ELSE Cardinality(Picked(w, M))
<1> DEFINE n == Len(w)
           v == Append(w, a)
<1>1. n \in Nat /\ DOMAIN w = 1 .. n
  BY LenProperties
<1>2. DOMAIN v = 1 .. n + 1 /\ v[n + 1] = a /\ \A i \in 1 .. n : v[i] = w[i]
  BY AppendProperties, LenProperties
<1> HIDE DEF v, n
<1>3. Picked(w, M) \subseteq 1 .. n
  BY <1>1 DEF Picked
<1>4. IsFiniteSet(1 .. n)
  BY <1>1, FS_Interval
<1>5. IsFiniteSet(Picked(w, M)) /\ Cardinality(Picked(w, M)) \in Nat
  BY <1>3, <1>4, FS_Subset, FS_CardinalityType
<1>6. /\ a \in M => Picked(v, M) = Picked(w, M) \cup {n + 1}
      /\ a \notin M => Picked(v, M) = Picked(w, M)
  <2>1. \A i \in 1 .. n + 1 : i \in 1 .. n \/ i = n + 1
    BY <1>1
  <2>2. n + 1 \in 1 .. n + 1 /\ 1 .. n \subseteq 1 .. n + 1
    BY <1>1
  <2> QED
    BY <1>1, <1>2, <2>1, <2>2 DEF Picked
<1>7. n + 1 \notin Picked(w, M)
  BY <1>1, <1>3
<1>8. Cardinality(Picked(w, M) \cup {n + 1}) = Cardinality(Picked(w, M)) + 1
  BY <1>5, <1>7, FS_AddElement
<1> QED
  BY <1>3, <1>5, <1>6, <1>8 DEF v, n

\* Attempts at a step are counted one by one.
LEMMA AttemptCountAppend ==
  ASSUME NEW s \in WorkflowStates(Ids), NEW moved, NEW a \in Attempts,
         moved.attempts = Append(s.attempts, a), NEW step
  PROVE  /\ AttemptCount(s, step) \in Nat
         /\ AttemptCount(moved, step) =
              IF a.step = step THEN AttemptCount(s, step) + 1 ELSE AttemptCount(s, step)
<1> DEFINE M == {b \in Attempts : b.step = step}
<1>1. s.attempts \in Seq(Attempts)
  BY DEF WorkflowStates
<1>2. \A i \in DOMAIN s.attempts : s.attempts[i] \in Attempts
  BY <1>1, ElementOfSeq, LenProperties
<1>3. Append(s.attempts, a) \in Seq(Attempts)
  BY <1>1, AppendProperties
<1>4. \A i \in DOMAIN Append(s.attempts, a) : Append(s.attempts, a)[i] \in Attempts
  BY <1>3, ElementOfSeq, LenProperties
<1>5. AttemptCount(s, step) = Cardinality(Picked(s.attempts, M))
  <2>1. {i \in DOMAIN s.attempts : s.attempts[i].step = step} = Picked(s.attempts, M)
    BY <1>2 DEF Picked
  <2> QED
    BY <2>1 DEF AttemptCount
<1>6. AttemptCount(moved, step) = Cardinality(Picked(Append(s.attempts, a), M))
  <2>1. {i \in DOMAIN moved.attempts : moved.attempts[i].step = step}
          = Picked(Append(s.attempts, a), M)
    BY <1>4 DEF Picked
  <2> QED
    BY <2>1 DEF AttemptCount
<1>7. a \in M <=> a.step = step
  OBVIOUS
<1> HIDE DEF M
<1> QED
  BY <1>1, <1>5, <1>6, <1>7, PickedAppend

\* The attempts at a step are finitely many.
LEMMA AttemptCountType ==
  ASSUME NEW s \in WorkflowStates(Ids), NEW step
  PROVE  AttemptCount(s, step) \in Nat
<1>1. s.attempts \in Seq(Attempts)
  BY DEF WorkflowStates
<1>2. IsFiniteSet(DOMAIN s.attempts)
  BY <1>1, LenProperties, FS_Interval
<1> QED
  BY <1>2, FS_Subset, FS_CardinalityType DEF AttemptCount

\* The successful attempts, likewise.
LEMMA SuccessesAppend ==
  ASSUME NEW s \in WorkflowStates(Ids), NEW moved, NEW a \in Attempts,
         moved.attempts = Append(s.attempts, a)
  PROVE  /\ Successes(s) \subseteq 1 .. Len(s.attempts)
         /\ IsFiniteSet(Successes(s)) /\ Cardinality(Successes(s)) \in Nat
         /\ a.ok => Successes(moved) = Successes(s) \cup {Len(s.attempts) + 1}
         /\ ~ a.ok => Successes(moved) = Successes(s)
         /\ Cardinality(Successes(moved)) =
              IF a.ok THEN Cardinality(Successes(s)) + 1 ELSE Cardinality(Successes(s))
<1> DEFINE M == {b \in Attempts : b.ok}
<1>1. s.attempts \in Seq(Attempts)
  BY DEF WorkflowStates
<1>2. \A i \in DOMAIN s.attempts : s.attempts[i] \in Attempts
  BY <1>1, ElementOfSeq, LenProperties
<1>3. Append(s.attempts, a) \in Seq(Attempts)
  BY <1>1, AppendProperties
<1>4. \A i \in DOMAIN Append(s.attempts, a) : Append(s.attempts, a)[i] \in Attempts
  BY <1>3, ElementOfSeq, LenProperties
<1>5. Successes(s) = Picked(s.attempts, M)
  BY <1>2 DEF Picked, Successes
<1>6. Successes(moved) = Picked(Append(s.attempts, a), M)
  BY <1>4 DEF Picked, Successes
<1>7. a \in M <=> a.ok
  OBVIOUS
<1> HIDE DEF M
<1>8. Picked(s.attempts, M) \subseteq 1 .. Len(s.attempts)
  BY <1>1, PickedAppend
<1>9. IsFiniteSet(Picked(s.attempts, M)) /\ Cardinality(Picked(s.attempts, M)) \in Nat
  BY <1>1, PickedAppend
<1>10. /\ a \in M => Picked(Append(s.attempts, a), M) = Picked(s.attempts, M) \cup {Len(s.attempts) + 1}
       /\ a \notin M => Picked(Append(s.attempts, a), M) = Picked(s.attempts, M)
  <2> DEFINE w == s.attempts
  <2>1. w \in Seq(Attempts)
    BY <1>1
  <2> HIDE DEF w
  <2>2. /\ a \in M => Picked(Append(w, a), M) = Picked(w, M) \cup {Len(w) + 1}
        /\ a \notin M => Picked(Append(w, a), M) = Picked(w, M)
    BY <2>1, PickedAppend
  <2> QED
    BY <2>2 DEF w
<1>11. Cardinality(Picked(Append(s.attempts, a), M)) =
         IF a \in M THEN Cardinality(Picked(s.attempts, M)) + 1
         ELSE Cardinality(Picked(s.attempts, M))
  BY <1>1, PickedAppend
<1>12. CASE a.ok
  BY <1>5, <1>6, <1>7, <1>8, <1>9, <1>10, <1>11, <1>12
<1>13. CASE ~ a.ok
  BY <1>5, <1>6, <1>7, <1>8, <1>9, <1>10, <1>11, <1>13
<1> QED
  BY <1>12, <1>13

-----------------------------------------------------------------------------
(* States and events.                                                      *)

\* An approval is never mistaken for none.
LEMMA PendingTypes ==
  ASSUME NEW s \in WorkflowStates(Ids)
  PROVE  /\ s.pending # None <=> s.pending \in Approvals(Ids)
         /\ s.pending # None => s.pending.t \in TransitionIds /\ s.pending.status \in ApprovalStatuses
  BY EngineAssumption DEF WorkflowStates, Approvals

\* A digest is of its type, and does not see the status, the approval or the history.
LEMMA DigestTypes ==
  ASSUME NEW s \in WorkflowStates(Ids)
  PROVE  Digest(s) \in Digests(Ids)
  BY DEF Digest, Digests, WorkflowStates

\* Events are of their type.
LEMMA EventTypes ==
  ASSUME NEW s \in WorkflowStates(Ids), NEW kind \in Kinds
  PROVE  /\ \A t \in {None} \cup TransitionIds : Event(s, kind, t) \in Events
         /\ s.pending # None => Verdict(kind, s.pending) \in Events
<1>1. Digest(s) \in Digests(Ids)
  BY DigestTypes
<1>2. s.pending # None => s.pending.t \in TransitionIds /\ s.pending.digest \in Digests(Ids)
  BY PendingTypes DEF Approvals
<1> QED
  BY <1>1, <1>2 DEF Event, Verdict, Events

\* An operation that emits one event.
LEMMA OneEvent ==
  ASSUME NEW e \in Events, NEW n, Sound(n), NEW accepted, Backed(n, accepted \cup {e}),
         Approved(e, accepted)
  PROVE  Good(Outcome(<<e>>, n), accepted)
<1>1. <<e>> \in Seq(Events) /\ DOMAIN <<e>> = {1} /\ <<e>>[1] = e
  OBVIOUS
<1>2. Emitted(<<e>>) = {e}
  BY <1>1 DEF Emitted
<1>3. Outcome(<<e>>, n).emits = <<e>> /\ Outcome(<<e>>, n).next = n
  BY DEF Outcome
<1>4. n \in WorkflowStates(Ids)
  BY DEF Sound, Sane
<1> HIDE DEF Good
<1>5. \A i \in DOMAIN <<e>> : Approved(<<e>>[i], accepted)
  BY <1>1
<1> QED
  BY <1>1, <1>2, <1>3, <1>4, <1>5 DEF Good

\* An operation that emits one more event, which is no transition, before the others.
LEMMA EventBefore ==
  ASSUME NEW e \in Events, e.kind # "transition", NEW o, NEW accepted, Good(o, accepted)
  PROVE  Good(After(<<e>>, o), accepted)
<1>1. <<e>> \in Seq(Events) /\ o.emits \in Seq(Events) /\ Len(<<e>>) = 1 /\ <<e>>[1] = e
  BY DEF Good
<1> DEFINE emits == <<e>> \o o.emits
<1>2. /\ emits \in Seq(Events)
      /\ Len(o.emits) \in Nat /\ Len(emits) = 1 + Len(o.emits)
      /\ DOMAIN emits = 1 .. 1 + Len(o.emits) /\ DOMAIN o.emits = 1 .. Len(o.emits)
  BY <1>1, ConcatProperties, LenProperties
<1>3. \A i \in DOMAIN emits : emits[i] = IF i = 1 THEN e ELSE o.emits[i - 1]
  <2>1. \A i \in 1 .. 1 + Len(o.emits) :
          emits[i] = IF i <= Len(<<e>>) THEN <<e>>[i] ELSE o.emits[i - Len(<<e>>)]
    BY <1>1, <1>2, ConcatProperties
  <2> HIDE DEF emits
  <2> QED
    BY <1>1, <1>2, <2>1
<1>4. After(<<e>>, o).emits = emits /\ After(<<e>>, o).next = o.next
  BY DEF After, Outcome
<1> HIDE DEF emits
<1>5. \A i \in DOMAIN emits : i = 1 \/ i - 1 \in DOMAIN o.emits
  BY <1>2
<1>6. \A i \in DOMAIN emits : Approved(emits[i], accepted)
  BY <1>3, <1>5 DEF Good, Approved
<1>7. Emitted(o.emits) \subseteq Emitted(emits)
  <2>1. ASSUME NEW i \in DOMAIN o.emits
        PROVE  o.emits[i] \in Emitted(emits)
    <3>1. i + 1 \in DOMAIN emits /\ i + 1 # 1 /\ (i + 1) - 1 = i
      BY <1>2
    <3>2. emits[i + 1] = o.emits[i]
      BY <1>3, <3>1
    <3> QED
      BY <3>1, <3>2 DEF Emitted
  <2> QED
    BY <2>1 DEF Emitted
<1>8. o.next # None => Sound(o.next) /\ Backed(o.next, accepted \cup Emitted(emits))
  BY <1>7 DEF Good, Backed
<1>9. o.next \in {None} \cup WorkflowStates(Ids)
  BY DEF Good
<1> QED
  BY <1>2, <1>4, <1>6, <1>8, <1>9 DEF Good

\* More accepted events back a state as well.
LEMMA BackedByMore ==
  ASSUME NEW s, NEW J, NEW K, J \subseteq K, Backed(s, J)
  PROVE  Backed(s, K)
  BY DEF Backed

\* A state that keeps its course - where it is, what was attempted, completed and
\* passed - stays sane.
LEMMA SaneKept ==
  ASSUME NEW s, Sane(s), NEW m \in WorkflowStates(Ids),
         m.at = s.at, m.attempts = s.attempts, m.completed = s.completed, m.history = s.history,
         m.status = "created" => s.status = "created",
         m.pending # None => /\ Transitions[m.pending.t].from = s.at
                             /\ Transitions[m.pending.t].gate
  PROVE  Sane(m) /\ \A step : AttemptCount(m, step) = AttemptCount(s, step)
<1>1. \A step : AttemptCount(m, step) = AttemptCount(s, step)
  BY DEF AttemptCount
<1>2. Successes(m) = Successes(s)
  BY DEF Successes
<1>3. \A i : Place(m, i) = Place(s, i)
  BY <1>2 DEF Place
<1>4. HistoryFollowsDefinition(m)
  BY DEF Sane, Restorable, HistoryFollowsDefinition
<1>5. m.replans <= MaxReplans
  BY WorkflowAssumption DEF WorkflowStates
<1>6. Restorable(m)
  BY <1>2, <1>3, <1>4, <1>5 DEF Sane, Restorable
<1> QED
  BY <1>1, <1>6 DEF Sane

\* A state without an approval in force stands on its history alone.
LEMMA BackedWithout ==
  ASSUME NEW s, NEW accepted, Backed(s, accepted), NEW m, m.history = s.history, ~ Granted(m)
  PROVE  Backed(m, accepted)
  BY DEF Backed

\* What an operation leaves as it is.
LEMMA UnchangedIsGood ==
  ASSUME NEW s, Sound(s), NEW accepted, Backed(s, accepted)
  PROVE  Good(Unchanged(s), accepted)
<1>1. <<>> \in Seq(Events) /\ Emitted(<<>>) = {} /\ DOMAIN <<>> = {}
  BY DEF Emitted
<1>2. Unchanged(s).emits = <<>> /\ Unchanged(s).next = s
  BY DEF Unchanged, Outcome
<1> QED
  BY <1>1, <1>2 DEF Good, Sound, Sane

-----------------------------------------------------------------------------
(* What the operations are made of.                                        *)

\* The names the code gives to statuses and events are of their types.
LEMMA Names ==
  /\ Statuses = {"created", "running", "waiting_for_approval", "completed", "failed", "cancelled"}
  /\ Terminals = {"completed", "failed", "cancelled"}
  /\ Kinds = {"approved", "transition", "completed", "failed", "cancelled", "created",
              "status_changed", "checkpoint", "rejected", "aborted", "invalidated",
              "step_retry", "replanning_requested"}
  BY DEF Statuses, Terminals, Kinds, Recorded

\* A workflow fails.
LEMMA FailIsGood ==
  ASSUME NEW s, Sane(s), s.pending = None, NEW accepted, Backed(s, accepted)
  PROVE  Good(FailState(s), accepted)
<1> DEFINE m == [s EXCEPT !.status = "failed"]
           e == Event(s, "failed", None)
<1>1. s \in WorkflowStates(Ids)
  BY DEF Sane
<1>2. /\ m \in WorkflowStates(Ids) /\ m.status = "failed" /\ m.pending = None
      /\ m.at = s.at /\ m.attempts = s.attempts /\ m.completed = s.completed /\ m.history = s.history
  BY <1>1, Names DEF WorkflowStates
<1>3. e \in Events /\ e.kind = "failed"
  BY <1>1, EventTypes, Names DEF Event
<1>4. FailState(s) = Outcome(<<e>>, m)
  BY DEF FailState
<1> HIDE DEF m, e
<1>5. Sane(m)
  BY <1>2, SaneKept
<1>6. Sound(m)
  BY <1>2, <1>5, Names DEF Sound, Waits, Moves, Terminal
<1>7. Backed(m, accepted \cup {e})
  BY <1>2, BackedWithout, BackedByMore DEF Granted
<1>8. Approved(e, accepted)
  BY <1>3 DEF Approved
<1> QED
  BY <1>3, <1>4, <1>6, <1>7, <1>8, OneEvent

\* A workflow without a way on is completed.
LEMMA CompleteIsGood ==
  ASSUME NEW s, Sound(s), s.pending = None, NEW accepted, Backed(s, accepted)
  PROVE  Good(CompleteIfTerminal(s), accepted)
<1>1. CASE Terminal(s)
  BY <1>1, UnchangedIsGood DEF CompleteIfTerminal
<1>2. CASE ~ Terminal(s)
  <2> DEFINE m == [s EXCEPT !.status = "completed"]
             e == Event(s, "completed", None)
  <2>1. s \in WorkflowStates(Ids) /\ Sane(s)
    BY DEF Sound, Sane
  <2>2. /\ m \in WorkflowStates(Ids) /\ m.status = "completed" /\ m.pending = None
        /\ m.at = s.at /\ m.attempts = s.attempts /\ m.completed = s.completed /\ m.history = s.history
    BY <2>1, Names DEF WorkflowStates
  <2>3. e \in Events /\ e.kind = "completed"
    BY <2>1, EventTypes, Names DEF Event
  <2>4. CompleteIfTerminal(s) = Outcome(<<e>>, m)
    BY <1>2 DEF CompleteIfTerminal
  <2> HIDE DEF m, e
  <2>5. Sane(m)
    BY <2>1, <2>2, SaneKept
  <2>6. Sound(m)
    BY <2>2, <2>5, Names DEF Sound, Waits, Moves, Terminal
  <2>7. Backed(m, accepted \cup {e})
    BY <2>2, BackedWithout, BackedByMore DEF Granted
  <2>8. Approved(e, accepted)
    BY <2>3 DEF Approved
  <2> QED
    BY <2>3, <2>4, <2>6, <2>7, <2>8, OneEvent
<1> QED
  BY <1>1, <1>2

\* An approval that is not aborted is withdrawn.
LEMMA InvalidateIsGood ==
  ASSUME NEW s, Sound(s), s.pending # None, s.pending.status # "aborted",
         NEW accepted, Backed(s, accepted)
  PROVE  Good(Invalidate(s), accepted)
<1> DEFINE m == [s EXCEPT !.pending.status = "invalidated", !.status = "waiting_for_approval"]
           e == Verdict("invalidated", s.pending)
           a == [s.pending EXCEPT !.status = "invalidated"]
<1>1. s \in WorkflowStates(Ids) /\ Sane(s) /\ s.pending \in Approvals(Ids)
  BY PendingTypes DEF Sound, Sane
<1>2. a \in Approvals(Ids) /\ a.status = "invalidated" /\ a.t = s.pending.t
  BY <1>1 DEF Approvals, ApprovalStatuses
<1>3. m = [s EXCEPT !.pending = a, !.status = "waiting_for_approval"]
  BY <1>1 DEF WorkflowStates
<1>4. e \in Events /\ e.kind = "invalidated"
  BY <1>1, EventTypes, Names DEF Verdict
<1>5. Invalidate(s) = Outcome(<<e>>, m)
  BY DEF Invalidate
<1> HIDE DEF a, e, m
<1>6. /\ m \in WorkflowStates(Ids) /\ m.status = "waiting_for_approval" /\ m.pending = a
      /\ m.at = s.at /\ m.attempts = s.attempts /\ m.completed = s.completed /\ m.history = s.history
  BY <1>1, <1>2, <1>3, Names DEF WorkflowStates
<1>7. a # None
  BY <1>2, EngineAssumption
<1>8. Transitions[a.t].from = s.at /\ Transitions[a.t].gate
  BY <1>2 DEF Sound, Sane, Restorable
<1>9. Sane(m) /\ \A step : AttemptCount(m, step) = AttemptCount(s, step)
  BY <1>1, <1>6, <1>8, SaneKept
<1>10. ~ Terminal(s)
  BY Names DEF Sound, Waits, Terminal
<1>11. Waits(m)
  BY <1>2, <1>6, <1>7 DEF Waits
<1>12. Moves(m)
  BY <1>6, <1>9, <1>10 DEF Sound, Moves
<1>13. Backed(m, accepted \cup {e})
  BY <1>2, <1>6, BackedWithout, BackedByMore DEF Granted
<1>14. Approved(e, accepted)
  BY <1>4 DEF Approved
<1> QED
  BY <1>4, <1>5, <1>9, <1>11, <1>12, <1>13, <1>14, OneEvent DEF Sound

\* A checkpoint: the workflow waits for the approval of a gated transition.
LEMMA AwaitIsGood ==
  ASSUME NEW s, Sound(s), ~ Terminal(s), NEW t \in Outgoing(s), Transitions[t].gate,
         NEW accepted, Backed(s, accepted)
  PROVE  Good(AwaitApproval(s, t), accepted)
<1> DEFINE a == [t |-> t, digest |-> Digest(s), status |-> "pending"]
           m == [s EXCEPT !.status = "waiting_for_approval", !.pending = a]
           e == Event(s, "checkpoint", t)
<1>1. s \in WorkflowStates(Ids) /\ Sane(s) /\ t \in TransitionIds /\ Transitions[t].from = s.at
  BY DEF Sound, Sane, Outgoing
<1>2. a \in Approvals(Ids) /\ a.status = "pending" /\ a.t = t
  BY <1>1, DigestTypes DEF Approvals, ApprovalStatuses
<1>3. e \in Events /\ e.kind = "checkpoint"
  BY <1>1, EventTypes, Names DEF Event
<1>4. AwaitApproval(s, t) = Outcome(<<e>>, m)
  BY DEF AwaitApproval
<1> HIDE DEF a, e
<1>5. /\ m \in WorkflowStates(Ids) /\ m.status = "waiting_for_approval" /\ m.pending = a
      /\ m.at = s.at /\ m.attempts = s.attempts /\ m.completed = s.completed /\ m.history = s.history
  BY <1>1, <1>2, Names DEF WorkflowStates
<1> HIDE DEF m
<1>6. a # None
  BY <1>2, EngineAssumption
<1>7. Sane(m) /\ \A step : AttemptCount(m, step) = AttemptCount(s, step)
  BY <1>1, <1>2, <1>5, SaneKept
<1>8. Waits(m)
  BY <1>2, <1>5, <1>6 DEF Waits
<1>9. Moves(m)
  BY <1>5, <1>7 DEF Sound, Moves
<1>10. Backed(m, accepted \cup {e})
  BY <1>2, <1>5, BackedWithout, BackedByMore DEF Granted
<1>11. Approved(e, accepted)
  BY <1>3 DEF Approved
<1> QED
  BY <1>3, <1>4, <1>7, <1>8, <1>9, <1>10, <1>11, OneEvent DEF Sound

\* The approval is taken off the state.
LEMMA TakenIsSound ==
  ASSUME NEW s, Sound(s), Granted(s), NEW accepted, Backed(s, accepted)
  PROVE  /\ Sound(Taken(s)) /\ Backed(Taken(s), accepted)
         /\ Taken(s).pending = None /\ ~ Terminal(Taken(s))
         /\ Taken(s).status # "created"
         /\ Digest(Taken(s)) = Digest(s) /\ Outgoing(Taken(s)) = Outgoing(s)
<1> DEFINE m == Taken(s)
<1>1. s \in WorkflowStates(Ids) /\ Sane(s) /\ ~ Terminal(s)
  BY Names DEF Sound, Sane, Granted, Waits, Terminal
<1>2. /\ m \in WorkflowStates(Ids) /\ m.status = "running" /\ m.pending = None
      /\ m.at = s.at /\ m.attempts = s.attempts /\ m.completed = s.completed /\ m.history = s.history
      /\ m.id = s.id /\ m.replans = s.replans
  BY <1>1, Names DEF WorkflowStates, Taken
<1> HIDE DEF m
<1>3. Sane(m) /\ \A step : AttemptCount(m, step) = AttemptCount(s, step)
  BY <1>1, <1>2, SaneKept
<1>4. Sound(m)
  BY <1>1, <1>2, <1>3 DEF Sound, Waits, Moves
<1>5. Backed(m, accepted)
  BY <1>2, BackedWithout DEF Granted
<1>6. ~ Terminal(m) /\ Digest(m) = Digest(s) /\ Outgoing(m) = Outgoing(s)
  BY <1>2, Names DEF Terminal, Digest, Outgoing
<1> QED
  BY <1>2, <1>4, <1>5, <1>6 DEF m

\* What a transition makes of a course: one more attempt, which succeeded, one more
\* step completed and one more transition in the history, wherever it leads.
MovesOn(s, t, m) ==
  LET n == AttemptCount(s, Transitions[t].step) + 1
  IN  /\ m \in WorkflowStates(Ids)
      /\ m.at = Transitions[t].to
      /\ m.attempts = Append(s.attempts, [step |-> Transitions[t].step, n |-> n, ok |-> TRUE])
      /\ m.completed = Append(s.completed, Transitions[t].step)
      /\ m.history = Append(s.history, [t |-> t, n |-> n])
      /\ m.pending = None
      /\ m.status # "created"

\* The definition is a sequence of transitions between its states.
LEMMA TransitionTypes ==
  ASSUME NEW t \in TransitionIds
  PROVE  /\ Transitions[t].from \in States /\ Transitions[t].to \in States
         /\ Transitions[t].step \in Steps /\ Transitions[t].gate \in BOOLEAN
         /\ Limit[Transitions[t].step] \in Nat
<1>1. Transitions[t] \in [from : States, to : States, step : Steps, gate : BOOLEAN]
  <2> DEFINE S == [from : States, to : States, step : Steps, gate : BOOLEAN]
  <2>1. Transitions \in Seq(S) /\ t \in DOMAIN Transitions
    BY WorkflowAssumption DEF TransitionIds
  <2> HIDE DEF S
  <2>2. t \in 1 .. Len(Transitions)
    BY <2>1, LenProperties
  <2>3. Transitions[t] \in S
    BY <2>1, <2>2, ElementOfSeq
  <2> QED
    BY <2>3 DEF S
<1>2. Transitions[t].step \in Steps
  BY <1>1
<1> QED
  BY <1>1, <1>2, WorkflowAssumption

\* The history still follows the definition.
LEMMA HistoryMovesOn ==
  ASSUME NEW s, Sane(s), NEW t \in Outgoing(s), NEW m, MovesOn(s, t, m)
  PROVE  HistoryFollowsDefinition(m)
<1> DEFINE n == Len(s.history)
           before == [k \in 0 .. n |-> IF k = 0 THEN InitialState ELSE Transitions[s.history[k].t].to]
           after == [k \in 0 .. n + 1 |-> IF k = 0 THEN InitialState ELSE Transitions[m.history[k].t].to]
           h == [t |-> t, n |-> AttemptCount(s, Transitions[t].step) + 1]
<1>1. s \in WorkflowStates(Ids) /\ t \in TransitionIds /\ Transitions[t].from = s.at
  BY DEF Sane, Outgoing
<1>2. s.history \in Seq([t : TransitionIds, n : Nat])
  BY <1>1 DEF WorkflowStates
<1>3. AttemptCount(s, Transitions[t].step) \in Nat
  BY <1>1, AttemptCountType
<1>4. n \in Nat /\ DOMAIN s.history = 1 .. n
  BY <1>2, LenProperties
<1>5. h \in [t : TransitionIds, n : Nat] /\ h.t = t
  BY <1>1, <1>3
<1>6. m.history = Append(s.history, h)
  BY DEF MovesOn
<1> HIDE DEF h
<1>7. /\ Len(m.history) = n + 1 /\ DOMAIN m.history = 1 .. n + 1
      /\ m.history[n + 1] = h /\ \A k \in 1 .. n : m.history[k] = s.history[k]
  <2>1. Append(s.history, h) \in Seq([t : TransitionIds, n : Nat])
    BY <1>2, <1>5, AppendProperties
  <2> QED
    BY <1>2, <1>4, <1>5, <1>6, <2>1, AppendProperties, LenProperties
<1>8. /\ \A k \in 1 .. n : Transitions[s.history[k].t].from = before[k - 1]
      /\ s.at = before[n]
  BY <1>4 DEF Sane, Restorable, HistoryFollowsDefinition
<1> HIDE DEF n
<1>9. \A k \in 0 .. n : after[k] = before[k]
  BY <1>4, <1>7
<1>10. after[n + 1] = Transitions[t].to
  <2>1. n + 1 \in 0 .. n + 1 /\ n + 1 # 0
    BY <1>4
  <2> QED
    BY <2>1, <1>5, <1>7
<1> HIDE DEF after, before
<1>11. ASSUME NEW k \in 1 .. n + 1
       PROVE  Transitions[m.history[k].t].from = after[k - 1]
  <2>1. CASE k \in 1 .. n
    <3>1. k - 1 \in 0 .. n
      BY <1>4, <2>1
    <3> QED
      BY <2>1, <3>1, <1>7, <1>8, <1>9
  <2>2. CASE k = n + 1
    <3>1. k - 1 = n /\ n \in 0 .. n
      BY <1>4, <2>2
    <3> QED
      BY <2>2, <3>1, <1>1, <1>5, <1>7, <1>8, <1>9
  <2> QED
    BY <1>4, <2>1, <2>2
<1>12. m.at = after[n + 1]
  BY <1>10 DEF MovesOn
<1>13. HistoryFollowsDefinition(m)
         <=> /\ \A k \in 1 .. n + 1 : Transitions[m.history[k].t].from = after[k - 1]
             /\ m.at = after[n + 1]
  BY <1>7 DEF HistoryFollowsDefinition, after
<1> QED
  BY <1>11, <1>12, <1>13

\* So do the successful attempts and the completed steps.
LEMMA CourseMovesOn ==
  ASSUME NEW s, Sane(s), NEW t \in Outgoing(s), NEW m, MovesOn(s, t, m)
  PROVE  /\ Cardinality(Successes(m)) = Len(m.history)
         /\ Len(m.completed) = Len(m.history)
         /\ \A i \in Successes(m) :
              LET k == Place(m, i)
              IN  /\ m.attempts[i].step = Transitions[m.history[k].t].step
                  /\ m.attempts[i].n = m.history[k].n
                  /\ m.completed[k] = m.attempts[i].step
<1> DEFINE step == Transitions[t].step
           n == AttemptCount(s, step) + 1
           a == [step |-> step, n |-> n, ok |-> TRUE]
           h == [t |-> t, n |-> n]
           last == Len(s.history)
           tries == Len(s.attempts)
<1>1. s \in WorkflowStates(Ids) /\ t \in TransitionIds /\ step \in Steps
  BY TransitionTypes DEF Sane, Outgoing
<1>2. /\ s.history \in Seq([t : TransitionIds, n : Nat])
      /\ s.attempts \in Seq(Attempts) /\ s.completed \in Seq(Steps)
  BY <1>1 DEF WorkflowStates
<1>3. n \in Nat
  BY <1>1, AttemptCountType
<1>4. a \in Attempts /\ a.ok /\ a.step = step /\ a.n = n
  BY <1>1, <1>3 DEF Attempts
<1>5. h \in [t : TransitionIds, n : Nat] /\ h.t = t /\ h.n = n
  BY <1>1, <1>3
<1>6. /\ m.attempts = Append(s.attempts, a) /\ m.completed = Append(s.completed, step)
      /\ m.history = Append(s.history, h)
  BY DEF MovesOn
<1> HIDE DEF step, n, a, h
<1>7. /\ last \in Nat /\ tries \in Nat /\ Len(s.completed) = last
      /\ DOMAIN s.history = 1 .. last /\ DOMAIN s.attempts = 1 .. tries
      /\ Cardinality(Successes(s)) = last
  BY <1>2, LenProperties DEF Sane, Restorable
<1>8. /\ Len(m.history) = last + 1 /\ m.history[last + 1] = h
      /\ \A k \in 1 .. last : m.history[k] = s.history[k]
  BY <1>2, <1>5, <1>6, <1>7, AppendProperties
<1>9. /\ m.attempts[tries + 1] = a
      /\ \A i \in 1 .. tries : m.attempts[i] = s.attempts[i]
  BY <1>2, <1>4, <1>6, <1>7, AppendProperties
<1>10. /\ Len(m.completed) = last + 1 /\ m.completed[last + 1] = step
       /\ \A k \in 1 .. last : m.completed[k] = s.completed[k]
  BY <1>1, <1>2, <1>6, <1>7, AppendProperties
<1>11. /\ Successes(s) \subseteq 1 .. tries /\ IsFiniteSet(Successes(s))
       /\ Successes(m) = Successes(s) \cup {tries + 1}
       /\ Cardinality(Successes(m)) = last + 1
  BY <1>1, <1>4, <1>6, <1>7, SuccessesAppend
<1> HIDE DEF last, tries
<1>12. ASSUME NEW i \in Successes(s)
       PROVE  Place(m, i) = Place(s, i) /\ Place(s, i) \in 1 .. last
  <2> DEFINE P == {j \in Successes(s) : j <= i}
  <2>1. {j \in Successes(m) : j <= i} = P
    BY <1>7, <1>11
  <2>2. P \subseteq Successes(s) /\ i \in P
    BY <1>7, <1>11
  <2> HIDE DEF P
  <2>3. IsFiniteSet(P) /\ Cardinality(P) \in Nat /\ Cardinality(P) <= last
    BY <1>7, <1>11, <2>2, FS_Subset, FS_CardinalityType
  <2>4. Cardinality(P) # 0
    BY <2>2, <2>3, FS_EmptySet
  <2>5. Place(m, i) = Cardinality(P) /\ Place(s, i) = Cardinality(P)
    BY <2>1 DEF Place, P
  <2> QED
    BY <1>7, <2>3, <2>4, <2>5
<1>13. Place(m, tries + 1) = last + 1
  <2>1. {j \in Successes(m) : j <= tries + 1} = Successes(m)
    BY <1>7, <1>11
  <2> QED
    BY <1>11, <2>1 DEF Place
<1>14. ASSUME NEW i \in Successes(m)
       PROVE  LET k == Place(m, i)
              IN  /\ m.attempts[i].step = Transitions[m.history[k].t].step
                  /\ m.attempts[i].n = m.history[k].n
                  /\ m.completed[k] = m.attempts[i].step
  <2>1. CASE i \in Successes(s)
    <3>1. LET k == Place(s, i)
          IN  /\ s.attempts[i].step = Transitions[s.history[k].t].step
              /\ s.attempts[i].n = s.history[k].n
              /\ s.completed[k] = s.attempts[i].step
      BY <2>1 DEF Sane, Restorable
    <3>2. m.attempts[i] = s.attempts[i]
      BY <1>9, <1>11, <2>1
    <3> QED
      BY <3>1, <3>2, <1>8, <1>10, <1>12, <2>1
  <2>2. CASE i = tries + 1
    BY <2>2, <1>4, <1>5, <1>8, <1>9, <1>10, <1>13 DEF step
  <2> QED
    BY <1>11, <2>1, <2>2
<1> QED
  BY <1>8, <1>10, <1>11, <1>14

\* A transition within the attempts of its step keeps a state sane; the step is completed.
LEMMA MovingOnIsSane ==
  ASSUME NEW s, Sound(s), ~ Terminal(s), NEW t \in Outgoing(s), ~ Exhausted(s, Transitions[t].step),
         NEW m, MovesOn(s, t, m)
  PROVE  Sane(m) /\ Moves(m)
<1> DEFINE step == Transitions[t].step
           n == AttemptCount(s, step) + 1
           a == [step |-> step, n |-> n, ok |-> TRUE]
<1>1. s \in WorkflowStates(Ids) /\ Sane(s) /\ t \in TransitionIds /\ step \in Steps
      /\ Transitions[t].to \in States /\ Limit[step] \in Nat
  BY TransitionTypes DEF Sound, Sane, Outgoing
<1>2. AttemptCount(s, step) \in Nat /\ n <= Limit[step]
  BY <1>1, AttemptCountType DEF Exhausted
<1>3. a \in Attempts /\ a.step = step
  BY <1>1, <1>2 DEF Attempts
<1>4. m.attempts = Append(s.attempts, a) /\ m.completed = Append(s.completed, step)
      /\ m \in WorkflowStates(Ids)
  BY DEF MovesOn
<1> HIDE DEF a, n, step
<1>5. \A other \in Steps :
        /\ AttemptCount(s, other) \in Nat
        /\ AttemptCount(m, other) = IF step = other THEN AttemptCount(s, other) + 1
                                    ELSE AttemptCount(s, other)
  <2> SUFFICES ASSUME NEW other \in Steps
               PROVE  /\ AttemptCount(s, other) \in Nat
                      /\ AttemptCount(m, other) = IF step = other THEN AttemptCount(s, other) + 1
                                                  ELSE AttemptCount(s, other)
    OBVIOUS
  <2>1. AttemptCount(m, other) = IF a.step = other THEN AttemptCount(s, other) + 1
                                 ELSE AttemptCount(s, other)
    BY <1>1, <1>3, <1>4, AttemptCountAppend
  <2> QED
    BY <1>1, <1>3, <2>1, AttemptCountType
<1>6. \A other \in Steps : AttemptCount(m, other) <= Limit[other]
  BY <1>2, <1>5 DEF Sound, Sane, n
<1>7. m.replans <= MaxReplans
  BY <1>4, WorkflowAssumption DEF WorkflowStates
<1>8. m.at \in States /\ m.pending = None /\ m.status # "created"
  BY <1>1 DEF MovesOn
<1>9. /\ Cardinality(Successes(m)) = Len(m.history)
      /\ Len(m.completed) = Len(m.history)
      /\ \A i \in Successes(m) :
           LET k == Place(m, i)
           IN  /\ m.attempts[i].step = Transitions[m.history[k].t].step
               /\ m.attempts[i].n = m.history[k].n
               /\ m.completed[k] = m.attempts[i].step
  BY <1>1, CourseMovesOn
<1>10. HistoryFollowsDefinition(m)
  BY <1>1, HistoryMovesOn
<1>11. Sane(m)
  BY <1>4, <1>6, <1>7, <1>8, <1>9, <1>10 DEF Sane, Restorable
<1>12. /\ s.completed \in Seq(Steps)
       /\ DOMAIN s.completed = 1 .. Len(s.completed) /\ Len(s.completed) \in Nat
  BY <1>1, LenProperties DEF WorkflowStates
<1>13. /\ DOMAIN m.completed = 1 .. Len(s.completed) + 1
       /\ m.completed[Len(s.completed) + 1] = step
       /\ \A k \in 1 .. Len(s.completed) : m.completed[k] = s.completed[k]
  <2>1. Append(s.completed, step) \in Seq(Steps)
    BY <1>1, <1>12, AppendProperties
  <2> QED
    BY <1>1, <1>4, <1>12, <2>1, AppendProperties, LenProperties
<1>14. ASSUME NEW other \in Steps, ~ Terminal(m), AttemptCount(m, other) = Limit[other]
       PROVE  \E k \in DOMAIN m.completed : m.completed[k] = other
  <2>1. CASE other = step
    <3>1. Len(s.completed) + 1 \in DOMAIN m.completed
      BY <1>12, <1>13
    <3> QED
      BY <2>1, <3>1, <1>13
  <2>2. CASE other # step
    <3>1. AttemptCount(s, other) = Limit[other]
      BY <2>2, <1>5, <1>14
    <3>2. PICK k \in DOMAIN s.completed : s.completed[k] = other
      BY <3>1 DEF Sound, Moves
    <3>3. k \in DOMAIN m.completed /\ m.completed[k] = other
      BY <3>2, <1>12, <1>13
    <3> QED
      BY <3>3
  <2> QED
    BY <2>1, <2>2
<1> QED
  BY <1>11, <1>14 DEF Moves

\* A transition is applied; when it is gated its approval was accepted before.
LEMMA ApplyIsGood ==
  ASSUME NEW s, Sound(s), ~ Terminal(s), s.pending = None, NEW t \in Outgoing(s),
         NEW accepted, Backed(s, accepted),
         Transitions[t].gate => [kind |-> "approved", t |-> t, about |-> Digest(s)] \in accepted
  PROVE  Good(ApplyTransition(s, t), accepted)
<1> DEFINE tr == Transitions[t]
           n == AttemptCount(s, tr.step) + 1
           a == [step |-> tr.step, n |-> n, ok |-> TRUE]
           h == [t |-> t, n |-> n]
           moved == [s EXCEPT !.at = tr.to,
                              !.attempts = Append(@, a),
                              !.completed = Append(@, tr.step),
                              !.history = Append(@, h)]
           status == IF Outgoing(moved) = {} THEN "completed" ELSE "running"
           m == [moved EXCEPT !.status = status]
           e == Event(s, "transition", t)
<1>1. s \in WorkflowStates(Ids) /\ Sane(s) /\ t \in TransitionIds /\ tr.step \in Steps /\ tr.to \in States
  BY TransitionTypes DEF Sound, Sane, Outgoing
<1>2. CASE Exhausted(s, tr.step)
  <2>1. ApplyTransition(s, t) = FailState(s)
    BY <1>2 DEF ApplyTransition
  <2> QED
    BY <1>1, <2>1, FailIsGood
<1>3. CASE ~ Exhausted(s, tr.step)
  <2>1. n \in Nat
    BY <1>1, AttemptCountType
  <2>2. a \in Attempts /\ h \in [t : TransitionIds, n : Nat] /\ h.t = t
    BY <1>1, <2>1 DEF Attempts
  <2>3. ApplyTransition(s, t) = Outcome(<<e>>, m)
    BY <1>3 DEF ApplyTransition
  <2>4. status \in {"completed", "running"}
    OBVIOUS
  <2> HIDE DEF status, e
  <2>5. /\ s.history \in Seq([t : TransitionIds, n : Nat])
        /\ s.attempts \in Seq(Attempts) /\ s.completed \in Seq(Steps)
    BY <1>1 DEF WorkflowStates
  <2>6. /\ Append(s.history, h) \in Seq([t : TransitionIds, n : Nat])
        /\ Append(s.attempts, a) \in Seq(Attempts) /\ Append(s.completed, tr.step) \in Seq(Steps)
    BY <1>1, <2>2, <2>5, AppendProperties
  <2>7. m \in WorkflowStates(Ids)
    BY <1>1, <2>4, <2>6, Names DEF WorkflowStates
  <2>8. /\ m.at = tr.to /\ m.attempts = Append(s.attempts, a)
        /\ m.completed = Append(s.completed, tr.step) /\ m.history = Append(s.history, h)
        /\ m.pending = None /\ m.status = status
    BY <1>1 DEF WorkflowStates
  <2> HIDE DEF m
  <2>9. MovesOn(s, t, m)
    BY <2>4, <2>7, <2>8 DEF MovesOn
  <2>10. Sane(m) /\ Moves(m)
    BY <1>1, <1>3, <2>9, MovingOnIsSane
  <2>11. Waits(m)
    BY <2>4, <2>8 DEF Waits
  <2>12. e \in Events /\ e.kind = "transition" /\ e.t = t
    BY <1>1, EventTypes, Names DEF Event, e
  <2>13. Approved(e, accepted)
    <3>1. Transitions[t].gate =>
            [e EXCEPT !.kind = "approved"] = [kind |-> "approved", t |-> t, about |-> Digest(s)]
      BY <1>1, WorkflowAssumption DEF Event, Gated, e
    <3> QED
      BY <2>12, <3>1 DEF Approved
  <2>14. Backed(m, accepted \cup {e})
    <3> HIDE DEF h
    <3>1. /\ Len(s.history) \in Nat /\ DOMAIN s.history = 1 .. Len(s.history)
          /\ DOMAIN m.history = 1 .. Len(s.history) + 1 /\ m.history[Len(s.history) + 1] = h
          /\ \A k \in 1 .. Len(s.history) : m.history[k] = s.history[k]
      BY <2>2, <2>5, <2>6, <2>8, AppendProperties, LenProperties
    <3>2. ASSUME NEW k \in DOMAIN m.history
          PROVE  \E x \in accepted \cup {e} : x.kind = "transition" /\ x.t = m.history[k].t
      <4>1. CASE k \in DOMAIN s.history
        BY <3>1, <4>1 DEF Backed
      <4>2. CASE k = Len(s.history) + 1
        BY <3>1, <4>2, <2>2, <2>12
      <4> QED
        BY <3>1, <4>1, <4>2
    <3> QED
      BY <3>2, <2>8 DEF Backed, Granted
  <2> QED
    BY <2>3, <2>10, <2>11, <2>12, <2>13, <2>14, OneEvent DEF Sound
<1> QED
  BY <1>2, <1>3

\* A failed attempt is recorded; the last one fails the workflow.
LEMMA RecordFailureIsGood ==
  ASSUME NEW s, Sound(s), ~ Terminal(s), s.pending = None, NEW t \in Outgoing(s),
         NEW accepted, Backed(s, accepted)
  PROVE  Good(RecordFailure(s, t), accepted)
<1> DEFINE step == Transitions[t].step
           n == AttemptCount(s, step) + 1
           a == [step |-> step, n |-> n, ok |-> FALSE]
           tried == [s EXCEPT !.attempts = Append(@, a), !.status = "running"]
           e == Event(s, "step_retry", t)
<1>1. s \in WorkflowStates(Ids) /\ Sane(s) /\ t \in TransitionIds /\ step \in Steps
      /\ Limit[step] \in Nat
  BY TransitionTypes DEF Sound, Sane, Outgoing
<1>2. CASE Exhausted(s, step)
  <2>1. RecordFailure(s, t) = FailState(s)
    BY <1>2 DEF RecordFailure
  <2> QED
    BY <1>1, <2>1, FailIsGood
<1>3. CASE ~ Exhausted(s, step)
  <2>1. AttemptCount(s, step) \in Nat /\ n <= Limit[step]
    BY <1>1, <1>3, AttemptCountType DEF Exhausted
  <2>2. a \in Attempts /\ ~ a.ok /\ a.step = step
    BY <1>1, <2>1 DEF Attempts
  <2>3. RecordFailure(s, t) = IF n >= Limit[step] THEN After(<<e>>, FailState(tried))
                              ELSE Outcome(<<e>>, tried)
    BY <1>3 DEF RecordFailure
  <2>4. e \in Events /\ e.kind = "step_retry"
    BY <1>1, EventTypes, Names DEF Event
  <2> HIDE DEF a, e, n
  <2>5. Append(s.attempts, a) \in Seq(Attempts)
    BY <1>1, <2>2, AppendProperties DEF WorkflowStates
  <2>6. /\ tried \in WorkflowStates(Ids) /\ tried.attempts = Append(s.attempts, a)
        /\ tried.status = "running" /\ tried.pending = None /\ tried.at = s.at
        /\ tried.completed = s.completed /\ tried.history = s.history
    BY <1>1, <2>5, Names DEF WorkflowStates
  <2> HIDE DEF tried, step
  <2>7. \A other \in Steps :
          /\ AttemptCount(s, other) \in Nat
          /\ AttemptCount(tried, other) = IF step = other THEN AttemptCount(s, other) + 1
                                          ELSE AttemptCount(s, other)
    BY <1>1, <2>2, <2>6, AttemptCountAppend
  <2>8. \A other \in Steps : AttemptCount(tried, other) <= Limit[other]
    BY <1>1, <2>1, <2>7 DEF Sane, n
  <2>9. Successes(tried) = Successes(s)
    BY <1>1, <2>2, <2>6, SuccessesAppend
  <2>10. \A i : Place(tried, i) = Place(s, i)
    BY <2>9 DEF Place
  <2>11. \A i \in Successes(s) : tried.attempts[i] = s.attempts[i]
    <3>1. s.attempts \in Seq(Attempts)
      BY <1>1 DEF WorkflowStates
    <3>2. \A i \in 1 .. Len(s.attempts) : tried.attempts[i] = s.attempts[i]
      BY <2>2, <2>6, <3>1, AppendProperties
    <3>3. DOMAIN s.attempts = 1 .. Len(s.attempts)
      BY <3>1, LenProperties
    <3> QED
      BY <3>2, <3>3 DEF Successes
  <2>12. HistoryFollowsDefinition(tried)
    BY <1>1, <2>6 DEF Sane, Restorable, HistoryFollowsDefinition
  <2>13. tried.replans <= MaxReplans
    BY <2>6, WorkflowAssumption DEF WorkflowStates
  <2>14. Restorable(tried)
    <3>1. \A i \in Successes(tried) :
            LET k == Place(tried, i)
            IN  /\ tried.attempts[i].step = Transitions[tried.history[k].t].step
                /\ tried.attempts[i].n = tried.history[k].n
                /\ tried.completed[k] = tried.attempts[i].step
      <4> SUFFICES ASSUME NEW i \in Successes(tried)
                   PROVE  LET k == Place(tried, i)
                          IN  /\ tried.attempts[i].step = Transitions[tried.history[k].t].step
                              /\ tried.attempts[i].n = tried.history[k].n
                              /\ tried.completed[k] = tried.attempts[i].step
        OBVIOUS
      <4>1. i \in Successes(s) /\ Place(tried, i) = Place(s, i) /\ tried.attempts[i] = s.attempts[i]
        BY <2>9, <2>10, <2>11
      <4>2. LET k == Place(s, i)
            IN  /\ s.attempts[i].step = Transitions[s.history[k].t].step
                /\ s.attempts[i].n = s.history[k].n
                /\ s.completed[k] = s.attempts[i].step
        BY <1>1, <4>1 DEF Sane, Restorable
      <4> QED
        BY <2>6, <4>1, <4>2
    <3>2. /\ tried.at \in States
          /\ Cardinality(Successes(tried)) = Len(tried.history)
          /\ Len(tried.completed) = Len(tried.history)
      BY <1>1, <2>6, <2>9 DEF Sane, Restorable
    <3> QED
      BY <2>6, <2>12, <2>13, <3>1, <3>2 DEF Restorable
  <2>15. Sane(tried)
    BY <2>6, <2>8, <2>14 DEF Sane
  <2>16. Backed(tried, accepted)
    BY <2>6, BackedWithout DEF Granted
  <2>17. CASE n >= Limit[step]
    <3>1. Good(FailState(tried), accepted)
      BY <2>6, <2>15, <2>16, FailIsGood
    <3> QED
      BY <2>3, <2>4, <2>17, <3>1, EventBefore
  <2>18. CASE ~ (n >= Limit[step])
    <3>1. Moves(tried)
      <4> SUFFICES ASSUME NEW other \in Steps, AttemptCount(tried, other) = Limit[other]
                   PROVE  \E k \in DOMAIN tried.completed : tried.completed[k] = other
        BY DEF Moves
      <4>1. other # step
        BY <1>1, <2>1, <2>7, <2>18 DEF n
      <4>2. AttemptCount(s, other) = Limit[other]
        BY <4>1, <2>7
      <4> QED
        BY <4>2, <2>6 DEF Sound, Moves
    <3>2. Waits(tried)
      BY <2>6 DEF Waits
    <3>3. Backed(tried, accepted \cup {e})
      BY <2>16, BackedByMore
    <3>4. Approved(e, accepted)
      BY <2>4 DEF Approved
    <3> QED
      BY <2>3, <2>4, <2>15, <2>18, <3>1, <3>2, <3>3, <3>4, OneEvent DEF Sound
  <2> QED
    BY <2>17, <2>18
<1> QED
  BY <1>2, <1>3

-----------------------------------------------------------------------------
(* The operations.                                                         *)

\* A state that may be advanced has no approval on it.
LEMMA NothingPending ==
  ASSUME NEW s, ~ Granted(s), ~ Ungranted(s)
  PROVE  s.pending = None
  BY DEF Granted, Ungranted

\* The step out of a running state.
LEMMA AdvanceFromIsGood ==
  ASSUME NEW s, Sound(s), ~ Terminal(s), s.pending = None, NEW ask,
         NEW accepted, Backed(s, accepted), NEW o \in AdvanceFrom(s, ask)
  PROVE  Good(o, accepted)
<1>1. CASE ask = None /\ Outgoing(s) = {}
  <2>1. o = CompleteIfTerminal(s)
    BY <1>1 DEF AdvanceFrom
  <2> QED
    BY <2>1, CompleteIsGood
<1>2. CASE ~ (ask = None /\ Outgoing(s) = {})
  <2>1. PICK t \in Select(s, ask) : o = Leave(s, t)
    BY <1>2 DEF AdvanceFrom
  <2>2. t \in Outgoing(s)
    BY <2>1 DEF Select
  <2>3. CASE Transitions[t].gate
    <3>1. o = AwaitApproval(s, t)
      BY <2>1, <2>3 DEF Leave
    <3> QED
      BY <2>2, <2>3, <3>1, AwaitIsGood
  <2>4. CASE ~ Transitions[t].gate
    <3>1. o = ApplyTransition(s, t)
      BY <2>1, <2>4 DEF Leave
    <3> QED
      BY <2>2, <2>4, <3>1, ApplyIsGood
  <2> QED
    BY <2>3, <2>4
<1> QED
  BY <1>1, <1>2

\* A granted approval that fits its state lets its own transition be applied.
LEMMA GrantedIsGood ==
  ASSUME NEW s, Sound(s), Granted(s), ~ Stale(s), NEW accepted, Backed(s, accepted)
  PROVE  Good(ApplyTransition(Taken(s), s.pending.t), accepted)
<1>1. /\ Sound(Taken(s)) /\ Backed(Taken(s), accepted)
      /\ Taken(s).pending = None /\ ~ Terminal(Taken(s))
      /\ Digest(Taken(s)) = Digest(s) /\ Outgoing(Taken(s)) = Outgoing(s)
  BY TakenIsSound
<1>2. s.pending.t \in Outgoing(s) /\ s.pending.digest = Digest(s)
  <2>1. s \in WorkflowStates(Ids) /\ s.pending # None
    BY DEF Sound, Sane, Granted
  <2> QED
    BY <2>1, PendingTypes DEF Stale, ApprovalMatches, Outgoing
<1>3. [kind |-> "approved", t |-> s.pending.t, about |-> Digest(Taken(s))] \in accepted
  BY <1>1, <1>2 DEF Backed, Verdict
<1> QED
  BY <1>1, <1>2, <1>3, ApplyIsGood

\* A stale approval is withdrawn.
LEMMA StaleIsGood ==
  ASSUME NEW s, Sound(s), Stale(s), NEW accepted, Backed(s, accepted)
  PROVE  Good(Invalidate(s), accepted)
  BY InvalidateIsGood DEF Stale, Granted

\* run.
LEMMA AdvanceIsGood ==
  ASSUME NEW s, Sound(s), NEW ask, NEW accepted, Backed(s, accepted), NEW o \in Advance(s, ask)
  PROVE  Good(o, accepted)
<1>1. CASE Terminal(s) \/ Ungranted(s)
  <2>1. o = Unchanged(s)
    BY <1>1 DEF Advance
  <2> QED
    BY <2>1, UnchangedIsGood
<1>2. CASE ~ (Terminal(s) \/ Ungranted(s)) /\ Stale(s)
  <2>1. o = Invalidate(s)
    BY <1>2 DEF Advance
  <2> QED
    BY <1>2, <2>1, StaleIsGood
<1>3. CASE ~ (Terminal(s) \/ Ungranted(s)) /\ ~ Stale(s) /\ Granted(s)
  <2>1. o = ApplyTransition(Taken(s), s.pending.t)
    BY <1>3 DEF Advance
  <2> QED
    BY <1>3, <2>1, GrantedIsGood
<1>4. CASE ~ (Terminal(s) \/ Ungranted(s)) /\ ~ Granted(s)
  <2>1. s.pending = None /\ ~ Stale(s) /\ s \in WorkflowStates(Ids) /\ Sane(s)
    BY <1>4, NothingPending DEF Stale, Sound, Sane
  <2>2. CASE s.status = "created"
    <3> DEFINE m == [s EXCEPT !.status = "running"]
               e == Event(s, "status_changed", None)
    <3>1. e \in Events /\ e.kind = "status_changed"
      BY <2>1, EventTypes, Names DEF Event
    <3>2. /\ m \in WorkflowStates(Ids) /\ m.status = "running" /\ m.pending = None
          /\ m.at = s.at /\ m.attempts = s.attempts /\ m.completed = s.completed
          /\ m.history = s.history
      BY <2>1, Names DEF WorkflowStates
    <3>3. PICK rest \in IF ask \in Outgoing(s) \cup {None} THEN AdvanceFrom(m, ask)
                        ELSE {Outcome(<<>>, None)} : o = After(<<e>>, rest)
      BY <1>4, <2>1, <2>2 DEF Advance
    <3> HIDE DEF m, e
    <3>4. Sane(m) /\ \A step : AttemptCount(m, step) = AttemptCount(s, step)
      BY <2>1, <3>2, SaneKept
    <3>5. Sound(m) /\ ~ Terminal(m)
      BY <1>4, <3>2, <3>4, Names DEF Sound, Waits, Moves, Terminal
    <3>6. Backed(m, accepted)
      BY <3>2, BackedWithout DEF Granted
    <3>7. Good(Outcome(<<>>, None), accepted)
      BY DEF Good, Outcome
    <3>8. Good(rest, accepted)
      BY <3>2, <3>3, <3>5, <3>6, <3>7, AdvanceFromIsGood
    <3> QED
      BY <3>1, <3>3, <3>8, EventBefore
  <2>3. CASE s.status # "created"
    <3>1. o \in AdvanceFrom(s, ask)
      BY <1>4, <2>1, <2>3 DEF Advance
    <3> QED
      BY <1>4, <2>1, <3>1, AdvanceFromIsGood
  <2> QED
    BY <2>2, <2>3
<1> QED
  BY <1>1, <1>2, <1>3, <1>4

\* record_step_result.
LEMMA StepResultIsGood ==
  ASSUME NEW s, Sound(s), NEW ok \in BOOLEAN, NEW ask, NEW accepted, Backed(s, accepted),
         NEW o \in StepResult(s, ok, ask)
  PROVE  Good(o, accepted)
<1> DEFINE open == IF Granted(s) THEN Taken(s) ELSE s
           passable == {t \in Select(open, ask) :
                          ok /\ Transitions[t].gate => Granted(s) /\ s.pending.t = t}
<1>1. CASE Terminal(s)
  <2>1. o = Unchanged(s)
    BY <1>1 DEF StepResult
  <2> QED
    BY <2>1, UnchangedIsGood
<1>2. CASE ~ Terminal(s) /\ ~ Ungranted(s) /\ Stale(s)
  <2>1. o = Invalidate(s)
    BY <1>2 DEF StepResult
  <2> QED
    BY <1>2, <2>1, StaleIsGood
<1>3. CASE ~ Terminal(s) /\ ~ Ungranted(s) /\ ~ Stale(s)
  <2>1. /\ Sound(open) /\ Backed(open, accepted) /\ open.pending = None /\ ~ Terminal(open)
        /\ Digest(open) = Digest(s)
    <3>1. CASE Granted(s)
      BY <3>1, TakenIsSound
    <3>2. CASE ~ Granted(s)
      BY <1>3, <3>2, NothingPending
    <3> QED
      BY <3>1, <3>2
  <2>2. o \in IF ask = None /\ Outgoing(open) = {} THEN {CompleteIfTerminal(open)}
              ELSE {IF ok THEN ApplyTransition(open, t) ELSE RecordFailure(open, t) : t \in passable}
    BY <1>3 DEF StepResult
  <2>3. \A t \in passable : /\ t \in Outgoing(open)
                            /\ ok /\ Transitions[t].gate => Granted(s) /\ s.pending.t = t
    BY DEF Select
  <2> HIDE DEF open, passable
  <2>4. CASE o = CompleteIfTerminal(open)
    BY <2>1, <2>4, CompleteIsGood
  <2>5. ASSUME NEW t \in passable, ok, o = ApplyTransition(open, t)
        PROVE  Good(o, accepted)
    <3>1. ASSUME Transitions[t].gate
          PROVE  [kind |-> "approved", t |-> t, about |-> Digest(open)] \in accepted
      <4>1. Granted(s) /\ s.pending.t = t
        BY <2>3, <2>5, <3>1
      <4>2. s.pending.digest = Digest(s)
        BY <1>3, <4>1 DEF Stale, ApprovalMatches
      <4> QED
        BY <2>1, <4>1, <4>2 DEF Backed, Verdict
    <3> QED
      BY <2>1, <2>3, <2>5, <3>1, ApplyIsGood
  <2>6. ASSUME NEW t \in passable, o = RecordFailure(open, t)
        PROVE  Good(o, accepted)
    BY <2>1, <2>3, <2>6, RecordFailureIsGood
  <2> QED
    BY <2>2, <2>4, <2>5, <2>6
<1>4. ~ (~ Terminal(s) /\ Ungranted(s))
  BY DEF StepResult
<1> QED
  BY <1>1, <1>2, <1>3, <1>4

\* resume.
LEMMA ResumeIsGood ==
  ASSUME NEW s, Sound(s), NEW accepted, Backed(s, accepted), NEW o \in Resume(s)
  PROVE  Good(o, accepted)
<1>1. CASE Granted(s) /\ ~ Stale(s)
  <2>1. o = ApplyTransition(Taken(s), s.pending.t)
    BY <1>1 DEF Resume
  <2> QED
    BY <1>1, <2>1, GrantedIsGood
<1>2. CASE Stale(s)
  <2>1. o = Invalidate(s)
    BY <1>2 DEF Resume
  <2> QED
    BY <1>2, <2>1, StaleIsGood
<1>3. CASE ~ Granted(s) /\ ~ Stale(s)
  <2>1. o \in Advance(s, None)
    BY <1>3 DEF Resume
  <2> QED
    BY <2>1, AdvanceIsGood
<1> QED
  BY <1>1, <1>2, <1>3

\* approve_checkpoint.
LEMMA ApproveIsGood ==
  ASSUME NEW s, Sound(s), NEW supplied, NEW accepted, Backed(s, accepted),
         NEW o \in Approve(s, supplied)
  PROVE  Good(o, accepted)
<1>1. s.pending # None /\ s.pending.status = "pending"
  BY DEF Approve
<1>2. CASE supplied # s.pending.digest
  <2>1. o = Invalidate(s)
    BY <1>1, <1>2 DEF Approve
  <2> QED
    BY <1>1, <2>1, InvalidateIsGood
<1>3. CASE supplied = s.pending.digest
  <2> DEFINE e == Verdict("approved", s.pending)
             a == [s.pending EXCEPT !.status = "approved"]
             m == [s EXCEPT !.pending.status = "approved"]
  <2>1. s \in WorkflowStates(Ids) /\ Sane(s) /\ s.pending \in Approvals(Ids)
    BY <1>1, PendingTypes DEF Sound, Sane
  <2>2. a \in Approvals(Ids) /\ a.status = "approved" /\ a.t = s.pending.t
        /\ Verdict("approved", a) = e
    BY <2>1 DEF Approvals, ApprovalStatuses, Verdict
  <2>3. m = [s EXCEPT !.pending = a]
    BY <2>1 DEF WorkflowStates
  <2>4. e \in Events /\ e.kind = "approved"
    BY <1>1, <2>1, EventTypes, Names DEF Verdict
  <2>5. o = Outcome(<<e>>, m)
    BY <1>1, <1>3 DEF Approve
  <2> HIDE DEF a, e, m
  <2>6. /\ m \in WorkflowStates(Ids) /\ m.status = s.status /\ m.pending = a
        /\ m.at = s.at /\ m.attempts = s.attempts /\ m.completed = s.completed
        /\ m.history = s.history
    BY <2>1, <2>2, <2>3 DEF WorkflowStates
  <2>7. a # None
    BY <2>2, EngineAssumption
  <2>8. Transitions[a.t].from = s.at /\ Transitions[a.t].gate
    BY <1>1, <2>1, <2>2 DEF Sane, Restorable
  <2>9. Sane(m) /\ \A step : AttemptCount(m, step) = AttemptCount(s, step)
    BY <2>1, <2>6, <2>8, SaneKept
  <2>10. Waits(m)
    BY <1>1, <2>2, <2>6, <2>7 DEF Sound, Waits
  <2>11. Moves(m)
    BY <2>6, <2>9 DEF Sound, Moves, Terminal
  <2>12. Backed(m, accepted \cup {e})
    BY <2>2, <2>6 DEF Backed
  <2>13. Approved(e, accepted)
    BY <2>4 DEF Approved
  <2> QED
    BY <2>4, <2>5, <2>9, <2>10, <2>11, <2>12, <2>13, OneEvent DEF Sound
<1> QED
  BY <1>2, <1>3

\* reject_checkpoint and abort_checkpoint.
LEMMA RefuseIsGood ==
  ASSUME NEW s, Sound(s), NEW supplied, NEW verdict \in {"rejected", "aborted"},
         NEW accepted, Backed(s, accepted), NEW o \in Refuse(s, supplied, verdict)
  PROVE  Good(o, accepted)
<1>1. s.pending # None /\ s.pending.status = "pending"
  BY DEF Refuse
<1>2. CASE supplied # s.pending.digest
  <2>1. o = Invalidate(s)
    BY <1>1, <1>2 DEF Refuse
  <2> QED
    BY <1>1, <2>1, InvalidateIsGood
<1>3. CASE supplied = s.pending.digest
  <2> DEFINE e == Verdict(verdict, s.pending)
             ended == IF verdict = "aborted" THEN "cancelled" ELSE "failed"
             m == [s EXCEPT !.pending = None, !.status = ended]
  <2>1. s \in WorkflowStates(Ids) /\ Sane(s)
    BY DEF Sound, Sane
  <2>2. e \in Events /\ e.kind = verdict
    BY <1>1, <2>1, EventTypes, Names DEF Verdict
  <2>3. o = Outcome(<<e>>, m)
    BY <1>1, <1>3 DEF Refuse
  <2>4. ended \in {"cancelled", "failed"}
    OBVIOUS
  <2> HIDE DEF e, ended
  <2>5. /\ m \in WorkflowStates(Ids) /\ m.status = ended /\ m.pending = None
        /\ m.at = s.at /\ m.attempts = s.attempts /\ m.completed = s.completed
        /\ m.history = s.history
    BY <2>1, <2>4, Names DEF WorkflowStates
  <2> HIDE DEF m
  <2>6. Sane(m)
    BY <2>1, <2>4, <2>5, SaneKept
  <2>7. Waits(m) /\ Moves(m)
    BY <2>4, <2>5, Names DEF Waits, Moves, Terminal
  <2>8. Backed(m, accepted \cup {e})
    BY <2>5, BackedWithout, BackedByMore DEF Granted
  <2>9. Approved(e, accepted)
    BY <2>2 DEF Approved
  <2> QED
    BY <2>2, <2>3, <2>6, <2>7, <2>8, <2>9, OneEvent DEF Sound
<1> QED
  BY <1>2, <1>3

\* cancel: an approval in force is aborted with the workflow.
LEMMA CancelIsGood ==
  ASSUME NEW s, Sound(s), NEW accepted, Backed(s, accepted), NEW o \in Cancel(s)
  PROVE  Good(o, accepted)
<1> DEFINE e == Event(s, "cancelled", None)
           a == IF s.pending = None THEN s.pending ELSE [s.pending EXCEPT !.status = "aborted"]
           m == [s EXCEPT !.status = "cancelled", !.pending = a]
<1>1. s \in WorkflowStates(Ids) /\ Sane(s)
  BY DEF Sound, Sane
<1>2. o = Outcome(<<e>>, m)
  BY DEF Cancel
<1>3. e \in Events /\ e.kind = "cancelled"
  BY <1>1, EventTypes, Names DEF Event
<1>4. a = None \/ /\ a \in Approvals(Ids) /\ a.status = "aborted" /\ a.t = s.pending.t
                  /\ s.pending # None
  BY <1>1, PendingTypes DEF Approvals, ApprovalStatuses
<1> HIDE DEF a, e
<1>5. /\ m \in WorkflowStates(Ids) /\ m.status = "cancelled" /\ m.pending = a
      /\ m.at = s.at /\ m.attempts = s.attempts /\ m.completed = s.completed
      /\ m.history = s.history
  BY <1>1, <1>4, Names DEF WorkflowStates
<1> HIDE DEF m
<1>6. a # None => Transitions[a.t].from = s.at /\ Transitions[a.t].gate
  BY <1>1, <1>4 DEF Sane, Restorable
<1>7. Sane(m)
  BY <1>1, <1>5, <1>6, SaneKept
<1>8. Waits(m) /\ Moves(m)
  BY <1>4, <1>5, Names DEF Waits, Moves, Terminal
<1>9. Backed(m, accepted \cup {e})
  BY <1>4, <1>5, BackedWithout, BackedByMore DEF Granted
<1>10. Approved(e, accepted)
  BY <1>3 DEF Approved
<1> QED
  BY <1>2, <1>3, <1>7, <1>8, <1>9, <1>10, OneEvent DEF Sound

\* request_replan: the digest changes under an approval, which stays as it is.
LEMMA RequestReplanIsGood ==
  ASSUME NEW s, Sound(s), NEW accepted, Backed(s, accepted), NEW o \in RequestReplan(s)
  PROVE  Good(o, accepted)
<1> DEFINE e == Event(s, "replanning_requested", None)
           m == [s EXCEPT !.replans = @ + 1]
<1>1. s \in WorkflowStates(Ids) /\ Sane(s)
  BY DEF Sound, Sane
<1>2. o = Outcome(<<e>>, m) /\ ~ (s.replans >= MaxReplans)
  BY DEF RequestReplan
<1>3. e \in Events /\ e.kind = "replanning_requested"
  BY <1>1, EventTypes, Names DEF Event
<1>4. s.replans + 1 \in 0 .. MaxReplans
  BY <1>1, <1>2, WorkflowAssumption DEF WorkflowStates
<1> HIDE DEF e
<1>5. /\ m \in WorkflowStates(Ids) /\ m.status = s.status /\ m.pending = s.pending
      /\ m.at = s.at /\ m.attempts = s.attempts /\ m.completed = s.completed
      /\ m.history = s.history
  BY <1>1, <1>4 DEF WorkflowStates
<1> HIDE DEF m
<1>6. s.pending # None => Transitions[s.pending.t].from = s.at /\ Transitions[s.pending.t].gate
  BY <1>1 DEF Sane, Restorable
<1>7. Sane(m) /\ \A step : AttemptCount(m, step) = AttemptCount(s, step)
  BY <1>1, <1>5, <1>6, SaneKept
<1>8. Waits(m)
  BY <1>5 DEF Sound, Waits
<1>9. Moves(m)
  BY <1>5, <1>7 DEF Sound, Moves, Terminal
<1>10. Backed(m, accepted \cup {e})
  BY <1>5 DEF Backed, Granted
<1>11. Approved(e, accepted)
  BY <1>3 DEF Approved
<1> QED
  BY <1>2, <1>3, <1>7, <1>8, <1>9, <1>10, <1>11, OneEvent DEF Sound

\* start: a new workflow rests on nothing.
LEMMA FreshIsSound ==
  ASSUME NEW id \in Ids
  PROVE  Sound(Fresh(id)) /\ \A accepted : Backed(Fresh(id), accepted)
<1> DEFINE s == Fresh(id)
<1>1. /\ s.id = id /\ s.status = "created" /\ s.at = InitialState /\ s.attempts = <<>>
      /\ s.completed = <<>> /\ s.history = <<>> /\ s.pending = None /\ s.replans = 0
  BY DEF Fresh
<1>2. s \in WorkflowStates(Ids)
  <2>1. InitialState \in States /\ 0 \in 0 .. MaxReplans
    BY WorkflowAssumption DEF States
  <2>2. <<>> \in Seq(Attempts) /\ <<>> \in Seq(Steps) /\ <<>> \in Seq([t : TransitionIds, n : Nat])
    OBVIOUS
  <2> QED
    BY <2>1, <2>2, Names DEF Fresh, WorkflowStates
<1> HIDE DEF s
<1>3. Successes(s) = {} /\ \A step : AttemptCount(s, step) = Cardinality({})
  <2>1. DOMAIN s.attempts = {}
    BY <1>1
  <2> QED
    BY <2>1 DEF Successes, AttemptCount
<1>4. Cardinality({}) = 0
  BY FS_EmptySet
<1>5. HistoryFollowsDefinition(s)
  BY <1>1 DEF HistoryFollowsDefinition
<1>6. \A step \in Steps : Limit[step] \in Nat \ {0}
  BY WorkflowAssumption
<1>7. Restorable(s)
  BY <1>1, <1>3, <1>4, <1>5, WorkflowAssumption DEF Restorable, States
<1>8. Sane(s) /\ Waits(s) /\ Moves(s)
  BY <1>1, <1>2, <1>3, <1>4, <1>6, <1>7 DEF Sane, Waits, Moves
<1>9. \A accepted : Backed(s, accepted)
  BY <1>1 DEF Backed, Granted
<1> QED
  BY <1>8, <1>9 DEF Sound, s

-----------------------------------------------------------------------------
(* The steps of the threads.                                               *)

\* The rest of an operation that came to something good.
LEMMA RestTypes ==
  ASSUME NEW o, NEW accepted, Good(o, accepted), NEW stores \in 0 .. 2
  PROVE  Rest(o, stores) \in Rests /\ Good(Rest(o, stores), accepted)
<1> DEFINE n == IF o.next = None THEN 0 ELSE stores
<1>1. /\ Rest(o, stores) = [emits |-> o.emits, next |-> o.next, first |-> FALSE, stores |-> n]
      /\ n \in 0 .. 2
  BY DEF Rest
<1> HIDE DEF n
<1>2. o.emits \in Seq(Events) /\ o.next \in {None} \cup WorkflowStates(Ids)
  BY DEF Good
<1>3. Rest(o, stores).emits = o.emits /\ Rest(o, stores).next = o.next
  BY <1>1
<1> QED
  BY <1>1, <1>2, <1>3 DEF Rests, Good

\* More accepted events make nothing worse.
LEMMA GoodByMore ==
  ASSUME NEW o, NEW J, NEW K, J \subseteq K, Good(o, J)
  PROVE  Good(o, K)
<1>1. o.next # None => Backed(o.next, K \cup Emitted(o.emits))
  BY DEF Good, Backed
<1>2. \A i \in DOMAIN o.emits : Approved(o.emits[i], K)
  BY DEF Good, Approved
<1> QED
  BY <1>1, <1>2 DEF Good

\* A thread goes on with what is good, or is done.
LEMMA CallMoves ==
  ASSUME IInv, NEW c \in Callers, NEW rest, call' = [call EXCEPT ![c] = rest],
         rest # None => rest \in Rests /\ Good(rest, journal), UNCHANGED <<engine, journal>>
  PROVE  IInv'
<1>1. call' \in [Callers -> {None} \cup Rests]
  BY DEF IInv
<1>2. \A d \in Callers : call'[d] # None => Good(call'[d], journal)
  BY DEF IInv
<1> QED
  BY <1>1, <1>2 DEF IInv

\* An operation begins on the state as it is.
LEMMA BeginKeeps ==
  ASSUME IInv, NEW c \in Callers, NEW outcomes, \A o \in outcomes : Good(o, journal),
         Begin(c, Once(outcomes)) \/ Begin(c, OnceOrTwice(outcomes))
  PROVE  IInv'
<1>1. \E rest : /\ rest \in Rests /\ Good(rest, journal)
                /\ call' = [call EXCEPT ![c] = rest]
  <2>1. PICK o \in outcomes, stores \in {1, 2} : call' = [call EXCEPT ![c] = Rest(o, stores)]
    BY DEF Begin, Once, OnceOrTwice
  <2>2. Rest(o, stores) \in Rests /\ Good(Rest(o, stores), journal)
    BY RestTypes
  <2> QED
    BY <2>1, <2>2
<1>2. UNCHANGED <<engine, journal>>
  BY DEF Begin
<1> QED
  BY <1>1, <1>2, CallMoves

\* start looks at the state and lets it go.
LEMMA StartKeeps ==
  ASSUME IInv, NEW c \in Callers, NEW id \in Ids, Start(c, id)
  PROVE  IInv'
<1> DEFINE s == Fresh(id)
           e == Event(s, "created", None)
           rest == [emits |-> <<e>>, next |-> s, first |-> TRUE, stores |-> 0]
<1>1. Sound(s) /\ (\A accepted : Backed(s, accepted)) /\ s \in WorkflowStates(Ids)
  BY FreshIsSound DEF Sound, Sane
<1>2. e \in Events /\ e.kind = "created"
  BY <1>1, EventTypes, Names DEF Event
<1>3. call' = [call EXCEPT ![c] = rest] /\ UNCHANGED <<engine, journal>>
  BY DEF Start
<1>4. s = Fresh(id)
  OBVIOUS
<1> HIDE DEF s, e
<1>5. Good(Outcome(<<e>>, s), journal)
  BY <1>1, <1>2, OneEvent DEF Approved
<1>6. Outcome(<<e>>, s).emits = <<e>> /\ Outcome(<<e>>, s).next = s
  BY DEF Outcome
<1>7. rest \in Rests /\ Good(rest, journal)
  <2>1. <<e>> \in Seq(Events)
    BY <1>2
  <2>2. rest.emits = <<e>> /\ rest.next = s /\ rest.first
    OBVIOUS
  <2>3. rest \in Rests
    BY <1>1, <1>4, <2>1 DEF Rests
  <2> HIDE DEF rest
  <2>4. Good(rest, journal)
    BY <1>5, <1>6, <2>2 DEF Good
  <2> QED
    BY <2>3, <2>4
<1> HIDE DEF rest
<1> QED
  BY <1>3, <1>7, CallMoves

\* start stores the new state, whatever is under the mutex by now.
LEMMA StartStoresKeeps ==
  ASSUME IInv, NEW c \in Callers, StartStores(c)
  PROVE  IInv'
<1> DEFINE r == call[c]
           rest == [r EXCEPT !.first = FALSE]
<1>1. r \in Rests /\ Good(r, journal) /\ r.first
  BY DEF IInv, StartStores, Idle
<1>2. engine' = r.next /\ call' = [call EXCEPT ![c] = rest] /\ journal' = journal
  BY DEF StartStores
<1>3. PICK id \in Ids : r.next = Fresh(id)
  BY <1>1 DEF Rests
<1>4. Sound(engine') /\ Backed(engine', journal) /\ engine' \in WorkflowStates(Ids)
  BY <1>2, <1>3, FreshIsSound DEF Sound, Sane
<1>5. rest \in Rests /\ rest.emits = r.emits /\ rest.next = r.next
  BY <1>1 DEF Rests
<1> HIDE DEF rest
<1>6. Good(rest, journal)
  BY <1>1, <1>5 DEF Good
<1>7. call' \in [Callers -> {None} \cup Rests]
      /\ \A d \in Callers : call'[d] # None => Good(call'[d], journal)
  BY <1>2, <1>5, <1>6 DEF IInv
<1> QED
  BY <1>2, <1>4, <1>7 DEF IInv

\* The callback takes an event.
LEMMA EmitKeeps ==
  ASSUME IInv, NEW c \in Callers, Emit(c)
  PROVE  IInv'
<1> DEFINE r == call[c]
           e == Head(r.emits)
           rest == [r EXCEPT !.emits = Tail(@)]
           goesOn == IF rest.emits = <<>> /\ rest.stores = 0 THEN None ELSE rest
<1>1. r \in Rests /\ Good(r, journal)
  BY DEF IInv, Emit, Idle
<1>2. r.emits \in Seq(Events) /\ r.emits # <<>>
  BY <1>1 DEF Rests, Emit
<1>3. /\ Len(r.emits) \in Nat \ {0} /\ DOMAIN r.emits = 1 .. Len(r.emits)
      /\ e \in Events /\ e = r.emits[1] /\ 1 \in DOMAIN r.emits
      /\ Tail(r.emits) \in Seq(Events)
      /\ DOMAIN Tail(r.emits) = 1 .. Len(r.emits) - 1
      /\ \A i \in 1 .. Len(r.emits) - 1 : Tail(r.emits)[i] = r.emits[i + 1]
  BY <1>2, HeadTailProperties, LenProperties, EmptySeq
<1>4. /\ journal' = journal \cup {x \in {e} : x.kind \in Recorded}
      /\ call' = [call EXCEPT ![c] = goesOn] /\ engine' = engine
  BY DEF Emit
<1>5. /\ rest \in Rests /\ rest.emits = Tail(r.emits) /\ rest.next = r.next
  BY <1>1, <1>3 DEF Rests
<1> HIDE DEF e, rest
<1>6. journal \subseteq journal' /\ Approved(e, journal)
  BY <1>1, <1>3, <1>4 DEF Good
<1>7. Emitted(r.emits) = {e} \cup Emitted(Tail(r.emits))
  <2>1. \A i \in DOMAIN r.emits : i = 1 \/ i - 1 \in DOMAIN Tail(r.emits)
    BY <1>3
  <2>2. \A i \in DOMAIN r.emits : i # 1 => r.emits[i] = Tail(r.emits)[i - 1]
    BY <1>3
  <2>3. \A i \in DOMAIN Tail(r.emits) : i + 1 \in DOMAIN r.emits /\ Tail(r.emits)[i] = r.emits[i + 1]
    BY <1>3
  <2> DEFINE w == r.emits
             v == Tail(r.emits)
  <2> HIDE DEF w, v
  <2>4. /\ e = w[1] /\ 1 \in DOMAIN w
        /\ \A i \in DOMAIN w : i = 1 \/ i - 1 \in DOMAIN v
        /\ \A i \in DOMAIN w : i # 1 => w[i] = v[i - 1]
        /\ \A i \in DOMAIN v : i + 1 \in DOMAIN w /\ v[i] = w[i + 1]
    BY <1>3, <2>1, <2>2, <2>3 DEF w, v
  <2>5. \A i \in DOMAIN w : w[i] \in {e} \cup Emitted(v)
    BY <2>4 DEF Emitted
  <2>6. \A i \in DOMAIN v : v[i] \in Emitted(w)
    BY <2>4 DEF Emitted
  <2>7. e \in Emitted(w)
    BY <2>4 DEF Emitted
  <2>8. Emitted(w) = {e} \cup Emitted(v)
    BY <2>5, <2>6, <2>7 DEF Emitted
  <2> QED
    BY <2>8 DEF w, v
<1>8. Good(rest, journal')
  <2>1. \A i \in DOMAIN rest.emits : Approved(rest.emits[i], journal')
    <3>1. \A i \in DOMAIN rest.emits : i + 1 \in DOMAIN r.emits /\ rest.emits[i] = r.emits[i + 1]
      BY <1>3, <1>5
    <3> QED
      BY <1>1, <1>6, <3>1 DEF Good, Approved
  <2>2. ASSUME rest.next # None
        PROVE  Sound(rest.next) /\ Backed(rest.next, journal' \cup Emitted(rest.emits))
    <3>1. Sound(r.next) /\ Backed(r.next, journal \cup Emitted(r.emits))
      BY <1>1, <1>5, <2>2 DEF Good
    <3>2. \A x \in journal \cup Emitted(r.emits) :
            x.kind \in Recorded => x \in journal' \cup Emitted(rest.emits)
      BY <1>4, <1>5, <1>7
    <3>3. ASSUME Granted(r.next)
          PROVE  Verdict("approved", r.next.pending) \in journal' \cup Emitted(rest.emits)
      BY <3>1, <3>2, <3>3 DEF Backed, Verdict, Recorded
    <3>4. ASSUME NEW k \in DOMAIN r.next.history
          PROVE  \E x \in journal' \cup Emitted(rest.emits) :
                   x.kind = "transition" /\ x.t = r.next.history[k].t
      BY <3>1, <3>2 DEF Backed, Recorded
    <3> QED
      BY <1>5, <3>1, <3>3, <3>4 DEF Backed
  <2> QED
    BY <1>3, <1>5, <2>1, <2>2 DEF Good, Rests
<1>9. call' \in [Callers -> {None} \cup Rests] /\ call'[c] = goesOn
      /\ \A d \in Callers : d # c => call'[d] = call[d]
  BY <1>4, <1>5 DEF IInv
<1>10. ASSUME NEW d \in Callers, call'[d] # None
       PROVE  Good(call'[d], journal')
  <2>1. CASE d = c
    BY <1>8, <1>9, <1>10, <2>1
  <2>2. CASE d # c
    <3>1. Good(call[d], journal)
      BY <1>9, <1>10, <2>2 DEF IInv
    <3> QED
      BY <1>6, <1>9, <2>2, <3>1, GoodByMore
  <2> QED
    BY <2>1, <2>2
<1>11. journal' \subseteq {x \in Events : x.kind \in Recorded}
  BY <1>3, <1>4 DEF IInv
<1>12. \A x \in journal' : Approved(x, journal')
  BY <1>4, <1>6 DEF IInv, Approved
<1>13. engine # None => Backed(engine, journal')
  BY <1>6, BackedByMore DEF IInv
<1> QED
  BY <1>4, <1>9, <1>10, <1>11, <1>12, <1>13 DEF IInv

\* The state is stored.
LEMMA StoreKeeps ==
  ASSUME IInv, NEW c \in Callers, Store(c)
  PROVE  IInv'
<1> DEFINE r == call[c]
           rest == IF r.stores > 1 THEN [r EXCEPT !.stores = @ - 1] ELSE None
<1>1. r \in Rests /\ Good(r, journal) /\ r.emits = <<>>
  BY DEF IInv, Store, Idle
<1>2. engine' = r.next /\ call' = [call EXCEPT ![c] = rest] /\ journal' = journal
  BY DEF Store
<1>3. rest = None \/ /\ rest \in Rests /\ rest.emits = r.emits /\ rest.next = r.next
  BY <1>1 DEF Rests
<1> HIDE DEF rest
<1>4. rest # None => Good(rest, journal)
  BY <1>1, <1>3 DEF Good
<1>5. call' \in [Callers -> {None} \cup Rests]
      /\ \A d \in Callers : call'[d] # None => Good(call'[d], journal)
  BY <1>2, <1>3, <1>4 DEF IInv
<1>6. Emitted(r.emits) = {}
  BY <1>1 DEF Emitted
<1>7. /\ r.next \in {None} \cup WorkflowStates(Ids)
      /\ r.next # None => Sound(r.next) /\ Backed(r.next, journal)
  <2>1. journal \cup {} = journal
    OBVIOUS
  <2> QED
    BY <1>1, <1>6, <2>1 DEF Good
<1>8. engine' # None => Sound(engine') /\ Backed(engine', journal)
  BY <1>2, <1>7
<1> QED
  BY <1>2, <1>5, <1>7, <1>8 DEF IInv

-----------------------------------------------------------------------------
(* The theorems.                                                           *)

\* Every step of a thread keeps the invariant.
LEMMA CallerStepKeeps ==
  ASSUME IInv, NEW c \in Callers, CallerStep(c)
  PROVE  IInv'
<1>1. engine # None => Sound(engine) /\ Backed(engine, journal)
  BY DEF IInv
<1>2. ASSUME NEW id \in Ids, Start(c, id)
      PROVE  IInv'
  BY <1>2, StartKeeps
<1>3. CASE Run(c)
  <2>1. PICK ask \in Asks : Begin(c, OnceOrTwice(Advance(engine, ask)))
    BY <1>3 DEF Run
  <2>2. \A o \in Advance(engine, ask) : Good(o, journal)
    BY <1>1, <2>1, AdvanceIsGood DEF Begin
  <2> QED
    BY <2>1, <2>2, BeginKeeps
<1>4. CASE RunResult(c)
  <2>1. PICK ok \in BOOLEAN, ask \in Asks : Begin(c, OnceOrTwice(StepResult(engine, ok, ask)))
    BY <1>4 DEF RunResult
  <2>2. \A o \in StepResult(engine, ok, ask) : Good(o, journal)
    BY <1>1, <2>1, StepResultIsGood DEF Begin
  <2> QED
    BY <2>1, <2>2, BeginKeeps
<1>5. CASE ResumeCall(c)
  <2>1. Begin(c, Once(Resume(engine)))
    BY <1>5 DEF ResumeCall
  <2>2. \A o \in Resume(engine) : Good(o, journal)
    BY <1>1, <2>1, ResumeIsGood DEF Begin
  <2> QED
    BY <2>1, <2>2, BeginKeeps
<1>6. CASE ApproveCheckpoint(c)
  <2>1. PICK d \in Supplied : Begin(c, Once(Approve(engine, d)))
    BY <1>6 DEF ApproveCheckpoint
  <2>2. \A o \in Approve(engine, d) : Good(o, journal)
    BY <1>1, <2>1, ApproveIsGood DEF Begin
  <2> QED
    BY <2>1, <2>2, BeginKeeps
<1>7. CASE ResolveCheckpoint(c)
  <2>1. PICK d \in Supplied, verdict \in {"rejected", "aborted"} :
          Begin(c, Once(Refuse(engine, d, verdict)))
    BY <1>7 DEF ResolveCheckpoint
  <2>2. \A o \in Refuse(engine, d, verdict) : Good(o, journal)
    BY <1>1, <2>1, RefuseIsGood DEF Begin
  <2> QED
    BY <2>1, <2>2, BeginKeeps
<1>8. CASE CancelCall(c)
  <2>1. Begin(c, Once(Cancel(engine)))
    BY <1>8 DEF CancelCall
  <2>2. \A o \in Cancel(engine) : Good(o, journal)
    BY <1>1, <2>1, CancelIsGood DEF Begin
  <2> QED
    BY <2>1, <2>2, BeginKeeps
<1>9. CASE Replan(c)
  <2>1. Begin(c, Once(RequestReplan(engine)))
    BY <1>9 DEF Replan
  <2>2. \A o \in RequestReplan(engine) : Good(o, journal)
    BY <1>1, <2>1, RequestReplanIsGood DEF Begin
  <2> QED
    BY <2>1, <2>2, BeginKeeps
<1>10. CASE Emit(c)
  BY <1>10, EmitKeeps
<1>11. CASE EmitFails(c)
  <2>1. call' = [call EXCEPT ![c] = None] /\ UNCHANGED <<engine, journal>>
    BY <1>11 DEF EmitFails
  <2> QED
    BY <2>1, CallMoves
<1>12. CASE Store(c)
  BY <1>12, StoreKeeps
<1>13. CASE StartStores(c)
  BY <1>13, StartStoresKeeps
<1> QED
  BY <1>2, <1>3, <1>4, <1>5, <1>6, <1>7, <1>8, <1>9, <1>10, <1>11, <1>12, <1>13
     DEF CallerStep

\* The invariant holds in every state.
LEMMA IInvHolds == Spec => []IInv
<1>1. Init => IInv
  BY DEF Init, IInv
<1>2. IInv /\ [Next]_vars => IInv'
  <2> SUFFICES ASSUME IInv, [Next]_vars
               PROVE  IInv'
    OBVIOUS
  <2>1. CASE UNCHANGED vars
    BY <2>1 DEF IInv, vars
  <2>2. CASE Next
    BY <2>2, CallerStepKeeps DEF Next
  <2> QED
    BY <2>1, <2>2
<1> QED
  BY <1>1, <1>2, PTL DEF Spec

\* TypeOK of the specification: the engine's state is one its records can hold, and
\* a thread carries an outcome of an operation.
THEOREM TypesHold == Spec => []TypeOK
<1>1. IInv => TypeOK
  <2> SUFFICES ASSUME IInv PROVE TypeOK
    OBVIOUS
  <2>1. ASSUME NEW c \in Callers, call[c] # None
        PROVE  /\ call[c].next \in {None} \cup WorkflowStates(Ids)
               /\ call[c].first \in BOOLEAN /\ call[c].stores \in 0 .. 2
               /\ \A i \in DOMAIN call[c].emits : call[c].emits[i].kind \in Kinds
    <3>1. call[c] \in Rests
      BY <2>1 DEF IInv
    <3>2. call[c].emits \in Seq(Events)
      BY <3>1 DEF Rests
    <3>3. \A i \in DOMAIN call[c].emits : call[c].emits[i] \in Events
      BY <3>2, ElementOfSeq, LenProperties
    <3> QED
      BY <3>1, <3>3 DEF Rests, Events
  <2> QED
    BY <2>1 DEF IInv, TypeOK
<1> QED
  BY <1>1, IInvHolds, PTL

\* RestorableAlways of the specification: whatever two threads overwrite of each
\* other, a snapshot of the state under the mutex is one validate_restored takes.
THEOREM RestorableHolds == Spec => []RestorableAlways
<1>1. IInv => RestorableAlways
  BY DEF IInv, Sound, Sane, RestorableAlways
<1> QED
  BY <1>1, IInvHolds, PTL

\* GatesWereGranted of the specification: a gated transition was accepted by the
\* callback only after an approval of that transition in that very state.
THEOREM GatesHold == Spec => []GatesWereGranted
<1>1. IInv => GatesWereGranted
  BY DEF IInv, Approved, GatesWereGranted
<1> QED
  BY <1>1, IInvHolds, PTL

\* JournalLeads of the specification: what the history and the approval in force
\* rest on was accepted by the callback before it was stored.
THEOREM JournalLeadsHolds == Spec => []JournalLeads
<1>1. IInv => JournalLeads
  BY DEF IInv, Backed, JournalLeads
<1> QED
  BY <1>1, IInvHolds, PTL

\* WaitsOrMoves of the specification: a workflow waits exactly when there is an
\* approval to wait for, and is never left running before a step without attempts.
THEOREM WaitsOrMovesHolds == Spec => []WaitsOrMoves
<1>1. IInv => WaitsOrMoves
  BY Names DEF IInv, Sound, Sane, Waits, Moves, Terminal, WaitsOrMoves
<1> QED
  BY <1>1, IInvHolds, PTL
=============================================================================
