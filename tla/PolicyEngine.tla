---------------------------- MODULE PolicyEngine ----------------------------
(***************************************************************************)
(* The capability policy of kala-kernel (policy.rs): requests bound to a   *)
(* state and an action digest, the records of what actors decided about    *)
(* them, the tool classes remembered from those decisions, and the         *)
(* eviction that keeps all three bounded.  Every operation runs under the  *)
(* engine's mutex from its first look at the state to its last change.     *)
(* The clock stands still: grants do not expire.  No caller in the         *)
(* repository gives a scope, so a tool class is its action digest.         *)
(***************************************************************************)
EXTENDS Integers, Sequences, FiniteSets

CONSTANTS
  Requests,        \* what may be asked: records [id, state, action, caps, kind]
  Limit,           \* max_tracked_requests
  Refused,         \* the statuses rejected and aborted, which the code treats alike
  Revocable        \* bound: the grants that come and go

Kinds == {"plain", "gated", "class"}

ASSUME PolicyAssumption ==
  /\ Refused \cap {"pending", "approved", "invalidated", "allowed", "denied", "error"} = {}
  /\ Limit \in Nat \ {0} /\ Revocable \subseteq UNION {r.caps : r \in Requests}
  /\ \A r \in Requests :
       DOMAIN r = {"id", "state", "action", "caps", "kind"} /\ r.kind \in Kinds

VARIABLES
  inner,           \* Inner: requests by recency, approvals and classes by insertion
  granted,         \* the capabilities granted
  consent          \* history: keys an actor approved and nobody withdrew since

vars == <<inner, granted, consent>>

Ids == {r.id : r \in Requests}
Capabilities == UNION {r.caps : r \in Requests}
Key(r) == <<r.id, r.state, r.action>>
Keys == {Key(r) : r \in Requests}

Open == {"pending", "approved"}
Statuses == Refused \cup Open \cup {"invalidated"}

Approval(key, status) == [key |-> key, status |-> status]
Records(m) == {m.approvals[k] : k \in DOMAIN m.approvals}
Found(m, key) == {a \in Records(m) : a.key = key}
Tracked(m) == {m.requests[k].id : k \in DOMAIN m.requests}

\* The entries of s that Keep says yes to, in their order.
Picked(s, places) ==
  [k \in 1..Cardinality(places) |->
     s[CHOOSE i \in places : Cardinality(places \cap 1..i) = k]]
Selected(s, Keep(_)) == Picked(s, {k \in DOMAIN s : Keep(s[k])})

(*--------------------------- eviction -----------------------------------*)

\* eviction_tier_locked: what is forgotten last has the highest tier.
Tier(m, id) ==
  LET statuses == {m.approvals[k].status : k \in {i \in DOMAIN m.approvals : m.approvals[i].key[1] = id}}
  IN  IF "pending" \in statuses THEN 3
      ELSE IF statuses \cap Refused # {} THEN 2
      ELSE IF "approved" \in statuses THEN 1 ELSE 0

\* Mutant: the oldest request goes first, whatever was decided about it.
AgeOnly(m) == [k \in DOMAIN m.requests |-> k]

\* The order in which requests are discarded: by tier, the oldest first.
Rank(m) == [k \in DOMAIN m.requests |-> Tier(m, m.requests[k].id) * (Len(m.requests) + 1) + k]

\* Mutant: the records of a discarded request stay.
WithoutRequests(m, ids) ==
  [m EXCEPT !.requests = Selected(@, LAMBDA r : r.id \notin ids)]

\* discard_request_locked, for each of ids.
Without(m, ids) ==
  [m EXCEPT !.requests  = Selected(@, LAMBDA r : r.id \notin ids),
            !.approvals = Selected(@, LAMBDA a : a.key[1] \notin ids)]

Fits(m) == Len(m.requests) <= Limit /\ Len(m.approvals) <= Limit

\* What is left without ids is within the limit.
Room(m, ids) ==
  /\ Cardinality({k \in DOMAIN m.requests : m.requests[k].id \notin ids}) <= Limit
  /\ Cardinality({k \in DOMAIN m.approvals : m.approvals[k].key[1] \notin ids}) <= Limit

\* A request is discarded when discarding all that rank before it is not enough.
Discarded(m) ==
  LET rank == Rank(m)
      Before(k) == {m.requests[j].id : j \in {i \in DOMAIN rank : rank[i] < rank[k]}}
  IN  {m.requests[k].id : k \in {i \in DOMAIN rank : ~Room(m, Before(i))}}

\* The records whose request is tracked.
Owned(m) == [m EXCEPT !.approvals = Selected(@, LAMBDA a : a.key[1] \in Tracked(m))]

\* prune_locked
Pruned(m) == IF Fits(m) THEN m ELSE Without(Owned(m), Discarded(Owned(m)))

(*--------------------------- helpers ------------------------------------*)

\* track_request_locked: the newest request is the last one.
Track(m, r) == [m EXCEPT !.requests = Append(Selected(@, LAMBDA q : q.id # r.id), r)]

\* store_approval_locked
Store(m, key, status) ==
  [m EXCEPT !.approvals = Append(Selected(@, LAMBDA a : a.key # key), Approval(key, status))]

Forget(m, action) == [m EXCEPT !.classes = Selected(@, LAMBDA c : c.action # action)]

\* tool_class_approved_locked
ClassApproved(m, r) ==
  /\ r.kind = "class"
  /\ \E k \in DOMAIN m.classes : m.classes[k] = [action |-> r.action, caps |-> r.caps]

\* remember_tool_class_locked: a known class keeps its place, a new one may push
\* the oldest out.
Remember(m, r) ==
  LET class == [action |-> r.action, caps |-> r.caps]
      known == {k \in DOMAIN m.classes : m.classes[k].action = r.action}
      longer == Append(m.classes, class)
      remembered == IF known # {} THEN [k \in DOMAIN m.classes |-> IF k \in known THEN class ELSE m.classes[k]]
                    ELSE IF Len(longer) > Limit THEN Tail(longer) ELSE longer
  IN  IF r.kind # "class" THEN m ELSE [m EXCEPT !.classes = remembered]

\* What an operation leaves behind, what it answers, and whose approval it took back.
Answer(m, status, withdrawn) == [inner |-> m, status |-> status, withdrawn |-> withdrawn]

\* Mutant: what was refused is marked invalidated as well.
VoidsAnything(m, approval) ==
  Answer(Pruned(Store(Forget(m, approval.key[3]), approval.key, "invalidated")),
         "invalidated", {approval.key})

\* Mutant: the tool class outlives the approval it came from.
VoidsRecordOnly(m, approval) ==
  IF approval.status \in Refused
  THEN Answer(Pruned(m), approval.status, {})
  ELSE Answer(Pruned(Store(m, approval.key, "invalidated")), "invalidated", {approval.key})

\* invalidate_record_locked: a refusal stays what it is.
Void(m, approval) ==
  LET forgotten == Forget(m, approval.key[3])
  IN  IF approval.status \in Refused
      THEN Answer(Pruned(forgotten), approval.status, {})
      ELSE Answer(Pruned(Store(forgotten, approval.key, "invalidated")), "invalidated", {approval.key})

\* conflicting_approval_locked: the newest open record of the same request under
\* other digests, as a set of at most one.
Conflicting(m, r) ==
  LET open == {k \in DOMAIN m.approvals : /\ m.approvals[k].key[1] = r.id
                                          /\ m.approvals[k].key # Key(r)
                                          /\ m.approvals[k].status \in Open}
  IN  {m.approvals[k] : k \in {i \in open : \A j \in open : j <= i}}

\* stale_approval_locked: the record an actor who gave key was not looking at.
Stale(m, r, key) ==
  LET own == {a \in Found(m, Key(r)) : a.key # key}
  IN  IF own # {} THEN own ELSE {a \in Conflicting(m, r) : a.key # key}

(*--------------------------- decide -------------------------------------*)

\* capability_state_locked, and the refusal to gate what names no capability.
Grantable(r) == /\ r.kind # "plain" => r.caps # {}
                /\ r.caps \subseteq granted

\* decide_locked, once the request is tracked.
Outcome(tracked, r) ==
  LET records == Found(tracked, Key(r))
      conflicts == Conflicting(tracked, r)
      Allowed == Answer(Pruned(Remember(tracked, r)), "allowed", {})
  IN  CASE ~Grantable(r)                                   -> Answer(Pruned(tracked), "denied", {})
        [] Grantable(r) /\ (r.kind = "plain" \/ ClassApproved(tracked, r)) -> Allowed
        [] OTHER ->
             IF records # {}
             THEN LET record == CHOOSE a \in records : TRUE
                  IN  IF record.status = "approved" THEN Allowed
                      ELSE Answer(Pruned(tracked), record.status, {})
             ELSE IF conflicts # {}
                  THEN Void(tracked, CHOOSE a \in conflicts : TRUE)
                  ELSE Answer(Pruned(tracked), "pending", {})

Decision(m, r) == Outcome(Track(m, r), r)

(*--------------------------- operations ---------------------------------*)

\* Each begins by tracking its request; tracked is the engine after that.

Init ==
  /\ inner = [requests |-> <<>>, approvals |-> <<>>, classes |-> <<>>]
  /\ granted = Capabilities
  /\ consent = {}

Gives(answer, given) ==
  /\ \E a \in {answer} : inner' = a.inner /\ consent' = (consent \cup given) \ a.withdrawn
  /\ UNCHANGED granted

\* decide and its aliases.
Decide(r, tracked) == Gives(Outcome(tracked, r), {})

\* request_approval: the record there is, or a pending one in place of none or of
\* an invalidated one.
RequestApproval(r, tracked) ==
  LET current == {a \in Found(tracked, Key(r)) : a.status # "invalidated"}
  IN  Gives(IF current # {}
               THEN Answer(Pruned(tracked), (CHOOSE a \in current : TRUE).status, {})
               ELSE Answer(Pruned(Store(tracked, Key(r), "pending")), "pending", {}), {})

\* The record an actor decides: that of the digests they give, pending when there is none.
Addressed(m, key) ==
  IF Found(m, key) # {} THEN CHOOSE a \in Found(m, key) : TRUE ELSE Approval(key, "pending")

\* The digests the actor saw are not those of the open record: that one is invalidated.
DecideStale(r, tracked, key) ==
  /\ Found(tracked, key) = {} /\ Stale(tracked, r, key) # {}
  /\ Gives(Void(tracked, CHOOSE a \in Stale(tracked, r, key) : TRUE), {})

\* The record is resolved already: PolicyTransitionError.
DecideAgain(tracked, key) ==
  /\ Found(tracked, key) # {} /\ Addressed(tracked, key).status # "pending"
  /\ Gives(Answer(tracked, "error", {}), {})

Decidable(m, r, key) ==
  /\ Found(m, key) = {} => Stale(m, r, key) = {}
  /\ Addressed(m, key).status = "pending"

\* approve_locked: the record, then the decision that follows from it.
Approve(r, tracked, key) ==
  /\ Decidable(tracked, r, key)
  /\ Gives(Decision(Pruned(Store(tracked, key, "approved")), r), {key})

\* resolve_non_approval_locked: reject and abort.
Refuse(r, tracked, key, status) ==
  LET refused == Pruned(Store(Forget(tracked, key[3]), key, status))
      decision == Decision(refused, r)
  IN  /\ Decidable(tracked, r, key)
      /\ Gives([decision EXCEPT !.withdrawn = @ \cup {key}], {})

\* invalidate; it tracks the request even when there is nothing to invalidate, and
\* does not prune then.
Invalidate(tracked, key) ==
  Gives(IF Found(tracked, key) = {} THEN Answer(tracked, "error", {})
           ELSE Void(Pruned(tracked), Addressed(tracked, key)), {})

\* forget_tool_class
ForgetToolClass(action) ==
  /\ inner' = Forget(inner, action)
  /\ UNCHANGED <<granted, consent>>

\* grant and revoke
Grant(c) ==
  /\ granted' = granted \cup {c}
  /\ UNCHANGED <<inner, consent>>
Revoke(c) ==
  /\ granted' = granted \ {c}
  /\ UNCHANGED <<inner, consent>>

\* PolicyState::validate
Valid(m) ==
  /\ \A j, k \in DOMAIN m.requests : m.requests[j].id = m.requests[k].id => j = k
  /\ \A j, k \in DOMAIN m.approvals : m.approvals[j].key = m.approvals[k].key => j = k
  /\ \A a \in Records(m) : a.key[1] \in Tracked(m)
  /\ \A j, k \in DOMAIN m.classes : m.classes[j].action = m.classes[k].action => j = k

\* A launch imports what the last unit of work exported.
Reload ==
  /\ Valid(inner)
  /\ inner' = Pruned(inner)
  /\ UNCHANGED <<granted, consent>>

KeysFor(r) == {key \in Keys : key[1] = r.id}

\* A call about request r.
Serve(r) ==
  \E tracked \in {Track(inner, r)} :
    \/ Decide(r, tracked)
    \/ RequestApproval(r, tracked)
    \/ \E key \in KeysFor(r) :
         \/ DecideStale(r, tracked, key)
         \/ DecideAgain(tracked, key)
         \/ Approve(r, tracked, key)
         \/ \E status \in Refused : Refuse(r, tracked, key, status)
         \/ Invalidate(tracked, key)

Next ==
  \/ \E r \in Requests : Serve(r) \/ ForgetToolClass(r.action)
  \/ \E c \in Revocable : Grant(c) \/ Revoke(c)
  \/ Reload

Spec == Init /\ [][Next]_vars

-----------------------------------------------------------------------------

\* What the engine holds has its type and is a state its own import accepts: no record
\* without its request, no key twice, records and tool classes within the limit.
TypeOK ==
  /\ inner.requests \in Seq(Requests)
  /\ \A a \in Records(inner) : a.key \in Keys /\ a.status \in Statuses
  /\ granted \subseteq Capabilities /\ consent \subseteq Keys
  /\ Valid(inner)
  /\ Len(inner.approvals) <= Limit /\ Len(inner.classes) <= Limit

\* A request that needs an approval is allowed only on an actor's approval of that very
\* request under those very digests, or of a request for the same action and the same
\* capabilities where tool classes are remembered, which nobody took back since by
\* rejecting it or by showing other digests.
AllowedIsApproved ==
  \A asked \in Requests :
    Decision(inner, asked).status = "allowed" /\ asked.kind # "plain" =>
      \/ Key(asked) \in consent
      \/ /\ asked.kind = "class"
         /\ \E r \in Requests : /\ r.kind = "class" /\ Key(r) \in consent
                                /\ r.action = asked.action /\ r.caps = asked.caps

\* What the limit pushes out is never worth more than what stays, the request the call is
\* about left aside: a pending one goes only when all that stay are pending, a refused one
\* only when all that stay are refused or pending.  And no call that records anything
\* leaves more requests than the limit.
EvictionOrder ==
  [][/\ \A gone \in Tracked(inner) \ Tracked(inner'), left \in Tracked(inner') :
          Tier(inner, gone) > Tier(inner', left) =>
            \A asked \in Requests : Serve(asked) => asked.id \in {gone, left}
     /\ Len(inner'.requests) > Limit => inner'.approvals = inner.approvals]_vars

\* A rejection or an abort stays what it is for as long as the engine has room for it: no
\* later approval, invalidation, request for approval or change of digests overwrites it.
RefusalStands ==
  [][\A a \in Records(inner) : a.status \in Refused => Found(inner', a.key) \subseteq {a}]_vars

=============================================================================
