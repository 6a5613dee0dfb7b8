------------------------- MODULE PolicyEngineProofs -------------------------
(***************************************************************************)
(* Proofs about PolicyEngine: what the engine holds is always a state its  *)
(* own import accepts, whatever is evicted, and what is evicted is the     *)
(* least; what it allows rests on an approval that stands; and a refusal   *)
(* is never overwritten.                                                   *)
(***************************************************************************)
EXTENDS PolicyEngine, FiniteSetTheorems, SequenceTheorems, WellFoundedInduction, TLAPS

-----------------------------------------------------------------------------
(* What is picked from a sequence.                                         *)

\* The k-th entry picked is that of place at[k]: every place has one, and no place two.
Placing(at, s, P) ==
  /\ at \in [1 .. Cardinality(P) -> P]
  /\ \A k \in 1 .. Cardinality(P) : Picked(s, P)[k] = s[at[k]]
  /\ \A j, k \in 1 .. Cardinality(P) : at[j] = at[k] => j = k
  /\ \A i \in P : \E k \in 1 .. Cardinality(P) : at[k] = i

LEMMA PickedPlaces ==
  ASSUME NEW S, NEW s \in Seq(S), NEW P \in SUBSET (DOMAIN s)
  PROVE  /\ Cardinality(P) \in Nat /\ Cardinality(P) <= Len(s)
         /\ Picked(s, P) \in Seq(S) /\ Len(Picked(s, P)) = Cardinality(P)
         /\ \E at : Placing(at, s, P)
<1> DEFINE n == Cardinality(P)
           Upto(i) == Cardinality(P \cap 1 .. i)
           count == [i \in P |-> Upto(i)]
           at == [k \in 1 .. n |-> CHOOSE i \in P : Upto(i) = k]
<1>1. /\ P \subseteq Nat /\ DOMAIN s = 1 .. Len(s) /\ Len(s) \in Nat
      /\ IsFiniteSet(1 .. Len(s)) /\ Cardinality(1 .. Len(s)) = Len(s)
  <2>1. DOMAIN s = 1 .. Len(s) /\ Len(s) \in Nat
    BY LenProperties
  <2>2. \A k \in Nat : IsFiniteSet(1 .. k) /\ Cardinality(1 .. k) = k
    <3>1. \A k \in Nat : IsFiniteSet(1 .. k) /\ Cardinality(1 .. k) = IF 1 > k THEN 0 ELSE k - 1 + 1
      BY FS_Interval
    <3> QED
      BY <3>1
  <2> QED
    BY <2>1, <2>2
<1>2. IsFiniteSet(P) /\ n \in Nat /\ n <= Len(s)
  <2>1. IsFiniteSet(P) /\ Cardinality(P) <= Cardinality(1 .. Len(s))
    BY <1>1, FS_Subset
  <2> QED
    BY <2>1, <1>1, FS_CardinalityType
<1>3. ASSUME NEW i \in P
      PROVE  Upto(i) \in 1 .. n
  <2>1. P \cap 1 .. i \in SUBSET P /\ i \in P \cap 1 .. i
    BY <1>1
  <2>2. IsFiniteSet(P \cap 1 .. i) /\ Upto(i) <= n
    BY <2>1, <1>2, FS_Subset
  <2>3. Upto(i) \in Nat /\ Upto(i) # 0
    BY <2>1, <2>2, FS_CardinalityType, FS_EmptySet
  <2> QED
    BY <2>2, <2>3, <1>2
<1>4. ASSUME NEW i \in P, NEW j \in P, i < j
      PROVE  Upto(i) < Upto(j)
  <2> DEFINE A == P \cap 1 .. i
             B == P \cap 1 .. j
  <2>1. A \in SUBSET B /\ B \in SUBSET P /\ j \in B /\ j \notin A
    BY <1>1, <1>4
  <2>2. IsFiniteSet(B)
    BY <2>1, <1>2, FS_Subset
  <2>3. Cardinality(A) <= Cardinality(B) /\ (Cardinality(B) = Cardinality(A) => B = A)
    BY <2>1, <2>2, FS_Subset
  <2>4. Upto(i) \in Nat /\ Upto(j) \in Nat
    BY <1>3
  <2> QED
    BY <2>1, <2>3, <2>4
<1>5. count \in Injection(P, 1 .. n)
  <2>1. count \in [P -> 1 .. n]
    BY <1>3
  <2>2. ASSUME NEW i \in P, NEW j \in P, count[i] = count[j]
        PROVE  i = j
    <3>1. i \in Nat /\ j \in Nat /\ Upto(i) \in Nat /\ Upto(j) \in Nat
      BY <1>1, <1>3
    <3>2. Upto(i) = Upto(j)
      BY <2>2
    <3> HIDE DEF Upto, count
    <3> QED
      BY <1>4, <3>1, <3>2
  <2> QED
    BY <2>1, <2>2 DEF Injection, IsInjective
<1>6. \A k \in 1 .. n : \E i \in P : Upto(i) = k
  <2>1. IsFiniteSet(1 .. n) /\ Cardinality(1 .. n) = n
    BY <1>2, FS_Interval
  <2>2. count \in Surjection(P, 1 .. n)
    BY <1>5, <2>1, FS_Injection
  <2>3. \A k \in 1 .. n : \E i \in P : count[i] = k
    BY <2>2 DEF Surjection
  <2> QED
    BY <2>3
<1>7. \A k \in 1 .. n : at[k] \in P /\ Upto(at[k]) = k
  BY <1>6
<1>8. Picked(s, P) = [k \in 1 .. n |-> s[at[k]]]
  BY DEF Picked
<1> HIDE DEF at
<1>9. \A k \in 1 .. n : s[at[k]] \in S
  <2>1. \A i \in P : s[i] \in S
    BY <1>1, LenProperties
  <2> QED
    BY <1>7, <2>1
<1>10. Picked(s, P) \in Seq(S) /\ Len(Picked(s, P)) = n
  <2>1. Picked(s, P) \in [1 .. n -> S]
    BY <1>8, <1>9
  <2>2. Picked(s, P) \in Seq(S)
    BY <2>1, <1>2, SeqDef
  <2>3. DOMAIN Picked(s, P) = 1 .. n
    BY <2>1
  <2> QED
    BY <2>2, <2>3, <1>2, LenProperties
<1>11. at \in [1 .. n -> P]
  BY <1>7 DEF at
<1>12. \A j, k \in 1 .. n : at[j] = at[k] => j = k
  BY <1>7
<1>13. \A i \in P : \E k \in 1 .. n : at[k] = i
  <2> TAKE i \in P
  <2>1. Upto(i) \in 1 .. n
    BY <1>3
  <2>2. at[Upto(i)] \in P /\ Upto(at[Upto(i)]) = Upto(i)
    BY <2>1, <1>7
  <2>3. count[at[Upto(i)]] = count[i]
    BY <2>2
  <2>4. at[Upto(i)] = i
    BY <2>2, <2>3, <1>5 DEF Injection, IsInjective
  <2> QED
    BY <2>1, <2>4
<1>14. Placing(at, s, P)
  BY <1>8, <1>11, <1>12, <1>13 DEF Placing
<1> QED
  BY <1>2, <1>10, <1>14

\* The same in terms of entries: those of q are those of s at P, none twice.
Taken(q, s, P) ==
  /\ \A k \in DOMAIN q : \E i \in P : q[k] = s[i]
  /\ \A i \in P : \E k \in DOMAIN q : q[k] = s[i]
  /\ \A j, k \in DOMAIN q : \E i, l \in P : q[j] = s[i] /\ q[k] = s[l] /\ (i = l => j = k)

LEMMA PickedEntries ==
  ASSUME NEW S, NEW s \in Seq(S), NEW P \in SUBSET (DOMAIN s)
  PROVE  /\ Picked(s, P) \in Seq(S)
         /\ Len(Picked(s, P)) = Cardinality(P) /\ Cardinality(P) <= Len(s)
         /\ Taken(Picked(s, P), s, P)
<1> DEFINE n == Cardinality(P)
           p == Picked(s, P)
<1>1. PICK at : Placing(at, s, P)
  BY PickedPlaces
<1>2. p \in Seq(S) /\ Len(p) = n /\ n <= Len(s)
  BY PickedPlaces
<1>3. DOMAIN p = 1 .. n
  BY <1>2
<1> HIDE DEF p
<1>4. /\ \A k \in DOMAIN p : \E i \in P : p[k] = s[i]
      /\ \A i \in P : \E k \in DOMAIN p : p[k] = s[i]
  BY <1>1, <1>3 DEF Placing, p
<1>5. \A j, k \in DOMAIN p : \E i, l \in P : p[j] = s[i] /\ p[k] = s[l] /\ (i = l => j = k)
  <2> TAKE j, k \in DOMAIN p
  <2>1. at[j] \in P /\ at[k] \in P /\ p[j] = s[at[j]] /\ p[k] = s[at[k]] /\ (at[j] = at[k] => j = k)
    BY <1>1, <1>3 DEF Placing, p
  <2> QED
    BY <2>1
<1> QED
  BY <1>2, <1>4, <1>5 DEF Taken, p

-----------------------------------------------------------------------------
(* What the engine may hold, and the operators it is changed by.            *)

Decisions == [key : Keys, status : Statuses]
ToolClasses == [action : {r.action : r \in Requests}, caps : {r.caps : r \in Requests}]
Inners == [requests : Seq(Requests), approvals : Seq(Decisions), classes : Seq(ToolClasses)]

Known(m) == {m.classes[k] : k \in DOMAIN m.classes}

Whole(m) == m \in Inners /\ Valid(m) /\ Len(m.classes) <= Limit

\* The request that is tracked comes last; nothing else changes.
LEMMA TrackKeeps ==
  ASSUME NEW m, Whole(m), NEW r \in Requests
  PROVE  /\ Whole(Track(m, r))
         /\ Track(m, r).approvals = m.approvals /\ Track(m, r).classes = m.classes
         /\ Tracked(Track(m, r)) = Tracked(m) \cup {r.id}
         /\ Len(Track(m, r).requests) > 0
         /\ Track(m, r).requests[Len(Track(m, r).requests)] = r
<1> DEFINE P == {k \in DOMAIN m.requests : m.requests[k].id # r.id}
           q == Picked(m.requests, P)
           t == Append(q, r)
           m2 == Track(m, r)
<1>1. /\ m \in Inners /\ Valid(m) /\ m.requests \in Seq(Requests)
      /\ P \in SUBSET (DOMAIN m.requests)
  BY DEF Whole, Inners
<1>2. m2 = [m EXCEPT !.requests = t]
  BY DEF Track, Selected
<1>3. q \in Seq(Requests) /\ Taken(q, m.requests, P)
  BY <1>1, PickedEntries
<1> HIDE DEF q
<1>4. /\ t \in Seq(Requests) /\ Len(t) = Len(q) + 1 /\ Len(q) \in Nat
      /\ DOMAIN q = 1 .. Len(q) /\ DOMAIN t = 1 .. Len(q) + 1
      /\ \A k \in 1 .. Len(q) : t[k] = q[k]
      /\ t[Len(q) + 1] = r
  <2>1. Len(q) \in Nat /\ DOMAIN q = 1 .. Len(q)
    BY <1>3, LenProperties
  <2>2. /\ t \in Seq(Requests) /\ Len(t) = Len(q) + 1
        /\ \A k \in 1 .. Len(q) : t[k] = q[k]
        /\ t[Len(q) + 1] = r
    BY <1>3, AppendProperties
  <2>3. DOMAIN t = 1 .. Len(t)
    BY <2>2, LenProperties
  <2> QED
    BY <2>1, <2>2, <2>3
<1> HIDE DEF t
<1>5. m2 \in Inners /\ m2.requests = t /\ m2.approvals = m.approvals /\ m2.classes = m.classes
  BY <1>1, <1>2, <1>4 DEF Inners
<1>6. \A k \in DOMAIN q : \E i \in P : q[k] = m.requests[i]
  BY <1>3 DEF Taken
<1>7. \A i \in P : \E k \in DOMAIN q : q[k] = m.requests[i]
  BY <1>3 DEF Taken
<1>8. \A k \in DOMAIN q : q[k].id # r.id
  BY <1>6
<1>9. \A j, k \in DOMAIN t : t[j].id = t[k].id => j = k
  <2>1. ASSUME NEW j \in DOMAIN q, NEW k \in DOMAIN q, q[j].id = q[k].id
        PROVE  j = k
    <3>1. PICK i \in P, l \in P :
             q[j] = m.requests[i] /\ q[k] = m.requests[l] /\ (i = l => j = k)
      BY <1>3 DEF Taken
    <3>2. i \in DOMAIN m.requests /\ l \in DOMAIN m.requests /\ m.requests[i].id = m.requests[l].id
      BY <2>1, <3>1
    <3>3. i = l
      BY <1>1, <3>2 DEF Valid
    <3> QED
      BY <3>1, <3>3
  <2> QED
    BY <2>1, <1>4, <1>8
<1>10. Tracked(m2) = Tracked(m) \cup {r.id}
  <2>1. Tracked(m2) = {t[k].id : k \in DOMAIN t}
    BY <1>5 DEF Tracked
  <2>2. ASSUME NEW k \in DOMAIN t
        PROVE  t[k].id \in Tracked(m) \cup {r.id}
    <3>1. CASE k = Len(q) + 1
      BY <3>1, <1>4
    <3>2. CASE k \in DOMAIN q
      <4>1. PICK i \in P : q[k] = m.requests[i]
        BY <3>2, <1>6
      <4>2. t[k].id = m.requests[i].id /\ i \in DOMAIN m.requests
        BY <4>1, <3>2, <1>4
      <4> QED
        BY <4>2 DEF Tracked
    <3> QED
      BY <3>1, <3>2, <1>4
  <2>3. r.id \in {t[k].id : k \in DOMAIN t}
    BY <1>4
  <2>4. ASSUME NEW i \in DOMAIN m.requests, m.requests[i].id # r.id
        PROVE  m.requests[i].id \in {t[k].id : k \in DOMAIN t}
    <3>1. PICK k \in DOMAIN q : q[k] = m.requests[i]
      BY <2>4, <1>7
    <3>2. k \in DOMAIN t /\ t[k] = m.requests[i]
      BY <3>1, <1>4
    <3> QED
      BY <3>2
  <2>5. Tracked(m) \subseteq {t[k].id : k \in DOMAIN t}
    BY <2>3, <2>4 DEF Tracked
  <2> QED
    BY <2>1, <2>2, <2>3, <2>5
<1>11. Valid(m2)
  <2>1. Records(m2) = Records(m)
    BY <1>5 DEF Records
  <2> QED
    BY <2>1, <1>1, <1>5, <1>9, <1>10 DEF Valid
<1>12. Len(m2.classes) <= Limit
  BY <1>5 DEF Whole
<1> QED
  BY <1>4, <1>5, <1>10, <1>11, <1>12 DEF Whole

\* Storing a record takes the place of the one under the same key.
LEMMA StoreKeeps ==
  ASSUME NEW m, Whole(m), NEW key \in Keys, NEW status \in Statuses, key[1] \in Tracked(m)
  PROVE  /\ Whole(Store(m, key, status))
         /\ Store(m, key, status).requests = m.requests
         /\ Store(m, key, status).classes = m.classes
         /\ Records(Store(m, key, status)) =
              {a \in Records(m) : a.key # key} \cup {Approval(key, status)}
<1> DEFINE P == {k \in DOMAIN m.approvals : m.approvals[k].key # key}
           q == Picked(m.approvals, P)
           new == Approval(key, status)
           t == Append(q, new)
           m2 == Store(m, key, status)
<1>1. /\ m \in Inners /\ Valid(m) /\ m.approvals \in Seq(Decisions)
      /\ P \in SUBSET (DOMAIN m.approvals)
  BY DEF Whole, Inners
<1>2. m2 = [m EXCEPT !.approvals = t]
  BY DEF Store, Selected
<1>3. q \in Seq(Decisions) /\ Taken(q, m.approvals, P)
  BY <1>1, PickedEntries
<1> HIDE DEF q
<1>0. new \in Decisions /\ new.key = key
  BY DEF Approval, Decisions
<1> HIDE DEF new
<1>4. /\ t \in Seq(Decisions) /\ Len(q) \in Nat
      /\ DOMAIN q = 1 .. Len(q) /\ DOMAIN t = 1 .. Len(q) + 1
      /\ \A k \in 1 .. Len(q) : t[k] = q[k]
      /\ t[Len(q) + 1] = new
  <2>1. Len(q) \in Nat /\ DOMAIN q = 1 .. Len(q)
    BY <1>3, LenProperties
  <2>2. /\ t \in Seq(Decisions) /\ Len(t) = Len(q) + 1
        /\ \A k \in 1 .. Len(q) : t[k] = q[k]
        /\ t[Len(q) + 1] = new
    BY <1>0, <1>3, AppendProperties
  <2>3. DOMAIN t = 1 .. Len(t)
    BY <2>2, LenProperties
  <2> QED
    BY <2>1, <2>2, <2>3
<1> HIDE DEF t
<1>5. m2 \in Inners /\ m2.approvals = t /\ m2.requests = m.requests /\ m2.classes = m.classes
  BY <1>1, <1>2, <1>4 DEF Inners
<1>6. \A k \in DOMAIN q : \E i \in P : q[k] = m.approvals[i]
  BY <1>3 DEF Taken
<1>7. \A k \in DOMAIN q : q[k].key # key
  BY <1>6
<1>8. \A j, k \in DOMAIN t : t[j].key = t[k].key => j = k
  <2>1. ASSUME NEW j \in DOMAIN q, NEW k \in DOMAIN q, q[j].key = q[k].key
        PROVE  j = k
    <3>1. PICK i \in P, l \in P :
             q[j] = m.approvals[i] /\ q[k] = m.approvals[l] /\ (i = l => j = k)
      BY <1>3 DEF Taken
    <3>2. i \in DOMAIN m.approvals /\ l \in DOMAIN m.approvals /\ m.approvals[i].key = m.approvals[l].key
      BY <2>1, <3>1
    <3>3. i = l
      BY <1>1, <3>2 DEF Valid
    <3> QED
      BY <3>1, <3>3
  <2> QED
    BY <2>1, <1>0, <1>4, <1>7
<1>9. Records(m2) = {a \in Records(m) : a.key # key} \cup {new}
  <2>1. Records(m2) = {t[k] : k \in DOMAIN t}
    BY <1>5 DEF Records
  <2>2. {t[k] : k \in DOMAIN t} = {q[k] : k \in DOMAIN q} \cup {new}
    BY <1>4
  <2>3. {m.approvals[i] : i \in P} = {a \in Records(m) : a.key # key}
    BY DEF Records
  <2>4. {q[k] : k \in DOMAIN q} = {m.approvals[i] : i \in P}
    BY <1>3 DEF Taken
  <2> QED
    BY <2>1, <2>2, <2>3, <2>4
<1>10. Valid(m2)
  <2>1. Tracked(m2) = Tracked(m)
    BY <1>5 DEF Tracked
  <2>2. \A a \in Records(m2) : a.key[1] \in Tracked(m2)
    BY <2>1, <1>0, <1>1, <1>9 DEF Valid
  <2> QED
    BY <2>2, <1>1, <1>5, <1>8 DEF Valid
<1>11. Len(m2.classes) <= Limit
  BY <1>5 DEF Whole
<1> QED
  BY <1>5, <1>9, <1>10, <1>11 DEF Whole, new

\* Forgetting an action takes its class, and nothing else.
LEMMA ForgetKeeps ==
  ASSUME NEW m, Whole(m), NEW action
  PROVE  /\ Whole(Forget(m, action))
         /\ Forget(m, action).requests = m.requests
         /\ Forget(m, action).approvals = m.approvals
         /\ Known(Forget(m, action)) = {c \in Known(m) : c.action # action}
<1> DEFINE P == {k \in DOMAIN m.classes : m.classes[k].action # action}
           q == Picked(m.classes, P)
           m2 == Forget(m, action)
<1>1. /\ m \in Inners /\ Valid(m) /\ m.classes \in Seq(ToolClasses)
      /\ P \in SUBSET (DOMAIN m.classes) /\ Len(m.classes) <= Limit
  BY DEF Whole, Inners
<1>2. m2 = [m EXCEPT !.classes = q]
  BY DEF Forget, Selected
<1>3. q \in Seq(ToolClasses) /\ Taken(q, m.classes, P) /\ Len(q) <= Len(m.classes)
  BY <1>1, PickedEntries
<1>4. Len(q) <= Limit
  BY <1>1, <1>3, LenProperties, PolicyAssumption
<1> HIDE DEF q
<1>5. m2 \in Inners /\ m2.classes = q /\ m2.requests = m.requests /\ m2.approvals = m.approvals
  BY <1>1, <1>2, <1>3 DEF Inners
<1>6. Known(m2) = {c \in Known(m) : c.action # action}
  <2>1. \A k \in DOMAIN q : \E i \in P : q[k] = m.classes[i]
    BY <1>3 DEF Taken
  <2>2. \A i \in P : \E k \in DOMAIN q : q[k] = m.classes[i]
    BY <1>3 DEF Taken
  <2>3. Known(m2) = {m.classes[i] : i \in P}
    BY <1>5, <2>1, <2>2 DEF Known
  <2> QED
    BY <2>3 DEF Known
<1>7. Valid(m2)
  <2>1. ASSUME NEW j \in DOMAIN q, NEW k \in DOMAIN q, q[j].action = q[k].action
        PROVE  j = k
    <3>1. PICK i \in P, l \in P :
             q[j] = m.classes[i] /\ q[k] = m.classes[l] /\ (i = l => j = k)
      BY <1>3 DEF Taken
    <3>2. i \in DOMAIN m.classes /\ l \in DOMAIN m.classes /\ m.classes[i].action = m.classes[l].action
      BY <2>1, <3>1
    <3>3. i = l
      BY <1>1, <3>2 DEF Valid
    <3> QED
      BY <3>1, <3>3
  <2>2. Records(m2) = Records(m) /\ Tracked(m2) = Tracked(m)
    BY <1>5 DEF Records, Tracked
  <2> QED
    BY <2>1, <2>2, <1>1, <1>5 DEF Valid
<1> QED
  BY <1>4, <1>5, <1>6, <1>7 DEF Whole

\* Remembering a class adds at most that class, and the limit holds.
LEMMA RememberKeeps ==
  ASSUME NEW m, Whole(m), NEW r \in Requests
  PROVE  /\ Whole(Remember(m, r))
         /\ Remember(m, r).requests = m.requests
         /\ Remember(m, r).approvals = m.approvals
         /\ \A c \in Known(Remember(m, r)) :
              \/ c \in Known(m)
              \/ r.kind = "class" /\ c = [action |-> r.action, caps |-> r.caps]
<1> DEFINE class == [action |-> r.action, caps |-> r.caps]
           known == {k \in DOMAIN m.classes : m.classes[k].action = r.action}
           longer == Append(m.classes, class)
           over == [k \in DOMAIN m.classes |-> IF k \in known THEN class ELSE m.classes[k]]
           m2 == Remember(m, r)
<1>1. /\ m \in Inners /\ Valid(m) /\ m.classes \in Seq(ToolClasses)
      /\ Len(m.classes) \in Nat /\ Len(m.classes) <= Limit /\ Limit \in Nat \ {0}
      /\ DOMAIN m.classes = 1 .. Len(m.classes)
  BY LenProperties, PolicyAssumption DEF Whole, Inners
<1>2. class \in ToolClasses /\ class.action = r.action
  BY DEF ToolClasses
<1> HIDE DEF class
<1> DEFINE Fine(q) ==
             /\ q \in Seq(ToolClasses) /\ Len(q) <= Limit
             /\ \A k \in DOMAIN q : q[k] \in Known(m) \/ q[k] = class
             /\ \A j, k \in DOMAIN q : q[j].action = q[k].action => j = k
<1>3. ASSUME NEW q, Fine(q), m2 = [m EXCEPT !.classes = q], r.kind = "class"
      PROVE  /\ Whole(m2) /\ m2.requests = m.requests /\ m2.approvals = m.approvals
             /\ \A c \in Known(m2) : c \in Known(m) \/ (r.kind = "class" /\ c = class)
  <2>1. /\ m2 \in Inners /\ m2.classes = q
        /\ m2.requests = m.requests /\ m2.approvals = m.approvals
    BY <1>1, <1>3 DEF Inners
  <2>2. Records(m2) = Records(m) /\ Tracked(m2) = Tracked(m)
    BY <2>1 DEF Records, Tracked
  <2>3. Valid(m2)
    BY <1>1, <1>3, <2>1, <2>2 DEF Valid
  <2>4. \A c \in Known(m2) : c \in Known(m) \/ (r.kind = "class" /\ c = class)
    BY <1>3, <2>1 DEF Known
  <2> QED
    BY <1>3, <2>1, <2>3, <2>4 DEF Whole
<1>4. CASE r.kind # "class"
  <2>1. m2 = m
    BY <1>4 DEF Remember
  <2> QED
    BY <2>1
<1>5. CASE r.kind = "class" /\ known # {}
  <2>1. m2 = [m EXCEPT !.classes = over]
    BY <1>5 DEF Remember, class
  <2>2. over \in [1 .. Len(m.classes) -> ToolClasses]
    <3>1. \A k \in 1 .. Len(m.classes) : m.classes[k] \in ToolClasses
      BY <1>1, LenProperties
    <3> QED
      BY <1>1, <1>2, <3>1
  <2>3. over \in Seq(ToolClasses)
    BY <2>2, <1>1, SeqDef
  <2>4. DOMAIN over = 1 .. Len(m.classes) /\ Len(over) = Len(m.classes)
    <3>1. DOMAIN over = 1 .. Len(m.classes)
      BY <1>1
    <3> HIDE DEF over
    <3> QED
      BY <2>3, <3>1, <1>1, LenProperties
  <2>5. \A k \in DOMAIN over : over[k].action = m.classes[k].action
    BY <1>1, <1>2, <2>4
  <2>6. \A k \in DOMAIN over : over[k] \in Known(m) \/ over[k] = class
    BY <1>1, <2>4 DEF Known
  <2> HIDE DEF over
  <2>7. \A j, k \in DOMAIN over : over[j].action = over[k].action => j = k
    BY <1>1, <2>4, <2>5 DEF Valid
  <2>8. Fine(over)
    BY <2>3, <2>4, <2>6, <2>7, <1>1
  <2> QED
    BY <2>1, <2>8, <1>3, <1>5 DEF class
<1>6. CASE r.kind = "class" /\ known = {}
  <2> DEFINE q == IF Len(longer) > Limit THEN Tail(longer) ELSE longer
  <2>1. m2 = [m EXCEPT !.classes = q]
    BY <1>6 DEF Remember, class
  <2>2. /\ longer \in Seq(ToolClasses) /\ Len(longer) = Len(m.classes) + 1
        /\ DOMAIN longer = 1 .. Len(m.classes) + 1
        /\ \A k \in 1 .. Len(m.classes) : longer[k] = m.classes[k]
        /\ longer[Len(m.classes) + 1] = class
    <3>1. /\ longer \in Seq(ToolClasses) /\ Len(longer) = Len(m.classes) + 1
          /\ \A k \in 1 .. Len(m.classes) : longer[k] = m.classes[k]
          /\ longer[Len(m.classes) + 1] = class
      BY <1>1, <1>2, AppendProperties
    <3>2. DOMAIN longer = 1 .. Len(longer)
      BY <3>1, LenProperties
    <3> QED
      BY <3>1, <3>2
  <2> HIDE DEF longer
  <2>3. \A k \in DOMAIN longer : longer[k] \in Known(m) \/ longer[k] = class
    BY <1>1, <2>2 DEF Known
  <2>4. \A j, k \in DOMAIN longer : longer[j].action = longer[k].action => j = k
    <3>1. \A k \in 1 .. Len(m.classes) : longer[k].action # class.action
      BY <1>1, <1>2, <1>6, <2>2
    <3>2. \A j, k \in 1 .. Len(m.classes) : longer[j].action = longer[k].action => j = k
      BY <1>1, <2>2 DEF Valid
    <3>3. ASSUME NEW j \in DOMAIN longer, NEW k \in DOMAIN longer,
                 longer[j].action = longer[k].action
          PROVE  j = k
      <4> DEFINE n == Len(m.classes)
      <4>1. j \in 1 .. n \/ j = n + 1
        BY <1>1, <2>2
      <4>2. k \in 1 .. n \/ k = n + 1
        BY <1>1, <2>2
      <4>3. longer[n + 1] = class
        BY <2>2
      <4> HIDE DEF n
      <4>4. j = n + 1 => ~ (k \in 1 .. n)
        BY <3>1, <3>3, <4>3 DEF n
      <4>5. k = n + 1 => ~ (j \in 1 .. n)
        BY <3>1, <3>3, <4>3 DEF n
      <4>6. j \in 1 .. n /\ k \in 1 .. n => j = k
        BY <3>2, <3>3 DEF n
      <4> QED
        BY <4>1, <4>2, <4>4, <4>5, <4>6
    <3> QED
      BY <3>3
  <2>5. CASE Len(longer) <= Limit
    <3>1. q = longer
      BY <2>5, <2>2, <1>1
    <3>2. Fine(q)
      BY <3>1, <2>2, <2>3, <2>4, <2>5
    <3> QED
      BY <2>1, <3>2, <1>3, <1>6 DEF class
  <2>6. CASE Len(longer) > Limit
    <3>1. q = Tail(longer)
      BY <2>6
    <3>2. /\ q \in Seq(ToolClasses) /\ Len(q) = Len(m.classes)
          /\ DOMAIN q = 1 .. Len(m.classes)
          /\ \A k \in 1 .. Len(m.classes) : q[k] = longer[k + 1]
      <4>1. longer # << >>
        BY <2>2, <1>1, EmptySeq
      <4>2. /\ Tail(longer) \in Seq(ToolClasses) /\ Len(Tail(longer)) = Len(longer) - 1
            /\ \A k \in 1 .. Len(Tail(longer)) : Tail(longer)[k] = longer[k + 1]
        BY <2>2, <4>1, HeadTailProperties
      <4>3. DOMAIN Tail(longer) = 1 .. Len(Tail(longer))
        BY <4>2, LenProperties
      <4> QED
        BY <3>1, <4>2, <4>3, <2>2, <1>1
    <3> HIDE DEF q
    <3>3. \A k \in DOMAIN q : k + 1 \in DOMAIN longer /\ q[k] = longer[k + 1]
      BY <3>2, <2>2, <1>1
    <3>4. \A k \in DOMAIN q : q[k] \in Known(m) \/ q[k] = class
      BY <3>3, <2>3
    <3>5. \A j, k \in DOMAIN q : q[j].action = q[k].action => j = k
      <4> TAKE j, k \in DOMAIN q
      <4> HAVE q[j].action = q[k].action
      <4>1. j + 1 = k + 1
        BY <3>3, <2>4
      <4> QED
        BY <4>1, <3>2, <1>1
    <3>6. Fine(q)
      BY <3>2, <3>4, <3>5, <1>1
    <3> QED
      BY <2>1, <3>6, <1>3, <1>6 DEF class
  <2> QED
    BY <2>5, <2>6, <2>2, <1>1
<1> QED
  BY <1>4, <1>5, <1>6

-----------------------------------------------------------------------------
(* Eviction.                                                               *)

\* The places discarding leaves.
RequestsLeft(m, ids) == {k \in DOMAIN m.requests : m.requests[k].id \notin ids}
RecordsLeft(m, ids) == {k \in DOMAIN m.approvals : m.approvals[k].key[1] \notin ids}

\* Discarding requests takes their records with them, and nothing else.
LEMMA WithoutKeeps ==
  ASSUME NEW m, Whole(m), NEW ids
  PROVE  /\ Whole(Without(m, ids)) /\ Without(m, ids).classes = m.classes
         /\ Records(Without(m, ids)) = {a \in Records(m) : a.key[1] \notin ids}
         /\ Tracked(Without(m, ids)) = Tracked(m) \ ids
         /\ Len(Without(m, ids).requests) = Cardinality(RequestsLeft(m, ids))
         /\ Len(Without(m, ids).approvals) = Cardinality(RecordsLeft(m, ids))
         /\ Len(Without(m, ids).requests) <= Len(m.requests)
         /\ Len(Without(m, ids).approvals) <= Len(m.approvals)
<1> DEFINE P == {k \in DOMAIN m.requests : m.requests[k].id \notin ids}
           R == {k \in DOMAIN m.approvals : m.approvals[k].key[1] \notin ids}
           p == Picked(m.requests, P)
           q == Picked(m.approvals, R)
           w == Without(m, ids)
<1>1. /\ m \in Inners /\ Valid(m) /\ Len(m.classes) <= Limit
      /\ m.requests \in Seq(Requests) /\ P \in SUBSET (DOMAIN m.requests)
      /\ m.approvals \in Seq(Decisions) /\ R \in SUBSET (DOMAIN m.approvals)
  BY DEF Whole, Inners
<1>2. w = [m EXCEPT !.requests = p, !.approvals = q]
  BY DEF Without, Selected
<1>3. /\ p \in Seq(Requests) /\ Len(p) = Cardinality(P) /\ Cardinality(P) <= Len(m.requests)
      /\ Taken(p, m.requests, P)
  BY <1>1, PickedEntries
<1>4. /\ q \in Seq(Decisions) /\ Len(q) = Cardinality(R) /\ Cardinality(R) <= Len(m.approvals)
      /\ Taken(q, m.approvals, R)
  BY <1>1, PickedEntries
<1> HIDE DEF p, q
<1>5. w \in Inners /\ w.requests = p /\ w.approvals = q /\ w.classes = m.classes
  BY <1>1, <1>2, <1>3, <1>4 DEF Inners
<1> HIDE DEF w
<1>6. Tracked(w) = Tracked(m) \ ids
  <2>1. \A k \in DOMAIN p : \E i \in P : p[k] = m.requests[i]
    BY <1>3 DEF Taken
  <2>2. \A i \in P : \E k \in DOMAIN p : p[k] = m.requests[i]
    BY <1>3 DEF Taken
  <2>3. Tracked(w) = {m.requests[i].id : i \in P}
    BY <1>5, <2>1, <2>2 DEF Tracked
  <2> QED
    BY <2>3 DEF Tracked
<1>7. Records(w) = {a \in Records(m) : a.key[1] \notin ids}
  <2>1. \A k \in DOMAIN q : \E i \in R : q[k] = m.approvals[i]
    BY <1>4 DEF Taken
  <2>2. \A i \in R : \E k \in DOMAIN q : q[k] = m.approvals[i]
    BY <1>4 DEF Taken
  <2>3. Records(w) = {m.approvals[i] : i \in R}
    BY <1>5, <2>1, <2>2 DEF Records
  <2> QED
    BY <2>3 DEF Records
<1>8. Valid(w)
  <2>1. ASSUME NEW j \in DOMAIN p, NEW k \in DOMAIN p, p[j].id = p[k].id
        PROVE  j = k
    <3>1. PICK i \in P, l \in P :
             p[j] = m.requests[i] /\ p[k] = m.requests[l] /\ (i = l => j = k)
      BY <1>3 DEF Taken
    <3>2. i \in DOMAIN m.requests /\ l \in DOMAIN m.requests /\ m.requests[i].id = m.requests[l].id
      BY <2>1, <3>1
    <3>3. i = l
      BY <1>1, <3>2 DEF Valid
    <3> QED
      BY <3>1, <3>3
  <2>2. ASSUME NEW j \in DOMAIN q, NEW k \in DOMAIN q, q[j].key = q[k].key
        PROVE  j = k
    <3>1. PICK i \in R, l \in R :
             q[j] = m.approvals[i] /\ q[k] = m.approvals[l] /\ (i = l => j = k)
      BY <1>4 DEF Taken
    <3>2. /\ i \in DOMAIN m.approvals /\ l \in DOMAIN m.approvals
          /\ m.approvals[i].key = m.approvals[l].key
      BY <2>2, <3>1
    <3>3. i = l
      BY <1>1, <3>2 DEF Valid
    <3> QED
      BY <3>1, <3>3
  <2>3. \A a \in Records(w) : a.key[1] \in Tracked(w)
    BY <1>1, <1>6, <1>7 DEF Valid
  <2>4. \A j, k \in DOMAIN w.classes : w.classes[j].action = w.classes[k].action => j = k
    BY <1>1, <1>5 DEF Valid
  <2> QED
    BY <2>1, <2>2, <2>3, <2>4, <1>5 DEF Valid
<1>9. P = RequestsLeft(m, ids) /\ R = RecordsLeft(m, ids)
  BY DEF RequestsLeft, RecordsLeft
<1> HIDE DEF P, R
<1> QED
  BY <1>1, <1>3, <1>4, <1>5, <1>6, <1>7, <1>8, <1>9 DEF Whole, w

\* Every record is owned by a request that is tracked.
LEMMA OwnedKeeps ==
  ASSUME NEW m, Whole(m)
  PROVE  /\ Whole(Owned(m)) /\ Owned(m).classes = m.classes /\ Owned(m).requests = m.requests
         /\ Records(Owned(m)) = Records(m) /\ Tracked(Owned(m)) = Tracked(m)
         /\ Len(Owned(m).approvals) <= Len(m.approvals)
<1> DEFINE R == {k \in DOMAIN m.approvals : m.approvals[k].key[1] \in Tracked(m)}
           q == Picked(m.approvals, R)
           w == Owned(m)
<1>1. /\ m \in Inners /\ Valid(m) /\ Len(m.classes) <= Limit
      /\ m.approvals \in Seq(Decisions) /\ R \in SUBSET (DOMAIN m.approvals)
      /\ R = DOMAIN m.approvals
  BY DEF Whole, Inners, Valid, Records
<1>2. w = [m EXCEPT !.approvals = q]
  BY DEF Owned, Selected
<1>3. /\ q \in Seq(Decisions) /\ Len(q) = Cardinality(R) /\ Cardinality(R) <= Len(m.approvals)
      /\ Taken(q, m.approvals, R)
  BY <1>1, PickedEntries
<1> HIDE DEF q
<1>4. w \in Inners /\ w.requests = m.requests /\ w.approvals = q /\ w.classes = m.classes
  BY <1>1, <1>2, <1>3 DEF Inners
<1> HIDE DEF w
<1>5. Tracked(w) = Tracked(m)
  BY <1>4 DEF Tracked
<1>6. Records(w) = Records(m)
  <2>1. \A k \in DOMAIN q : \E i \in R : q[k] = m.approvals[i]
    BY <1>3 DEF Taken
  <2>2. \A i \in R : \E k \in DOMAIN q : q[k] = m.approvals[i]
    BY <1>3 DEF Taken
  <2> QED
    BY <2>1, <2>2, <1>1, <1>4 DEF Records
<1>7. Valid(w)
  <2>1. ASSUME NEW j \in DOMAIN q, NEW k \in DOMAIN q, q[j].key = q[k].key
        PROVE  j = k
    <3>1. PICK i \in R, l \in R :
             q[j] = m.approvals[i] /\ q[k] = m.approvals[l] /\ (i = l => j = k)
      BY <1>3 DEF Taken
    <3>2. /\ i \in DOMAIN m.approvals /\ l \in DOMAIN m.approvals
          /\ m.approvals[i].key = m.approvals[l].key
      BY <2>1, <3>1
    <3>3. i = l
      BY <1>1, <3>2 DEF Valid
    <3> QED
      BY <3>1, <3>3
  <2> QED
    BY <2>1, <1>1, <1>4, <1>5, <1>6 DEF Valid
<1> QED
  BY <1>1, <1>3, <1>4, <1>5, <1>6, <1>7 DEF Whole, w

\* Discarding more leaves less.
LEMMA WithoutShrinks ==
  ASSUME NEW m, Whole(m), NEW less, NEW more, less \subseteq more, Fits(Without(m, less))
  PROVE  Fits(Without(m, more))
<1>1. /\ m.requests \in Seq(Requests) /\ m.approvals \in Seq(Decisions)
  BY DEF Whole, Inners
<1>2. IsFiniteSet(DOMAIN m.requests) /\ IsFiniteSet(DOMAIN m.approvals)
  <2>1. /\ DOMAIN m.requests = 1 .. Len(m.requests) /\ Len(m.requests) \in Nat
        /\ DOMAIN m.approvals = 1 .. Len(m.approvals) /\ Len(m.approvals) \in Nat
    BY <1>1, LenProperties
  <2>2. \A n \in Nat : IsFiniteSet(1 .. n)
    BY FS_Interval
  <2> QED
    BY <2>1, <2>2
<1>3. /\ IsFiniteSet(RequestsLeft(m, less)) /\ IsFiniteSet(RequestsLeft(m, more)) /\ Cardinality(RequestsLeft(m, more)) <= Cardinality(RequestsLeft(m, less))
  <2>1. RequestsLeft(m, less) \in SUBSET (DOMAIN m.requests) /\ RequestsLeft(m, more) \in SUBSET RequestsLeft(m, less)
    BY DEF RequestsLeft
  <2>2. IsFiniteSet(RequestsLeft(m, less))
    BY <2>1, <1>2, FS_Subset
  <2> QED
    BY <2>1, <2>2, FS_Subset
<1>4. /\ IsFiniteSet(RecordsLeft(m, less)) /\ IsFiniteSet(RecordsLeft(m, more)) /\ Cardinality(RecordsLeft(m, more)) <= Cardinality(RecordsLeft(m, less))
  <2>1. RecordsLeft(m, less) \in SUBSET (DOMAIN m.approvals) /\ RecordsLeft(m, more) \in SUBSET RecordsLeft(m, less)
    BY DEF RecordsLeft
  <2>2. IsFiniteSet(RecordsLeft(m, less))
    BY <2>1, <1>2, FS_Subset
  <2> QED
    BY <2>1, <2>2, FS_Subset
<1>5. /\ Cardinality(RequestsLeft(m, less)) \in Nat /\ Cardinality(RequestsLeft(m, more)) \in Nat
      /\ Cardinality(RecordsLeft(m, less)) \in Nat /\ Cardinality(RecordsLeft(m, more)) \in Nat
  BY <1>3, <1>4, FS_CardinalityType
<1>6. /\ Len(Without(m, less).requests) = Cardinality(RequestsLeft(m, less))
      /\ Len(Without(m, less).approvals) = Cardinality(RecordsLeft(m, less))
      /\ Len(Without(m, more).requests) = Cardinality(RequestsLeft(m, more))
      /\ Len(Without(m, more).approvals) = Cardinality(RecordsLeft(m, more))
  BY WithoutKeeps
<1> QED
  BY <1>3, <1>4, <1>5, <1>6, PolicyAssumption DEF Fits

\* What there is room for is what fits once the rest is gone.
LEMMA RoomFits ==
  ASSUME NEW m, Whole(m), NEW ids
  PROVE  Room(m, ids) <=> Fits(Without(m, ids))
<1>1. /\ Len(Without(m, ids).requests) = Cardinality(RequestsLeft(m, ids))
      /\ Len(Without(m, ids).approvals) = Cardinality(RecordsLeft(m, ids))
  BY WithoutKeeps
<1> QED
  BY <1>1 DEF Room, Fits, RequestsLeft, RecordsLeft

\* A set of naturals that is not empty has a smallest member.
LEMMA LeastOf ==
  ASSUME NEW T \in SUBSET Nat, T # {}
  PROVE  \E least \in T : \A k \in T : least <= k
<1>1. \E least \in T : \A k \in T : ~ (<<k, least>> \in OpToRel(<, Nat))
  BY NatLessThanWellFounded, WFMin
<1>2. PICK least \in T : \A k \in T : ~ (<<k, least>> \in OpToRel(<, Nat))
  BY <1>1
<1>3. ASSUME NEW k \in T
      PROVE  least <= k
  <2>1. least \in Nat /\ k \in Nat
    OBVIOUS
  <2>2. k < least => <<k, least>> \in OpToRel(<, Nat)
    BY <2>1 DEF OpToRel
  <2>3. ~ (k < least)
    BY <1>2, <2>2
  <2> QED
    BY <2>1, <2>3
<1> QED
  BY <1>2, <1>3

LEMMA RankIsNatural ==
  ASSUME NEW m, Whole(m)
  PROVE  /\ DOMAIN Rank(m) = DOMAIN m.requests
         /\ \A k \in DOMAIN m.requests : Rank(m)[k] \in Nat
<1>1. DOMAIN m.requests = 1 .. Len(m.requests) /\ Len(m.requests) \in Nat
  BY LenProperties DEF Whole, Inners
<1>2. \A id : Tier(m, id) \in 0 .. 3
  BY DEF Tier
<1>3. ASSUME NEW k \in DOMAIN m.requests
      PROVE  Tier(m, m.requests[k].id) * (Len(m.requests) + 1) + k \in Nat
  <2>1. Tier(m, m.requests[k].id) \in Nat /\ Len(m.requests) + 1 \in Nat /\ k \in Nat
    BY <1>1, <1>2
  <2> QED
    BY <2>1
<1> QED
  BY <1>3 DEF Rank

\* What is discarded is enough for the rest to be within the limit: the first request
\* that may stay may do so because all that rank before it go.
LEMMA DiscardedIsEnough ==
  ASSUME NEW m, Whole(m)
  PROVE  Fits(Without(m, Discarded(m)))
<1> DEFINE rank == Rank(m)
           Before(k) == {m.requests[j].id : j \in {i \in DOMAIN rank : rank[i] < rank[k]}}
           Stay == {k \in DOMAIN rank : Fits(Without(m, Before(k)))}
           D == Discarded(m)
<1>1. D = {m.requests[k].id : k \in {i \in DOMAIN rank : ~ Fits(Without(m, Before(i)))}}
  BY RoomFits DEF Discarded
<1>2. DOMAIN rank = DOMAIN m.requests /\ \A k \in DOMAIN rank : rank[k] \in Nat
  BY RankIsNatural
<1> HIDE DEF rank, D
<1>3. CASE Stay = {}
  <2>1. D = Tracked(m)
    BY <1>1, <1>2, <1>3 DEF Tracked
  <2>2. RequestsLeft(m, D) = {}
    BY <2>1 DEF RequestsLeft, Tracked
  <2>3. RecordsLeft(m, D) = {}
    BY <2>1 DEF RecordsLeft, Whole, Valid, Records
  <2>4. Len(Without(m, D).requests) = 0 /\ Len(Without(m, D).approvals) = 0
    <3>1. /\ Len(Without(m, D).requests) = Cardinality(RequestsLeft(m, D))
          /\ Len(Without(m, D).approvals) = Cardinality(RecordsLeft(m, D))
      BY WithoutKeeps
    <3> QED
      BY <3>1, <2>2, <2>3, FS_EmptySet
  <2> QED
    BY <2>4, PolicyAssumption DEF Fits, D
<1>4. CASE Stay # {}
  <2> DEFINE T == {rank[k] : k \in Stay}
  <2>1. T \in SUBSET Nat /\ T # {}
    BY <1>2, <1>4
  <2>2. PICK least \in T : \A n \in T : least <= n
    BY <2>1, LeastOf
  <2>3. PICK k \in Stay : least = rank[k]
    OBVIOUS
  <2>4. Before(k) \subseteq D
    <3>1. ASSUME NEW j \in DOMAIN rank, rank[j] < rank[k]
          PROVE  m.requests[j].id \in D
      <4>1. rank[j] \in Nat /\ rank[k] \in Nat
        BY <1>2
      <4>2. j \in Stay => least <= rank[j]
        BY <2>2
      <4>3. j \notin Stay
        BY <2>3, <3>1, <4>1, <4>2
      <4> QED
        BY <4>3, <1>1
    <3> QED
      BY <3>1
  <2>5. Fits(Without(m, Before(k)))
    OBVIOUS
  <2> HIDE DEF Before
  <2> QED
    BY <2>4, <2>5, WithoutShrinks DEF D
<1> QED
  BY <1>3, <1>4

\* Pruning leaves records and requests there were, and a limit that holds.
LEMMA PrunedKeeps ==
  ASSUME NEW m, Whole(m)
  PROVE  /\ Whole(Pruned(m)) /\ Fits(Pruned(m)) /\ Pruned(m).classes = m.classes
         /\ Records(Pruned(m)) \subseteq Records(m)
<1>1. CASE Fits(m)
  BY <1>1 DEF Pruned
<1>2. CASE ~ Fits(m)
  <2>1. Pruned(m) = Without(Owned(m), Discarded(Owned(m)))
    BY <1>2 DEF Pruned
  <2>2. /\ Whole(Owned(m)) /\ Owned(m).classes = m.classes /\ Records(Owned(m)) = Records(m)
    BY OwnedKeeps
  <2>3. Fits(Pruned(m))
    BY <2>1, <2>2, DiscardedIsEnough
  <2> DEFINE o == Owned(m)
             w == Without(o, Discarded(o))
  <2> HIDE DEF o
  <2>4. /\ Whole(w) /\ w.classes = o.classes
        /\ Records(w) = {a \in Records(o) : a.key[1] \notin Discarded(o)}
    BY <2>2, WithoutKeeps DEF o
  <2> HIDE DEF w
  <2>5. Whole(w) /\ w.classes = m.classes /\ Records(w) \subseteq Records(m)
    BY <2>2, <2>4 DEF o
  <2> QED
    BY <2>1, <2>3, <2>5 DEF w, o
<1> QED
  BY <1>1, <1>2

-----------------------------------------------------------------------------
(* Decisions.                                                              *)

\* Voiding a record forgets the class of its action, and marks it unless it refuses.
LEMMA VoidKeeps ==
  ASSUME NEW m, Whole(m), NEW a \in Decisions, a.key[1] \in Tracked(m)
  PROVE  /\ Whole(Void(m, a).inner) /\ Fits(Void(m, a).inner)
         /\ Void(m, a).status \in Refused \cup {"invalidated"}
         /\ Void(m, a).withdrawn \subseteq {a.key}
         /\ \A c \in Known(Void(m, a).inner) : c \in Known(m) /\ c.action # a.key[3]
         /\ \A b \in Records(Void(m, a).inner) :
              \/ b \in Records(m) /\ b.key \notin Void(m, a).withdrawn
              \/ a.status \notin Refused /\ b = Approval(a.key, "invalidated")
<1> DEFINE f == Forget(m, a.key[3])
           s == Store(f, a.key, "invalidated")
<1>1. /\ Whole(f) /\ f.requests = m.requests /\ f.approvals = m.approvals
      /\ Known(f) = {c \in Known(m) : c.action # a.key[3]}
  BY ForgetKeeps
<1>2. Records(f) = Records(m) /\ Tracked(f) = Tracked(m)
  BY <1>1 DEF Records, Tracked
<1>3. a.key \in Keys /\ "invalidated" \in Statuses
  BY DEF Decisions, Statuses
<1> HIDE DEF f
<1>4. CASE a.status \in Refused
  <2>1. Void(m, a) = Answer(Pruned(f), a.status, {})
    BY <1>4 DEF Void, f
  <2>2. /\ Whole(Pruned(f)) /\ Fits(Pruned(f)) /\ Pruned(f).classes = f.classes
        /\ Records(Pruned(f)) \subseteq Records(f)
    BY <1>1, PrunedKeeps
  <2>3. Known(Pruned(f)) = Known(f)
    BY <2>2 DEF Known
  <2> QED
    BY <2>1, <2>2, <2>3, <1>1, <1>2, <1>4 DEF Answer
<1>5. CASE a.status \notin Refused
  <2>1. Void(m, a) = Answer(Pruned(s), "invalidated", {a.key})
    BY <1>5 DEF Void, f
  <2>2. /\ Whole(s) /\ s.classes = f.classes
        /\ Records(s) = {b \in Records(f) : b.key # a.key} \cup {Approval(a.key, "invalidated")}
    BY <1>1, <1>2, <1>3, StoreKeeps
  <2> HIDE DEF s
  <2>3. /\ Whole(Pruned(s)) /\ Fits(Pruned(s)) /\ Pruned(s).classes = s.classes
        /\ Records(Pruned(s)) \subseteq Records(s)
    BY <2>2, PrunedKeeps
  <2>4. Known(Pruned(s)) = Known(f)
    BY <2>2, <2>3 DEF Known
  <2> QED
    BY <2>1, <2>2, <2>3, <2>4, <1>1, <1>2, <1>5 DEF Answer
<1> QED
  BY <1>4, <1>5

\* What decides a request, and what the decision is made of.
LEMMA DecisionCases ==
  ASSUME NEW m, NEW r \in Requests, NEW t, t = Track(m, r)
  PROVE  \/ Decision(m, r) = Answer(Pruned(t), "denied", {})
         \/ /\ Decision(m, r) = Answer(Pruned(Remember(t, r)), "allowed", {})
            /\ \/ r.kind = "plain"
               \/ ClassApproved(t, r)
               \/ \E a \in Found(t, Key(r)) : a.status = "approved"
         \/ \E a \in Found(t, Key(r)) :
              a.status # "approved" /\ Decision(m, r) = Answer(Pruned(t), a.status, {})
         \/ \E a \in Conflicting(t, r) : Decision(m, r) = Void(t, a)
         \/ Decision(m, r) = Answer(Pruned(t), "pending", {})
<1> DEFINE records == Found(t, Key(r))
           conflicts == Conflicting(t, r)
<1>1. CASE ~ Grantable(r)
  BY <1>1 DEF Decision, Outcome
<1>2. CASE Grantable(r) /\ (r.kind = "plain" \/ ClassApproved(t, r))
  BY <1>2 DEF Decision, Outcome
<1>3. CASE Grantable(r) /\ ~ (r.kind = "plain" \/ ClassApproved(t, r))
  <2>1. CASE records # {}
    <3> DEFINE record == CHOOSE a \in records : TRUE
    <3>1. record \in records
      BY <2>1
    <3>2. Decision(m, r) = IF record.status = "approved"
                             THEN Answer(Pruned(Remember(t, r)), "allowed", {})
                             ELSE Answer(Pruned(t), record.status, {})
      BY <1>3, <2>1 DEF Decision, Outcome
    <3> HIDE DEF record
    <3> QED
      BY <3>1, <3>2
  <2>2. CASE records = {} /\ conflicts # {}
    <3> DEFINE conflict == CHOOSE a \in conflicts : TRUE
    <3>1. conflict \in conflicts
      BY <2>2
    <3>2. Decision(m, r) = Void(t, conflict)
      BY <1>3, <2>2 DEF Decision, Outcome
    <3> HIDE DEF conflict
    <3> QED
      BY <3>1, <3>2
  <2>3. CASE records = {} /\ conflicts = {}
    BY <1>3, <2>3 DEF Decision, Outcome
  <2> QED
    BY <2>1, <2>2, <2>3
<1> QED
  BY <1>1, <1>2, <1>3

\* A decision is an answer, whichever it is.
LEMMA DecisionIsAnswer ==
  ASSUME NEW m, NEW r \in Requests
  PROVE  \E m2, status, withdrawn : Decision(m, r) = Answer(m2, status, withdrawn)
<1> DEFINE t == Track(m, r)
<1>1. \A a : \E m2, status, withdrawn : Void(t, a) = Answer(m2, status, withdrawn)
  BY DEF Void
<1>2. \/ Decision(m, r) = Answer(Pruned(t), "denied", {})
      \/ Decision(m, r) = Answer(Pruned(Remember(t, r)), "allowed", {})
      \/ \E status : Decision(m, r) = Answer(Pruned(t), status, {})
      \/ \E a : Decision(m, r) = Void(t, a)
  BY DecisionCases
<1> HIDE DEF t
<1> QED
  BY <1>1, <1>2

-----------------------------------------------------------------------------
(* What decisions keep.                                                    *)

\* Somebody who approves the class of this action and these capabilities stands by it.
ClassConsent(action, caps, C) ==
  \E q \in Requests : q.kind = "class" /\ Key(q) \in C /\ q.action = action /\ q.caps = caps

\* Every approval is one an actor stands by, and every class comes from one.
Consented(m, C) ==
  /\ \A a \in Records(m) : a.status = "approved" => a.key \in C
  /\ \A c \in Known(m) : ClassConsent(c.action, c.caps, C)

Justified(r, C) == Key(r) \in C \/ (r.kind = "class" /\ ClassConsent(r.action, r.caps, C))

\* Every record of m2 is one of m, or in place of one that does not refuse.
Kept(m, m2) ==
  \A b \in Records(m2) :
    \E a \in Records(m) : a.key = b.key /\ (a = b \/ a.status \notin Refused)

LEMMA RecordsAreDecisions ==
  ASSUME NEW m, Whole(m), NEW a \in Records(m)
  PROVE  a \in Decisions /\ a.key[1] \in Tracked(m) /\ a.key \in Keys /\ a.status \in Statuses
<1>1. m.approvals \in Seq(Decisions) /\ Valid(m)
  BY DEF Whole, Inners
<1>2. PICK k \in DOMAIN m.approvals : a = m.approvals[k]
  BY DEF Records
<1>3. a \in Decisions
  BY <1>1, <1>2, LenProperties
<1> QED
  BY <1>1, <1>3 DEF Valid, Decisions

LEMMA ConsentedLess ==
  ASSUME NEW m, NEW C, Consented(m, C),
         NEW m2, Records(m2) \subseteq Records(m), Known(m2) \subseteq Known(m)
  PROVE  Consented(m2, C)
BY DEF Consented

LEMMA PrunedConsented ==
  ASSUME NEW m, Whole(m), NEW C, Consented(m, C)
  PROVE  Consented(Pruned(m), C)
<1>1. Records(Pruned(m)) \subseteq Records(m) /\ Pruned(m).classes = m.classes
  BY PrunedKeeps
<1>2. Known(Pruned(m)) = Known(m)
  BY <1>1 DEF Known
<1> QED
  BY <1>1, <1>2, ConsentedLess

LEMMA TrackConsented ==
  ASSUME NEW m, Whole(m), NEW C, Consented(m, C), NEW r \in Requests
  PROVE  Consented(Track(m, r), C) /\ Records(Track(m, r)) = Records(m)
<1>1. Track(m, r).approvals = m.approvals /\ Track(m, r).classes = m.classes
  BY TrackKeeps
<1>2. Records(Track(m, r)) = Records(m) /\ Known(Track(m, r)) = Known(m)
  BY <1>1 DEF Records, Known
<1> QED
  BY <1>2, ConsentedLess

LEMMA VoidConsented ==
  ASSUME NEW m, Whole(m), NEW a \in Decisions, a.key[1] \in Tracked(m),
         NEW C, Consented(m, C)
  PROVE  Consented(Void(m, a).inner, C \ Void(m, a).withdrawn)
<1> DEFINE d == Void(m, a)
<1>1. /\ d.withdrawn \subseteq {a.key}
      /\ \A c \in Known(d.inner) : c \in Known(m) /\ c.action # a.key[3]
      /\ \A b \in Records(d.inner) :
           \/ b \in Records(m) /\ b.key \notin d.withdrawn
           \/ a.status \notin Refused /\ b = Approval(a.key, "invalidated")
  BY VoidKeeps
<1> HIDE DEF d
<1>2. \A b \in Records(d.inner) : b.status = "approved" => b.key \in C \ d.withdrawn
  BY <1>1 DEF Consented, Approval
<1>3. ASSUME NEW c \in Known(d.inner)
      PROVE  ClassConsent(c.action, c.caps, C \ d.withdrawn)
  <2>1. PICK q \in Requests :
          q.kind = "class" /\ Key(q) \in C /\ q.action = c.action /\ q.caps = c.caps
    BY <1>1 DEF Consented, ClassConsent
  <2>2. Key(q)[3] # a.key[3]
    BY <1>1, <2>1 DEF Key
  <2>3. Key(q) \notin d.withdrawn
    BY <1>1, <2>2
  <2> QED
    BY <2>1, <2>3 DEF ClassConsent
<1> QED
  BY <1>2, <1>3 DEF Consented, d

LEMMA VoidKept ==
  ASSUME NEW m, Whole(m), NEW n, Records(m) \subseteq Records(n),
         NEW a \in Decisions, a \in Records(n), a.key[1] \in Tracked(m)
  PROVE  Kept(n, Void(m, a).inner)
<1>1. \A b \in Records(Void(m, a).inner) :
           \/ b \in Records(m) /\ b.key \notin Void(m, a).withdrawn
           \/ a.status \notin Refused /\ b = Approval(a.key, "invalidated")
  BY VoidKeeps
<1>2. Approval(a.key, "invalidated").key = a.key
  BY DEF Approval
<1> QED
  BY <1>1, <1>2 DEF Kept

\* A decision leaves a whole state with nothing in it that was not there or consented to,
\* and allows only what is.
LEMMA DecisionKeeps ==
  ASSUME NEW m, Whole(m), NEW r \in Requests, NEW C, Consented(m, C)
  PROVE  /\ Whole(Decision(m, r).inner) /\ Fits(Decision(m, r).inner)
         /\ Kept(m, Decision(m, r).inner)
         /\ Consented(Decision(m, r).inner, C \ Decision(m, r).withdrawn)
         /\ Decision(m, r).status = "allowed" /\ r.kind # "plain" => Justified(r, C)
<1> DEFINE t == Track(m, r)
           d == Decision(m, r)
           Goal == /\ Whole(d.inner) /\ Fits(d.inner) /\ Kept(m, d.inner)
                   /\ Consented(d.inner, C \ d.withdrawn)
                   /\ d.status = "allowed" /\ r.kind # "plain" => Justified(r, C)
<1>1. Whole(t) /\ Consented(t, C) /\ Records(t) = Records(m)
  BY TrackKeeps, TrackConsented
<1>2. \/ d = Answer(Pruned(t), "denied", {})
      \/ /\ d = Answer(Pruned(Remember(t, r)), "allowed", {})
         /\ \/ r.kind = "plain"
            \/ ClassApproved(t, r)
            \/ \E a \in Found(t, Key(r)) : a.status = "approved"
      \/ \E a \in Found(t, Key(r)) :
           a.status # "approved" /\ d = Answer(Pruned(t), a.status, {})
      \/ \E a \in Conflicting(t, r) : d = Void(t, a)
      \/ d = Answer(Pruned(t), "pending", {})
  BY DecisionCases
<1> HIDE DEF t, d
<1>3. ASSUME NEW status, status # "allowed", d = Answer(Pruned(t), status, {})
      PROVE  Goal
  <2>1. d.inner = Pruned(t) /\ d.withdrawn = {} /\ d.status = status
    BY <1>3 DEF Answer
  <2>2. Whole(Pruned(t)) /\ Fits(Pruned(t)) /\ Records(Pruned(t)) \subseteq Records(m)
    BY <1>1, PrunedKeeps
  <2>3. Consented(Pruned(t), C)
    BY <1>1, PrunedConsented
  <2>4. Kept(m, Pruned(t))
    BY <2>2 DEF Kept
  <2>5. C \ {} = C
    OBVIOUS
  <2> QED
    BY <1>3, <2>1, <2>2, <2>3, <2>4, <2>5
<1>4. ASSUME d = Answer(Pruned(Remember(t, r)), "allowed", {}),
             \/ r.kind = "plain"
             \/ ClassApproved(t, r)
             \/ \E a \in Found(t, Key(r)) : a.status = "approved"
      PROVE  Goal
  <2> DEFINE k == Remember(t, r)
  <2>1. d.inner = Pruned(k) /\ d.withdrawn = {} /\ d.status = "allowed"
    BY <1>4 DEF Answer
  <2>2. /\ Whole(k) /\ k.approvals = t.approvals
        /\ \A c \in Known(k) :
             c \in Known(t) \/ (r.kind = "class" /\ c = [action |-> r.action, caps |-> r.caps])
    BY <1>1, RememberKeeps
  <2> HIDE DEF k
  <2>3. r.kind = "plain" \/ Key(r) \in C \/ (r.kind = "class" /\ ClassConsent(r.action, r.caps, C))
    <3>1. CASE ClassApproved(t, r)
      <4>1. r.kind = "class" /\ [action |-> r.action, caps |-> r.caps] \in Known(t)
        BY <3>1 DEF ClassApproved, Known
      <4> QED
        BY <4>1, <1>1 DEF Consented
    <3>2. CASE \E a \in Found(t, Key(r)) : a.status = "approved"
      BY <3>2, <1>1 DEF Consented, Found
    <3> QED
      BY <1>4, <3>1, <3>2
  <2>4. r.kind = "class" => ClassConsent(r.action, r.caps, C)
    BY <2>3 DEF ClassConsent
  <2>5. Records(k) = Records(t)
    BY <2>2 DEF Records
  <2>6. Consented(k, C)
    <3>1. ASSUME NEW c \in Known(k)
          PROVE  ClassConsent(c.action, c.caps, C)
      <4>1. CASE c \in Known(t)
        BY <4>1, <1>1 DEF Consented
      <4>2. CASE r.kind = "class" /\ c = [action |-> r.action, caps |-> r.caps]
        <5>1. c.action = r.action /\ c.caps = r.caps
          BY <4>2
        <5> QED
          BY <4>2, <5>1, <2>4
      <4> QED
        BY <4>1, <4>2, <2>2
    <3> QED
      BY <3>1, <2>5, <1>1 DEF Consented
  <2>7. Whole(Pruned(k)) /\ Fits(Pruned(k)) /\ Records(Pruned(k)) \subseteq Records(m)
    BY <1>1, <2>2, <2>5, PrunedKeeps
  <2>8. Consented(Pruned(k), C)
    BY <2>2, <2>6, PrunedConsented
  <2>9. Kept(m, Pruned(k))
    BY <2>7 DEF Kept
  <2>10. C \ {} = C
    OBVIOUS
  <2>11. r.kind # "plain" => Justified(r, C)
    BY <2>3 DEF Justified
  <2> QED
    BY <2>1, <2>7, <2>8, <2>9, <2>10, <2>11
<1>5. ASSUME NEW a \in Conflicting(t, r), d = Void(t, a)
      PROVE  Goal
  <2>1. a \in Records(t)
    BY DEF Conflicting, Records
  <2>2. a \in Decisions /\ a.key[1] \in Tracked(t)
    BY <1>1, <2>1, RecordsAreDecisions
  <2>3. Whole(d.inner) /\ Fits(d.inner) /\ d.status \in Refused \cup {"invalidated"}
    BY <1>1, <1>5, <2>2, VoidKeeps
  <2>4. Consented(d.inner, C \ d.withdrawn)
    BY <1>1, <1>5, <2>2, VoidConsented
  <2>5. Kept(m, d.inner)
    BY <1>1, <1>5, <2>1, <2>2, VoidKept
  <2>6. d.status # "allowed"
    BY <2>3, PolicyAssumption
  <2> QED
    BY <2>3, <2>4, <2>5, <2>6
<1>6. ASSUME NEW a \in Found(t, Key(r))
      PROVE  a.status # "allowed"
  BY <1>1, RecordsAreDecisions, PolicyAssumption DEF Found, Statuses, Open
<1>7. Goal
  <2> HIDE DEF Goal
  <2> QED
    BY <1>2, <1>3, <1>4, <1>5, <1>6
<1> QED
  BY <1>7 DEF t, d

-----------------------------------------------------------------------------
(* The request a call is about survives its own pruning.                   *)

LEMMA TiersOrderRanks ==
  ASSUME NEW a \in 0 .. 3, NEW b \in 0 .. 3, NEW n \in Nat, NEW k \in Nat, k < n,
         b * (n + 1) + n <= a * (n + 1) + k
  PROVE  b < a
<1>1. a \in {0, 1, 2, 3} /\ b \in {0, 1, 2, 3}
  OBVIOUS
<1>2. a = 0 => b < a
  BY <1>1
<1>3. a = 1 => b < a
  BY <1>1
<1>4. a = 2 => b < a
  BY <1>1
<1>5. a = 3 => b < a
  BY <1>1
<1> QED
  BY <1>1, <1>2, <1>3, <1>4, <1>5

\* The newest request has a record and there is room for all records: then it is not
\* discarded, since what is worth as much or more has a record of its own.
LEMMA NewestStays ==
  ASSUME NEW m, Whole(m), Len(m.approvals) <= Limit, Len(m.requests) > 0,
         NEW r, r = m.requests[Len(m.requests)], NEW a \in Records(m), a.key[1] = r.id
  PROVE  r.id \in Tracked(Pruned(m))
<1> DEFINE o == Owned(m)
           n == Len(o.requests)
           rank == Rank(o)
           Before(k) == {o.requests[j].id : j \in {i \in DOMAIN rank : rank[i] < rank[k]}}
           Left == RequestsLeft(o, Before(n))
           places == DOMAIN o.approvals
           own == [k \in Left |-> CHOOSE i \in places : o.approvals[i].key[1] = o.requests[k].id]
<1>1. /\ Whole(o) /\ o.requests = m.requests /\ Records(o) = Records(m) /\ Tracked(o) = Tracked(m)
      /\ Len(o.approvals) <= Len(m.approvals)
  BY OwnedKeeps
<1> HIDE DEF o
<1>2. /\ o.requests \in Seq(Requests) /\ o.approvals \in Seq(Decisions) /\ Valid(o)
      /\ m.approvals \in Seq(Decisions)
  BY <1>1 DEF Whole, Inners
<1>3. /\ n \in Nat /\ n > 0 /\ DOMAIN o.requests = 1 .. n /\ o.requests[n] = r
      /\ places = 1 .. Len(o.approvals) /\ Len(o.approvals) \in Nat
      /\ Len(m.approvals) \in Nat
  BY <1>1, <1>2, LenProperties
<1>4. Len(o.approvals) <= Limit
  BY <1>1, <1>3, PolicyAssumption
<1>5. DOMAIN rank = 1 .. n /\ \A k \in 1 .. n : rank[k] = Tier(o, o.requests[k].id) * (n + 1) + k
  BY <1>3 DEF Rank
<1>6. \A id : Tier(o, id) \in 0 .. 3
  BY DEF Tier
<1>7. \A k \in 1 .. n : rank[k] \in Nat
  BY <1>1, <1>3, RankIsNatural
<1> HIDE DEF rank, n
<1>8. ASSUME NEW k \in Left
      PROVE  \E i \in places : o.approvals[i].key[1] = o.requests[k].id
  <2>1. k \in 1 .. n /\ o.requests[k].id \notin Before(n)
    BY <1>3 DEF RequestsLeft
  <2>2. ~ (rank[k] < rank[n])
    BY <1>5, <2>1
  <2>3. CASE k = n
    <3>1. PICK i \in places : a = o.approvals[i]
      BY <1>1 DEF Records
    <3> QED
      BY <2>3, <3>1, <1>3
  <2>4. CASE k # n
    <3> DEFINE x == Tier(o, o.requests[k].id)
               y == Tier(o, o.requests[n].id)
    <3>1. x \in 0 .. 3 /\ y \in 0 .. 3
      BY <1>6
    <3>2. n \in 1 .. n /\ k \in Nat /\ k < n
      BY <1>3, <2>1, <2>4
    <3>3. rank[k] = x * (n + 1) + k /\ rank[n] = y * (n + 1) + n
      BY <1>5, <2>1, <3>2
    <3>4. rank[n] <= rank[k]
      BY <1>7, <2>1, <2>2, <3>2
    <3>5. y * (n + 1) + n <= x * (n + 1) + k
      BY <3>3, <3>4
    <3> HIDE DEF x, y
    <3>6. y < x
      BY <1>3, <3>1, <3>2, <3>5, TiersOrderRanks
    <3>7. x # 0
      BY <3>1, <3>6
    <3> QED
      BY <3>7 DEF x, Tier
  <2> QED
    BY <2>3, <2>4
<1>9. \A k \in Left : own[k] \in places /\ o.approvals[own[k]].key[1] = o.requests[k].id
  BY <1>8
<1>10. own \in Injection(Left, places)
  <2>1. own \in [Left -> places]
    BY <1>8
  <2>2. ASSUME NEW j \in Left, NEW k \in Left, own[j] = own[k]
        PROVE  j = k
    <3>1. o.requests[j].id = o.requests[k].id
      BY <1>9, <2>2
    <3>2. j \in DOMAIN o.requests /\ k \in DOMAIN o.requests
      BY DEF RequestsLeft
    <3> QED
      BY <3>1, <3>2, <1>2 DEF Valid
  <2> HIDE DEF own
  <2> QED
    BY <2>1, <2>2 DEF Injection, IsInjective
<1> HIDE DEF own, Left
<1>11. Cardinality(Left) <= Len(o.approvals) /\ Cardinality(Left) \in Nat
  <2>1. IsFiniteSet(places) /\ Cardinality(places) = Len(o.approvals)
    <3> DEFINE l == Len(o.approvals)
    <3>1. l \in Nat /\ places = 1 .. l
      BY <1>3
    <3> HIDE DEF l, places
    <3>2. IsFiniteSet(1 .. l) /\ Cardinality(1 .. l) = l
      BY <3>1, FS_Interval
    <3> QED
      BY <3>1, <3>2 DEF l
  <2> HIDE DEF places
  <2>2. IsFiniteSet(Left) /\ Cardinality(Left) <= Cardinality(places)
    BY <2>1, <1>10, FS_Injection
  <2> QED
    BY <2>1, <2>2, FS_CardinalityType
<1>12. Fits(Without(o, Before(n)))
  <2> DEFINE b == Before(n)
             w == Without(o, b)
  <2>1. Left = RequestsLeft(o, b)
    BY DEF Left
  <2> HIDE DEF b
  <2>2. /\ Len(w.requests) = Cardinality(RequestsLeft(o, b)) /\ Whole(w)
        /\ Len(w.approvals) <= Len(o.approvals)
    BY <1>1, WithoutKeeps
  <2>3. w.approvals \in Seq(Decisions)
    BY <2>2 DEF Whole, Inners
  <2>4. Len(w.approvals) \in Nat
    BY <2>3, LenProperties
  <2> HIDE DEF w
  <2>5. Len(w.requests) <= Limit /\ Len(w.approvals) <= Limit
    BY <2>1, <2>2, <2>4, <1>3, <1>4, <1>11, PolicyAssumption
  <2> QED
    BY <2>5 DEF Fits, b, w
<1>13. r.id \notin Discarded(o)
  <2>1. Discarded(o) = {o.requests[k].id : k \in {i \in DOMAIN rank : ~ Fits(Without(o, Before(i)))}}
    BY <1>1, RoomFits DEF Discarded, rank
  <2>2. ASSUME NEW k \in DOMAIN rank, ~ Fits(Without(o, Before(k))), o.requests[k].id = r.id
        PROVE  FALSE
    <3>1. k = n
      BY <2>2, <1>2, <1>3, <1>5 DEF Valid
    <3> HIDE DEF Before
    <3> QED
      BY <3>1, <2>2, <1>12
  <2> HIDE DEF Before
  <2> QED
    BY <2>1, <2>2
<1>14. r.id \in Tracked(o)
  BY <1>3 DEF Tracked
<1>15. CASE Fits(m)
  BY <1>1, <1>14, <1>15 DEF Pruned
<1>16. CASE ~ Fits(m)
  <2>1. Pruned(m) = Without(o, Discarded(o))
    BY <1>16 DEF Pruned, o
  <2>2. Tracked(Without(o, Discarded(o))) = Tracked(o) \ Discarded(o)
    BY <1>1, WithoutKeeps
  <2> QED
    BY <2>1, <2>2, <1>13, <1>14
<1> QED
  BY <1>15, <1>16

-----------------------------------------------------------------------------
(* What refuses stays.                                                     *)

Upheld(m, m2) == \A a \in Records(m) : a.status \in Refused => Found(m2, a.key) \subseteq {a}

LEMMA OneRecord ==
  ASSUME NEW m, Whole(m), NEW a \in Records(m), NEW b \in Records(m), a.key = b.key
  PROVE  a = b
BY DEF Whole, Valid, Records

LEMMA KeptUpholds ==
  ASSUME NEW m, NEW m1, NEW m2, Upheld(m, m1), Kept(m1, m2)
  PROVE  Upheld(m, m2)
<1>1. ASSUME NEW a \in Records(m), a.status \in Refused, NEW b \in Records(m2), b.key = a.key
      PROVE  b = a
  <2>1. PICK c \in Records(m1) : c.key = b.key /\ (c = b \/ c.status \notin Refused)
    BY DEF Kept
  <2>2. c = a
    BY <1>1, <2>1 DEF Upheld, Found
  <2> QED
    BY <1>1, <2>1, <2>2
<1> QED
  BY <1>1 DEF Upheld, Found

LEMMA FewerUphold ==
  ASSUME NEW m, Whole(m), NEW m2, Records(m2) \subseteq Records(m)
  PROVE  Upheld(m, m2)
BY OneRecord DEF Upheld, Found

\* A record may be stored where none refuses.
LEMMA StoreUpholds ==
  ASSUME NEW m, Whole(m), NEW n, Whole(n), Records(n) = Records(m),
         NEW key \in Keys, NEW status \in Statuses, key[1] \in Tracked(n),
         \A a \in Records(m) : a.status \in Refused => a.key # key
  PROVE  Upheld(m, Store(n, key, status))
<1>1. Records(Store(n, key, status)) = {a \in Records(n) : a.key # key} \cup {Approval(key, status)}
  BY StoreKeeps
<1>2. Approval(key, status).key = key
  BY DEF Approval
<1>3. ASSUME NEW a \in Records(m), a.status \in Refused,
             NEW b \in Records(Store(n, key, status)), b.key = a.key
      PROVE  b = a
  BY <1>1, <1>2, <1>3, OneRecord
<1> QED
  BY <1>3 DEF Upheld, Found

-----------------------------------------------------------------------------
(* The inductive invariant, and the steps.                                 *)

IInv ==
  /\ Whole(inner) /\ Len(inner.approvals) <= Limit
  /\ granted \subseteq Capabilities /\ consent \subseteq Keys
  /\ Consented(inner, consent)

LEMMA GivesKeeps ==
  ASSUME IInv, NEW answer, NEW given \in SUBSET Keys, Gives(answer, given),
         Whole(answer.inner), Len(answer.inner.approvals) <= Limit,
         Consented(answer.inner, (consent \cup given) \ answer.withdrawn),
         Upheld(inner, answer.inner)
  PROVE  IInv' /\ Upheld(inner, inner')
<1>1. /\ inner' = answer.inner /\ consent' = (consent \cup given) \ answer.withdrawn
      /\ granted' = granted
  BY DEF Gives
<1>2. Whole(inner)' /\ Consented(inner, consent)'
  BY <1>1 DEF Whole, Inners, Valid, Records, Tracked, Consented, Known, ClassConsent
<1> QED
  BY <1>1, <1>2 DEF IInv

\* Every answer is given about the state with the request in it.
LEMMA Tracking ==
  ASSUME IInv, NEW r \in Requests
  PROVE  /\ Whole(Track(inner, r)) /\ Records(Track(inner, r)) = Records(inner)
         /\ Track(inner, r).approvals = inner.approvals
         /\ r.id \in Tracked(Track(inner, r))
         /\ Consented(Track(inner, r), consent)
BY TrackKeeps, TrackConsented DEF IInv

LEMMA AnswerParts ==
  ASSUME NEW m, NEW status, NEW withdrawn
  PROVE  /\ Answer(m, status, withdrawn).inner = m
         /\ Answer(m, status, withdrawn).status = status
         /\ Answer(m, status, withdrawn).withdrawn = withdrawn
BY DEF Answer

LEMMA DecideStep ==
  ASSUME IInv, NEW r \in Requests, Decide(r, Track(inner, r))
  PROVE  IInv' /\ Upheld(inner, inner')
<1> DEFINE d == Decision(inner, r)
<1>1. /\ Whole(d.inner) /\ Fits(d.inner) /\ Kept(inner, d.inner)
      /\ Consented(d.inner, consent \ d.withdrawn)
  BY DecisionKeeps DEF IInv
<1>2. Gives(d, {})
  BY DEF Decide, Decision
<1>3. Upheld(inner, d.inner)
  BY <1>1, FewerUphold, KeptUpholds DEF IInv
<1> HIDE DEF d
<1>4. Len(d.inner.approvals) <= Limit /\ (consent \cup {}) \ d.withdrawn = consent \ d.withdrawn
  BY <1>1 DEF Fits
<1> QED
  BY <1>1, <1>2, <1>3, <1>4, GivesKeeps

\* An answer that is only the pruned state, or only the tracked one.
LEMMA PrunedStep ==
  ASSUME IInv, NEW r \in Requests, NEW status,
         Gives(Answer(Pruned(Track(inner, r)), status, {}), {})
  PROVE  IInv' /\ Upheld(inner, inner')
<1> DEFINE p == Pruned(Track(inner, r))
           d == Answer(p, status, {})
<1>1. Whole(p) /\ Fits(p) /\ Records(p) \subseteq Records(inner) /\ Consented(p, consent)
  BY Tracking, PrunedKeeps, PrunedConsented
<1> HIDE DEF p
<1>2. d.inner = p /\ d.withdrawn = {}
  BY AnswerParts
<1>3. Gives(d, {})
  BY DEF p
<1> HIDE DEF d
<1>4. Upheld(inner, p)
  BY <1>1, FewerUphold DEF IInv
<1>5. Len(p.approvals) <= Limit /\ (consent \cup {}) \ {} = consent
  BY <1>1 DEF Fits
<1> QED
  BY <1>1, <1>2, <1>3, <1>4, <1>5, GivesKeeps

LEMMA TrackedStep ==
  ASSUME IInv, NEW r \in Requests, NEW status,
         Gives(Answer(Track(inner, r), status, {}), {})
  PROVE  IInv' /\ Upheld(inner, inner')
<1> DEFINE t == Track(inner, r)
           d == Answer(t, status, {})
<1>1. /\ Whole(t) /\ t.approvals = inner.approvals /\ Records(t) = Records(inner)
      /\ Consented(t, consent)
  BY Tracking
<1> HIDE DEF t
<1>2. d.inner = t /\ d.withdrawn = {}
  BY AnswerParts
<1>3. Gives(d, {})
  BY DEF t
<1> HIDE DEF d
<1>4. Upheld(inner, t)
  BY <1>1, FewerUphold DEF IInv
<1>5. Len(t.approvals) <= Limit /\ (consent \cup {}) \ {} = consent
  BY <1>1 DEF IInv
<1> QED
  BY <1>1, <1>2, <1>3, <1>4, <1>5, GivesKeeps

LEMMA RequestApprovalStep ==
  ASSUME IInv, NEW r \in Requests, RequestApproval(r, Track(inner, r))
  PROVE  IInv' /\ Upheld(inner, inner')
<1> DEFINE t == Track(inner, r)
           current == {a \in Found(t, Key(r)) : a.status # "invalidated"}
           s == Store(t, Key(r), "pending")
           p == Pruned(s)
           d == Answer(p, "pending", {})
<1>1. CASE current # {}
  <2>1. \E status : Gives(Answer(Pruned(t), status, {}), {})
    BY <1>1 DEF RequestApproval
  <2> QED
    BY <2>1, PrunedStep
<1>2. CASE current = {}
  <2>1. Gives(d, {})
    BY <1>2 DEF RequestApproval
  <2>2. /\ Whole(t) /\ Records(t) = Records(inner) /\ r.id \in Tracked(t)
        /\ Consented(t, consent)
    BY Tracking
  <2>3. Key(r) \in Keys /\ Key(r)[1] = r.id /\ "pending" \in Statuses
    BY DEF Keys, Key, Statuses, Open
  <2>4. \A a \in Records(inner) : a.status \in Refused => a.key # Key(r)
    BY <1>2, <2>2, PolicyAssumption DEF Found
  <2> HIDE DEF t
  <2>5. /\ Whole(s) /\ s.classes = t.classes
        /\ Records(s) = {a \in Records(t) : a.key # Key(r)} \cup {Approval(Key(r), "pending")}
    BY <2>2, <2>3, StoreKeeps
  <2>6. Upheld(inner, s)
    BY <2>2, <2>3, <2>4, StoreUpholds DEF IInv
  <2>7. Consented(s, consent)
    <3>1. Known(s) = Known(t)
      BY <2>5 DEF Known
    <3>2. Approval(Key(r), "pending").status = "pending"
      BY DEF Approval
    <3> QED
      BY <2>2, <2>5, <3>1, <3>2 DEF Consented
  <2> HIDE DEF s
  <2>8. Whole(p) /\ Fits(p) /\ Records(p) \subseteq Records(s) /\ Consented(p, consent)
    BY <2>5, <2>7, PrunedKeeps, PrunedConsented
  <2> HIDE DEF p
  <2>9. Kept(s, p)
    BY <2>8 DEF Kept
  <2>10. Upheld(inner, p)
    BY <2>6, <2>9, KeptUpholds
  <2>11. d.inner = p /\ d.withdrawn = {}
    BY AnswerParts
  <2>12. Len(p.approvals) <= Limit /\ (consent \cup {}) \ {} = consent
    BY <2>8 DEF Fits
  <2> HIDE DEF d
  <2> QED
    BY <2>1, <2>8, <2>10, <2>11, <2>12, GivesKeeps
<1> QED
  BY <1>1, <1>2

\* Nobody refuses under the digests that are decided.
LEMMA DecidableIsFree ==
  ASSUME NEW m, Whole(m), NEW r, NEW key, Decidable(m, r, key),
         NEW a \in Records(m), a.status \in Refused
  PROVE  a.key # key
<1>1. SUFFICES ASSUME a.key = key
               PROVE  FALSE
  OBVIOUS
<1>2. a \in Found(m, key)
  BY <1>1 DEF Found
<1> DEFINE b == CHOOSE c \in Found(m, key) : TRUE
<1>3. b \in Found(m, key) /\ Addressed(m, key) = b
  BY <1>2 DEF Addressed
<1> HIDE DEF b
<1>4. b = a
  BY <1>1, <1>3, OneRecord DEF Found
<1> QED
  BY <1>3, <1>4, PolicyAssumption DEF Decidable

LEMMA DecideStaleStep ==
  ASSUME IInv, NEW r \in Requests, NEW key, DecideStale(r, Track(inner, r), key)
  PROVE  IInv' /\ Upheld(inner, inner')
<1> DEFINE t == Track(inner, r)
           a == CHOOSE c \in Stale(t, r, key) : TRUE
           d == Void(t, a)
<1>1. /\ Whole(t) /\ Records(t) = Records(inner) /\ Consented(t, consent)
  BY Tracking
<1>2. Stale(t, r, key) # {} /\ Gives(d, {})
  BY DEF DecideStale
<1> HIDE DEF t
<1>3. a \in Stale(t, r, key)
  BY <1>2
<1> HIDE DEF a
<1>4. a \in Records(t)
  BY <1>3 DEF Stale, Found, Conflicting, Records
<1>5. a \in Decisions /\ a.key[1] \in Tracked(t)
  BY <1>1, <1>4, RecordsAreDecisions
<1>6. /\ Whole(d.inner) /\ Fits(d.inner)
      /\ Consented(d.inner, consent \ d.withdrawn) /\ Kept(inner, d.inner)
  BY <1>1, <1>4, <1>5, VoidKeeps, VoidConsented, VoidKept
<1> HIDE DEF d
<1>7. Upheld(inner, d.inner)
  BY <1>6, FewerUphold, KeptUpholds DEF IInv
<1>8. Len(d.inner.approvals) <= Limit /\ (consent \cup {}) \ d.withdrawn = consent \ d.withdrawn
  BY <1>6 DEF Fits
<1> QED
  BY <1>2, <1>6, <1>7, <1>8, GivesKeeps

\* What an actor decides is stored, pruned, and decided again.
LEMMA ApproveStep ==
  ASSUME IInv, NEW r \in Requests, NEW key \in KeysFor(r),
         Approve(r, Track(inner, r), key)
  PROVE  IInv' /\ Upheld(inner, inner')
<1> DEFINE t == Track(inner, r)
           s == Store(t, key, "approved")
           p == Pruned(s)
           d == Decision(p, r)
           C == consent \cup {key}
<1>1. Decidable(t, r, key) /\ Gives(d, {key})
  BY DEF Approve
<1>2. /\ Whole(t) /\ Records(t) = Records(inner) /\ r.id \in Tracked(t)
      /\ Consented(t, consent)
  BY Tracking
<1>3. key \in Keys /\ key[1] = r.id /\ "approved" \in Statuses
  BY DEF KeysFor, Statuses, Open
<1> HIDE DEF t
<1>4. /\ Whole(s) /\ s.classes = t.classes
      /\ Records(s) = {a \in Records(t) : a.key # key} \cup {Approval(key, "approved")}
  BY <1>2, <1>3, StoreKeeps
<1>5. \A a \in Records(inner) : a.status \in Refused => a.key # key
  BY <1>1, <1>2, DecidableIsFree
<1>6. Upheld(inner, s)
  BY <1>2, <1>3, <1>5, StoreUpholds DEF IInv
<1>7. Consented(s, C)
  <2>1. Known(s) = Known(t)
    BY <1>4 DEF Known
  <2>2. Approval(key, "approved").key = key
    BY DEF Approval
  <2>3. \A a \in Records(s) : a.status = "approved" => a.key \in C
    BY <1>2, <1>4, <2>2 DEF Consented
  <2>4. \A c \in Known(s) : ClassConsent(c.action, c.caps, C)
    BY <1>2, <2>1 DEF Consented, ClassConsent
  <2> QED
    BY <2>3, <2>4 DEF Consented
<1> HIDE DEF s, C
<1>8. Whole(p) /\ Records(p) \subseteq Records(s) /\ Consented(p, C)
  BY <1>4, <1>7, PrunedKeeps, PrunedConsented
<1> HIDE DEF p
<1>9. Kept(s, p)
  BY <1>8 DEF Kept
<1>10. Upheld(inner, p)
  BY <1>6, <1>9, KeptUpholds
<1>11. /\ Whole(d.inner) /\ Fits(d.inner) /\ Kept(p, d.inner)
       /\ Consented(d.inner, C \ d.withdrawn)
  BY <1>8, DecisionKeeps
<1> HIDE DEF d
<1>12. Upheld(inner, d.inner)
  BY <1>10, <1>11, KeptUpholds
<1>13. Len(d.inner.approvals) <= Limit /\ {key} \in SUBSET Keys
  BY <1>3, <1>11 DEF Fits
<1> QED
  BY <1>1, <1>11, <1>12, <1>13, GivesKeeps DEF C

LEMMA RefuseStep ==
  ASSUME IInv, NEW r \in Requests, NEW key \in KeysFor(r), NEW status \in Refused,
         Refuse(r, Track(inner, r), key, status)
  PROVE  IInv' /\ Upheld(inner, inner')
<1> DEFINE t == Track(inner, r)
           f == Forget(t, key[3])
           s == Store(f, key, status)
           p == Pruned(s)
           d == Decision(p, r)
           e == [d EXCEPT !.withdrawn = @ \cup {key}]
           C == consent \ {key}
<1>1. Decidable(t, r, key) /\ Gives(e, {})
  BY DEF Refuse
<1>2. /\ Whole(t) /\ Records(t) = Records(inner) /\ r.id \in Tracked(t)
      /\ Consented(t, consent)
  BY Tracking
<1>3. key \in Keys /\ key[1] = r.id /\ status \in Statuses
  BY DEF KeysFor, Statuses
<1>4. \A a \in Records(inner) : a.status \in Refused => a.key # key
  BY <1>1, <1>2, DecidableIsFree
<1> HIDE DEF t
<1>5. /\ Whole(f) /\ f.requests = t.requests /\ f.approvals = t.approvals
      /\ Known(f) = {c \in Known(t) : c.action # key[3]}
  BY <1>2, ForgetKeeps
<1> HIDE DEF f
<1>6. Records(f) = Records(t) /\ Tracked(f) = Tracked(t)
  BY <1>5 DEF Records, Tracked
<1>7. /\ Whole(s) /\ s.classes = f.classes
      /\ Records(s) = {a \in Records(f) : a.key # key} \cup {Approval(key, status)}
  BY <1>2, <1>3, <1>5, <1>6, StoreKeeps
<1>8. Upheld(inner, s)
  BY <1>2, <1>3, <1>4, <1>5, <1>6, StoreUpholds DEF IInv
<1>9. Consented(s, C)
  <2>1. Known(s) = Known(f)
    BY <1>7 DEF Known
  <2>2. Approval(key, status).status # "approved"
    BY PolicyAssumption DEF Approval
  <2>3. \A a \in Records(s) : a.status = "approved" => a.key \in C
    BY <1>2, <1>6, <1>7, <2>2 DEF Consented
  <2>4. ASSUME NEW c \in Known(s)
        PROVE  ClassConsent(c.action, c.caps, C)
    <3>1. c \in Known(t) /\ c.action # key[3]
      BY <1>5, <2>1
    <3>2. PICK q \in Requests :
            q.kind = "class" /\ Key(q) \in consent /\ q.action = c.action /\ q.caps = c.caps
      BY <1>2, <3>1 DEF Consented, ClassConsent
    <3>3. Key(q) # key
      BY <3>1, <3>2 DEF Key
    <3> QED
      BY <3>2, <3>3 DEF ClassConsent
  <2> QED
    BY <2>3, <2>4 DEF Consented
<1> HIDE DEF s, C
<1>10. Whole(p) /\ Records(p) \subseteq Records(s) /\ Consented(p, C)
  BY <1>7, <1>9, PrunedKeeps, PrunedConsented
<1> HIDE DEF p
<1>11. Kept(s, p)
  BY <1>10 DEF Kept
<1>12. Upheld(inner, p)
  BY <1>8, <1>11, KeptUpholds
<1>13. /\ Whole(d.inner) /\ Fits(d.inner) /\ Kept(p, d.inner)
       /\ Consented(d.inner, C \ d.withdrawn)
  BY <1>10, DecisionKeeps
<1>14. e.inner = d.inner /\ e.withdrawn = d.withdrawn \cup {key}
  <2>1. \E m2, status2, gone : d = Answer(m2, status2, gone)
    BY DecisionIsAnswer
  <2> HIDE DEF d
  <2> QED
    BY <2>1 DEF Answer
<1> HIDE DEF d, e
<1>15. Upheld(inner, d.inner)
  BY <1>12, <1>13, KeptUpholds
<1>16. /\ Len(d.inner.approvals) <= Limit
       /\ (consent \cup {}) \ (d.withdrawn \cup {key}) = C \ d.withdrawn
  BY <1>13 DEF Fits, C
<1> QED
  BY <1>1, <1>13, <1>14, <1>15, <1>16, GivesKeeps

LEMMA InvalidateStep ==
  ASSUME IInv, NEW r \in Requests, NEW key \in KeysFor(r),
         Invalidate(Track(inner, r), key)
  PROVE  IInv' /\ Upheld(inner, inner')
<1> DEFINE t == Track(inner, r)
           a == Addressed(t, key)
           p == Pruned(t)
           d == Void(p, a)
<1>1. CASE Found(t, key) = {}
  <2>1. Gives(Answer(t, "error", {}), {})
    BY <1>1 DEF Invalidate
  <2> QED
    BY <2>1, TrackedStep
<1>2. CASE Found(t, key) # {}
  <2>1. Gives(d, {})
    BY <1>2 DEF Invalidate
  <2>2. /\ Whole(t) /\ Records(t) = Records(inner) /\ t.approvals = inner.approvals
        /\ Consented(t, consent)
        /\ Len(t.requests) > 0 /\ t.requests[Len(t.requests)] = r
    BY Tracking, TrackKeeps DEF IInv
  <2> HIDE DEF t
  <2>3. a \in Found(t, key)
    BY <1>2 DEF Addressed
  <2> HIDE DEF a
  <2>4. a \in Records(t) /\ a.key = key /\ a \in Decisions /\ a.key[1] = r.id
    BY <2>2, <2>3, RecordsAreDecisions DEF Found, KeysFor
  <2>5. a.key[1] \in Tracked(p)
    BY <2>2, <2>4, NewestStays DEF IInv
  <2>6. Whole(p) /\ Records(p) \subseteq Records(t) /\ Consented(p, consent)
    BY <2>2, PrunedKeeps, PrunedConsented
  <2> HIDE DEF p
  <2>7. /\ Whole(d.inner) /\ Fits(d.inner)
        /\ Consented(d.inner, consent \ d.withdrawn) /\ Kept(inner, d.inner)
    BY <2>2, <2>4, <2>5, <2>6, VoidKeeps, VoidConsented, VoidKept
  <2> HIDE DEF d
  <2>8. Upheld(inner, d.inner)
    BY <2>7, FewerUphold, KeptUpholds DEF IInv
  <2>9. /\ Len(d.inner.approvals) <= Limit
        /\ (consent \cup {}) \ d.withdrawn = consent \ d.withdrawn
    BY <2>7 DEF Fits
  <2> QED
    BY <2>1, <2>7, <2>8, <2>9, GivesKeeps
<1> QED
  BY <1>1, <1>2

\* A step that changes nothing but what the engine holds, and adds nothing to it.
LEMMA InnerStep ==
  ASSUME IInv, UNCHANGED <<granted, consent>>,
         Whole(inner'), Len(inner'.approvals) <= Limit,
         Records(inner') \subseteq Records(inner), Known(inner') \subseteq Known(inner)
  PROVE  IInv' /\ Upheld(inner, inner')
<1>1. Consented(inner', consent')
  BY ConsentedLess DEF IInv
<1>2. Upheld(inner, inner')
  BY FewerUphold DEF IInv
<1>3. Whole(inner)' /\ Consented(inner, consent)'
  BY <1>1 DEF Whole, Inners, Valid, Records, Tracked, Consented, Known, ClassConsent
<1> QED
  BY <1>2, <1>3 DEF IInv

LEMMA Initially == Init => IInv
<1> SUFFICES ASSUME Init
             PROVE  IInv
  OBVIOUS
<1>1. /\ inner.requests = << >> /\ inner.approvals = << >> /\ inner.classes = << >>
      /\ inner \in Inners
  BY EmptySeq DEF Init, Inners
<1>2. Len(<< >>) = 0 /\ DOMAIN << >> = {}
  BY EmptySeq
<1>3. Records(inner) = {} /\ Known(inner) = {}
  BY <1>1, <1>2 DEF Records, Known
<1>4. Whole(inner) /\ Len(inner.approvals) <= Limit
  BY <1>1, <1>2, <1>3, PolicyAssumption DEF Whole, Valid
<1>5. Consented(inner, consent)
  BY <1>3 DEF Consented
<1> QED
  BY <1>4, <1>5 DEF Init, IInv

LEMMA Steps ==
  ASSUME IInv, [Next]_vars
  PROVE  IInv' /\ Upheld(inner, inner')
<1>1. CASE UNCHANGED vars
  <2>1. inner' = inner /\ UNCHANGED <<granted, consent>>
    BY <1>1 DEF vars
  <2>2. /\ Whole(inner') /\ Len(inner'.approvals) <= Limit
        /\ Records(inner') \subseteq Records(inner) /\ Known(inner') \subseteq Known(inner)
    BY <2>1 DEF IInv
  <2> QED
    BY <2>1, <2>2, InnerStep
<1>2. ASSUME NEW r \in Requests, Serve(r)
      PROVE  IInv' /\ Upheld(inner, inner')
  <2> DEFINE t == Track(inner, r)
  <2>1. CASE Decide(r, t)
    BY <2>1, DecideStep
  <2>2. CASE RequestApproval(r, t)
    BY <2>2, RequestApprovalStep
  <2>3. ASSUME NEW key \in KeysFor(r), DecideStale(r, t, key)
        PROVE  IInv' /\ Upheld(inner, inner')
    BY <2>3, DecideStaleStep
  <2>4. ASSUME NEW key \in KeysFor(r), DecideAgain(t, key)
        PROVE  IInv' /\ Upheld(inner, inner')
    <3>1. Gives(Answer(t, "error", {}), {})
      BY <2>4 DEF DecideAgain
    <3> QED
      BY <3>1, TrackedStep
  <2>5. ASSUME NEW key \in KeysFor(r), Approve(r, t, key)
        PROVE  IInv' /\ Upheld(inner, inner')
    BY <2>5, ApproveStep
  <2>6. ASSUME NEW key \in KeysFor(r), NEW status \in Refused, Refuse(r, t, key, status)
        PROVE  IInv' /\ Upheld(inner, inner')
    BY <2>6, RefuseStep
  <2>7. ASSUME NEW key \in KeysFor(r), Invalidate(t, key)
        PROVE  IInv' /\ Upheld(inner, inner')
    BY <2>7, InvalidateStep
  <2> QED
    BY <1>2, <2>1, <2>2, <2>3, <2>4, <2>5, <2>6, <2>7 DEF Serve
<1>3. ASSUME NEW r \in Requests, ForgetToolClass(r.action)
      PROVE  IInv' /\ Upheld(inner, inner')
  <2>1. inner' = Forget(inner, r.action) /\ UNCHANGED <<granted, consent>>
    BY <1>3 DEF ForgetToolClass
  <2>2. /\ Whole(Forget(inner, r.action))
        /\ Forget(inner, r.action).approvals = inner.approvals
        /\ Known(Forget(inner, r.action)) = {c \in Known(inner) : c.action # r.action}
    BY ForgetKeeps DEF IInv
  <2>3. /\ Whole(inner') /\ Len(inner'.approvals) <= Limit
        /\ Records(inner') \subseteq Records(inner) /\ Known(inner') \subseteq Known(inner)
    BY <2>1, <2>2 DEF IInv, Records
  <2> QED
    BY <2>1, <2>3, InnerStep
<1>4. ASSUME NEW c \in Revocable, Grant(c) \/ Revoke(c)
      PROVE  IInv' /\ Upheld(inner, inner')
  <2>1. inner' = inner /\ consent' = consent /\ granted' \subseteq granted \cup {c}
    BY <1>4 DEF Grant, Revoke
  <2>2. c \in Capabilities
    BY PolicyAssumption DEF Capabilities
  <2>3. granted' \subseteq Capabilities
    BY <2>1, <2>2 DEF IInv
  <2>4. Upheld(inner, inner')
    BY <2>1, FewerUphold DEF IInv
  <2>5. Whole(inner)'
    BY <2>1 DEF IInv, Whole, Inners, Valid, Records, Tracked
  <2>6. Consented(inner, consent)'
    BY <2>1 DEF IInv, Consented, Records, Known, ClassConsent
  <2> QED
    BY <2>1, <2>3, <2>4, <2>5, <2>6 DEF IInv
<1>5. CASE Reload
  <2>1. inner' = Pruned(inner) /\ UNCHANGED <<granted, consent>>
    BY <1>5 DEF Reload
  <2>2. /\ Whole(Pruned(inner)) /\ Fits(Pruned(inner)) /\ Pruned(inner).classes = inner.classes
        /\ Records(Pruned(inner)) \subseteq Records(inner)
    BY PrunedKeeps DEF IInv
  <2>3. /\ Whole(inner') /\ Len(inner'.approvals) <= Limit
        /\ Records(inner') \subseteq Records(inner) /\ Known(inner') \subseteq Known(inner)
    BY <2>1, <2>2 DEF Fits, Known
  <2> QED
    BY <2>1, <2>3, InnerStep
<1> QED
  BY <1>1, <1>2, <1>3, <1>4, <1>5 DEF Next

LEMMA AlwaysWhole == Spec => []IInv
<1>1. IInv /\ [Next]_vars => IInv'
  BY Steps
<1> QED
  BY Initially, <1>1, PTL DEF Spec

-----------------------------------------------------------------------------
(* In which order the limit pushes requests out.                           *)

\* The records about a request.
About(m, id) == {a \in Records(m) : a.key[1] = id}

\* m2 comes of m by a call about request i: what m2 tracks besides i was tracked and is
\* worth what it was worth, and what is gone was worth no more, i left aside.
Fair(m, m2, i) ==
  /\ \A x \in Tracked(m2) : x # i => x \in Tracked(m) /\ Tier(m2, x) = Tier(m, x)
  /\ \A gone \in Tracked(m) \ Tracked(m2), left \in Tracked(m2) :
       gone = i \/ left = i \/ Tier(m, gone) <= Tier(m, left)

\* What a request is worth depends on the records about it.
LEMMA TierOfRecords ==
  ASSUME NEW m, NEW m2, NEW id, About(m2, id) = About(m, id)
  PROVE  Tier(m2, id) = Tier(m, id) /\ Tier(m, id) \in 0 .. 3
<1>1. ASSUME NEW n
      PROVE  {n.approvals[k].status : k \in {i \in DOMAIN n.approvals : n.approvals[i].key[1] = id}}
               = {a.status : a \in About(n, id)}
  BY DEF About, Records
<1>2. /\ {m2.approvals[k].status : k \in {i \in DOMAIN m2.approvals : m2.approvals[i].key[1] = id}}
           = {a.status : a \in About(m2, id)}
      /\ {m.approvals[k].status : k \in {i \in DOMAIN m.approvals : m.approvals[i].key[1] = id}}
           = {a.status : a \in About(m, id)}
  BY <1>1, Zenon
<1>3. Tier(m2, id) = Tier(m, id)
  <2>1. PICK statuses : statuses = {a.status : a \in About(m, id)}
    OBVIOUS
  <2>2. statuses = {a.status : a \in About(m2, id)}
    BY <2>1
  <2> QED
    BY <1>2, <2>1, <2>2, Zenon DEF Tier
<1>4. PICK found : found = {m.approvals[k].status :
                              k \in {i \in DOMAIN m.approvals : m.approvals[i].key[1] = id}}
  OBVIOUS
<1>5. Tier(m, id) = IF "pending" \in found THEN 3
                    ELSE IF found \cap Refused # {} THEN 2
                    ELSE IF "approved" \in found THEN 1 ELSE 0
  BY <1>4, Zenon DEF Tier
<1>6. Tier(m, id) \in 0 .. 3
  BY <1>5
<1> QED
  BY <1>3, <1>6

LEMMA FairThenFair ==
  ASSUME NEW m, NEW m1, NEW m2, NEW i, Fair(m, m1, i), Fair(m1, m2, i)
  PROVE  Fair(m, m2, i)
<1>1. ASSUME NEW x \in Tracked(m2), x # i
      PROVE  x \in Tracked(m1) /\ x \in Tracked(m) /\ Tier(m2, x) = Tier(m, x)
  BY <1>1 DEF Fair
<1>2. ASSUME NEW gone \in Tracked(m) \ Tracked(m2), NEW left \in Tracked(m2), gone # i, left # i
      PROVE  Tier(m, gone) <= Tier(m, left)
  <2>1. left \in Tracked(m1) /\ Tier(m1, left) = Tier(m, left)
    BY <1>1, <1>2 DEF Fair
  <2>2. CASE gone \in Tracked(m1)
    BY <1>2, <2>1, <2>2 DEF Fair
  <2>3. CASE gone \notin Tracked(m1)
    BY <1>2, <2>1, <2>3 DEF Fair
  <2> QED
    BY <2>2, <2>3
<1> QED
  BY <1>1, <1>2 DEF Fair

\* What leaves all other requests and their records alone is fair.
LEMMA AsideIsFair ==
  ASSUME NEW m, NEW m2, NEW i, Tracked(m2) \cup {i} = Tracked(m) \cup {i},
         \A x : x # i => About(m2, x) = About(m, x)
  PROVE  Fair(m, m2, i)
BY TierOfRecords DEF Fair

LEMMA TrackFair ==
  ASSUME NEW m, Whole(m), NEW r \in Requests
  PROVE  Fair(m, Track(m, r), r.id)
<1>1. Track(m, r).approvals = m.approvals /\ Tracked(Track(m, r)) = Tracked(m) \cup {r.id}
  BY TrackKeeps
<1>2. Records(Track(m, r)) = Records(m)
  BY <1>1 DEF Records
<1> QED
  BY <1>1, <1>2, AsideIsFair DEF About

LEMMA StoreFair ==
  ASSUME NEW m, Whole(m), NEW key \in Keys, NEW status \in Statuses, key[1] \in Tracked(m)
  PROVE  Fair(m, Store(m, key, status), key[1])
<1> DEFINE s == Store(m, key, status)
<1>1. /\ s.requests = m.requests
      /\ Records(s) = {a \in Records(m) : a.key # key} \cup {Approval(key, status)}
  BY StoreKeeps
<1> HIDE DEF s
<1>2. Tracked(s) = Tracked(m)
  BY <1>1 DEF Tracked
<1>3. Approval(key, status).key = key
  BY DEF Approval
<1>4. \A x : x # key[1] => About(s, x) = About(m, x)
  BY <1>1, <1>3 DEF About
<1> QED
  BY <1>2, <1>4, AsideIsFair DEF s

\* The tool classes are nobody's worth.
LEMMA ClassesFair ==
  ASSUME NEW m, NEW m2, NEW i, m2.requests = m.requests, m2.approvals = m.approvals
  PROVE  Fair(m, m2, i)
<1>1. Tracked(m2) = Tracked(m) /\ Records(m2) = Records(m)
  BY DEF Tracked, Records
<1> QED
  BY <1>1, AsideIsFair DEF About

\* A request that goes although another stays ranks before it, or all that rank before it
\* would be more than enough: so it is worth no more.
LEMMA DiscardedFair ==
  ASSUME NEW m, Whole(m), NEW gone \in Discarded(m), NEW left \in Tracked(m) \ Discarded(m)
  PROVE  Tier(m, gone) <= Tier(m, left)
<1> DEFINE rank == Rank(m)
           n == Len(m.requests)
           Before(k) == {m.requests[j].id : j \in {i \in DOMAIN rank : rank[i] < rank[k]}}
<1>1. DOMAIN rank = DOMAIN m.requests /\ \A k \in DOMAIN rank : rank[k] \in Nat
  BY RankIsNatural
<1>2. DOMAIN m.requests = 1 .. n /\ n \in Nat
  BY LenProperties DEF Whole, Inners
<1>3. PICK g \in DOMAIN m.requests : gone = m.requests[g].id /\ ~ Room(m, Before(g))
  BY <1>1 DEF Discarded
<1>4. PICK l \in DOMAIN m.requests : left = m.requests[l].id /\ Room(m, Before(l))
  BY <1>1 DEF Discarded, Tracked
<1>5. Tier(m, gone) \in 0 .. 3 /\ Tier(m, left) \in 0 .. 3
  BY TierOfRecords
<1>6. /\ rank[g] = Tier(m, gone) * (n + 1) + g
      /\ rank[l] = Tier(m, left) * (n + 1) + l
  BY <1>3, <1>4 DEF Rank
<1>7. rank[g] \in Nat /\ rank[l] \in Nat
  BY <1>1
<1> HIDE DEF rank
<1>8. rank[g] <= rank[l]
  <2> SUFFICES ASSUME rank[l] < rank[g]
               PROVE  FALSE
    BY <1>7
  <2>1. Before(l) \subseteq Before(g)
    BY <1>1, <1>7
  <2>2. Fits(Without(m, Before(l)))
    BY <1>4, RoomFits
  <2> HIDE DEF Before
  <2>3. Fits(Without(m, Before(g)))
    BY <2>1, <2>2, WithoutShrinks
  <2> QED
    BY <2>3, <1>3, RoomFits
<1>9. g \in 1 .. n /\ l \in 1 .. n
  BY <1>2
<1>10. ASSUME NEW a \in 0 .. 3, NEW b \in 0 .. 3, a * (n + 1) + g <= b * (n + 1) + l
       PROVE  a <= b
  <2>1. a \in {0, 1, 2, 3} /\ b \in {0, 1, 2, 3}
    OBVIOUS
  <2> QED
    BY <2>1, <1>2, <1>9, <1>10
<1> QED
  BY <1>5, <1>6, <1>8, <1>10

\* Pruning is fair to all.
LEMMA PrunedFair ==
  ASSUME NEW m, Whole(m), NEW i
  PROVE  Fair(m, Pruned(m), i)
<1>1. CASE Fits(m)
  <2>1. Pruned(m) = m
    BY <1>1 DEF Pruned
  <2> QED
    BY <2>1 DEF Fair
<1>2. CASE ~ Fits(m)
  <2>1. Pruned(m) = Without(Owned(m), Discarded(Owned(m)))
    BY <1>2 DEF Pruned
  <2> DEFINE o == Owned(m)
             D == Discarded(o)
             w == Without(o, D)
  <2>2. Whole(o) /\ Records(o) = Records(m) /\ Tracked(o) = Tracked(m)
    BY OwnedKeeps
  <2> HIDE DEF o, D
  <2>3. Records(w) = {a \in Records(o) : a.key[1] \notin D} /\ Tracked(w) = Tracked(o) \ D
    BY <2>2, WithoutKeeps
  <2> HIDE DEF w
  <2>4. \A x : Tier(o, x) = Tier(m, x)
    BY <2>2, TierOfRecords DEF About
  <2>5. \A x \in Tracked(w) : Tier(w, x) = Tier(o, x)
    <3> TAKE x \in Tracked(w)
    <3>1. About(w, x) = About(o, x)
      BY <2>3 DEF About
    <3> QED
      BY <3>1, TierOfRecords
  <2>6. \A gone \in Tracked(m) \ Tracked(w), left \in Tracked(w) : Tier(o, gone) <= Tier(o, left)
    BY <2>2, <2>3, DiscardedFair DEF D
  <2>7. Fair(m, w, i)
    BY <2>2, <2>3, <2>4, <2>5, <2>6 DEF Fair
  <2> QED
    BY <2>1, <2>7 DEF w, D, o
<1> QED
  BY <1>1, <1>2

LEMMA VoidFair ==
  ASSUME NEW m, Whole(m), NEW a \in Decisions, a.key[1] \in Tracked(m)
  PROVE  Fair(m, Void(m, a).inner, a.key[1])
<1> DEFINE f == Forget(m, a.key[3])
           s == Store(f, a.key, "invalidated")
           i == a.key[1]
<1>1. Whole(f) /\ f.requests = m.requests /\ f.approvals = m.approvals
  BY ForgetKeeps
<1>2. a.key \in Keys /\ "invalidated" \in Statuses
  BY DEF Decisions, Statuses
<1>3. Fair(m, f, i) /\ i \in Tracked(f)
  BY <1>1, ClassesFair DEF Tracked
<1> HIDE DEF f
<1>4. CASE a.status \in Refused
  <2>1. Void(m, a).inner = Pruned(f)
    BY <1>4 DEF Void, Answer, f
  <2> QED
    BY <2>1, <1>1, <1>3, PrunedFair, FairThenFair
<1>5. CASE a.status \notin Refused
  <2>1. Void(m, a).inner = Pruned(s)
    BY <1>5 DEF Void, Answer, f
  <2>2. Whole(s) /\ Fair(f, s, i)
    BY <1>1, <1>2, <1>3, StoreKeeps, StoreFair
  <2> HIDE DEF s
  <2>3. Fair(f, Pruned(s), i)
    BY <2>2, PrunedFair, FairThenFair
  <2> QED
    BY <2>1, <2>3, <1>3, FairThenFair
<1> QED
  BY <1>4, <1>5

LEMMA DecisionFair ==
  ASSUME NEW m, Whole(m), NEW r \in Requests
  PROVE  Fair(m, Decision(m, r).inner, r.id) /\ Fits(Decision(m, r).inner)
<1> DEFINE d == Decision(m, r)
<1>1. PICK t : t = Track(m, r)
  OBVIOUS
<1>2. Whole(t) /\ Fair(m, t, r.id)
  BY <1>1, TrackKeeps, TrackFair
<1>3. \/ d.inner = Pruned(t)
      \/ d.inner = Pruned(Remember(t, r))
      \/ \E a \in Conflicting(t, r) : d.inner = Void(t, a).inner
  BY <1>1, DecisionCases, AnswerParts
<1> HIDE DEF d
<1>4. Fair(t, Pruned(t), r.id) /\ Fits(Pruned(t))
  BY <1>2, PrunedFair, PrunedKeeps
<1>5. Fair(t, Pruned(Remember(t, r)), r.id) /\ Fits(Pruned(Remember(t, r)))
  <2>1. /\ Whole(Remember(t, r))
        /\ Remember(t, r).requests = t.requests /\ Remember(t, r).approvals = t.approvals
    BY <1>2, RememberKeeps
  <2> QED
    BY <2>1, ClassesFair, PrunedFair, PrunedKeeps, FairThenFair
<1>6. ASSUME NEW a \in Conflicting(t, r)
      PROVE  Fair(t, Void(t, a).inner, r.id) /\ Fits(Void(t, a).inner)
  <2>1. a \in Records(t) /\ a.key[1] = r.id
    BY DEF Conflicting, Records
  <2>2. a \in Decisions /\ a.key[1] \in Tracked(t)
    BY <1>2, <2>1, RecordsAreDecisions
  <2> QED
    BY <1>2, <2>1, <2>2, VoidFair, VoidKeeps
<1>7. Fair(t, d.inner, r.id) /\ Fits(d.inner)
  BY <1>3, <1>4, <1>5, <1>6
<1> QED
  BY <1>2, <1>7, FairThenFair DEF d

\* Every call is fair to the requests it is not about, and prunes if it records anything.
Orderly(m2, i) == Fair(inner, m2, i) /\ (Fits(m2) \/ m2.approvals = inner.approvals)

LEMMA ServeOrderly ==
  ASSUME IInv, NEW r \in Requests, Serve(r)
  PROVE  Orderly(inner', r.id)
<1> DEFINE i == r.id
<1>1. PICK t : t = Track(inner, r)
  OBVIOUS
<1>2. /\ Whole(t) /\ Records(t) = Records(inner) /\ t.approvals = inner.approvals
      /\ i \in Tracked(t) /\ Fair(inner, t, i) /\ Whole(inner)
      /\ Len(t.requests) > 0 /\ t.requests[Len(t.requests)] = r
  BY <1>1, Tracking, TrackKeeps, TrackFair DEF IInv
<1>3. \A m2 : Whole(m2) /\ Fair(inner, m2, i) => Orderly(Pruned(m2), i)
  BY PrunedFair, PrunedKeeps, FairThenFair DEF Orderly
<1>4. \A answer, given : Gives(answer, given) => inner' = answer.inner
  BY DEF Gives
<1>5. ASSUME NEW key \in KeysFor(r), NEW status \in Statuses,
             NEW m2, Whole(m2), Fair(inner, m2, i), i \in Tracked(m2)
      PROVE  Whole(Store(m2, key, status)) /\ Fair(inner, Store(m2, key, status), i)
  <2>1. key \in Keys /\ key[1] = i
    BY DEF KeysFor
  <2> QED
    BY <1>5, <2>1, StoreKeeps, StoreFair, FairThenFair
<1>6. \A a \in Records(t) : a \in Decisions /\ a.key[1] \in Tracked(t)
  BY <1>2, RecordsAreDecisions
<1>7. ASSUME NEW m2, Whole(m2), Fair(inner, m2, i), NEW a \in Decisions, a.key[1] = i,
             i \in Tracked(m2)
      PROVE  Orderly(Void(m2, a).inner, i)
  BY <1>7, VoidFair, VoidKeeps, FairThenFair DEF Orderly
<1>8. ASSUME NEW m2, Whole(m2), Fair(inner, m2, i)
      PROVE  Orderly(Decision(m2, r).inner, i)
  BY <1>8, DecisionFair, FairThenFair DEF Orderly
<1>9. CASE Decide(r, t)
  <2>1. inner' = Decision(inner, r).inner
    BY <1>1, <1>4, <1>9 DEF Decide, Decision
  <2>2. Fair(inner, inner, i)
    BY DEF Fair
  <2> QED
    BY <1>2, <1>8, <2>1, <2>2
<1>10. CASE RequestApproval(r, t)
  <2>1. \/ \E status : Gives(Answer(Pruned(t), status, {}), {})
        \/ Gives(Answer(Pruned(Store(t, Key(r), "pending")), "pending", {}), {})
    BY <1>10 DEF RequestApproval
  <2>2. inner' = Pruned(t) \/ inner' = Pruned(Store(t, Key(r), "pending"))
    BY <1>4, <2>1, AnswerParts
  <2>3. Key(r) \in KeysFor(r) /\ "pending" \in Statuses
    BY DEF KeysFor, Keys, Key, Statuses, Open
  <2> QED
    BY <1>2, <1>3, <1>5, <2>2, <2>3
<1>11. ASSUME NEW key \in KeysFor(r), DecideStale(r, t, key)
       PROVE  Orderly(inner', i)
  <2> DEFINE a == CHOOSE c \in Stale(t, r, key) : TRUE
  <2>1. Stale(t, r, key) # {} /\ inner' = Void(t, a).inner
    BY <1>4, <1>11 DEF DecideStale
  <2>2. a \in Stale(t, r, key)
    BY <2>1
  <2> HIDE DEF a
  <2>3. a \in Records(t) /\ a.key[1] = i
    BY <2>2 DEF Stale, Found, Conflicting, Records, Key
  <2> QED
    BY <1>2, <1>6, <1>7, <2>1, <2>3
<1>12. ASSUME NEW key \in KeysFor(r), DecideAgain(t, key)
       PROVE  Orderly(inner', i)
  <2>1. inner' = t
    BY <1>4, <1>12, AnswerParts DEF DecideAgain
  <2> QED
    BY <1>2, <2>1 DEF Orderly
<1>13. ASSUME NEW key \in KeysFor(r), Approve(r, t, key)
       PROVE  Orderly(inner', i)
  <2> DEFINE s == Store(t, key, "approved")
  <2>1. inner' = Decision(Pruned(s), r).inner
    BY <1>4, <1>13 DEF Approve
  <2>2. Whole(s) /\ Fair(inner, s, i)
    BY <1>2, <1>5 DEF Statuses, Open
  <2> HIDE DEF s
  <2>3. Whole(Pruned(s)) /\ Fair(inner, Pruned(s), i)
    BY <1>3, <2>2, PrunedKeeps DEF Orderly
  <2> QED
    BY <1>8, <2>1, <2>3
<1>14. ASSUME NEW key \in KeysFor(r), NEW status \in Refused, Refuse(r, t, key, status)
       PROVE  Orderly(inner', i)
  <2> DEFINE f == Forget(t, key[3])
             s == Store(f, key, status)
             d == Decision(Pruned(s), r)
  <2>1. inner' = d.inner
    <3>1. Gives([d EXCEPT !.withdrawn = @ \cup {key}], {})
      BY <1>14 DEF Refuse
    <3>2. \E m2, status2, gone : d = Answer(m2, status2, gone)
      BY DecisionIsAnswer
    <3> HIDE DEF d
    <3>3. [d EXCEPT !.withdrawn = @ \cup {key}].inner = d.inner
      BY <3>2 DEF Answer
    <3> QED
      BY <1>4, <3>1, <3>3
  <2>2. Whole(f) /\ f.requests = t.requests /\ f.approvals = t.approvals
    BY <1>2, ForgetKeeps
  <2> HIDE DEF f
  <2>3. Fair(inner, f, i) /\ i \in Tracked(f)
    BY <1>2, <2>2, ClassesFair, FairThenFair DEF Tracked
  <2>4. Whole(s) /\ Fair(inner, s, i)
    BY <1>5, <2>2, <2>3 DEF Statuses
  <2> HIDE DEF s
  <2>5. Whole(Pruned(s)) /\ Fair(inner, Pruned(s), i)
    BY <1>3, <2>4, PrunedKeeps DEF Orderly
  <2> QED
    BY <1>8, <2>1, <2>5
<1>15. ASSUME NEW key \in KeysFor(r), Invalidate(t, key)
       PROVE  Orderly(inner', i)
  <2> DEFINE a == Addressed(t, key)
             p == Pruned(t)
  <2>1. CASE Found(t, key) = {}
    <3>1. inner' = t
      BY <1>4, <1>15, <2>1, AnswerParts DEF Invalidate
    <3> QED
      BY <1>2, <3>1 DEF Orderly
  <2>2. CASE Found(t, key) # {}
    <3>1. inner' = Void(p, a).inner
      BY <1>4, <1>15, <2>2 DEF Invalidate
    <3>2. a \in Found(t, key)
      BY <2>2 DEF Addressed
    <3> HIDE DEF a
    <3>3. a \in Records(t) /\ a.key[1] = i /\ a \in Decisions
      BY <1>6, <3>2 DEF Found, KeysFor
    <3>4. i \in Tracked(p)
      BY <1>2, <3>3, NewestStays DEF IInv
    <3>5. Whole(p) /\ Fair(inner, p, i)
      BY <1>2, <1>3, PrunedKeeps DEF Orderly
    <3> HIDE DEF p
    <3> QED
      BY <1>7, <3>1, <3>3, <3>4, <3>5
  <2> QED
    BY <2>1, <2>2
<1> QED
  BY <1>1, <1>9, <1>10, <1>11, <1>12, <1>13, <1>14, <1>15 DEF Serve

-----------------------------------------------------------------------------
(* What the runs check, for any requests, limit and grants.                *)

\* What the engine holds is always a state its own import accepts, within its limits:
\* prune_locked never leaves a record without its request, and never too much.
THEOREM TypesHold == Spec => []TypeOK
<1>1. IInv => TypeOK
  <2> SUFFICES ASSUME IInv
               PROVE  TypeOK
    OBVIOUS
  <2>1. inner.requests \in Seq(Requests) /\ Valid(inner) /\ Len(inner.classes) <= Limit
    BY DEF IInv, Whole, Inners
  <2>2. \A a \in Records(inner) : a.key \in Keys /\ a.status \in Statuses
    BY RecordsAreDecisions DEF IInv
  <2> QED
    BY <2>1, <2>2 DEF IInv, TypeOK
<1> QED
  BY AlwaysWhole, <1>1, PTL

\* decide allows only what an actor approved, or what has the class of what one approved,
\* and nobody took back: whatever was evicted, remembered or invalidated in between.
THEOREM AllowedHolds == Spec => []AllowedIsApproved
<1>1. IInv => AllowedIsApproved
  <2> SUFFICES ASSUME IInv, NEW asked \in Requests,
                      Decision(inner, asked).status = "allowed", asked.kind # "plain"
               PROVE  Justified(asked, consent)
    BY DEF AllowedIsApproved, Justified, ClassConsent
  <2> QED
    BY DecisionKeeps DEF IInv
<1> QED
  BY AlwaysWhole, <1>1, PTL

\* No call overwrites a rejection or an abort; only eviction takes one away.
THEOREM RefusalHolds == Spec => RefusalStands
<1>1. IInv /\ [Next]_vars
        => [\A a \in Records(inner) : a.status \in Refused => Found(inner', a.key) \subseteq {a}]_vars
  BY Steps DEF Upheld
<1> QED
  BY AlwaysWhole, <1>1, PTL DEF Spec, RefusalStands

\* The limit pushes out what is worth least: of the requests a call is not about, none goes
\* that is worth more than one that stays, though most calls prune twice; and what records
\* anything prunes.
THEOREM EvictionHolds == Spec => EvictionOrder
<1> DEFINE Order ==
             \A gone \in Tracked(inner) \ Tracked(inner'), left \in Tracked(inner') :
               Tier(inner, gone) > Tier(inner', left) =>
                 \A asked \in Requests : Serve(asked) => asked.id \in {gone, left}
           Pruning == Len(inner'.requests) > Limit => inner'.approvals = inner.approvals
<1>1. IInv /\ [Next]_vars => [Order /\ Pruning]_vars
  <2> SUFFICES ASSUME IInv, Next
               PROVE  Order /\ Pruning
    OBVIOUS
  <2>1. Order
    <3> SUFFICES ASSUME NEW gone \in Tracked(inner) \ Tracked(inner'),
                        NEW left \in Tracked(inner'),
                        NEW asked \in Requests, Serve(asked), gone # asked.id, left # asked.id
                 PROVE  ~ (Tier(inner, gone) > Tier(inner', left))
      OBVIOUS
    <3>1. Fair(inner, inner', asked.id)
      BY ServeOrderly DEF Orderly
    <3>2. Tier(inner', left) = Tier(inner, left) /\ Tier(inner, gone) <= Tier(inner, left)
      BY <3>1 DEF Fair
    <3>3. Tier(inner, left) \in 0 .. 3 /\ Tier(inner, gone) \in 0 .. 3
      BY TierOfRecords
    <3> QED
      BY <3>2, <3>3
  <2>2. Pruning
    <3>1. Len(inner'.requests) \in Nat
      BY Steps DEF IInv, Whole, Inners
    <3>2. Fits(inner') => ~ (Len(inner'.requests) > Limit)
      BY <3>1, PolicyAssumption DEF Fits
    <3>3. ASSUME NEW r \in Requests, Serve(r)
          PROVE  Fits(inner') \/ inner'.approvals = inner.approvals
      BY <3>3, ServeOrderly DEF Orderly
    <3>4. ASSUME NEW r \in Requests, ForgetToolClass(r.action)
          PROVE  inner'.approvals = inner.approvals
      BY <3>4, ForgetKeeps DEF ForgetToolClass, IInv
    <3>5. Reload => Fits(inner')
      BY PrunedKeeps DEF Reload, IInv
    <3>6. \A c : Grant(c) \/ Revoke(c) => inner' = inner
      BY DEF Grant, Revoke
    <3> QED
      BY <3>2, <3>3, <3>4, <3>5, <3>6 DEF Next
  <2> QED
    BY <2>1, <2>2
<1> QED
  BY AlwaysWhole, <1>1, PTL DEF Spec, EvictionOrder

=============================================================================
