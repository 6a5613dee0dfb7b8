-------------------------- MODULE BudgetLedgerProofs --------------------------
(***************************************************************************)
(* Proofs about BudgetLedger, for any calls, amounts, limits and bounds:    *)
(* type correctness, that usage and reservations stay within the limits,    *)
(* that a call in flight owns its reservation and none is left behind, that *)
(* saved usage grows, and that a launch accepts whatever was saved.         *)
(***************************************************************************)
EXTENDS BudgetLedger, FiniteSetTheorems, WellFoundedInduction, TLAPS

-------------------------------------------------------------------------------
(* Amounts.                                                                  *)

\* Sums of amounts are amounts, and so are differences that sub does not refuse.
LEMMA UsageArithmetic ==
  /\ Zero \in Usage
  /\ \A u, v \in Usage : Plus(u, v) \in Usage
  /\ \A u, v \in Usage : AtMost(v, u) => Minus(u, v) \in Usage
BY DEF Zero, Usage, Plus, Minus, AtMost

\* What calls reserve and charge are amounts.
LEMMA ChargeTypes ==
  /\ \A a \in Nat : ToolEstimate(a) \in Usage /\ ModelEstimate(a) \in Usage
  /\ \A a \in Nat : [Zero EXCEPT !["artifact_bytes"] = a] \in Usage
  /\ \A a, b \in Nat : ToolCharge(a, b) \in Usage
  /\ \A a, b, c \in Nat : ModelCharge(a, b, c) \in Usage
BY DEF ToolEstimate, ModelEstimate, ToolCharge, ModelCharge, Zero, Usage, Dimension

-------------------------------------------------------------------------------
(* Types.                                                                    *)

\* The list of reservations is finite, in the ledger and in what is saved of it.
LedgerType ==
  /\ usage \in Usage /\ reserved \in Usage
  /\ reservations \subseteq Reservation /\ IsFiniteSet(reservations)
  /\ next \in ReservationId

CallType ==
  /\ hold \in [Calls -> Reservation \union {Nil}]
  /\ settled \in [Calls -> BOOLEAN]

UnitType ==
  /\ working \in BOOLEAN
  /\ export \in Snapshot \union {Nil} /\ saved \in Snapshot \union {Nil}
  /\ export # Nil => IsFiniteSet(export.reservations)
  /\ saved # Nil => IsFiniteSet(saved.reservations)

Typed ==
  /\ LedgerType /\ CallType /\ UnitType
  /\ up \in BOOLEAN /\ exits \in Nat /\ restored \subseteq Reservation

\* Each operation of the ledger keeps the ledger's type.
LEMMA ReserveType ==
  ASSUME LedgerType, NEW n \in ReservationId, NEW charge \in Usage, Reserve(n, charge)
  PROVE  LedgerType' /\ [id |-> n, usage |-> charge] \in Reservation
<1>1. [id |-> n, usage |-> charge] \in Reservation
  BY DEF Reservation
<1>2. IsFiniteSet(reservations \union {[id |-> n, usage |-> charge]})
  BY FS_AddElement DEF LedgerType
<1>3. reserved' \in Usage
  BY UsageArithmetic DEF LedgerType, Reserve
<1> QED
  BY <1>1, <1>2, <1>3 DEF LedgerType, Reserve, ReservationId

LEMMA WithoutType ==
  ASSUME LedgerType, NEW h
  PROVE  Without(h) \subseteq Reservation /\ IsFiniteSet(Without(h))
<1>1. Without(h) \subseteq reservations
  BY DEF Without
<1> QED
  BY <1>1, FS_Subset DEF LedgerType

LEMMA CommitType ==
  ASSUME LedgerType, NEW h \in Reservation, NEW charge \in Usage, Commit(h, charge)
  PROVE  LedgerType'
<1>1. AtMost(h.usage, reserved) /\ h.usage \in Usage
  BY DEF Commit, Fits, Reservation
<1>2. reserved' \in Usage /\ usage' \in Usage
  BY <1>1, UsageArithmetic DEF Commit, LedgerType
<1> QED
  BY <1>2, WithoutType DEF Commit, LedgerType

LEMMA ReleaseType ==
  ASSUME LedgerType, NEW h \in Reservation, Release(h)
  PROVE  LedgerType'
<1>1. CASE h \in reservations /\ AtMost(h.usage, reserved)
  <2>1. reserved' \in Usage
    BY <1>1, UsageArithmetic DEF Release, LedgerType, Reservation
  <2> QED
    BY <1>1, <2>1, WithoutType DEF Release, LedgerType
<1>2. CASE ~(h \in reservations /\ AtMost(h.usage, reserved))
  BY <1>2 DEF Release, LedgerType, ledger
<1> QED
  BY <1>1, <1>2

LEMMA ConsumeType ==
  ASSUME LedgerType, NEW charge \in Usage, Consume(charge)
  PROVE  LedgerType'
BY UsageArithmetic DEF LedgerType, Consume

LEMMA ImportType ==
  ASSUME NEW s \in Snapshot, IsFiniteSet(s.reservations), Import(s)
  PROVE  LedgerType'
<1>1. Cardinality(s.reservations) \in Nat
  BY FS_CardinalityType
<1> QED
  BY <1>1 DEF LedgerType, Import, Snapshot, ReservationId

LEMMA ExportType ==
  ASSUME LedgerType
  PROVE  ExportState \in Snapshot /\ ExportState.reservations = reservations
BY DEF LedgerType, ExportState, Snapshot

\* What Launch imports: the last saved state, or a fresh one.
LEMMA FreshType == Fresh \in Snapshot /\ IsFiniteSet(Fresh.reservations)
BY UsageArithmetic, FS_EmptySet DEF Fresh, Snapshot, ReservationId

\* Everything keeps its type.
LEMMA InitTyped == Init => Typed
<1> SUFFICES ASSUME Init PROVE Typed
  OBVIOUS
<1>1. LedgerType
  BY UsageArithmetic, FS_EmptySet DEF Init, LedgerType, ReservationId
<1>2. CallType /\ UnitType
  BY DEF Init, CallType, UnitType
<1> QED
  BY <1>1, <1>2 DEF Init, Typed

LEMMA NextTyped == Typed /\ [Next]_vars => Typed'
<1> SUFFICES ASSUME Typed, [Next]_vars PROVE Typed'
  OBVIOUS
<1> USE DEF Typed
<1>1. ASSUME NEW c \in Calls, NEW n \in 1..MaxReservation, NEW charge \in Usage,
             Take(c, n, charge)
      PROVE  Typed'
  <2>1. n \in ReservationId
    BY <1>1, BudgetBoundsAssumption DEF ReservationId
  <2>2. LedgerType' /\ [id |-> n, usage |-> charge] \in Reservation
    BY <1>1, <2>1, ReserveType DEF Take
  <2> QED
    BY <1>1, <2>2 DEF Take, CallType, UnitType, unit
<1>2. ASSUME NEW c \in Calls, InFlight(c)
      PROVE  hold[c] \in Reservation
  BY <1>2 DEF InFlight, CallType
<1>3. ASSUME NEW c \in Calls, CallFails(c)
      PROVE  Typed'
  <2>1. LedgerType'
    BY <1>2, <1>3, ReleaseType DEF CallFails
  <2> QED
    BY <1>3, <2>1 DEF CallFails, CallType, UnitType, unit
<1>4. ASSUME NEW c \in ToolCalls, Tool(c)
      PROVE  Typed'
  <2>0. c \in Calls
    BY DEF Calls
  <2>1. ASSUME NEW n \in 1..MaxReservation, NEW deadline \in Amounts \ {0},
               ToolReserves(c, n, deadline)
        PROVE  Typed'
    BY <2>0, <2>1, <1>1, ChargeTypes, AmountsAssumption DEF ToolReserves
  <2>2. ASSUME NEW elapsed \in Amounts, NEW bytes \in Amounts,
               ToolCommits(c, elapsed, bytes)
        PROVE  Typed'
    <3>1. ToolCharge(elapsed, bytes) \in Usage
      BY ChargeTypes, AmountsAssumption
    <3>2. LedgerType'
      BY <2>0, <2>2, <3>1, <1>2, CommitType DEF ToolCommits
    <3> QED
      BY <2>2, <3>2 DEF ToolCommits, CallType, UnitType, unit
  <2> QED
    BY <1>3, <1>4, <2>0, <2>1, <2>2 DEF Tool
<1>5. ASSUME NEW c \in ModelCalls, Model(c)
      PROVE  Typed'
  <2>0. c \in Calls
    BY DEF Calls
  <2>1. ASSUME NEW n \in 1..MaxReservation, NEW tokens \in Amounts \ {0},
               ModelReserves(c, n, tokens)
        PROVE  Typed'
    BY <2>0, <2>1, <1>1, ChargeTypes, AmountsAssumption DEF ModelReserves
  <2>2. ASSUME NEW tokens \in Amounts, NEW cost \in Amounts, NEW elapsed \in Amounts,
               ModelCommits(c, tokens, cost, elapsed)
        PROVE  Typed'
    <3>1. ModelCharge(tokens, cost, elapsed) \in Usage
      BY ChargeTypes, AmountsAssumption
    <3>2. LedgerType'
      BY <2>0, <2>2, <3>1, <1>2, CommitType DEF ModelCommits
    <3> QED
      BY <2>2, <3>2 DEF ModelCommits, CallType, UnitType, unit
  <2>3. CASE ModelReturns(c)
    BY <2>3 DEF ModelReturns, LedgerType, CallType, UnitType, ledger, unit
  <2>4. CASE TranscriptFails(c)
    <3>1. hold[c] \in Reservation
      BY <2>0, <2>4 DEF TranscriptFails, CallType
    <3>2. LedgerType'
      BY <2>4, <3>1, ReleaseType DEF TranscriptFails
    <3> QED
      BY <2>4, <3>2 DEF TranscriptFails, CallType, UnitType, unit
  <2> QED
    BY <1>3, <1>5, <2>0, <2>1, <2>2, <2>3, <2>4 DEF Model
<1>6. ASSUME Application
      PROVE  Typed'
  <2>1. CASE UnitBegins \/ UnitFails
    BY <2>1 DEF UnitBegins, UnitFails, LedgerType, CallType, UnitType, ledger, calls
  <2>2. CASE UnitExports
    BY <2>2, ExportType DEF UnitExports, LedgerType, CallType, UnitType, ledger, calls
  <2>3. CASE UnitCommits
    BY <2>3 DEF UnitCommits, LedgerType, CallType, UnitType, ledger, calls
  <2>4. ASSUME NEW bytes \in Amounts, Publishes(bytes)
        PROVE  Typed'
    <3>1. LedgerType'
      BY <2>4, ConsumeType, ChargeTypes, AmountsAssumption DEF Publishes
    <3> QED
      BY <2>4, <3>1 DEF Publishes, CallType, UnitType, unit, calls
  <2>5. CASE Crash \/ Close
    <3>1. LedgerType'
      BY <2>5 DEF Crash, Close, Stops, LedgerType, ledger
    <3>2. CallType'
      BY <2>5 DEF Crash, Close, Stops, CallType
    <3>3. UnitType'
      BY <2>5, ExportType DEF Crash, Close, Stops, UnitType, LedgerType
    <3>4. up' = FALSE /\ exits' = exits + 1 /\ restored' = restored
      BY <2>5 DEF Crash, Close, Stops
    <3>5. exits' \in Nat
      BY <3>4
    <3>6. up' \in BOOLEAN
      BY <3>4
    <3>7. restored' \subseteq Reservation
      BY <3>4
    <3> QED
      BY <3>1, <3>2, <3>3, <3>5, <3>6, <3>7
  <2>6. CASE Launch
    <3>1. PICK s \in Snapshot :
            /\ IsFiniteSet(s.reservations)
            /\ Import(s) /\ restored' = s.reservations
      <4>1. CASE saved = Nil
        BY <2>6, <4>1, FreshType DEF Launch
      <4>2. CASE saved # Nil
        BY <2>6, <4>2 DEF Launch, UnitType
      <4> QED
        BY <4>1, <4>2
    <3>2. LedgerType'
      BY <3>1, ImportType
    <3> QED
      BY <2>6, <3>1, <3>2 DEF Launch, CallType, UnitType, unit, calls, Snapshot
  <2> QED
    BY <1>6, <2>1, <2>2, <2>3, <2>4, <2>5, <2>6 DEF Application
<1>7. CASE UNCHANGED vars
  BY <1>7 DEF vars, ledger, calls, unit, LedgerType, CallType, UnitType
<1> QED
  BY <1>4, <1>5, <1>6, <1>7 DEF Next

\* Every variable of the ledger, its callers and the application keeps its type.
THEOREM BudgetTypes == Spec => []TypeOK
<1>1. Typed => TypeOK
  BY DEF Typed, TypeOK, LedgerType, CallType, UnitType
<1> QED
  BY <1>1, InitTyped, NextTyped, PTL DEF Spec

-------------------------------------------------------------------------------
(* What a step may do.                                                       *)

\* Whatever happens to the ledger is one of its operations or a launch.
LEMMA LedgerSteps ==
  ASSUME Typed, [Next]_vars
  PROVE  \/ UNCHANGED ledger
         \/ \E n \in ReservationId, charge \in Usage : Reserve(n, charge)
         \/ \E h \in Reservation, charge \in Usage : Commit(h, charge)
         \/ \E h \in Reservation : Release(h)
         \/ \E charge \in Usage : Consume(charge)
         \/ Launch
<1>1. ASSUME NEW c \in Calls, NEW n \in 1..MaxReservation, NEW charge \in Usage,
             Take(c, n, charge)
      PROVE  n \in ReservationId /\ Reserve(n, charge)
  BY <1>1, BudgetBoundsAssumption DEF Take, ReservationId
<1>2. ASSUME NEW c \in Calls, hold[c] # Nil
      PROVE  hold[c] \in Reservation
  BY <1>2 DEF Typed, CallType
<1>3. ASSUME NEW c \in ToolCalls, Tool(c)
      PROVE  \/ \E n \in ReservationId, charge \in Usage : Reserve(n, charge)
             \/ \E h \in Reservation, charge \in Usage : Commit(h, charge)
             \/ \E h \in Reservation : Release(h)
  <2>0. c \in Calls
    BY DEF Calls
  <2>1. ASSUME NEW n \in 1..MaxReservation, NEW deadline \in Amounts \ {0},
               ToolReserves(c, n, deadline)
        PROVE  \E m \in ReservationId, charge \in Usage : Reserve(m, charge)
    BY <1>1, <2>0, <2>1, ChargeTypes, AmountsAssumption DEF ToolReserves
  <2>2. ASSUME NEW elapsed \in Amounts, NEW bytes \in Amounts,
               ToolCommits(c, elapsed, bytes)
        PROVE  \E h \in Reservation, charge \in Usage : Commit(h, charge)
    BY <1>2, <2>0, <2>2, ChargeTypes, AmountsAssumption DEF ToolCommits, InFlight
  <2>3. CASE CallFails(c)
    BY <1>2, <2>0, <2>3 DEF CallFails, InFlight
  <2> QED
    BY <1>3, <2>1, <2>2, <2>3 DEF Tool
<1>4. ASSUME NEW c \in ModelCalls, Model(c)
      PROVE  \/ UNCHANGED ledger
             \/ \E n \in ReservationId, charge \in Usage : Reserve(n, charge)
             \/ \E h \in Reservation, charge \in Usage : Commit(h, charge)
             \/ \E h \in Reservation : Release(h)
  <2>0. c \in Calls
    BY DEF Calls
  <2>1. ASSUME NEW n \in 1..MaxReservation, NEW tokens \in Amounts \ {0},
               ModelReserves(c, n, tokens)
        PROVE  \E m \in ReservationId, charge \in Usage : Reserve(m, charge)
    BY <1>1, <2>0, <2>1, ChargeTypes, AmountsAssumption DEF ModelReserves
  <2>2. ASSUME NEW tokens \in Amounts, NEW cost \in Amounts, NEW elapsed \in Amounts,
               ModelCommits(c, tokens, cost, elapsed)
        PROVE  \E h \in Reservation, charge \in Usage : Commit(h, charge)
    BY <1>2, <2>0, <2>2, ChargeTypes, AmountsAssumption DEF ModelCommits, InFlight
  <2>3. CASE CallFails(c)
    BY <1>2, <2>0, <2>3 DEF CallFails, InFlight
  <2>4. CASE TranscriptFails(c)
    BY <1>2, <2>0, <2>4 DEF TranscriptFails
  <2>5. CASE ModelReturns(c)
    BY <2>5 DEF ModelReturns
  <2> QED
    BY <1>4, <2>1, <2>2, <2>3, <2>4, <2>5 DEF Model
<1>5. ASSUME Application
      PROVE  \/ UNCHANGED ledger
             \/ \E charge \in Usage : Consume(charge)
             \/ Launch
  <2>1. ASSUME NEW bytes \in Amounts, Publishes(bytes)
        PROVE  \E charge \in Usage : Consume(charge)
    BY <2>1, ChargeTypes, AmountsAssumption DEF Publishes
  <2> QED
    BY <1>5, <2>1 DEF Application, UnitBegins, UnitExports, UnitCommits, UnitFails,
       Crash, Close, Stops
<1>6. CASE UNCHANGED vars
  BY <1>6 DEF vars
<1> QED
  BY <1>3, <1>4, <1>5, <1>6 DEF Next

\* A call never touches what the application saves, and what the application saves is
\* the ledger of that moment.
LEMMA UnitSteps ==
  ASSUME [Next]_vars
  PROVE  \/ UNCHANGED <<export, saved>>
         \/ /\ export' = Nil /\ UNCHANGED <<saved, ledger>>
         \/ /\ up /\ export' = ExportState /\ UNCHANGED <<up, saved, ledger>>
         \/ /\ up /\ export # Nil /\ saved' = export /\ export' = Nil
            /\ UNCHANGED <<up, ledger>>
         \/ /\ up /\ ~up' /\ export' = Nil /\ saved' = ExportState /\ UNCHANGED ledger
<1>1. ASSUME NEW c \in Calls, Tool(c) \/ Model(c)
      PROVE  UNCHANGED unit
  BY <1>1 DEF Tool, Model, ToolReserves, ModelReserves, Take, ToolCommits, CallFails,
     ModelCommits, ModelReturns, TranscriptFails
<1>2. ASSUME NEW bytes, Publishes(bytes)
      PROVE  UNCHANGED unit
  BY <1>2 DEF Publishes
<1>3. CASE Application
  <2>1. CASE UnitBegins \/ Launch
    BY <2>1 DEF UnitBegins, Launch, unit
  <2>2. CASE UnitExports
    BY <2>2 DEF UnitExports
  <2>3. CASE UnitCommits
    BY <2>3 DEF UnitCommits
  <2>4. CASE UnitFails \/ Crash
    BY <2>4 DEF UnitFails, Crash, Stops
  <2>5. CASE Close
    BY <2>5 DEF Close, Stops
  <2> QED
    BY <1>2, <1>3, <2>1, <2>2, <2>3, <2>4, <2>5 DEF Application, unit
<1>4. CASE UNCHANGED vars
  BY <1>4 DEF vars, unit
<1> QED
  BY <1>1, <1>3, <1>4 DEF Next, Calls, unit

-------------------------------------------------------------------------------
(* Usage and reservations stay within the limits.                            *)

Within(s) == AtMost(Plus(s.usage, s.reserved), Limit)

\* Inductive: what is saved is within the limits too, so a launch starts within them.
Limited ==
  /\ WithinLimits
  /\ export # Nil => Within(export)
  /\ saved # Nil => Within(saved)

\* No operation of the ledger goes over a limit: a reservation and a charge are
\* checked against both sums, and a commit with its own reservation taken out.
LEMMA ReserveWithin ==
  ASSUME LedgerType, NEW n, NEW charge \in Usage, Reserve(n, charge)
  PROVE  WithinLimits'
BY LimitAssumption
   DEF LedgerType, Usage, Reserve, Fits, WithinLimits, AtMost, Plus, Minus, Zero

LEMMA CommitWithin ==
  ASSUME LedgerType, NEW h \in Reservation, NEW charge \in Usage, Commit(h, charge)
  PROVE  WithinLimits'
BY LimitAssumption
   DEF LedgerType, Usage, Reservation, Commit, Fits, WithinLimits, AtMost, Plus, Minus

LEMMA ReleaseWithin ==
  ASSUME LedgerType, WithinLimits, NEW h \in Reservation, Release(h)
  PROVE  WithinLimits'
BY LimitAssumption
   DEF LedgerType, Usage, Reservation, Release, WithinLimits, AtMost, Plus, Minus, ledger

LEMMA ConsumeWithin ==
  ASSUME LedgerType, NEW charge \in Usage, Consume(charge)
  PROVE  WithinLimits'
BY LimitAssumption
   DEF LedgerType, Usage, Consume, Fits, WithinLimits, AtMost, Plus, Minus, Zero

LEMMA LaunchWithin ==
  ASSUME Limited, Launch
  PROVE  WithinLimits'
<1>1. Within(Fresh)
  BY LimitAssumption DEF Within, Fresh, AtMost, Plus, Zero, Usage
<1>2. PICK s : Within(s) /\ Import(s)
  BY <1>1 DEF Limited, Launch
<1> QED
  BY <1>2 DEF Within, WithinLimits, Import

LEMMA NextLimited == Typed /\ Limited /\ [Next]_vars => Limited'
<1> SUFFICES ASSUME Typed, Limited, [Next]_vars PROVE Limited'
  OBVIOUS
<1>0. LedgerType
  BY DEF Typed
<1>1. WithinLimits'
  <2>1. CASE UNCHANGED ledger
    BY <2>1 DEF Limited, WithinLimits, ledger
  <2> QED
    BY <1>0, <2>1, LedgerSteps, ReserveWithin, CommitWithin, ReleaseWithin,
       ConsumeWithin, LaunchWithin DEF Limited
<1>2. Within(ExportState)
  BY DEF Limited, WithinLimits, Within, ExportState
<1>3. (export # Nil => Within(export))' /\ (saved # Nil => Within(saved))'
  BY <1>2, UnitSteps DEF Limited, Within
<1> QED
  BY <1>1, <1>3 DEF Limited

\* Concurrent calls, failures and restarts never take usage plus reservations over
\* any limit.
THEOREM NeverOversubscribed == Spec => []WithinLimits
<1>1. Init => Limited
  BY LimitAssumption DEF Init, Limited, WithinLimits, AtMost, Plus, Zero, Usage
<1>2. Limited => WithinLimits
  BY DEF Limited
<1> QED
  BY <1>1, <1>2, InitTyped, NextTyped, NextLimited, PTL DEF Spec

-------------------------------------------------------------------------------
(* Usage that was saved once is never given back.                            *)

\* Inductive: the ledger has at least the usage of what it exported, and that has at
\* least the usage of what was saved before.
Growing ==
  /\ up /\ saved # Nil => AtMost(saved.usage, usage)
  /\ up /\ export # Nil => AtMost(export.usage, usage)
  /\ export # Nil /\ saved # Nil => AtMost(saved.usage, export.usage)
  /\ ~up => export = Nil

LEMMA AtMostOrder ==
  /\ \A u \in Usage : AtMost(u, u)
  /\ \A u, v, w \in Usage : AtMost(u, v) /\ AtMost(v, w) => AtMost(u, w)
  /\ \A u, v \in Usage : AtMost(u, Plus(u, v))
BY DEF AtMost, Usage, Plus

\* Only a launch can lower the usage in memory.
LEMMA UsageGrows ==
  ASSUME Typed, [Next]_vars, ~Launch
  PROVE  AtMost(usage, usage')
<1>1. usage \in Usage
  BY DEF Typed, LedgerType
<1> QED
  BY <1>1, LedgerSteps, AtMostOrder DEF Reserve, Commit, Release, Consume, ledger

\* Only a launch starts the process; nothing happens to a stopped one otherwise, and
\* when it stops its transaction is gone.
LEMMA ProcessSteps ==
  ASSUME [Next]_vars, ~Launch
  PROVE  \/ up /\ up'
         \/ up /\ ~up' /\ export' = Nil
         \/ UNCHANGED vars
<1>1. ASSUME NEW c, Tool(c)
      PROVE  up /\ up'
  BY <1>1 DEF Tool, ToolReserves, Take, ToolCommits, CallFails, InFlight
<1>2. ASSUME NEW c, Model(c)
      PROVE  up /\ up'
  BY <1>2 DEF Model, ModelReserves, Take, ModelCommits, ModelReturns, TranscriptFails,
     CallFails, InFlight
<1>3. ASSUME Application
      PROVE  \/ up /\ up'
             \/ up /\ ~up' /\ export' = Nil
  <2>1. CASE Crash \/ Close
    BY <2>1 DEF Crash, Close, Stops
  <2>2. CASE ~(Crash \/ Close)
    <3>1. up /\ UNCHANGED up
      BY <1>3, <2>2 DEF Application, UnitBegins, Publishes, UnitExports, UnitCommits,
         UnitFails
    <3> QED
      BY <3>1
  <2> QED
    BY <2>1, <2>2
<1> QED
  BY <1>1, <1>2, <1>3 DEF Next

LEMMA NextGrowing ==
  Typed /\ Growing /\ [Next]_vars =>
    Growing' /\ [saved # Nil => AtMost(saved.usage, saved'.usage)]_saved
<1> SUFFICES ASSUME Typed, Growing, [Next]_vars
             PROVE  /\ Growing'
                    /\ [saved # Nil => AtMost(saved.usage, saved'.usage)]_saved
  OBVIOUS
<1>1. /\ usage \in Usage /\ usage' \in Usage
      /\ export # Nil => export.usage \in Usage
      /\ saved # Nil => saved.usage \in Usage
  BY NextTyped DEF Typed, LedgerType, UnitType, Snapshot
<1>2. CASE Launch
  <2>1. saved # Nil => usage' = saved.usage
    BY <1>2 DEF Launch, Import
  <2> QED
    BY <1>1, <1>2, <2>1, AtMostOrder DEF Launch, Growing, unit
<1>3. CASE ~Launch
  <2>1. AtMost(usage, usage')
    BY <1>3, UsageGrows
  <2>2. up' => up
    BY <1>3, ProcessSteps DEF vars, unit
  <2>3. ~up' => export' = Nil
    BY <1>3, ProcessSteps DEF Growing, vars, unit
  <2>4. ExportState.usage = usage
    BY DEF ExportState
  <2>5. CASE UNCHANGED <<export, saved>>
    BY <1>1, <2>1, <2>2, <2>3, <2>5, AtMostOrder DEF Growing
  <2>6. CASE export' = Nil /\ UNCHANGED <<saved, ledger>>
    BY <2>2, <2>6 DEF Growing, ledger
  <2>7. CASE up /\ export' = ExportState /\ UNCHANGED <<up, saved, ledger>>
    BY <1>1, <2>3, <2>4, <2>7, AtMostOrder DEF Growing, ledger
  <2>8. CASE /\ up /\ export # Nil /\ saved' = export /\ export' = Nil
             /\ UNCHANGED <<up, ledger>>
    BY <2>8 DEF Growing, ledger
  <2>9. CASE up /\ ~up' /\ export' = Nil /\ saved' = ExportState /\ UNCHANGED ledger
    BY <2>4, <2>9 DEF Growing
  <2> QED
    BY <2>5, <2>6, <2>7, <2>8, <2>9, UnitSteps
<1> QED
  BY <1>2, <1>3

\* No restart and no failed unit of work makes usage that was saved available again.
THEOREM SpentStaysSpent == Spec => SavedUsageGrows
<1>1. Init => Growing
  BY DEF Init, Growing
<1> QED
  BY <1>1, InitTyped, NextTyped, NextGrowing, PTL DEF Spec, SavedUsageGrows

-------------------------------------------------------------------------------
(* A call in flight owns its reservation.                                    *)

\* Every reservation has a number of its own, below the counter.
Numbered(S, n) ==
  /\ \A r \in S : r.id < n
  /\ \A r, q \in S : r.id = q.id => r = q

\* Inductive: the number a call carries is its own even after the call has committed,
\* so that releasing it once more meets no reservation.
Owned ==
  /\ Numbered(reservations, next)
  /\ export # Nil => Numbered(export.reservations, export.next)
  /\ saved # Nil => Numbered(saved.reservations, saved.next)
  /\ ~up => \A c \in Calls : hold[c] = Nil
  /\ \A c \in Calls : hold[c] # Nil =>
       /\ hold[c].id < next
       /\ \A d \in Calls \ {c} : hold[d] # Nil => hold[d].id # hold[c].id
       /\ IF settled[c] THEN \A r \in reservations : r.id # hold[c].id
                        ELSE hold[c] \in reservations

\* A new number is above all numbers in use.
LEMMA TakeOwned ==
  ASSUME Typed, Owned, NEW c \in Calls, NEW n \in ReservationId, NEW charge \in Usage,
         Take(c, n, charge)
  PROVE  Owned'
<1> DEFINE h == [id |-> n, usage |-> charge]
<1>1. /\ n >= next /\ next' = n + 1 /\ reservations' = reservations \union {h}
      /\ hold' = [hold EXCEPT ![c] = h] /\ settled' = [settled EXCEPT ![c] = FALSE]
      /\ up /\ up' /\ UNCHANGED <<export, saved, restored>>
  BY DEF Take, Reserve, IsNextId, unit
<1>2. h \in Reservation /\ h # Nil /\ h.id = n
  BY BudgetNilAssumption DEF Reservation
<1>3. \A r \in reservations : r.id \in Nat /\ r.id < next
  BY DEF Owned, Numbered, Typed, LedgerType, Reservation, ReservationId
<1>4. \A d \in Calls : hold[d] # Nil => hold[d].id \in Nat /\ hold[d].id < next
  BY DEF Owned, Typed, CallType, Reservation, ReservationId
<1>5. next \in Nat /\ n \in Nat
  BY DEF Typed, LedgerType, ReservationId
<1>6. hold'[c] = h /\ settled'[c] = FALSE
  BY <1>1 DEF Typed, CallType
<1>7. \A d \in Calls \ {c} : hold'[d] = hold[d] /\ settled'[d] = settled[d]
  BY <1>1 DEF Typed, CallType
<1>8. Numbered(reservations, next)'
  BY <1>1, <1>2, <1>3, <1>5 DEF Owned, Numbered
<1>9. ASSUME NEW d \in Calls, hold'[d] # Nil
      PROVE  /\ hold'[d].id < next'
             /\ \A e \in Calls \ {d} : hold'[e] # Nil => hold'[e].id # hold'[d].id
             /\ IF settled'[d] THEN \A r \in reservations' : r.id # hold'[d].id
                               ELSE hold'[d] \in reservations'
  <2>1. CASE d = c
    BY <1>1, <1>2, <1>4, <1>5, <1>6, <1>7, <2>1
  <2>2. CASE d # c
    <3>1. hold[d] # Nil /\ hold[d].id < next /\ hold[d].id \in Nat
      BY <1>4, <1>7, <1>9, <2>2
    <3>2. \A e \in Calls \ {d} : hold'[e] # Nil => hold'[e].id # hold'[d].id
      BY <1>1, <1>2, <1>5, <1>6, <1>7, <2>2, <3>1 DEF Owned
    <3>3. IF settled'[d] THEN \A r \in reservations' : r.id # hold'[d].id
                         ELSE hold'[d] \in reservations'
      BY <1>1, <1>2, <1>5, <1>7, <2>2, <3>1 DEF Owned
    <3> QED
      BY <1>1, <1>5, <1>7, <2>2, <3>1, <3>2, <3>3
  <2> QED
    BY <2>1, <2>2
<1> QED
  BY <1>1, <1>8, <1>9 DEF Owned

\* A call that stops carrying a number leaves the others theirs, whether its own
\* reservation is taken out or not.
LEMMA GiveUpOwned ==
  ASSUME Typed, Owned, NEW c \in Calls, hold[c] # Nil, up, up',
         hold' = [hold EXCEPT ![c] = Nil],
         reservations' \in {reservations, Without(hold[c])}, next' = next,
         \A d \in Calls \ {c} : settled'[d] = settled[d],
         UNCHANGED <<export, saved>>
  PROVE  Owned'
<1>1. hold'[c] = Nil /\ \A d \in Calls \ {c} : hold'[d] = hold[d]
  BY DEF Typed, CallType
<1>2. Numbered(reservations, next)'
  BY DEF Owned, Numbered, Without
<1>3. ASSUME NEW d \in Calls, hold'[d] # Nil
      PROVE  /\ hold'[d].id < next'
             /\ \A e \in Calls \ {d} : hold'[e] # Nil => hold'[e].id # hold'[d].id
             /\ IF settled'[d] THEN \A r \in reservations' : r.id # hold'[d].id
                               ELSE hold'[d] \in reservations'
  <2>1. d # c
    BY <1>1, <1>3
  <2>2. hold[d].id # hold[c].id
    BY <1>1, <1>3, <2>1 DEF Owned
  <2> QED
    BY <1>1, <1>3, <2>1, <2>2 DEF Owned, Without
<1> QED
  BY <1>2, <1>3 DEF Owned

\* A committed model call keeps its number, and its reservation is gone.
LEMMA SettleOwned ==
  ASSUME Typed, Owned, NEW c \in Calls, NEW charge, InFlight(c),
         Commit(hold[c], charge), settled' = [settled EXCEPT ![c] = TRUE],
         UNCHANGED <<up, hold, export, saved>>
  PROVE  Owned'
<1>1. settled'[c] = TRUE /\ \A d \in Calls \ {c} : settled'[d] = settled[d]
  BY DEF Typed, CallType
<1>2. reservations' = Without(hold[c]) /\ next' = next /\ hold[c] # Nil
  BY DEF Commit, InFlight
<1>3. Numbered(reservations, next)'
  BY <1>2 DEF Owned, Numbered, Without
<1>4. ASSUME NEW d \in Calls, hold[d] # Nil
      PROVE  IF settled'[d] THEN \A r \in reservations' : r.id # hold[d].id
                            ELSE hold[d] \in reservations'
  <2>1. CASE d = c
    BY <1>1, <1>2, <2>1 DEF Without
  <2>2. CASE d # c
    <3>1. hold[d].id # hold[c].id
      BY <1>2, <1>4, <2>2 DEF Owned
    <3> QED
      BY <1>1, <1>2, <1>4, <2>2, <3>1 DEF Owned, Without
  <2> QED
    BY <2>1, <2>2
<1> QED
  BY <1>2, <1>3, <1>4 DEF Owned

\* Whoever does not touch the list, the counter or the calls keeps everything owned.
LEMMA UnitOwned ==
  ASSUME Owned, [Next]_vars, UNCHANGED <<up, reservations, next, hold, settled>>
  PROVE  Owned'
<1>1. Numbered(ExportState.reservations, ExportState.next)
  BY DEF Owned, ExportState
<1>2. /\ (export # Nil => Numbered(export.reservations, export.next))'
      /\ (saved # Nil => Numbered(saved.reservations, saved.next))'
  BY <1>1, UnitSteps DEF Owned, Numbered
<1> QED
  BY <1>2 DEF Owned, Numbered

\* When the process ends no call is left; when it starts there are none yet.
LEMMA ExitOwned ==
  ASSUME Typed, Owned, Crash \/ Close
  PROVE  Owned'
<1>1. /\ \A c \in Calls : hold'[c] = Nil
      /\ export' = Nil /\ saved' \in {saved, ExportState}
      /\ reservations' = reservations /\ next' = next
  BY DEF Crash, Close, Stops, ledger
<1>2. Numbered(ExportState.reservations, ExportState.next)
  BY DEF Owned, ExportState
<1> QED
  BY <1>1, <1>2 DEF Owned, Numbered

LEMMA LaunchOwned ==
  ASSUME Typed, Owned, Launch
  PROVE  Owned'
<1>1. Fresh \in Snapshot /\ Numbered(Fresh.reservations, Fresh.next)
  BY FreshType DEF Fresh, Numbered
<1>2. PICK s \in Snapshot :
        /\ IsFiniteSet(s.reservations)
        /\ Numbered(s.reservations, s.next) /\ Import(s)
  <2>1. CASE saved = Nil
    BY <1>1, <2>1, FreshType DEF Launch
  <2>2. CASE saved # Nil
    BY <2>2 DEF Launch, Typed, UnitType, Owned
  <2> QED
    BY <2>1, <2>2
<1>3. next' >= s.next /\ s.next \in Nat /\ next' \in Nat
  <2>1. Cardinality(s.reservations) \in Nat
    BY <1>2, FS_CardinalityType
  <2> QED
    BY <1>2, <2>1 DEF Import, Snapshot, ReservationId
<1>4. \A r \in s.reservations : r.id \in Nat
  BY <1>2 DEF Snapshot, Reservation, ReservationId
<1>5. Numbered(reservations, next)'
  BY <1>2, <1>3, <1>4 DEF Numbered, Import
<1> QED
  BY <1>5 DEF Launch, Owned, Numbered, calls, unit

LEMMA NextOwned == Typed /\ Owned /\ [Next]_vars => Owned'
<1> SUFFICES ASSUME Typed, Owned, [Next]_vars PROVE Owned'
  OBVIOUS
<1>1. ASSUME NEW c \in Calls, NEW n \in 1..MaxReservation, NEW charge \in Usage,
             Take(c, n, charge)
      PROVE  Owned'
  BY <1>1, TakeOwned, BudgetBoundsAssumption DEF ReservationId
<1>2. ASSUME NEW c \in Calls, CallFails(c)
      PROVE  Owned'
  BY <1>2, GiveUpOwned DEF CallFails, InFlight, Release, ledger, unit
<1>3. ASSUME NEW c \in ToolCalls, Tool(c)
      PROVE  Owned'
  <2>0. c \in Calls
    BY DEF Calls
  <2>1. ASSUME NEW n \in 1..MaxReservation, NEW deadline \in Amounts \ {0},
               ToolReserves(c, n, deadline)
        PROVE  Owned'
    BY <1>1, <2>0, <2>1, ChargeTypes, AmountsAssumption DEF ToolReserves
  <2>2. ASSUME NEW elapsed \in Amounts, NEW bytes \in Amounts,
               ToolCommits(c, elapsed, bytes)
        PROVE  Owned'
    BY <2>0, <2>2, GiveUpOwned DEF ToolCommits, InFlight, Commit, unit
  <2> QED
    BY <1>2, <1>3, <2>0, <2>1, <2>2 DEF Tool
<1>4. ASSUME NEW c \in ModelCalls, Model(c)
      PROVE  Owned'
  <2>0. c \in Calls
    BY DEF Calls
  <2>1. ASSUME NEW n \in 1..MaxReservation, NEW tokens \in Amounts \ {0},
               ModelReserves(c, n, tokens)
        PROVE  Owned'
    BY <1>1, <2>0, <2>1, ChargeTypes, AmountsAssumption DEF ModelReserves
  <2>2. ASSUME NEW tokens \in Amounts, NEW cost \in Amounts, NEW elapsed \in Amounts,
               ModelCommits(c, tokens, cost, elapsed)
        PROVE  Owned'
    BY <2>0, <2>2, SettleOwned DEF ModelCommits, unit
  <2>3. CASE ModelReturns(c) \/ TranscriptFails(c)
    <3>1. \A d \in Calls \ {c} : settled'[d] = settled[d]
      BY <2>3 DEF ModelReturns, TranscriptFails, Typed, CallType
    <3> QED
      BY <2>0, <2>3, <3>1, GiveUpOwned
         DEF ModelReturns, TranscriptFails, Release, ledger, unit
  <2> QED
    BY <1>2, <1>4, <2>0, <2>1, <2>2, <2>3 DEF Model
<1>5. CASE Application
  <2>1. CASE UnitBegins \/ UnitExports \/ UnitCommits \/ UnitFails
    BY <2>1, UnitOwned
       DEF UnitBegins, UnitExports, UnitCommits, UnitFails, ledger, calls
  <2>2. ASSUME NEW bytes \in Amounts, Publishes(bytes)
        PROVE  Owned'
    BY <2>2, UnitOwned DEF Publishes, Consume, calls
  <2> QED
    BY <1>5, <2>1, <2>2, ExitOwned, LaunchOwned DEF Application
<1>6. CASE UNCHANGED vars
  BY <1>6, UnitOwned DEF vars, ledger, calls
<1> QED
  BY <1>3, <1>4, <1>5, <1>6 DEF Next

\* Whatever other calls, failures and restarts do, a call in flight finds its own
\* reservation in the ledger, and no other call carries it.
THEOREM ReservationsAreOwned == Spec => []HoldersOwn
<1>1. Init => Owned
  BY DEF Init, Owned, Numbered
<1>2. Owned => HoldersOwn
  BY DEF Owned, HoldersOwn, InFlight
<1> QED
  BY <1>1, <1>2, InitTyped, NextTyped, NextOwned, PTL DEF Spec

-------------------------------------------------------------------------------
(* The total of the reservations.                                            *)

\* A set of naturals that is not empty has a least element.
LEMMA LeastNat ==
  ASSUME NEW T \in SUBSET Nat, T # {}
  PROVE  \E m \in T : \A k \in T : m <= k
<1>1. \E m \in T : \A k \in T : ~ (<<k, m>> \in OpToRel(<, Nat))
  BY NatLessThanWellFounded, WFMin
<1>2. PICK m \in T : \A k \in T : ~ (<<k, m>> \in OpToRel(<, Nat))
  BY <1>1
<1>3. ASSUME NEW k \in T
      PROVE  m <= k
  <2>1. m \in Nat /\ k \in Nat
    OBVIOUS
  <2>2. k < m => <<k, m>> \in OpToRel(<, Nat)
    BY <2>1 DEF OpToRel
  <2>3. ~ (k < m)
    BY <1>2, <2>2
  <2> QED
    BY <2>1, <2>3
<1> QED
  BY <1>2, <1>3

\* What the sum of dimension d over the subsets of a set is, given a function that
\* has it for the smaller ones.
Some(s) == CHOOSE x \in s : TRUE
SumOf(f, s, d) == IF s = {} THEN 0 ELSE Some(s).usage[d] + f[s \ {Some(s)}]
Sums(f, S, d) == f = [s \in SUBSET S |-> SumOf(f, s, d)]

\* The library's sum is a choice among such functions ...
LEMMA TotalIsSum ==
  ASSUME NEW S, NEW d \in Dimension
  PROVE  Total(S)[d] = (CHOOSE f : Sums(f, S, d))[S]
<1>1. Total(S)[d] = MapThenSumSet(LAMBDA r : r.usage[d], S)
  BY DEF Total
<1> QED
  BY <1>1 DEF MapThenSumSet, MapThenFoldSet, Sums, SumOf, Some

\* ... there is one for every finite set, built up by the size of its subsets ...
LEMMA SumsExist ==
  ASSUME NEW S, IsFiniteSet(S), NEW d
  PROVE  \E f : Sums(f, S, d)
<1> DEFINE Small(n) == {s \in SUBSET S : Cardinality(s) <= n}
           Upto(f, n) == f = [s \in Small(n) |-> SumOf(f, s, d)]
<1>1. \A s \in SUBSET S : IsFiniteSet(s) /\ Cardinality(s) \in Nat
  BY FS_Subset, FS_CardinalityType
<1>2. \A s \in SUBSET S : s # {} => /\ Some(s) \in s /\ s \ {Some(s)} \in SUBSET S
                                    /\ Cardinality(s \ {Some(s)}) = Cardinality(s) - 1
  BY <1>1, FS_RemoveElement DEF Some
<1>3. \E f : Upto(f, 0)
  <2> DEFINE f == [s \in Small(0) |-> 0]
  <2>1. \A s \in Small(0) : s = {}
    BY <1>1, FS_EmptySet
  <2>2. f = [s \in Small(0) |-> SumOf(f, s, d)]
    BY <2>1 DEF SumOf
  <2> QED
    BY <2>2
<1>4. ASSUME NEW n \in Nat, NEW f, Upto(f, n)
      PROVE  \E g : Upto(g, n + 1)
  <2> DEFINE g == [s \in Small(n + 1) |-> IF Cardinality(s) <= n THEN f[s] ELSE SumOf(f, s, d)]
  <2>1. ASSUME NEW s \in Small(n + 1)
        PROVE  g[s] = SumOf(g, s, d)
    <3>1. s # {} => s \ {Some(s)} \in Small(n) /\ g[s \ {Some(s)}] = f[s \ {Some(s)}]
      BY <1>1, <1>2
    <3>2. SumOf(g, s, d) = SumOf(f, s, d)
      BY <3>1 DEF SumOf
    <3>3. CASE Cardinality(s) <= n
      <4>1. s \in Small(n) /\ g[s] = f[s]
        BY <3>3
      <4>2. f[s] = SumOf(f, s, d)
        BY <4>1, <1>4
      <4> QED
        BY <3>2, <4>1, <4>2
    <3>4. CASE ~ (Cardinality(s) <= n)
      BY <3>2, <3>4
    <3> QED
      BY <3>3, <3>4
  <2>2. g = [s \in Small(n + 1) |-> g[s]]
    OBVIOUS
  <2> HIDE DEF g, Small
  <2>3. Upto(g, n + 1)
    BY <2>1, <2>2
  <2> QED
    BY <2>3
<1> DEFINE N == Cardinality(S)
<1>5. N \in Nat /\ Small(N) = SUBSET S
  <2>1. \A s \in SUBSET S : Cardinality(s) <= N
    BY FS_Subset
  <2> QED
    BY <1>1, <2>1
<1> HIDE DEF Upto, Small, N
<1>6. \E f : Upto(f, N)
  <2> DEFINE T == {n \in Nat : ~ \E f : Upto(f, n)}
  <2> SUFFICES ASSUME T # {}
               PROVE  FALSE
    BY <1>5
  <2>1. PICK n \in T : \A k \in T : n <= k
    BY LeastNat
  <2>2. n # 0
    BY <1>3
  <2>3. n - 1 \in Nat /\ n - 1 \notin T
    BY <2>1, <2>2
  <2>4. PICK f : Upto(f, n - 1)
    BY <2>3
  <2>5. \E g : Upto(g, (n - 1) + 1)
    BY <2>3, <2>4, <1>4
  <2>6. (n - 1) + 1 = n
    OBVIOUS
  <2> QED
    BY <2>5, <2>6
<1> QED
  BY <1>5, <1>6 DEF Upto, Sums

\* ... and it does not depend on the set it was asked for.
LEMMA SumsAgree ==
  ASSUME NEW S, NEW U \in SUBSET S, IsFiniteSet(S), NEW d,
         NEW f, Sums(f, S, d), NEW g, Sums(g, U, d)
  PROVE  f[U] = g[U]
<1> DEFINE Differs == {s \in SUBSET U : f[s] # g[s]}
           T == {Cardinality(s) : s \in Differs}
<1>1. \A s \in SUBSET U : IsFiniteSet(s) /\ Cardinality(s) \in Nat
  BY FS_Subset, FS_CardinalityType
<1>2. SUFFICES ASSUME Differs # {}
               PROVE  FALSE
  OBVIOUS
<1>3. PICK n \in T : \A k \in T : n <= k
  <2>1. T # {} /\ T \in SUBSET Nat
    BY <1>1, <1>2
  <2> HIDE DEF T
  <2> QED
    BY <2>1, LeastNat
<1>4. PICK s \in Differs : n = Cardinality(s)
  OBVIOUS
<1>5. f[s] = SumOf(f, s, d) /\ g[s] = SumOf(g, s, d)
  BY DEF Sums
<1>6. s # {}
  BY <1>4, <1>5 DEF SumOf
<1> DEFINE u == s \ {Some(s)}
<1>7. Some(s) \in s
  BY <1>6 DEF Some
<1>8. u \in SUBSET U /\ Cardinality(u) = n - 1 /\ n \in Nat
  BY <1>1, <1>4, <1>7, FS_RemoveElement
<1>9. u \notin Differs
  BY <1>3, <1>8
<1>10. f[u] = g[u]
  BY <1>8, <1>9
<1> QED
  BY <1>4, <1>5, <1>6, <1>10 DEF SumOf

\* The total of no reservations, and of some: one of them and the total of the others.
LEMMA TotalStep ==
  ASSUME NEW S, IsFiniteSet(S), NEW d \in Dimension
  PROVE  Total(S)[d] = IF S = {} THEN 0
                       ELSE Some(S).usage[d] + Total(S \ {Some(S)})[d]
<1> DEFINE U == S \ {Some(S)}
           f == CHOOSE h : Sums(h, S, d)
           g == CHOOSE h : Sums(h, U, d)
<1>1. Sums(f, S, d)
  BY SumsExist
<1>2. IsFiniteSet(U)
  BY FS_Subset
<1>3. Sums(g, U, d)
  BY <1>2, SumsExist
<1>4. Total(S)[d] = f[S] /\ Total(U)[d] = g[U]
  BY TotalIsSum
<1> HIDE DEF f, g
<1>5. f[S] = SumOf(f, S, d)
  BY <1>1 DEF Sums
<1>6. f[U] = g[U]
  BY <1>1, <1>3, SumsAgree
<1> QED
  BY <1>4, <1>5, <1>6 DEF SumOf

\* Totals are amounts.
LEMMA TotalType ==
  ASSUME NEW S \in SUBSET Reservation, IsFiniteSet(S)
  PROVE  Total(S) \in Usage
<1> SUFFICES ASSUME NEW d \in Dimension
             PROVE  Total(S)[d] \in Nat
  BY DEF Total, Usage
<1> DEFINE Bad == {s \in SUBSET S : Total(s)[d] \notin Nat}
           T == {Cardinality(s) : s \in Bad}
<1>1. \A s \in SUBSET S : IsFiniteSet(s) /\ Cardinality(s) \in Nat
  BY FS_Subset, FS_CardinalityType
<1>2. SUFFICES ASSUME Bad # {}
               PROVE  FALSE
  OBVIOUS
<1>3. PICK n \in T : \A k \in T : n <= k
  <2>1. T # {} /\ T \in SUBSET Nat
    BY <1>1, <1>2
  <2> HIDE DEF T
  <2> QED
    BY <2>1, LeastNat
<1>4. PICK s \in Bad : n = Cardinality(s)
  OBVIOUS
<1>5. Total(s)[d] = IF s = {} THEN 0 ELSE Some(s).usage[d] + Total(s \ {Some(s)})[d]
  BY <1>1, TotalStep
<1>6. s # {}
  BY <1>4, <1>5
<1> DEFINE u == s \ {Some(s)}
<1>7. Some(s) \in s
  BY <1>6 DEF Some
<1>8. u \in SUBSET S /\ Cardinality(u) = n - 1 /\ n \in Nat
  BY <1>1, <1>4, <1>7, FS_RemoveElement
<1>9. u \notin Bad
  BY <1>3, <1>8
<1>10. Total(u)[d] \in Nat
  BY <1>8, <1>9
<1>11. Some(s).usage[d] \in Nat
  BY <1>7 DEF Reservation, Usage
<1> QED
  BY <1>4, <1>5, <1>6, <1>10, <1>11

\* Whichever reservation is taken out, the total is what it holds and the total of
\* the others.
LEMMA TotalWithout ==
  ASSUME NEW S \in SUBSET Reservation, IsFiniteSet(S), NEW r \in S, NEW d \in Dimension
  PROVE  Total(S)[d] = r.usage[d] + Total(S \ {r})[d]
<1> DEFINE Bad == {s \in SUBSET S : \E q \in s : Total(s)[d] # q.usage[d] + Total(s \ {q})[d]}
           T == {Cardinality(s) : s \in Bad}
<1>1. \A s \in SUBSET S : IsFiniteSet(s) /\ Cardinality(s) \in Nat /\ Total(s)[d] \in Nat
  BY FS_Subset, FS_CardinalityType, TotalType DEF Usage
<1>2. SUFFICES ASSUME Bad # {}
               PROVE  FALSE
  OBVIOUS
<1>3. PICK n \in T : \A k \in T : n <= k
  <2>1. T # {} /\ T \in SUBSET Nat
    BY <1>1, <1>2
  <2> HIDE DEF T
  <2> QED
    BY <2>1, LeastNat
<1>4. PICK s \in Bad : n = Cardinality(s)
  OBVIOUS
<1>5. PICK q \in s : Total(s)[d] # q.usage[d] + Total(s \ {q})[d]
  OBVIOUS
<1> DEFINE x == Some(s)
<1>6. x \in s
  BY DEF Some
<1>7. Total(s)[d] = x.usage[d] + Total(s \ {x})[d]
  BY <1>1, TotalStep
<1> HIDE DEF x
<1>8. q # x
  BY <1>5, <1>7
<1>9. /\ Cardinality(s \ {x}) = n - 1 /\ Cardinality(s \ {q}) = n - 1 /\ n \in Nat
      /\ s \ {x} \in SUBSET S /\ s \ {q} \in SUBSET S
  BY <1>1, <1>4, <1>6, FS_RemoveElement
<1>10. s \ {x} \notin Bad /\ s \ {q} \notin Bad
  <2>1. \A u \in Bad : n <= Cardinality(u)
    BY <1>3
  <2> HIDE DEF Bad
  <2> QED
    BY <1>9, <2>1
<1>11. Total(s \ {x})[d] = q.usage[d] + Total((s \ {x}) \ {q})[d]
  BY <1>8, <1>9, <1>10
<1>12. Total(s \ {q})[d] = x.usage[d] + Total((s \ {q}) \ {x})[d]
  BY <1>6, <1>8, <1>9, <1>10
<1>13. (s \ {x}) \ {q} = (s \ {q}) \ {x} /\ (s \ {x}) \ {q} \in SUBSET S
  OBVIOUS
<1>14. /\ Total((s \ {x}) \ {q})[d] \in Nat
       /\ x.usage[d] \in Nat /\ q.usage[d] \in Nat
  BY <1>1, <1>6, <1>13 DEF Reservation, Usage
<1>15. Total((s \ {q}) \ {x})[d] = Total((s \ {x}) \ {q})[d]
  BY <1>13
<1>16. \A k, a, b \in Nat : a + (b + k) = b + (a + k)
  OBVIOUS
<1> HIDE DEF Bad, T
<1> QED
  BY <1>5, <1>7, <1>11, <1>12, <1>14, <1>15, <1>16
-------------------------------------------------------------------------------
(* What is saved is a state the next launch accepts.                         *)

\* Inductive: what is reserved is the total of the reservations, in memory and in what
\* is saved of it.
Summed ==
  /\ reserved = Total(reservations)
  /\ export # Nil => Importable(export)
  /\ saved # Nil => Importable(saved)

\* Amounts are equal if they are in every dimension.
LEMMA UsageEquality ==
  ASSUME NEW u \in Usage, NEW v \in Usage, \A d \in Dimension : u[d] = v[d]
  PROVE  u = v
BY DEF Usage

LEMMA TotalOfNone == Total({}) = Zero
<1>1. IsFiniteSet({}) /\ {} \in SUBSET Reservation
  BY FS_EmptySet
<1>2. \A d \in Dimension : Total({})[d] = 0
  BY <1>1, TotalStep
<1> QED
  BY <1>1, <1>2, TotalType, UsageArithmetic, UsageEquality DEF Zero

LEMMA TotalAdds ==
  ASSUME NEW S \in SUBSET Reservation, IsFiniteSet(S), NEW r \in Reservation, r \notin S
  PROVE  Total(S \union {r}) = Plus(Total(S), r.usage)
<1> DEFINE U == S \union {r}
<1>1. IsFiniteSet(U) /\ U \in SUBSET Reservation /\ U \ {r} = S
  BY FS_AddElement
<1>2. \A d \in Dimension : Total(U)[d] = r.usage[d] + Total(S)[d]
  BY <1>1, TotalWithout
<1>3. Total(U) \in Usage /\ Total(S) \in Usage /\ r.usage \in Usage
  BY <1>1, TotalType DEF Reservation
<1> HIDE DEF U
<1>4. \A d \in Dimension : Total(U)[d] = Plus(Total(S), r.usage)[d]
  BY <1>2, <1>3 DEF Plus, Usage
<1> QED
  BY <1>3, <1>4, UsageArithmetic, UsageEquality DEF U

LEMMA TotalSubtracts ==
  ASSUME NEW S \in SUBSET Reservation, IsFiniteSet(S), NEW r \in S
  PROVE  AtMost(r.usage, Total(S)) /\ Total(S \ {r}) = Minus(Total(S), r.usage)
<1> DEFINE U == S \ {r}
<1>1. IsFiniteSet(U) /\ U \in SUBSET Reservation
  BY FS_Subset
<1>2. \A d \in Dimension : Total(S)[d] = r.usage[d] + Total(U)[d]
  BY TotalWithout
<1>3. Total(U) \in Usage /\ Total(S) \in Usage /\ r.usage \in Usage
  BY <1>1, TotalType DEF Reservation
<1> HIDE DEF U
<1>4. AtMost(r.usage, Total(S))
  BY <1>2, <1>3 DEF AtMost, Usage
<1>5. \A d \in Dimension : Total(U)[d] = Minus(Total(S), r.usage)[d]
  BY <1>2, <1>3 DEF Minus, Usage
<1> QED
  BY <1>3, <1>4, <1>5, UsageArithmetic, UsageEquality DEF U

\* Without a reservation in the list there is one less; numbers are its own.
LEMMA WithoutIsOne ==
  ASSUME Owned, NEW h \in reservations
  PROVE  Without(h) = reservations \ {h}
BY DEF Owned, Numbered, Without

LEMMA ReserveSummed ==
  ASSUME Typed, Owned, Summed, NEW n \in ReservationId, NEW charge \in Usage,
         Reserve(n, charge)
  PROVE  (reserved = Total(reservations))'
<1> DEFINE h == [id |-> n, usage |-> charge]
<1>1. h \in Reservation /\ h.id = n /\ h.usage = charge
  BY DEF Reservation
<1>2. reservations' = reservations \union {h} /\ reserved' = Plus(reserved, charge)
  BY DEF Reserve
<1>3. h \notin reservations
  <2>1. n \notin {r.id : r \in reservations}
    BY DEF Reserve, IsNextId
  <2> QED
    BY <1>1, <2>1
<1> HIDE DEF h
<1> QED
  BY <1>1, <1>2, <1>3, TotalAdds DEF Typed, LedgerType, Summed

LEMMA CommitSummed ==
  ASSUME Typed, Owned, Summed, NEW h \in Reservation, NEW charge, Commit(h, charge)
  PROVE  (reserved = Total(reservations))'
<1>1. /\ h \in reservations /\ reservations' = reservations \ {h}
      /\ reserved' = Minus(reserved, h.usage)
  BY WithoutIsOne DEF Commit
<1> QED
  BY <1>1, TotalSubtracts DEF Typed, LedgerType, Summed

LEMMA ReleaseSummed ==
  ASSUME Typed, Owned, Summed, NEW h \in Reservation, Release(h)
  PROVE  (reserved = Total(reservations))'
<1>1. CASE h \in reservations /\ AtMost(h.usage, reserved)
  <2>1. reservations' = reservations \ {h} /\ reserved' = Minus(reserved, h.usage)
    BY <1>1, WithoutIsOne DEF Release
  <2> QED
    BY <1>1, <2>1, TotalSubtracts DEF Typed, LedgerType, Summed
<1>2. CASE ~(h \in reservations /\ AtMost(h.usage, reserved))
  BY <1>2 DEF Release, Summed, ledger
<1> QED
  BY <1>1, <1>2

LEMMA LaunchSummed ==
  ASSUME Launch
  PROVE  (reserved = Total(reservations))'
<1>1. PICK s : Importable(s) /\ Import(s)
  BY DEF Launch
<1> QED
  BY <1>1 DEF Importable, Import

\* What the application exports is what a launch accepts.
LEMMA ExportImportable ==
  ASSUME Owned, Summed
  PROVE  Importable(ExportState)
BY DEF Owned, Numbered, Summed, Importable, ExportState

LEMMA NextSummed == Typed /\ Owned /\ Summed /\ [Next]_vars => Summed'
<1> SUFFICES ASSUME Typed, Owned, Summed, [Next]_vars PROVE Summed'
  OBVIOUS
<1>1. (reserved = Total(reservations))'
  <2>1. CASE UNCHANGED ledger
    BY <2>1 DEF Summed, ledger
  <2>2. ASSUME NEW charge \in Usage, Consume(charge)
        PROVE  (reserved = Total(reservations))'
    BY <2>2 DEF Consume, Summed
  <2> QED
    BY <2>1, <2>2, LedgerSteps, ReserveSummed, CommitSummed, ReleaseSummed, LaunchSummed
<1>2. Importable(ExportState)
  BY ExportImportable
<1>3. (export # Nil => Importable(export))' /\ (saved # Nil => Importable(saved))'
  BY <1>2, UnitSteps DEF Summed, Importable
<1> QED
  BY <1>1, <1>3 DEF Summed

\* The next launch accepts whatever was saved: a unit of work exports the ledger
\* between the steps of any calls, and reservations are numbered and summed at each.
THEOREM SavedIsImportable == Spec => []SavedCanBeRestored
<1>1. Init => Owned /\ Summed
  BY TotalOfNone DEF Init, Owned, Numbered, Summed
<1>2. Summed => SavedCanBeRestored
  BY DEF Summed, SavedCanBeRestored
<1> QED
  BY <1>1, <1>2, InitTyped, NextTyped, NextOwned, NextSummed, PTL DEF Spec

-------------------------------------------------------------------------------
(* No reservation is left behind.                                            *)

\* A call that stops carrying its number leaves no reservation under it, and every
\* other one its holder.
LEMMA GiveUpLeaksNothing ==
  ASSUME Typed, Owned, NothingLeaks, NEW c \in Calls, up,
         hold' = [hold EXCEPT ![c] = Nil],
         \A r \in reservations' : r \in reservations /\ r # hold[c],
         \A d \in Calls \ {c} : settled'[d] = settled[d],
         UNCHANGED <<up, restored>>
  PROVE  NothingLeaks'
<1> SUFFICES ASSUME NEW r \in reservations', r \notin restored
             PROVE  \E d \in Calls : InFlight(d)' /\ hold'[d] = r
  BY DEF NothingLeaks
<1>1. PICK d \in Calls : InFlight(d) /\ hold[d] = r
  BY DEF NothingLeaks
<1>2. d # c
  BY <1>1
<1>3. hold'[d] = hold[d] /\ settled'[d] = settled[d]
  BY <1>2 DEF Typed, CallType
<1> QED
  BY <1>1, <1>3 DEF InFlight

\* An error path that releases takes its reservation out: what is reserved is never
\* less than one reservation, so release does not refuse it.
LEMMA FailLeaksNothing ==
  ASSUME Typed, Owned, Summed, NothingLeaks, NEW c \in Calls, CallFails(c)
  PROVE  NothingLeaks'
<1>1. hold[c] \in reservations
  BY DEF CallFails, InFlight, Owned
<1>2. AtMost(hold[c].usage, reserved)
  BY <1>1, TotalSubtracts DEF Typed, LedgerType, Summed
<1>3. reservations' = reservations \ {hold[c]}
  BY <1>1, <1>2, WithoutIsOne DEF CallFails, Release
<1> QED
  BY <1>3, GiveUpLeaksNothing DEF CallFails, InFlight

LEMMA TakeLeaksNothing ==
  ASSUME Typed, NothingLeaks, NEW c \in Calls, NEW n \in ReservationId,
         NEW charge \in Usage, Take(c, n, charge)
  PROVE  NothingLeaks'
<1> DEFINE h == [id |-> n, usage |-> charge]
<1>1. /\ up /\ up' /\ hold[c] = Nil /\ restored' = restored
      /\ hold' = [hold EXCEPT ![c] = h] /\ settled' = [settled EXCEPT ![c] = FALSE]
      /\ reservations' = reservations \union {h}
  BY DEF Take, Reserve
<1>2. /\ hold'[c] = h /\ settled'[c] = FALSE
      /\ \A d \in Calls \ {c} : hold'[d] = hold[d] /\ settled'[d] = settled[d]
  BY <1>1 DEF Typed, CallType
<1>3. h # Nil
  BY BudgetNilAssumption DEF Reservation
<1> SUFFICES ASSUME NEW r \in reservations', r \notin restored
             PROVE  \E d \in Calls : InFlight(d)' /\ hold'[d] = r
  BY <1>1 DEF NothingLeaks
<1>4. CASE r = h
  BY <1>1, <1>2, <1>3, <1>4 DEF InFlight
<1>5. CASE r # h
  <2>1. PICK d \in Calls : InFlight(d) /\ hold[d] = r
    BY <1>1, <1>5 DEF NothingLeaks
  <2>2. d # c
    BY <1>1, <2>1 DEF InFlight
  <2> QED
    BY <1>1, <1>2, <2>1, <2>2 DEF InFlight
<1> QED
  BY <1>4, <1>5

\* A model call that committed holds a number, and no reservation.
LEMMA SettleLeaksNothing ==
  ASSUME Typed, Owned, NothingLeaks, NEW c \in Calls, NEW charge, InFlight(c),
         Commit(hold[c], charge), settled' = [settled EXCEPT ![c] = TRUE],
         UNCHANGED <<up, hold, restored>>
  PROVE  NothingLeaks'
<1>1. hold[c] \in reservations /\ reservations' = reservations \ {hold[c]}
  BY WithoutIsOne DEF Commit
<1>2. \A d \in Calls \ {c} : settled'[d] = settled[d]
  BY DEF Typed, CallType
<1> SUFFICES ASSUME NEW r \in reservations', r \notin restored
             PROVE  \E d \in Calls : InFlight(d)' /\ hold'[d] = r
  BY DEF NothingLeaks
<1>3. PICK d \in Calls : InFlight(d) /\ hold[d] = r
  BY <1>1 DEF NothingLeaks, InFlight
<1> QED
  BY <1>1, <1>2, <1>3 DEF InFlight

LEMMA SettledLeaksNothing ==
  ASSUME Typed, Owned, NothingLeaks, NEW c \in Calls, ModelReturns(c) \/ TranscriptFails(c)
  PROVE  NothingLeaks'
<1>1. /\ up /\ up' = up /\ hold[c] # Nil /\ settled[c] /\ restored' = restored
      /\ hold' = [hold EXCEPT ![c] = Nil] /\ settled' = [settled EXCEPT ![c] = FALSE]
  BY DEF ModelReturns, TranscriptFails
<1>2. \A r \in reservations : r.id # hold[c].id
  BY <1>1 DEF Owned
<1>3. reservations' = reservations
  BY <1>2 DEF ModelReturns, TranscriptFails, Release, ledger
<1>4. \A d \in Calls \ {c} : settled'[d] = settled[d]
  BY <1>1 DEF Typed, CallType
<1> QED
  BY <1>1, <1>2, <1>3, <1>4, GiveUpLeaksNothing

LEMMA NextLeaksNothing ==
  Typed /\ Owned /\ Summed /\ NothingLeaks /\ [Next]_vars => NothingLeaks'
<1> SUFFICES ASSUME Typed, Owned, Summed, NothingLeaks, [Next]_vars PROVE NothingLeaks'
  OBVIOUS
<1>0. 1..MaxReservation \subseteq ReservationId
  BY BudgetBoundsAssumption DEF ReservationId
<1>1. ASSUME NEW c \in ToolCalls, Tool(c)
      PROVE  NothingLeaks'
  <2>0. c \in Calls
    BY DEF Calls
  <2>1. ASSUME NEW n \in 1..MaxReservation, NEW deadline \in Amounts \ {0},
               ToolReserves(c, n, deadline)
        PROVE  NothingLeaks'
    BY <2>0, <2>1, <1>0, TakeLeaksNothing, ChargeTypes, AmountsAssumption DEF ToolReserves
  <2>2. ASSUME NEW elapsed \in Amounts, NEW bytes \in Amounts,
               ToolCommits(c, elapsed, bytes)
        PROVE  NothingLeaks'
    <3>1. hold[c] \in reservations /\ reservations' = reservations \ {hold[c]}
      BY <2>2, WithoutIsOne DEF ToolCommits, Commit
    <3> QED
      BY <2>0, <2>2, <3>1, GiveUpLeaksNothing DEF ToolCommits, InFlight
  <2> QED
    BY <1>1, <2>0, <2>1, <2>2, FailLeaksNothing DEF Tool
<1>2. ASSUME NEW c \in ModelCalls, Model(c)
      PROVE  NothingLeaks'
  <2>0. c \in Calls
    BY DEF Calls
  <2>1. ASSUME NEW n \in 1..MaxReservation, NEW tokens \in Amounts \ {0},
               ModelReserves(c, n, tokens)
        PROVE  NothingLeaks'
    BY <2>0, <2>1, <1>0, TakeLeaksNothing, ChargeTypes, AmountsAssumption DEF ModelReserves
  <2>2. ASSUME NEW tokens \in Amounts, NEW cost \in Amounts, NEW elapsed \in Amounts,
               ModelCommits(c, tokens, cost, elapsed)
        PROVE  NothingLeaks'
    BY <2>0, <2>2, SettleLeaksNothing DEF ModelCommits
  <2> QED
    BY <1>2, <2>0, <2>1, <2>2, SettledLeaksNothing, FailLeaksNothing DEF Model
<1>3. CASE Application
  <2>1. CASE UnitBegins \/ UnitExports \/ UnitCommits \/ UnitFails
    BY <2>1 DEF UnitBegins, UnitExports, UnitCommits, UnitFails, ledger, calls,
       NothingLeaks, InFlight
  <2>2. ASSUME NEW bytes \in Amounts, Publishes(bytes)
        PROVE  NothingLeaks'
    BY <2>2 DEF Publishes, Consume, calls, NothingLeaks, InFlight
  <2>3. CASE Crash \/ Close
    BY <2>3 DEF Crash, Close, Stops, NothingLeaks
  <2>4. CASE Launch
    BY <2>4 DEF Launch, Import, NothingLeaks
  <2> QED
    BY <1>3, <2>1, <2>2, <2>3, <2>4 DEF Application
<1>4. CASE UNCHANGED vars
  BY <1>4 DEF vars, ledger, calls, NothingLeaks, InFlight
<1> QED
  BY <1>1, <1>2, <1>3, <1>4 DEF Next

\* Every reservation that no snapshot brought has a call in flight that will commit or
\* release it, whatever failed on the way.
THEOREM NothingIsLeaked == Spec => []NothingLeaks
<1>1. Init => Owned /\ Summed /\ NothingLeaks
  BY TotalOfNone DEF Init, Owned, Numbered, Summed, NothingLeaks
<1> QED
  BY <1>1, InitTyped, NextTyped, NextOwned, NextSummed, NextLeaksNothing, PTL DEF Spec

===============================================================================
