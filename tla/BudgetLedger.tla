----------------------------- MODULE BudgetLedger -----------------------------
(***************************************************************************)
(* The budget of a run: BudgetLedger (kala-budget), the tool executor and   *)
(* the model gateway that reserve and settle one call each on their own     *)
(* thread, and the application that saves the ledger in its units of work   *)
(* and restores it at launch.                                               *)
(*                                                                          *)
(* Every method of the ledger runs under its mutex, so each is one step; a  *)
(* call is several.  Amounts are natural numbers: counters are arbitrary    *)
(* precision, durations are sums on a microsecond grid, costs are decimals. *)
(***************************************************************************)
EXTENDS Integers, FiniteSets, FiniteSetsExt

CONSTANTS
  ToolCalls,      \* threads of the tool executor
  ModelCalls,     \* callers of the model gateway
  Limit,          \* RunBudget: the limit of each dimension
  Amounts,        \* the amounts a call may estimate or use
  MaxReservation, \* bound: reservation ids handed out
  MaxExits,       \* bound: times the process ends
  Nil

Dimension == {"model_calls", "tool_calls", "total_tokens", "artifact_bytes",
              "duration_seconds", "cost", "replanning_attempts"}

Usage == [Dimension -> Nat]

Calls == ToolCalls \union ModelCalls

ReservationId == Nat \ {0}

Reservation == [id : ReservationId, usage : Usage]

Snapshot == [usage : Usage, reserved : Usage, reservations : SUBSET Reservation,
             next : ReservationId]

ASSUME LimitAssumption == Limit \in Usage
ASSUME AmountsAssumption == Amounts \subseteq Nat
ASSUME BudgetNilAssumption == Nil \notin Reservation /\ Nil \notin Snapshot
ASSUME BudgetBoundsAssumption == MaxReservation \in Nat /\ MaxExits \in Nat

VARIABLES
  up,           \* the process runs
  usage,        \* LedgerState of the one ledger they share
  reserved,
  reservations,
  next,
  hold,         \* the reservation a call in flight carries, or Nil
  settled,      \* the gateway committed it and has not returned yet
  working,      \* a unit of work holds the database transaction
  export,       \* the state it exported, not committed yet, or Nil
  saved,        \* the last committed kernel-budget-state, or Nil
  restored,     \* history: reservations this process found in a snapshot
  exits

ledger == <<usage, reserved, reservations, next>>
unit == <<working, export, saved>>
calls == <<hold, settled>>
vars == <<up, ledger, calls, unit, restored, exits>>
-------------------------------------------------------------------------------
Zero == [d \in Dimension |-> 0]
Plus(u, v) == [d \in Dimension |-> u[d] + v[d]]
Minus(u, v) == [d \in Dimension |-> u[d] - v[d]]
AtMost(u, v) == \A d \in Dimension : u[d] <= v[d]

\* Mutant: a check that sees what was spent and not what is reserved.
FitsSpent(charge, own) == AtMost(Plus(usage, charge), Limit)

\* check_locked.  "own" is the reservation a commit is about to give up; sub refuses
\* one that is larger than what is reserved.
Fits(charge, own) ==
  /\ AtMost(own, reserved)
  /\ AtMost(Plus(Plus(usage, Minus(reserved, own)), charge), Limit)

\* Mutant: the smallest number no open reservation has.
IsLowestFree(n) ==
  LET used == {r.id : r \in reservations} IN n \notin used /\ 1..(n - 1) \subseteq used

\* next_reservation_id: the first one from the counter on that is not in use.
IsNextId(n) ==
  LET used == {r.id : r \in reservations} IN
  n >= next /\ n \notin used /\ next..(n - 1) \subseteq used

Reserve(n, charge) ==
  /\ Fits(charge, Zero)
  /\ IsNextId(n)
  /\ next' = n + 1
  /\ reservations' = reservations \union {[id |-> n, usage |-> charge]}
  /\ reserved' = Plus(reserved, charge)
  /\ UNCHANGED usage

Without(h) == {r \in reservations : r.id # h.id}

\* Mutant: the ledger takes back what was used, not what was reserved.
CommitUsed(h, charge) ==
  /\ h \in reservations /\ Fits(charge, h.usage)
  /\ reservations' = Without(h)
  /\ reserved' = [d \in Dimension |->
                    IF charge[d] <= reserved[d] THEN reserved[d] - charge[d] ELSE 0]
  /\ usage' = Plus(usage, charge)
  /\ UNCHANGED next

\* commit_charge: require_reservation, the check, and only then the change.
Commit(h, charge) ==
  /\ h \in reservations /\ Fits(charge, h.usage)
  /\ reservations' = Without(h)
  /\ reserved' = Minus(reserved, h.usage)
  /\ usage' = Plus(usage, charge)
  /\ UNCHANGED next

\* Mutant: release by identifier, whether the ledger knows it or not.
ReleaseAnyway(h) ==
  /\ reservations' = Without(h)
  /\ reserved' = Minus(reserved, h.usage)
  /\ UNCHANGED <<usage, next>>

\* release.  Its callers ignore the error it returns for a reservation it does not
\* know, so an unknown one changes nothing.
Release(h) ==
  IF h \in reservations /\ AtMost(h.usage, reserved)
  THEN /\ reservations' = Without(h)
       /\ reserved' = Minus(reserved, h.usage)
       /\ UNCHANGED <<usage, next>>
  ELSE UNCHANGED ledger

Consume(charge) ==
  /\ Fits(charge, Zero)
  /\ usage' = Plus(usage, charge)
  /\ UNCHANGED <<reserved, reservations, next>>

ExportState ==
  [usage |-> usage, reserved |-> reserved, reservations |-> reservations, next |-> next]

\* parse_state: what import_state accepts.
Total(S) == [d \in Dimension |-> MapThenSumSet(LAMBDA r : r.usage[d], S)]

Importable(s) ==
  /\ \A r, q \in s.reservations : r.id = q.id => r = q
  /\ s.reserved = Total(s.reservations)

\* import_state: everything is replaced, the limits too (every launch of this program
\* starts from the same ones), and the counter clears the reservations.
Import(s) ==
  LET minimum == Cardinality(s.reservations) + 1 IN
  /\ usage' = s.usage /\ reserved' = s.reserved /\ reservations' = s.reservations
  /\ next' = IF s.next > minimum THEN s.next ELSE minimum
-------------------------------------------------------------------------------
(* The tool executor.                                                        *)

\* One call and its deadline; afterwards the time it took, never more than the
\* deadline, and the artifacts nobody estimated.
ToolEstimate(deadline) ==
  [Zero EXCEPT !["tool_calls"] = 1, !["duration_seconds"] = deadline]

ToolCharge(elapsed, bytes) ==
  [Zero EXCEPT !["tool_calls"] = 1, !["duration_seconds"] = elapsed,
               !["artifact_bytes"] = bytes]

Take(c, n, charge) ==
  /\ up /\ hold[c] = Nil
  /\ Reserve(n, charge)
  /\ hold' = [hold EXCEPT ![c] = [id |-> n, usage |-> charge]]
  /\ settled' = [settled EXCEPT ![c] = FALSE]
  /\ UNCHANGED <<up, unit, restored, exits>>

InFlight(c) == up /\ hold[c] # Nil /\ ~settled[c]

ToolReserves(c, n, deadline) == Take(c, n, ToolEstimate(deadline))

ToolCommits(c, elapsed, bytes) ==
  /\ InFlight(c)
  /\ elapsed <= hold[c].usage["duration_seconds"]
  /\ Commit(hold[c], ToolCharge(elapsed, bytes))
  /\ hold' = [hold EXCEPT ![c] = Nil]
  /\ UNCHANGED <<up, settled, unit, restored, exits>>

\* Mutant: an error path that returns without releasing.
CallForgets(c) ==
  /\ InFlight(c)
  /\ hold' = [hold EXCEPT ![c] = Nil]
  /\ UNCHANGED <<up, ledger, settled, unit, restored, exits>>

\* Every other ending, of a tool and of a model call: no result, a failure, an answer
\* that does not verify, or a commit the ledger refuses (which changes nothing).
CallFails(c) ==
  /\ InFlight(c)
  /\ Release(hold[c])
  /\ hold' = [hold EXCEPT ![c] = Nil]
  /\ UNCHANGED <<up, settled, unit, restored, exits>>
-------------------------------------------------------------------------------
(* The model gateway.                                                        *)

ModelEstimate(tokens) == [Zero EXCEPT !["model_calls"] = 1, !["total_tokens"] = tokens]

ModelCharge(tokens, cost, elapsed) ==
  [Zero EXCEPT !["model_calls"] = 1, !["total_tokens"] = tokens, !["cost"] = cost,
               !["duration_seconds"] = elapsed]

ModelReserves(c, n, tokens) == Take(c, n, ModelEstimate(tokens))

\* record commits first and keeps the transcript afterwards.
ModelCommits(c, tokens, cost, elapsed) ==
  /\ InFlight(c)
  /\ Commit(hold[c], ModelCharge(tokens, cost, elapsed))
  /\ settled' = [settled EXCEPT ![c] = TRUE]
  /\ UNCHANGED <<up, hold, unit, restored, exits>>

ModelReturns(c) ==
  /\ up /\ hold[c] # Nil /\ settled[c]
  /\ hold' = [hold EXCEPT ![c] = Nil]
  /\ settled' = [settled EXCEPT ![c] = FALSE]
  /\ UNCHANGED <<up, ledger, unit, restored, exits>>

\* The transcript cannot be kept: complete releases a reservation it has committed.
TranscriptFails(c) ==
  /\ up /\ hold[c] # Nil /\ settled[c]
  /\ Release(hold[c])
  /\ hold' = [hold EXCEPT ![c] = Nil]
  /\ settled' = [settled EXCEPT ![c] = FALSE]
  /\ UNCHANGED <<up, unit, restored, exits>>
-------------------------------------------------------------------------------
(* The application.                                                          *)

\* derive_commit: a report is charged where it is published, before the unit of work
\* that records it begins, and stays charged if that unit fails.
Publishes(bytes) ==
  /\ up
  /\ Consume([Zero EXCEPT !["artifact_bytes"] = bytes])
  /\ UNCHANGED <<up, calls, unit, restored, exits>>

\* unit_of_work: the database serialises them.
UnitBegins ==
  /\ up /\ ~working
  /\ working' = TRUE
  /\ UNCHANGED <<up, ledger, calls, export, saved, restored, exits>>

\* persist_kernel_state, the last thing before the transaction commits.
UnitExports ==
  /\ up /\ working /\ export = Nil
  /\ export' = ExportState
  /\ UNCHANGED <<up, ledger, calls, working, saved, restored, exits>>

UnitCommits ==
  /\ up /\ export # Nil
  /\ saved' = export /\ export' = Nil /\ working' = FALSE
  /\ UNCHANGED <<up, ledger, calls, restored, exits>>

\* The database and the policy engine are rolled back, the ledger is not.
UnitFails ==
  /\ up /\ working
  /\ working' = FALSE /\ export' = Nil
  /\ UNCHANGED <<up, ledger, calls, saved, restored, exits>>

\* The process ends: calls and the open transaction are gone.  What memory held is
\* kept until the next launch replaces it, and nothing reads it.
Stops ==
  /\ up' = FALSE /\ exits' = exits + 1
  /\ hold' = [c \in Calls |-> Nil] /\ settled' = [c \in Calls |-> FALSE]
  /\ working' = FALSE /\ export' = Nil
  /\ UNCHANGED <<ledger, restored>>

Crash ==
  /\ up /\ exits < MaxExits
  /\ Stops
  /\ UNCHANGED saved

\* close saves the ledger once more and does not wait for calls in flight.
Close ==
  /\ up /\ ~working /\ exits < MaxExits
  /\ Stops
  /\ saved' = ExportState

Fresh == [usage |-> Zero, reserved |-> Zero, reservations |-> {}, next |-> 1]

\* Mutant: a launch that starts from the configured budget.
LaunchFresh ==
  /\ ~up
  /\ up' = TRUE
  /\ Import(Fresh)
  /\ restored' = {}
  /\ UNCHANGED <<calls, unit, exits>>

\* restore_kernel_state.  A state that does not validate stops the launch.
Launch ==
  LET s == IF saved = Nil THEN Fresh ELSE saved IN
  /\ ~up /\ Importable(s)
  /\ up' = TRUE
  /\ Import(s)
  /\ restored' = s.reservations
  /\ UNCHANGED <<calls, unit, exits>>
-------------------------------------------------------------------------------
Init ==
  /\ up = TRUE
  /\ usage = Zero /\ reserved = Zero /\ reservations = {} /\ next = 1
  /\ hold = [c \in Calls |-> Nil] /\ settled = [c \in Calls |-> FALSE]
  /\ working = FALSE /\ export = Nil /\ saved = Nil
  /\ restored = {} /\ exits = 0

Tool(c) ==
  \/ \E n \in 1..MaxReservation, deadline \in Amounts \ {0} : ToolReserves(c, n, deadline)
  \/ \E elapsed, bytes \in Amounts : ToolCommits(c, elapsed, bytes)
  \/ CallFails(c)

Model(c) ==
  \/ \E n \in 1..MaxReservation, tokens \in Amounts \ {0} : ModelReserves(c, n, tokens)
  \/ \E tokens, cost, elapsed \in Amounts : ModelCommits(c, tokens, cost, elapsed)
  \/ ModelReturns(c) \/ TranscriptFails(c) \/ CallFails(c)

Application ==
  \/ UnitBegins \/ UnitExports \/ UnitCommits \/ UnitFails
  \/ \E bytes \in Amounts : Publishes(bytes)
  \/ Crash \/ Close \/ Launch

Next ==
  \/ \E c \in ToolCalls : Tool(c)
  \/ \E c \in ModelCalls : Model(c)
  \/ Application

Spec == Init /\ [][Next]_vars
-------------------------------------------------------------------------------
(* Properties.                                                               *)

\* Every variable keeps its type; in particular no counter goes below zero.
TypeOK ==
  /\ up \in BOOLEAN /\ working \in BOOLEAN /\ exits \in Nat
  /\ usage \in Usage /\ reserved \in Usage
  /\ reservations \subseteq Reservation /\ next \in ReservationId
  /\ hold \in [Calls -> Reservation \union {Nil}] /\ settled \in [Calls -> BOOLEAN]
  /\ export \in Snapshot \union {Nil} /\ saved \in Snapshot \union {Nil}
  /\ restored \subseteq Reservation

\* Concurrent calls cannot oversubscribe: whatever they reserve, use, overrun or give
\* back, usage and reservations together stay within every limit, also after a
\* restart.
WithinLimits == AtMost(Plus(usage, reserved), Limit)

\* What a unit of work saves, at any moment between the steps of any calls, is a state
\* the next launch accepts: the launch stops on a reservation total that does not match.
SavedCanBeRestored == saved # Nil => Importable(saved)

\* The reservation of a call in flight is in the ledger and is nobody else's; no
\* failure, late release or restart of another call gives it away.
HoldersOwn ==
  \A c \in Calls :
    InFlight(c) =>
      /\ hold[c] \in reservations
      /\ \A d \in Calls \ {c} : InFlight(d) => hold[d].id # hold[c].id

\* A reservation without a call in flight can only have come with a snapshot.
NothingLeaks ==
  up => \A r \in reservations :
          r \in restored \/ \E c \in Calls : InFlight(c) /\ hold[c] = r

\* Each saved state has at least the usage of the one it replaces: through failed units,
\* crashes and launches, budget that was saved as spent never becomes available again.
\* What calls commit after the last save is lost in a crash.
SavedUsageGrows ==
  [][saved # Nil => AtMost(saved.usage, saved'.usage)]_saved
===============================================================================
