--------------------------- MODULE AgentCoordinator ---------------------------
(***************************************************************************)
(* A run of the agent coordinator (kala-runtime): the tasks of a graph, one *)
(* layer after the other, each layer on a pool of threads that call the     *)
(* tool executor (kala-tools).  The executor's worker slots and the budget  *)
(* ledger are shared with other callers; the ledger's part of every step is *)
(* BudgetLedger's own.                                                      *)
(*                                                                          *)
(* What a tool is asked and answers is reduced to how its call ends.        *)
(***************************************************************************)
EXTENDS Integers, FiniteSets, FiniteSetsExt

CONSTANTS
  LastTask,  \* tasks are numbered in the order of their step identifiers
  Workers,   \* the threads of a layer: max_parallel_tasks
  Others,    \* other threads that call the same executor
  Capacity,  \* worker slots: SandboxProfile::max_workers
  Deadline,  \* of a call, in the unit the budget counts
  Limit,     \* RunBudget
  Amounts,   \* of time and artifacts a call may turn out to use
  MaxOther,  \* bound: calls the others make
  Nil

Tasks == 1..LastTask
Threads == Workers \union Others

\* How a call ends.
Endings == {"succeeded", "reported", "overlong", "broken", "overrun", "budget",
            "capacity", "refused", "error"}

ASSUME TasksAssumption == LastTask \in Nat \ {0}
ASSUME ThreadsAssumption == Workers \intersect Others = {} /\ Workers # {}
ASSUME CapacityAssumption == Capacity \in Nat \ {0} /\ MaxOther \in Nat
ASSUME TimeAssumption == Deadline \in Nat \ {0} /\ Amounts \subseteq Nat
ASSUME NilAssumption == Nil \notin Tasks /\ Nil \notin Endings /\ Nil # "cancelled"

VARIABLES
  dependsOn,    \* AgentTask::depends_on, chosen once
  phase,        \* of the thread that runs the graph
  layer,        \* the layer it is at, from 1
  queue,        \* tasks of the layer no worker has taken
  outcomes,     \* outcomes the run has collected
  answers,      \* the results the layer's threads left, and earlier layers'
  error,        \* the task whose error the run returns
  task,         \* the task a worker dispatches
  stage,        \* where a thread is in the executor
  verdict,      \* how its call ended, while it still has the slot
  held,         \* WorkerSlots::held
  usage, reserved, reservations, next, hold,  \* the ledger, see BudgetLedger
  otherCalls, otherCharges, \* history: what the others reserved and were charged
  sinceCheck    \* history: what they reserved since the layer was admitted

run == <<dependsOn, phase, layer, queue, outcomes, error>>
threads == <<task, stage, verdict, answers>>
counted == <<usage, reserved, reservations, next>>
ledger == <<counted, hold>>
others == <<otherCalls, otherCharges, sinceCheck>>
vars == <<run, threads, held, ledger, others>>

\* One process that neither ends nor saves.
Ledger == INSTANCE BudgetLedger
            WITH ToolCalls <- Threads, ModelCalls <- {},
                 Amounts <- Amounts \union {Deadline},
                 MaxReservation <- LastTask + MaxOther, MaxExits <- 0,
                 up <- TRUE, settled <- [c \in Threads |-> FALSE], working <- FALSE,
                 export <- Nil, saved <- Nil, restored <- {}, exits <- 0

ASSUME LedgerAssumption ==
  Limit \in Ledger!Usage /\ Nil \notin Ledger!Reservation /\ Nil \notin Ledger!Snapshot
-------------------------------------------------------------------------------
(* The graph.                                                                *)

\* dependency_layers: the tasks complete after k layers.
Completed[k \in 0..LastTask] ==
  IF k = 0 THEN {} ELSE {t \in Tasks : dependsOn[t] \subseteq Completed[k - 1]}

Layer == Completed[layer] \ Completed[layer - 1]

\* validate_task_graph, dependency_order: a cycle is never ready.
Ordered == Completed[LastTask] = Tasks

Succeeded(t) == outcomes[t] = "succeeded"

\* Mutant: one dependency that succeeded is enough.
BlockedByAll(t) == dependsOn[t] # {} /\ \A d \in dependsOn[t] : ~ Succeeded(d)

Blocked(t) == \E d \in dependsOn[t] : ~ Succeeded(d)

Calls(n) == [Ledger!Zero EXCEPT !["tool_calls"] = n]

\* Mutant: the check of one call.
AdmitsOne(S) == Ledger!Fits(Calls(1), Ledger!Zero)

\* admission_check: that many tool calls, and nothing is kept for them.
Admits(S) == Ledger!Fits(Calls(Cardinality(S)), Ledger!Zero)
-------------------------------------------------------------------------------
(* AgentCoordinator::run.                                                    *)

RunFrame == UNCHANGED <<dependsOn, threads, held, ledger, otherCalls, otherCharges>>

Refuse ==
  /\ phase = "planned" /\ ~ Ordered
  /\ phase' = "refused"
  /\ UNCHANGED <<layer, queue, outcomes, error, sinceCheck>> /\ RunFrame

Begin ==
  /\ phase = "planned" /\ Ordered
  /\ phase' = "layers"
  /\ UNCHANGED <<layer, queue, outcomes, error, sinceCheck>> /\ RunFrame

InLayers == phase = "layers" /\ Completed[layer - 1] # Tasks

\* Tasks whose dependencies did not all succeed are cancelled, the others dispatched.
Admit ==
  LET ready == {t \in Layer : ~ Blocked(t)} IN
  /\ InLayers /\ ready # {} /\ Admits(ready)
  /\ phase' = "dispatching" /\ queue' = ready
  /\ outcomes' = [t \in Tasks |-> IF t \in Layer \ ready THEN "cancelled" ELSE outcomes[t]]
  /\ sinceCheck' = 0
  /\ UNCHANGED <<layer, error>> /\ RunFrame

\* Or none is left, or the budget has not a call for each and all are denied.
Deny ==
  LET ready == {t \in Layer : ~ Blocked(t)} IN
  /\ InLayers /\ (ready = {} \/ ~ Admits(ready))
  /\ outcomes' = [t \in Tasks |-> CASE t \in ready         -> "budget"
                                    [] t \in Layer \ ready -> "cancelled"
                                    [] OTHER               -> outcomes[t]]
  /\ layer' = layer + 1
  /\ UNCHANGED <<phase, queue, error, sinceCheck>> /\ RunFrame

\* The outcome of a cancelled or denied task may itself be refused: its call identifier
\* or its reason is too long.
AdmitFails ==
  /\ InLayers /\ ((\E t \in Layer : Blocked(t)) \/ ~ Admits(Layer))
  /\ phase' = "failed"
  /\ UNCHANGED <<layer, queue, outcomes, error, sinceCheck>> /\ RunFrame

Joined == phase = "dispatching" /\ queue = {} /\ \A w \in Workers : stage[w] = "idle"

Failures == {t \in Layer : answers[t] \in {"error", "overlong"}}

\* Mutant: the error that is looked at last.
LastError(S) == Max(S)

FirstError(S) == Min(S)

Collect ==
  /\ Joined /\ Failures = {}
  /\ outcomes' = [t \in Tasks |-> IF t \in Layer /\ answers[t] # Nil THEN answers[t]
                                  ELSE outcomes[t]]
  /\ layer' = layer + 1 /\ phase' = "layers"
  /\ UNCHANGED <<queue, error, sinceCheck>> /\ RunFrame

\* What the other tasks of the layer came to is dropped.
Fail ==
  /\ Joined /\ Failures # {}
  /\ phase' = "failed" /\ error' = FirstError(Failures)
  /\ UNCHANGED <<layer, queue, outcomes, sinceCheck>> /\ RunFrame

\* The results that succeeded are checked against their schemas and their size again.
Merge ==
  /\ phase = "layers" /\ Completed[layer - 1] = Tasks
  /\ \/ phase' = "done"
     \/ (\E t \in Tasks : Succeeded(t)) /\ phase' = "failed"
  /\ UNCHANGED <<layer, queue, outcomes, error, sinceCheck>> /\ RunFrame
-------------------------------------------------------------------------------
(* A worker of the layer, and the executor: ToolExecutor::execute.           *)

\* The next index; a worker that finds none left ends.
Claim(w) ==
  /\ phase = "dispatching" /\ queue # {} /\ stage[w] = "idle"
  /\ task' = [task EXCEPT ![w] = Min(queue)] /\ queue' = queue \ {Min(queue)}
  /\ stage' = [stage EXCEPT ![w] = "called"]
  /\ UNCHANGED <<dependsOn, phase, layer, outcomes, error, verdict, answers,
                 held, ledger, others>>

\* Somebody else's call.
OtherCalls(c) ==
  /\ stage[c] = "idle" /\ otherCalls < MaxOther
  /\ stage' = [stage EXCEPT ![c] = "called"]
  /\ otherCalls' = otherCalls + 1
  /\ UNCHANGED <<run, task, verdict, answers, held, ledger, otherCharges, sinceCheck>>

\* The thread leaves the executor; a worker puts the result in its slot.
Leave(c, v) ==
  /\ stage' = [stage EXCEPT ![c] = "idle"] /\ verdict' = [verdict EXCEPT ![c] = Nil]
  /\ IF c \in Workers
     THEN /\ answers' = [answers EXCEPT ![task[c]] = v]
          /\ task' = [task EXCEPT ![c] = Nil]
     ELSE UNCHANGED <<answers, task>>
  /\ UNCHANGED <<run, others>>

\* No such tool, a capability or the policy says no, the sandbox or the arguments do
\* not allow it ("refused"); or dispatch itself fails ("error").
TurnedAway(c) ==
  /\ stage[c] = "called"
  /\ \E v \in {"refused", "error"} : Leave(c, v)
  /\ UNCHANGED <<held, ledger>>

QueueTimesOut(c) ==
  /\ stage[c] = "called" /\ held >= Capacity
  /\ Leave(c, "capacity")
  /\ UNCHANGED <<held, ledger>>

TakeSlot(c) ==
  /\ stage[c] = "called" /\ held < Capacity
  /\ held' = held + 1 /\ stage' = [stage EXCEPT ![c] = "slot"]
  /\ UNCHANGED <<run, task, verdict, answers, ledger, others>>

Estimate == Ledger!ToolEstimate(Deadline)

\* The time counted is at most the deadline; nobody estimated the artifacts.
Charges ==
  {Ledger!ToolCharge(elapsed, bytes) : elapsed \in Amounts \intersect 0..Deadline,
                                       bytes \in Amounts}

ToolStarts(c) ==
  /\ stage[c] = "slot"
  /\ \E n \in 1..(LastTask + MaxOther) :
       /\ Ledger!Reserve(n, Estimate)
       /\ hold' = [hold EXCEPT ![c] = [id |-> n, usage |-> Estimate]]
  /\ stage' = [stage EXCEPT ![c] = "running"]
  /\ sinceCheck' = IF c \in Others THEN sinceCheck + 1 ELSE sinceCheck
  /\ UNCHANGED <<run, task, verdict, answers, held, otherCalls, otherCharges>>

\* The call is over, its reservation is settled; its slot is not given back yet.
Ends(c, v) ==
  /\ stage' = [stage EXCEPT ![c] = "ended"] /\ verdict' = [verdict EXCEPT ![c] = v]
  /\ otherCharges' = IF c \in Others /\ v = "succeeded" THEN otherCharges + 1
                     ELSE otherCharges
  /\ hold' = [hold EXCEPT ![c] = Nil]
  /\ UNCHANGED <<run, task, answers, held, otherCalls, sinceCheck>>

ReserveFails(c) == stage[c] = "slot" /\ ~ Ledger!Fits(Estimate, Ledger!Zero)

\* Mutant: an early return that keeps the slot.
ReserveRefusedEarly(c) ==
  /\ ReserveFails(c)
  /\ Leave(c, "budget")
  /\ UNCHANGED <<held, ledger>>

\* The call's own reservation counts the deadline too, which the check did not.
ReserveRefused(c) ==
  /\ ReserveFails(c)
  /\ Ends(c, "budget")
  /\ UNCHANGED counted

\* A verified response is charged with its artifacts: also one that says the tool
\* failed, or that cannot be turned into a result afterwards ("reported"), and one
\* whose message the coordinator finds too long ("overlong").
ToolAnswers(c) ==
  /\ stage[c] = "running"
  /\ \E charge \in Charges, v \in {"succeeded", "reported", "overlong"} :
       /\ c \in Others => v = "succeeded"
       /\ Ledger!Commit(hold[c], charge)
       /\ Ends(c, v)

\* The budget does not hold what the tool used: its result is dropped.
CommitRefused(c) ==
  /\ stage[c] = "running"
  /\ \E charge \in Charges : ~ Ledger!Fits(charge, hold[c].usage)
  /\ Ledger!Release(hold[c])
  /\ Ends(c, "overrun")

\* It breaks, passes its deadline, or its response does not verify.
ToolBreaks(c) ==
  /\ stage[c] = "running"
  /\ Ledger!Release(hold[c])
  /\ Ends(c, "broken")

Returns(c) ==
  /\ stage[c] = "ended"
  /\ held' = held - 1
  /\ Leave(c, verdict[c])
  /\ UNCHANGED ledger
-------------------------------------------------------------------------------
Init ==
  /\ dependsOn \in {g \in [Tasks -> SUBSET Tasks] : \A t \in Tasks : t \notin g[t]}
  /\ phase = "planned" /\ layer = 1 /\ queue = {} /\ error = Nil
  /\ outcomes = [t \in Tasks |-> Nil] /\ answers = [t \in Tasks |-> Nil]
  /\ task = [w \in Workers |-> Nil]
  /\ stage = [c \in Threads |-> "idle"] /\ verdict = [c \in Threads |-> Nil]
  /\ held = 0
  /\ usage = Ledger!Zero /\ reserved = Ledger!Zero /\ reservations = {} /\ next = 1
  /\ hold = [c \in Threads |-> Nil]
  /\ otherCalls = 0 /\ otherCharges = 0 /\ sinceCheck = 0

Run == Refuse \/ Begin \/ Admit \/ Deny \/ AdmitFails \/ Collect \/ Fail \/ Merge

Executor(c) ==
  \/ TurnedAway(c) \/ QueueTimesOut(c) \/ TakeSlot(c)
  \/ ToolStarts(c) \/ ReserveRefused(c)
  \/ ToolAnswers(c) \/ CommitRefused(c) \/ ToolBreaks(c)
  \/ Returns(c)

Next ==
  \/ Run
  \/ \E w \in Workers : Claim(w)
  \/ \E c \in Others : OtherCalls(c)
  \/ \E c \in Threads : Executor(c)

\* Threads are scheduled, the wait for a slot is bounded and a tool is killed at its
\* deadline; nobody has to call.
Fairness ==
  /\ WF_vars(Run)
  /\ \A w \in Workers : WF_vars(Claim(w))
  /\ \A c \in Threads : WF_vars(Executor(c))

Spec == Init /\ [][Next]_vars /\ Fairness
-------------------------------------------------------------------------------
(* Properties.                                                               *)

\* Everything t needs, however indirectly.
Needs(t) ==
  LET needs[k \in 0..LastTask] ==
        IF k = 0 THEN dependsOn[t]
        ELSE needs[k - 1] \union UNION {dependsOn[d] : d \in needs[k - 1]}
  IN needs[LastTask]

\* A tool is let run for a task only when everything the task needs, however
\* indirectly, has succeeded and been collected; nothing that needs the task has
\* been touched, and no other worker has it (coordinator.rs, "never dispatched").
DependenciesHeld ==
  \A w \in Workers : stage[w] \in {"slot", "running", "ended"} =>
    /\ \A d \in Needs(task[w]) : outcomes[d] = "succeeded"
    /\ \A t \in Tasks : task[w] \in Needs(t) => outcomes[t] = Nil /\ answers[t] = Nil
    /\ \A v \in Workers \ {w} : task[v] # task[w]

\* The order in which threads finish does not show in the result.  Each task comes to
\* what its own call came to, or is cancelled because of one it depends on, never
\* both; an error is the first in task order, all it needs succeeded, and nothing
\* that follows its layer was begun.
ResultIsSequential ==
  /\ phase = "done" => \A t \in Tasks :
       IF \A d \in dependsOn[t] : outcomes[d] = "succeeded"
       THEN outcomes[t] = IF answers[t] = Nil THEN "budget" ELSE answers[t]
       ELSE outcomes[t] = "cancelled" /\ answers[t] = Nil
  /\ error # Nil =>
       /\ answers[error] \in {"error", "overlong"}
       /\ \A d \in Needs(error) : outcomes[d] = "succeeded"
       /\ \A t \in Tasks : answers[t] \in {"error", "overlong"} => error <= t
       /\ \A t \in Tasks : error \in Needs(t) => answers[t] = Nil

\* The check that admits a layer is no reservation, yet only calls of others made
\* since can take the tool calls it found: those the layer has still to make fit.
LayerStaysAdmitted ==
  LET preparing == {w \in Workers : stage[w] \in {"called", "slot"}}
      ahead == queue \union {task[w] : w \in preparing}
  IN phase = "dispatching" =>
       usage["tool_calls"] + reserved["tool_calls"] + Cardinality(ahead)
         <= Limit["tool_calls"] + sinceCheck

\* What a run that returned leaves behind once the others' calls are over too: no
\* slot and no reservation held, and a tool call charged for exactly those calls
\* whose tool answered, those included whose outcome an error dropped.
Settled ==
  /\ phase \in {"done", "failed", "refused"}
  /\ \A c \in Threads : stage[c] = "idle"
  /\ held = 0 /\ reservations = {} /\ reserved = Ledger!Zero
  /\ usage["tool_calls"] =
       otherCharges + Cardinality({t \in Tasks : answers[t] \in {"succeeded", "reported",
                                                                 "overlong"}})

\* Every run returns and leaves the books balanced, whatever tools, the budget and the
\* pool of slots do.
EveryRunSettles == <>[]Settled
===============================================================================
