# Kala Agent: a verification development

TLA+ models of Kala Agent's own control logic, TLC configurations that check
them on small instances, and TLAPS proofs about them for every value of their
constants. Everything is translated from the code; paths below are relative to
the repository root.

Sections: [1 the system](#1-the-system) · [2 modules](#2-modules) ·
[3 runs](#3-runs) · [4 proofs](#4-proofs) · [5 findings](#5-findings) ·
[6 what is not modelled](#6-what-is-not-modelled) · [7 plan](#7-plan)

## 1 The system

Kala Agent plans and runs mechanical-engineering work. A core (Rust crates under
`backend/crates/kala-*`, ported from the Python package `src/kala_agent`) keeps
workflows, policy approvals, budgets and an append-only journal; a Studio front
door serves a browser interface and supervises a geometry worker; adapters drive
CAD programs. The adapter for Solid Edge is split in two: a client
(`adapters/solidedge`, `kala-solidedge-client`) and a Windows bridge
(`adapters/solidedge-bridge`) that owns the one Solid Edge session.

### Inventory

| Component | State it keeps | Operations | What is hard | What makes it correct |
| --- | --- | --- | --- | --- |
| Bridge job ledger (`adapters/solidedge-bridge/.../jobs.py`) | jobs, request index, active and blocked slot, queue (memory); `request.json`, `job.json`, manifest per build (disk); the child process | submit, cancel, reconcile, status; supervisor iteration; close; recover | HTTP threads against the supervisor; calls made outside the lock; child and bridge crashes; lost acknowledgements; a write that fails | one build at a time; nothing is replayed; no definite answer while Solid Edge may still be executing; an unknown outcome blocks until a human resolves it |
| Bridge worker (`worker.py`, `session.py`) | the current build, the cancel flag | build, cancel, health, shutdown over stdin/stdout | hangs in COM; dies mid-build | one build at a time; every build has a last event, or the child is dead |
| Solid Edge client (`cli.py`, `journal.py`; `kala-solidedge-client`) | a JSONL journal of submissions | build (reserve an id, submit, poll), status, cancel | two clients, one file; lost answer; truncation at 200 entries | the same request is resubmitted under the same id |
| Workflow engine (`kala-kernel/workflow.rs`) | status, node, attempts, history, pending approval | start, run, resume, record result, approve, resolve, cancel, replan, restore | callers race between read and store; callbacks fail between event and state; an approval goes stale | no checkpoint is passed without an approval of that state; terminal is terminal; retries are bounded |
| Policy engine (`kala-kernel/policy.rs`) | approval records bound to digests | request, approve, deny, revoke, decide, export, import | expiry; a digest that no longer fits | a decision is allowed only under a live approval of exactly that request |
| Budget ledger (`kala-budget/ledger.rs`) | usage, reservations, next id | check, charge, reserve, commit, release, export, import | concurrent reservations; state replaced under open reservations | usage plus reservations stays within every limit |
| Event journal, snapshots, database (`kala-persistence`) | hash-chained rows, kernel snapshots, transactions | append, read, verify, save, transaction with savepoints | nested transactions; several processes; a torn tail | the chain verifies; a rolled-back unit leaves nothing |
| Repositories (`kala-repositories`) | design revisions and heads, memory records | insert, compare-and-set head | two writers | a head only moves from the revision the writer saw |
| Application (`kala-application`) | the above, held together | units of work, checkpoint and revision decisions, restore | database rolls back, memory does not; decisions prepared outside the unit | journal, policy and budget agree after every failure and restart |
| Agent coordinator, model gateway, tool executor (`kala-runtime`, `kala-tools`) | outcomes of a run | dispatch layers of tasks in parallel, preflight, reserve and settle | parallel tasks and one budget; a policy decision taken earlier | a task runs only after its dependencies succeeded; every reservation is settled once |
| Process supervision, sandbox (`kala-process`, `kala-sandbox`) | a child and its pipes | spawn, time out, kill, drain | exit against timeout; descendants | a timed-out child is gone before the call returns |
| Geometry worker supervisor (`kala-studio/worker.rs`) | state, endpoint, back-off | supervise, launch, shutdown | shutdown during launch; stale endpoint | an endpoint names a live worker; a stopped supervisor has no child |
| Studio journal, artifact store | JSONL file; content-addressed files | append, read; put, get | several writers, torn writes | what was acknowledged can be read back |
| Memory manager (`kala-memory`) | records with expiry | put, revise, expire, export | clock; revision chains | an expired record is not served |
| Planning, contracts, JSON, geometry, STEP, design intent, domains, CAD providers, API, CLI, UI, packaging | none, or a file written whole | pure functions and routing | numeric code | outside what TLC and TLAPS reach, see section 6 |

### How the components interact

The client and the bridge talk over loopback HTTP; the bridge and its child over
pipes; the child drives Solid Edge through COM, and Solid Edge goes on with what
it was handed whatever happens to the child. In the core, the application service
calls the workflow engine with a callback for its events, asks the policy engine
for decisions and wraps each operation in one database transaction together with
a snapshot of policy and budget. The coordinator asks the budget, then runs
tools on threads, and the executor reserves and settles each call. The hazards
this brings are listed one by one, each at its line, in `PROJECT.json`.

The bridge is modelled first. It is the only place where a mistake acts on the
world (a part built twice, or reported as failed while it is being cut), where
three processes fail independently, and where the repository states its rules
most precisely (`jobs.py:8-21`); with it goes the client that decides under which
request id a build is submitted. The budget of a run is second: it is what the
coordinator, the executor, the gateway and the application share while they run
on threads of their own. Third are the engines that say what may happen at all,
workflow and policy, and the application service that keeps them, the database
and the design history together.

## 2 Modules

| Module | What it is |
| --- | --- |
| `JobManager` | the bridge: HTTP threads, supervisor, child, Solid Edge, disk, crash and restart |
| `BuildSlot` | the abstract specification: what the bridge promises about the one slot |
| `BudgetLedger` | the budget ledger with its users: tool and model calls, units of work, close and launch |
| `Workflow` | the values of the workflow engine: a state, and what each operation makes of it; no variables |
| `WorkflowEngine` | the engine over those values: threads, the mutex, the event callback; EXTENDS `Workflow` |
| `PolicyEngine` | the policy engine: requests, records, tool classes, grants, eviction |
| `Application` | the application service: operations, units of work, the database, a policy in memory, restart; EXTENDS `Workflow` |
| `BuildClient` | the client's build command and its journal, against the ledger of a bridge |
| `AgentCoordinator` | a run of a task graph: layers, threads, the executor's slots, over the operators of `BudgetLedger` |
| `MCJobManager`, `MCBudgetLedger`, `MCWorkflowEngine`, `MCPolicyEngine`, `MCApplication`, `MCBuildClient`, `MCAgentCoordinator` | the instances, symmetry sets and bounds for TLC |
| `JobManagerProofs` | types, the inductive invariant and the safety theorems of `JobManager` that hold whatever writes fail, proved |
| `JobSlotProofs` | the slot, the restart and the refinement of `BuildSlot` while writes succeed, and mutual exclusion of `BuildSlot`, proved; EXTENDS `JobManagerProofs` |
| `BudgetLedgerProofs` | types, limits, durability, ownership, importability and absence of leaks of `BudgetLedger`, proved |
| `BuildClientProofs`, `WorkflowEngineProofs`, `ApplicationProofs`, `PolicyEngineProofs`, `AgentCoordinatorProofs` | types and safety of the module each is named after, proved; the last one also the composition with `BudgetLedger`, INSTANCE of `BudgetLedgerProofs` |

### JobManager

*State.* `state`, `cancelRequested`, `cancelSent` are the fields of `_Job`;
`byRequest`, `active`, `blocked`, `pending`, `backend` are the attributes of
`JobManager` with those names (`backend` is only whether `_backend` is set,
because the code never looks at more). `disk` and `requestFile` are `job.json`
and the existence of `request.json`; `requestOf` is the contents of the latter.
`thread` is what an HTTP thread carries between `submit`'s two locked sections;
`pc`, `supJob`, `supEvent`, `supTimedOut` are the supervisor's position and local
variables inside `run_once`. `worker`, `wire` are the child and the message queue
its reader thread fills, `native` is what Solid Edge does with each build, and
`leaked` counts children no object refers to. `ack` is every answer a client got,
as request, build and payload; with `starts`, `reconciled`, `exits` and
`writeFaults` it is history and bounds.

*Actions.* One action is one critical section of `_lock`, or one call made
outside it. `submit` is `SubmitAgain` or `SubmitCheck` in the first section, then
`SubmitRefused`, `SubmitLate`, `SubmitAdmit` or `SubmitAdmitRaises` in the
second: readiness is asked between the two, without the lock. `run_once` becomes
a walk of `pc`:

```
 idle ─ BackendReady ─┬─ select ─ StartJob ─ recheck ─ submit ─ awaitAck ─┬─ poll ─ apply ─ idle
                      │     └ SkipJob, NothingToStart ────────────────────┘    │       ├─ sendCancel
                      └─ starting ─┬─ select                     refused, lost ┘       └─ lost ─ abort
                                   └─ noBackend ─ vanished | unavailable
```

A write is atomic (`atomic_write_json` replaces the file) and may raise once
per unit of `MaxWriteFaults`; what memory holds at that moment is what the
handler had already assigned. The order of those assignments is the code's, so
a handler that sets a state, writes a manifest and then clears the slot can stop
in the middle. A crash takes the memory and the child with it and leaves the
disk and Solid Edge; `CrashInAdmission` and `CrashInRecovery` are the two
places where a crash between two files matters.

*Abstractions.* Readiness is a free choice (`SubmitRefused` is always possible):
it decides only whether an admission goes on. The shipped worker reports
`supported = false`, so today every admission is refused; the model is of the
ledger with a backend that reports itself ready, as the tests use it. Trace,
warnings, step index, messages and artifact lists are left out: no branch of
the ledger reads them. A conflicting payload is answered with an error and changes
nothing, so it is no step in `submit`'s first section and `SubmitRefused` in the
second. The supervisor's local variables and the passed deadline are forgotten at
the next iteration, which does not read them. `Close` is the locked section of
`close` (`jobs.py:887-915`) together with the shutdown of the child that follows it
outside the lock. That loses no outcome: in between, no step of a supervisor still
inside `run_once` that looks at the ledger goes on to the child, except to stop it, so
what it and the child do there could as well have come before the section.
`poll` hands over one message at a time, as
`ChildProcessBackend.poll` does. The order in which the child reads commands is
left open; a child that reads them in order is one of the cases. When the bridge
dies the child's unread commands die with its stdin. A write that raises inside
`_recover` ends the process like a crash there does. The branch `vanished`
is kept although `_backend` is never reset while a job runs.

### BuildSlot

Three variables: what the ledger says of each build, what Solid Edge did with
it, and which builds an operator let go. `Admit` needs every other build
settled; `Settle` needs an execution that is over or never began. `JobManager`
implements it (`LedgerIsSlot`) under the mapping of the *durable* state,
`phase <- Phase(disk[b])`, so each crash and restart is a step or a stutter of
the abstract specification. An `INTERRUPTED` build is `settled`, which is what
makes "nothing is replayed" part of the refinement.

### BudgetLedger

*State.* `usage`, `reserved`, `reservations` and `next` are the fields of
`LedgerState`; one `Arc` of it is shared by the executor, the gateway, the
coordinator and the application (`application.rs:357`). `hold[c]` is the
reservation a tool or model call carries, and `settled[c]` says that the gateway
has committed it and not returned. `working` and `export` are an open unit of
work and the state it has written inside its transaction; `saved` is the last
committed `kernel-budget-state`. `restored` and `exits` are history.

*Actions.* Each ledger method holds its mutex from the check to the last
assignment, so it is one step (`Reserve`, `Commit`, `Release`, `Consume`,
`ExportState`, `Import`); a call is several, in any order with those of others.
A tool call is `ToolReserves`, then `ToolCommits` or `CallFails`; a model call is
`ModelReserves`, `ModelCommits`, then `ModelReturns`, or `TranscriptFails`, whose
release comes after the commit. `CallFails` is every other way out, a commit the
ledger refuses included. A tool call is charged the time it took, at most its
deadline, and the artifacts nobody estimated; a model call is charged whatever
the provider reports. `Publishes` charges a report outside any reservation,
before the unit of work that records it. A unit of work is `UnitBegins`,
`UnitExports`, `UnitCommits` or `UnitFails`; calls go on between them. `Crash`
loses memory, `Close` saves once more and does not wait for calls; `Launch`
imports what was saved, or stops when it does not validate.

*Abstractions.* An amount is a natural number in each of the seven dimensions.
The limits are constant: a snapshot carries them too, and every launch starts
from the same ones. Reservations are a set, because `parse_state` and the methods look
them up by identifier. `check`, `available` and the coordinator's admission only
read. The reservations of calls that died stay in the ledger after a launch, as
in the code: nothing releases them, which `NothingLeaks` names as the only
exception.

### Workflow and WorkflowEngine

*Values.* `Workflow` translates the operations of `kala-kernel/workflow.rs` as
operators from a state to the set of its outcomes: the events emitted, in order,
and the state stored afterwards. The set is empty when the operation answers with
an error. A digest is the tuple `state_digest_of` hashes; status, approval and
history are not in it, which is why an approval survives some changes of the
state and not others (`ApprovalMatches`). The definition is a sequence of
transitions, because `select_transition` takes the first that leaves the state.

*Engine.* `engine` is what the mutex holds; `call[c]` is what a thread has
computed and not finished: events still to emit, the state to store, and how
often. The mutex covers a read or a store, never both: every operation is a
first step that clones the state and computes, then `Emit` or `EmitFails` per
event, outside the lock, then `Store`. Only `start` stores before it emits: `Start`
looks for the workflow under the lock, `StartStores` stores under the lock again.
`journal` is what the callback accepted, as far as the properties ask.

*Abstractions.* Identifiers, reasons, actors and times are left out; supplied
digests are those of the approval or some other state's. Every workflow is a fresh
one: `restore` (`workflow.rs:1998`) is not an action. It would store a state its
caller brings, which is any state some engine held before, and with two threads the
states to bring multiply those to check; that its validation accepts whatever an
engine holds is `RestorableAlways`.

### PolicyEngine

`inner` is the struct of that name: `requests`, `approvals` and `tool_classes` in
insertion order, since eviction and the search for an open record depend on it.
Every public operation holds the mutex throughout, so it is one step, its
`prune_locked` included. `granted` is the grants; `consent` is history, the keys
an actor approved and nobody took back.

*Abstractions.* The clock stands still: no grant or approval expires. Every caller
in the repository passes no scope, so a tool class is an action digest with the
capabilities it was approved for. A request is a class change, another gated
request or a plain one; the instance asks class changes, which take every
branch of a gated request and the classes on top, and plain ones. With two actions
no remembered class is pushed out there; the theorems cover that as well. `Reload`
is the import of what was exported, at any moment: that import is defined only for
a `Valid` state.

### Application

*State.* `policy` is the policy engine in memory, `db` the committed database: the
saved policy, the rows of the approval table, prepared commits, the revision
chain, the conflicts on record and the snapshot of the workflow. `unit` is the
open transaction, `task[t]` what a thread has read and where in its operation it
is.

*Actions.* An operation reads what it is about (`Prepare`, `Decide`, `Run`,
`DecideCheckpoint`), exports the policy (`Export`), takes the database lock and
works (`Work`), saves the policy as it *then* is and commits (`Commit`) or rolls
back (`RollBack`), and only after that imports its export over whatever the policy
engine holds (`Import`). What `Work` does is `PrepareUnit`, `DecideUnit`, `RunUnit`
or `CheckpointUnit`, from the code of each operation; the workflow goes by the
operators of `Workflow`. A decision that completes the workflow goes on with a
commit of its own draft (`PrepareOwn`, `DecideOwn`). `Restart` loses memory and
restores the saved policy.

*Abstractions.* The policy is one status per request, the part of `PolicyEngine`
these operations reach with one digest per request. A commit names its draft and
the head it was prepared on, which is what its request id is hashed from. The
reference evaluation is deterministic and passes. What an operation reads before its
unit, under several locks one after the other, is one step (`Decide` and its like):
all of it is looked at again inside the unit. Budget is in `BudgetLedger`.

### BuildClient

`journal` is the file, `command[p]` the command a process is running with the
entries it has read, `ledger` the bridge as the client can see it: which request
ids have a job, and its state. A command asks for readiness, searches the journal
for an unfinished entry of the same request (`RequestId`), writes its intent,
submits, writes the answer, polls, and writes the outcome. It may die at any
point, its submission or the answer may be lost, and polling may end at the
deadline. The bridge's part (`Admissible`, `Admitted`, `Recovered`) is that of
`JobManager`, one step per change of a job.

*Abstractions.* A request is the triple `find_exact` compares. Entries without
digests (older versions) and their refusal are left out, and so is a journal that
cannot be read, which the code takes for an empty one.

### AgentCoordinator

*State.* `dependsOn` is the graph; `phase`, `layer`, `outcomes` are the local
variables of `AgentCoordinator::run`, `queue` the indices its `fetch_add` has not
handed out, `answers` the slots of `dispatch_layer`. `task[w]` is what a thread of
the layer dispatches, `stage[c]` where a call is in `ToolExecutor::execute`,
`held` the counter of `WorkerSlots`. The budget is `BudgetLedger`'s own state and
operators (`Ledger == INSTANCE BudgetLedger WITH ...`), for a process that neither
ends nor saves. `Others` are threads that call the same executor without the
coordinator. `otherCalls`, `otherCharges`, `sinceCheck` are history.

*Actions.* `Refuse` or `Begin` orders the graph; for each layer `Admit` cancels
the tasks with a dependency that did not succeed and passes the rest through
`admission_check`, or `Deny` gives all of them a refusal, or `AdmitFails` ends the run
because such an outcome is itself refused (a call identifier or a reason over its
limit); then the workers `Claim`
tasks and each call goes `TurnedAway`, `QueueTimesOut` or `TakeSlot`, then
`ToolStarts` or `ReserveRefused`, then `ToolAnswers`, `CommitRefused` or
`ToolBreaks`, then `Returns`. When all threads have joined `Collect` takes the
outcomes, or `Fail` returns the first error in task order. `Merge` is the end.

*Abstractions.* What a tool is asked and answers is only how the call ends:
`succeeded`, `reported` (a verified response that says the tool failed, or cannot be
turned into a result),
`overlong` (a verified error message the protocol allows and `AgentStepOutcome`
does not), `broken` (crash, deadline, response that does not verify), `overrun`,
`budget`, `capacity`, `refused` (registry, capability, policy, sandbox, arguments)
and `error` (dispatch itself fails before a tool runs). A layer of one task, which
the code runs without a thread, is a layer one worker takes. Whether the merge
finds a result too large or of the wrong schema is free. The planner, the step
catalog and `run_objective` come before the graph and are left out.

## 3 Runs

| Run | Bounds | What it shows |
| --- | --- | --- |
| `restarts` | 2 builds, 2 requests, 2 payloads, 2 HTTP threads, 1 exit and crashes in the recovery from it, no progress messages | a crash in the middle of the recovery from a crash: the one slot names whatever Solid Edge may be executing, the block is exactly the unknown build and only reconciliation resolves it, the durable ledger still implements `BuildSlot`, acknowledged requests keep their builds and payloads, outcomes on disk stand, and admission stays exclusive through the unlocked readiness window |
| `faults` | 2 builds, 2 requests, 1 exit and crashes in the recovery from it, 1 failed write, 1 leaked child | no false verdict, no second execution, no start after a definite answer |
| `liveness` | 2 builds, 2 requests, 1 progress message, `FairSpec` | type invariant; a cancel reaches the child or the build is over, without help from the deadline; when deadlines pass too, every admitted build leaves queued and running |
| `budget` | 1 tool call, 2 model calls, amounts 0 and 1, 3 reservations, 1 exit | nothing is oversubscribed, lent twice, leaked or unrestorable; saved usage only grows |
| `workflow` | 2 threads, a plain and a gated step, 2 tries, 1 replan | lost updates and failed callbacks included: the state is restorable, gates are passed on approvals of the very state they leave, the journal leads, a workflow waits exactly for an approval and never runs without a step it may take |
| `application` | 3 threads, 2 drafts, a chain of 1, 1 fault | the chain is approved and unbroken, each approved commit is in it or on record as a conflict, decisions are made once, the workflow follows the decision on disk |
| `client` | 1 process, 2 requests, 3 commands, `FairSpec` | an unfinished request never becomes a second job; the journal has every job and is right about what it calls settled; every command ends |
| `policy` | 3 class requests and a plain one under 3 ids, limit 2 | nothing is allowed without a live approval of its digests or class, eviction forgets the least worth first, refusals stand |
| `agent` | every graph of 3 tasks, 2 workers, 2 slots, 1 call of somebody else; 2 tool calls, 2 seconds, 1 artifact byte | no tool runs before everything its task needs has succeeded; the order in which threads finish does not show in the result; an admitted layer loses budget only to others; every run returns and leaves no slot, no reservation and exactly the calls that were answered charged |
| `cancel_wins`, `terminal_revived`, `approval_lost` | as small as the case allows | the three disagreements of section 5, as counterexamples |

*Why the bounds are enough.* One slot means interference is between the build
that holds it and the next one, and two builds show it. Two requests and two
payloads (`restarts`) give the idempotent, the conflicting and the competing
admission; the other runs of the bridge have one payload, which their properties do
not look at. One exit gives a restart with everything before and after it, and
`MaxExits` does not count a crash inside the recovery from it (`CrashInRecovery`, at
most once per job): each leaves a job recovered. One failed write is
what the code must survive; two in a row are a broken disk. `MaxWire` bounds
only progress messages (1 in `liveness`, where a verdict can be queued behind
one, and 0 elsewhere);
`MaxLeaked = 1` is enough for a leaked child to be alive beside the next. The
budget's limits (`MCLimit`) let two calls of a kind in and refuse a third, leave
room for one token, byte or second only, and none for cost, so every check can
succeed and fail; three reservations are the two that compete and one more after
a release or a restart, which is where an identifier could be reused.

In `workflow` the gated step may be tried twice, so that a failed try or the one
replan falls between an approval and its use, and the second failure ends the
workflow. Two threads are all a lost update takes. In `application` one thread
commits revisions, one runs the workflow, two decide its checkpoint (`Roles`);
`OneCrowd` keeps the second decider and the second draft out of each other's
behaviours, so that the race for a checkpoint and the race for the head are each
complete and not multiplied. `MaxRevisions = 1` gives two commits on one head,
of which one finds it moved; `MaxFaults = 1` is one unit that fails or one
restart. In `client` three commands are a lost one, its repetition and one
more; there is one process, and `MaxEntries` and `MaxCommands` are equal, so no entry
is dropped or written over by somebody else, and `JournalAgrees` and `NoSecondJob`
say nothing of two processes or a full journal (section 5). In
`policy` the limit of 2 is exceeded by the third id, and by the second digest of
the first one. In `agent` three tasks give every shape a layer can see (a chain, a fork, a join, a cycle, three at
once), and two workers always leave one task of three waiting. With two tool
calls a layer of three is denied, a layer of two is admitted and can lose one to
the other caller, and a chain meets the limit at its third task; two seconds are
two deadlines, so a reservation can be refused while a third call is running, and
one byte makes one of two charges overrun. Symmetry is used in safety runs only.

*Fairness.* `FairSpec` is weak fairness of the supervisor's steps: its thread
loops until `_stop`, catches every exception (`jobs.py:594-601`) and every wait
in an iteration has a deadline (`_request_timeout`, `poll_interval`).
`EveryBuildSettles` has a premise of its own, that the clock passes the running
build's deadline (`WF_vars(DeadlinePasses)`). Nothing is assumed of clients, the
child, Solid Edge or the operating system. `FairSpec` of `BuildClient` is weak
fairness of a command's own next step: every request to the bridge and the
polling have a timeout (`client.py:224`), and nothing is assumed of the bridge.
`Fairness` of `AgentCoordinator` is weak fairness of the thread that runs the
graph, of each worker's next task and of each call's next step: threads are
scheduled, the wait for a slot is bounded (`max_queue_seconds`) and the process of
a tool is killed at its deadline; a tool that runs inside the process is assumed
to return. Nobody has to call.

## 4 Proofs

All are checked by TLAPS, for any sets of builds, requests, payloads, tasks and
threads and any bounds.

*Assumptions on the constants.* They are named in the module that declares the
constants, and TLC evaluates them in the runs. `Nil` and `None` are none of the
values they stand in for; bounds are naturals, limits and amounts too
(`BoundsAssumption`, `LimitAssumption`, `AmountsAssumption`, `PolicyAssumption`,
`ApplicationAssumption`, `ClientAssumption`); in a workflow definition the
transitions are a sequence of transitions between its states and every attempt
limit is positive (`WorkflowAssumption`), which its validation demands; the limit of
the ledger a coordinator uses is an amount in each dimension (`LedgerAssumption`),
and a call's deadline is positive (`TimeAssumption`; `timeout_for` of
`kala-tools/executor/profile.rs` returns at least `MINIMUM_TIMEOUT_SECONDS`). The
workflow the application runs is the reference package's (`ReferenceAssumption`): a
chain of states none of which comes twice, each step once, with a checkpoint at the
last transition only, which is how `workflow_definition` of
`kala-domains/mechanical/workflow.rs` builds it; the application runs no other.

*Hypotheses.* Three theorem groups say less than their property and name it in
the theorem, because without it the property is false (section 5):
`WritesSucceed` (`JobSlotProofs`; `atomic_write_json` never raises: a write that
does leaves memory ahead of the disk), and `OneProcess` and `RoomForAll`
(`BuildClientProofs`; two processes over one journal file lose each other's
entries, and a full journal drops its oldest). The runs assume the same.

* `JobManagerProofs`: `TypeCorrect`; then `NoDefiniteAnswerTooEarly`, `AtMostOnce`
  and `SettledStaysIdle`, i.e. `NoFalseVerdict`, `NothingReplayed` and
  `SettledNeverStarts`, which hold even when a write fails. None is
  inductive. What is inductive is `Accounted`: every build is *untouched* (Solid
  Edge has not begun it, and no command for it is on its way), or *live* (handed
  over and open in the ledger: running or indeterminate, in memory or on disk),
  or its execution is over. A build moves from the first to the second only
  through the supervisor's submission, which needs it `RUNNING` in memory and on
  disk; from the second to a definite answer only on a message that proves the
  end (`MessagesAreTrue`: the wire never carries a verdict about an execution
  that is not over) or a refusal that proves no begin. The other conjuncts say
  where commands can still be (`PendingHasRequest`, `QueuedIsUntouched`,
  `SupervisorIsRight`) and that an undrawn id is unknown everywhere. Most
  actions cannot begin anything: `NothingBegins` does those with one lemma, in
  terms of what stays booked, kept or quiet, and the supervisor and child
  actions that can are proved one by one.
* `JobSlotProofs` adds `Agreed`, for a bridge whose writes succeed: memory and disk
  say the same (`DiskFollows`), the slot is held by the build that is queued or
  running and by no other (`SlotIsHeld`), an unknown outcome blocks the bridge as
  long as there is one (`UnknownBlocks`), at most one build is unsettled on disk
  (`OneUnsettled`) and a queued one was never handed over (`QueuedOnDisk`);
  `SupervisorHolds` says which states the others may put a build into between two
  of the supervisor's steps. From it follow `NativeAccounted`, `SlotAgrees`,
  `OnlyReconcileResolves`, `OutcomeStands`, `AdmissionIsExclusive` and, with what is
  remembered about requests (`RequestsKept`), `AcknowledgedIsKept`.
* The refinement `LedgerIsSlot` is proved step by step: a step of the bridge is a
  turn of one build on disk (`DiskTurns`) or a step of Solid Edge (`NativeStep`),
  and each of those is a step or a stutter of `BuildSlot` (`TurnIsSlotStep`,
  `NativeIsSlotStep`). `SlotExcludes` is mutual exclusion of the abstract slot, from
  `SlotExclusive`: at most one build holds the slot, and an unreleased execution
  holds it. `OneExecutionAtATime`, mutual exclusion of the bridge, follows from the
  two.
* `BudgetLedgerProofs`: `BudgetTypes`, `NeverOversubscribed`, `SpentStaysSpent`,
  `ReservationsAreOwned`, `SavedIsImportable` and `NothingIsLeaked`, i.e. `TypeOK`,
  `WithinLimits`, `SavedUsageGrows`, `HoldersOwn`, `SavedCanBeRestored` and
  `NothingLeaks`. The first is inductive. `WithinLimits` is not: a launch puts
  back what a snapshot says, so the invariant (`Limited`) says the same of the
  exported and the saved state. `SavedUsageGrows` needs (`Growing`) that what is
  saved is at most what is exported, and that at most what is in memory: only
  a launch takes usage back, and only to `saved`. `HoldersOwn` needs (`Owned`)
  that identifiers below `next` are the only ones in use, in memory and in every
  snapshot, and that a holder's identifier names one reservation.
  `SavedCanBeRestored` needs (`Summed`) that what is reserved is the sum of the
  reservations, in memory and in every snapshot; the facts about sums are the
  lemmas about `Total`.
* `BuildClientProofs`: `TypesHold`, `JournalAgreesHolds` and `NoSecondJobHolds`. The
  invariant says that every job has an entry and an unsettled job the newest
  of its request (`JobsAreKnown`), that what entries say is true (`EntriesAreTrue`),
  and what a command carries: the journal as it still is, and until it has
  submitted the only id under which its request may be unsettled
  (`CommandsAreRight`).
* `WorkflowEngineProofs`: `TypesHold`, `RestorableHolds`, `GatesHold`,
  `JournalLeadsHolds` and `WaitsOrMovesHolds`. The mutex does not cover an operation,
  so the invariant says the same of the engine and of what every thread is still
  going to store: it is `Sound` (restorable, waiting exactly when there is an approval
  to wait for, with an attempt left where it has to go) and `Backed` by the
  journal together with the events the thread has yet to emit (`Good`).
* `ApplicationProofs`: `TypesHold`, `HistoryHolds`, `DecidedOnceHolds` and
  `WorkflowFollows`. The
  committed database and that of the open unit are both `Accounted` (the chain is
  approved and unbroken, an approved commit is in it or a conflict, not both), and the
  second `Keeps` every decision of the first, whatever was prepared from a
  stale read. `WorkflowFollowsDecision` relates the stored workflow to the stored
  decision of its checkpoint, and needs two things more: what the decision makes
  of a workflow at the end of its chain (`Progress` stops before the checkpoint,
  `WaitingAtLast`; a verdict on it is final, `VerdictsEnd`), and `FollowInv`: the
  database and the open unit tell one of three stories (`Story`: no workflow and
  no row, one that waits and a row that does, or what a verdict made of it and that
  verdict), and what a thread read before its unit is no workflow or the one that
  waits (`SeenRight`), never one that a verdict ended.
* `PolicyEngineProofs`: `TypesHold`, `AllowedHolds`, `RefusalHolds` and
  `EvictionHolds`. The invariant
  is that the state is one its own import accepts (`Whole`) and that whatever
  could allow a request, an approved record or a remembered class, has its consent
  (`Consented`). `prune_locked` is most of the work: that what it leaves fits
  (`Pruned`), and that the request a call is about is still there when
  `invalidate`, which prunes first, stores a record for it. `EvictionOrder`
  compares what a step dropped with what it kept. A step evicts several times,
  under rules that overlap, so the proof says of each operation that it is `Fair`
  (no request it drops is worth more than one it keeps, the one the call is about
  aside, and what the others are worth stays), and composes them (`FairThenFair`).
* `AgentCoordinatorProofs`: first `ToolsWaitForDependencies`, `OrderDoesNotShow` and
  `AdmissionHolds`, i.e. `DependenciesHeld`, `ResultIsSequential` and
  `LayerStaysAdmitted`. The first lemmas are about the graph: `Completed` is a
  chain of sets, and all that a task of one layer needs is complete in the layers before
  (`NeedsAreEarlier`). The invariant `IInv` says what is known of every task by its
  place (`Records`): one of an earlier layer is `Final`, one of the layer in
  work `Current` (cancelled, or in the queue, or with one worker, or answered),
  one of a later layer `Untouched`. The first two properties follow from it and
  from what a task with a worker or an error says about its layer. The
  third is nearly inductive itself: it needs that a call in the tool is booked as
  exactly one tool call (`Booked`) and that no two workers have one task
  (`Working`), so that the step that reserves a call takes one task from those ahead.
  A second invariant, `Books`, is what the run holds in common with others: who has a
  slot (`Slots`), that what is reserved is what the calls in a tool reserved, each
  under its own number (`Reserves`), and that what is charged is what answered
  (`Charged`). `RunIsOnTheLedger` is the composition: `Spec => Ledger!Spec`, every
  step of the coordinator is a tool call's step of `BudgetLedger` or leaves the
  ledger alone. With it the theorems of `BudgetLedgerProofs`, instantiated for the
  run, hold of the run (`RunKeepsTheBudget`). `ReturnedIsSettled` is the safety half of
  `EveryRunSettles`: when a run has returned and nobody is in the executor any
  more, `Settled` holds.

Every safety property of the passing runs is stated by a theorem. Only model-checked:
the four liveness properties (`CancelIsDelivered`, `EveryBuildSettles`,
`EveryCommandEnds`, `EveryRunSettles`), which depend on fairness and `ENABLED` and stay
with TLC; and that the three properties of section 5 are violated, which is shown
by TLC's counterexamples.

Induction over data has to be indirect: the library's induction theorems take an
operator as a parameter, which no installed prover can instantiate. Where a
proof needs one, it takes the least counterexample instead (`LeastNat`, from
`NatLessThanWellFounded` and `WFMin`): so for sums, for lengths and for recursive
functions. There are no facts about `SelectSeq` to cite, which is why
`PolicyEngine` takes the entries it keeps with `Picked`, by their places.

## 5 Findings

Three places where the code does not do what its documents, comments or tests
say. Each is a run whose property TLC violates.

1. `cancel_wins`: the supervisor without a backend overwrites a cancel that
   already won with `failed` (`_finish_without_result` does not look at the
   state).
2. `terminal_revived`: a thread that read the workflow before another one
   cancelled it stores its own result over the cancellation
   (`WorkflowEngine::store` does not look at what it replaces).
3. `approval_lost`: a unit of work that fails puts back the policy it exported
   before it had the database lock; a decision committed in between is gone from
   the policy engine, and from the next saved policy state, though its row is
   decided.

Observed while modelling, without a run of their own:

* A manifest that cannot be written leaves a finished build in `_active`; the
  bridge is busy with nothing until it restarts (`SlotAgrees` needs
  `MaxWriteFaults = 0`).
* After a lost write two builds can be indeterminate, and reconciling the one
  `_blocked` names admits work while the other is still unknown
  (`AdmissionIsExclusive`, likewise).
* A start whose health request fails leaves its child alive; the next iteration
  spawns another.
* Two threads that start a workflow under one id both find none, and the later
  store begins it anew over whatever was stored since (`workflow.rs:1332`, `1368`).
* An approval whose digests were found stale stays on the workflow as
  `invalidated`: nobody can give it any more, and only a cancel leads on.
* Two client processes over one journal file lose each other's entries, and an
  entry older than the newest 200 is dropped while its build is unfinished; in
  both cases the same request can be submitted under a second id. `NoSecondJob`
  is about one process and a journal with room.
* `invalidate` of the policy engine tracks its request without pruning, so the
  limit can be exceeded until the next operation that prunes; nothing in the
  repository calls it. With the limit full of pending requests, a decision about
  an untracked one is forgotten at once and answers `pending`.
* A rejected class request is answered `allowed` when another request's approval
  of the same class is remembered; its record stays rejected.
* A remembered tool class outlives the record it came from when the limit evicts
  that record: `discard_request_locked` does not look at the classes, and later
  requests of the class stay allowed. `AllowedIsApproved` counts the approval as
  standing until an actor or changed digests take it back.
* One task's error makes a run an error after the tools of its siblings ran and
  were charged; what they answered is dropped. A long enough message of a tool
  that failed is such an error.
* `budget_denied` of a run also names a task whose tool did run, when the budget
  had not room for what it used; that call is not charged.
* What calls commit to the budget after the last unit of work is lost in a crash;
  `SavedUsageGrows` says what does survive.

## 6 What is not modelled

Of the bridge: HTTP parsing and authentication, calibration and probing, and
the COM session (readiness and the child's messages are free choices). Of the
client: downloads, entries of older versions, an unreadable journal; the Rust
client follows the same rules and is not mapped. Of the gateway:
everything but its use of the budget; of the executor: isolation, the wire protocol
and provenance; of the coordinator: planners, the step catalog and the contents of
results. Of the policy engine: the clock and
scopes. Of the application: listings, evaluations, provenance and views, and the
event journal's hash chain (an appended event is part of the transaction). Of the
rest: the geometry worker's supervisor, process
supervision, memory manager, artifact store and Studio journal (section 7 has
what is worth modelling next), and
everything that is sequential code over strings, JSON and floating-point
geometry, where a state machine has nothing to say: contracts, canonical JSON,
domains, STEP, geometry, design intent, the Studio's chat and providers, CAD
providers, API, command line and user interface. These are most of the
repository's lines. The Python core is the program the crates were ported from.

## 7 Plan

Done: the models of `JobManager`, `BuildSlot`, `BudgetLedger`, `BuildClient`,
`Workflow`, `WorkflowEngine`, `PolicyEngine`, `Application` and `AgentCoordinator`, and
the proofs of section 4. Models still worth writing: `EventJournal` (the digest chain
and savepoints) and `GeometryWorker` (the restart loop, its back-off and shutdown).
