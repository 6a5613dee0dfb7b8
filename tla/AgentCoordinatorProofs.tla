------------------------ MODULE AgentCoordinatorProofs ------------------------
(***************************************************************************)
(* Proofs about AgentCoordinator, for any task graph, any threads, pool of  *)
(* slots, budget and amounts: a tool runs for a task only when all it needs *)
(* has succeeded, the order in which threads finish does not show in the    *)
(* result, an admitted layer loses tool calls to others only, and the       *)
(* ledger a run shares is a BudgetLedger, settled when the run returned.    *)
(***************************************************************************)
EXTENDS AgentCoordinator, FiniteSetTheorems, WellFoundedInduction, TLAPS

-------------------------------------------------------------------------------
(* The graph.                                                                *)

\* A set of natural numbers that is not empty has a least one.
LEMMA LeastNat ==
  ASSUME NEW T \in SUBSET Nat, T # {}
  PROVE  \E m \in T : \A k \in T : m <= k
<1>1. \E m \in T : \A k \in T : ~ (<<k, m>> \in OpToRel(<, Nat))
  BY NatLessThanWellFounded, WFMin
<1>2. PICK m \in T : \A k \in T : ~ (<<k, m>> \in OpToRel(<, Nat))
  BY <1>1
<1>3. ASSUME NEW k \in T
      PROVE  m <= k
  <2>1. m \in Nat /\ k \in Nat
    OBVIOUS
  <2>2. k < m => <<k, m>> \in OpToRel(<, Nat)
    BY <2>1 DEF OpToRel
  <2>3. ~ (k < m)
    BY <1>2, <2>2
  <2> QED
    BY <2>1, <2>3
<1> QED
  BY <1>2, <1>3

\* A step on sets of tasks can be taken any number of times, from any set.
Iterates(f, base, step, n) ==
  /\ f \in [0 .. n -> SUBSET Tasks]
  /\ f[0] = base
  /\ \A k \in 1 .. n : f[k] = step[f[k - 1]]

LEMMA IteratesExist ==
  ASSUME NEW base \in SUBSET Tasks, NEW step \in [SUBSET Tasks -> SUBSET Tasks], NEW n \in Nat
  PROVE  \E f : Iterates(f, base, step, n)
<1>1. \E f : Iterates(f, base, step, 0)
  <2> DEFINE f == [k \in 0 .. 0 |-> base]
  <2>1. Iterates(f, base, step, 0)
    BY DEF Iterates
  <2> QED
    BY <2>1
<1>2. ASSUME NEW m \in Nat, NEW f, Iterates(f, base, step, m)
      PROVE  \E g : Iterates(g, base, step, m + 1)
  <2> DEFINE g == [k \in 0 .. m + 1 |-> IF k = m + 1 THEN step[f[m]] ELSE f[k]]
  <2>1. f[m] \in SUBSET Tasks
    BY <1>2 DEF Iterates
  <2>2. g \in [0 .. m + 1 -> SUBSET Tasks] /\ g[0] = base
    BY <1>2, <2>1 DEF Iterates
  <2>3. ASSUME NEW k \in 1 .. m + 1
        PROVE  g[k] = step[g[k - 1]]
    <3>1. k - 1 \in 0 .. m /\ g[k - 1] = f[k - 1]
      OBVIOUS
    <3>2. CASE k = m + 1
      BY <3>1, <3>2
    <3>3. CASE k # m + 1
      <4>1. k \in 1 .. m /\ g[k] = f[k]
        BY <3>3
      <4> QED
        BY <1>2, <3>1, <4>1 DEF Iterates
    <3> QED
      BY <3>2, <3>3
  <2> HIDE DEF g
  <2> QED
    BY <2>2, <2>3 DEF Iterates
<1> DEFINE T == {m \in Nat : ~ \E f : Iterates(f, base, step, m)}
<1> SUFFICES ASSUME T # {}
             PROVE  FALSE
  OBVIOUS
<1>3. PICK m \in T : \A k \in T : m <= k
  BY LeastNat
<1>4. m # 0
  BY <1>1
<1>5. m - 1 \in Nat /\ m - 1 \notin T
  BY <1>3, <1>4
<1>6. \E g : Iterates(g, base, step, (m - 1) + 1)
  BY <1>2, <1>5
<1>7. (m - 1) + 1 = m
  OBVIOUS
<1> QED
  BY <1>6, <1>7

Graph == dependsOn \in [Tasks -> SUBSET Tasks]

\* What can be complete after k layers: dependency_layers.
LayerOf(f, g, k) == IF k = 0 THEN {} ELSE {t \in Tasks : g[t] \subseteq f[k - 1]}
Layering(g) == CHOOSE f : f = [k \in 0 .. LastTask |-> LayerOf(f, g, k)]

LEMMA CompletedIsLayering == Completed = Layering(dependsOn)
BY DEF Completed, Layering, LayerOf

LEMMA SameGraph ==
  ASSUME dependsOn' = dependsOn
  PROVE  Completed' = Completed
<1>1. Completed' = Layering(dependsOn')
  BY DEF Completed, Layering, LayerOf
<1> QED
  BY <1>1, CompletedIsLayering

LEMMA CompletedLayers ==
  ASSUME Graph
  PROVE  /\ Completed \in [0 .. LastTask -> SUBSET Tasks]
         /\ Completed[0] = {}
         /\ \A k \in 1 .. LastTask : Completed[k] = {t \in Tasks : dependsOn[t] \subseteq Completed[k - 1]}
<1> DEFINE step == [X \in SUBSET Tasks |-> {t \in Tasks : dependsOn[t] \subseteq X}]
<1>1. LastTask \in Nat
  BY TasksAssumption
<1>2. step \in [SUBSET Tasks -> SUBSET Tasks]
  OBVIOUS
<1>3. PICK f : Iterates(f, {}, step, LastTask)
  BY <1>1, <1>2, IteratesExist
<1>4. ASSUME NEW k \in 0 .. LastTask
      PROVE  f[k] = LayerOf(f, dependsOn, k)
  <2>1. CASE k = 0
    BY <1>3, <2>1 DEF Iterates, LayerOf
  <2>2. CASE k # 0
    <3>1. k \in 1 .. LastTask /\ k - 1 \in 0 .. LastTask
      BY <1>1, <2>2
    <3>2. f[k] = step[f[k - 1]] /\ f[k - 1] \in SUBSET Tasks
      BY <1>3, <3>1 DEF Iterates
    <3> QED
      BY <2>2, <3>2 DEF LayerOf
  <2> QED
    BY <2>1, <2>2
<1>5. f = [k \in 0 .. LastTask |-> LayerOf(f, dependsOn, k)]
  BY <1>3, <1>4 DEF Iterates
<1> DEFINE c == Layering(dependsOn)
<1>6. c = [k \in 0 .. LastTask |-> LayerOf(c, dependsOn, k)]
  BY <1>5 DEF Layering
<1> HIDE DEF c, step
<1>7. \A k \in 0 .. LastTask : c[k] = LayerOf(c, dependsOn, k)
  BY <1>6
<1>8. c[0] = {}
  <2>1. 0 \in 0 .. LastTask
    BY <1>1
  <2>2. c[0] = LayerOf(c, dependsOn, 0)
    BY <1>7, <2>1
  <2> QED
    BY <2>2 DEF LayerOf
<1>9. \A k \in 1 .. LastTask : c[k] = {t \in Tasks : dependsOn[t] \subseteq c[k - 1]}
  <2> TAKE k \in 1 .. LastTask
  <2>1. k \in 0 .. LastTask /\ k # 0
    BY <1>1
  <2> QED
    BY <1>7, <2>1 DEF LayerOf
<1>10. \A k \in 0 .. LastTask : c[k] \in SUBSET Tasks
  <2> TAKE k \in 0 .. LastTask
  <2> QED
    BY <1>1, <1>8, <1>9
<1>11. c \in [0 .. LastTask -> SUBSET Tasks]
  <2>1. c = [k \in 0 .. LastTask |-> c[k]]
    BY <1>6
  <2> QED
    BY <1>10, <2>1
<1> QED
  BY <1>8, <1>9, <1>11, CompletedIsLayering DEF c

\* Layers only add tasks.
LEMMA LayersGrow ==
  ASSUME Graph, NEW k \in 1 .. LastTask
  PROVE  Completed[k - 1] \subseteq Completed[k]
<1>1. LastTask \in Nat
  BY TasksAssumption
<1> DEFINE T == {n \in 1 .. LastTask : ~ (Completed[n - 1] \subseteq Completed[n])}
<1> SUFFICES ASSUME T # {}
             PROVE  FALSE
  OBVIOUS
<1>2. T \in SUBSET Nat
  BY <1>1
<1>3. PICK n \in T : \A m \in T : n <= m
  BY <1>2, LeastNat
<1>4. n # 1
  BY CompletedLayers
<1>5. n - 1 \in 1 .. LastTask /\ n - 1 \notin T /\ (n - 1) - 1 \in 0 .. LastTask
  BY <1>1, <1>3, <1>4
<1>6. Completed[(n - 1) - 1] \subseteq Completed[n - 1]
  BY <1>5
<1>7. /\ Completed[n - 1] = {t \in Tasks : dependsOn[t] \subseteq Completed[(n - 1) - 1]}
      /\ Completed[n] = {t \in Tasks : dependsOn[t] \subseteq Completed[n - 1]}
  BY <1>5, CompletedLayers
<1> QED
  BY <1>6, <1>7

\* A set of tasks that has what its tasks depend on, and what t depends on, has all
\* that t needs.
NeedsAt(f, g, t, k) ==
  IF k = 0 THEN g[t] ELSE f[k - 1] \union UNION {g[d] : d \in f[k - 1]}

LEMMA NeedsWithin ==
  ASSUME Graph, NEW t \in Tasks, NEW X \in SUBSET Tasks,
         dependsOn[t] \subseteq X, \A d \in X : dependsOn[d] \subseteq X
  PROVE  Needs(t) \subseteq X
<1> DEFINE step == [Y \in SUBSET Tasks |-> Y \union UNION {dependsOn[d] : d \in Y}]
<1>1. LastTask \in Nat
  BY TasksAssumption
<1>2. step \in [SUBSET Tasks -> SUBSET Tasks]
  BY DEF Graph
<1>3. PICK f : Iterates(f, dependsOn[t], step, LastTask)
  BY <1>1, <1>2, IteratesExist DEF Graph
<1>4. ASSUME NEW k \in 0 .. LastTask
      PROVE  f[k] = NeedsAt(f, dependsOn, t, k)
  <2>1. CASE k = 0
    BY <1>3, <2>1 DEF Iterates, NeedsAt
  <2>2. CASE k # 0
    <3>1. k \in 1 .. LastTask /\ k - 1 \in 0 .. LastTask
      BY <1>1, <2>2
    <3>2. f[k] = step[f[k - 1]] /\ f[k - 1] \in SUBSET Tasks
      BY <1>3, <3>1 DEF Iterates
    <3> QED
      BY <2>2, <3>2 DEF NeedsAt
  <2> QED
    BY <2>1, <2>2
<1>5. f = [k \in 0 .. LastTask |-> NeedsAt(f, dependsOn, t, k)]
  BY <1>3, <1>4 DEF Iterates
<1> DEFINE c == CHOOSE h : h = [k \in 0 .. LastTask |-> NeedsAt(h, dependsOn, t, k)]
<1>6. c = [k \in 0 .. LastTask |-> NeedsAt(c, dependsOn, t, k)]
  BY <1>5
<1>7. Needs(t) = c[LastTask]
  BY DEF Needs, NeedsAt
<1> HIDE DEF c, step
<1>8. \A k \in 0 .. LastTask : c[k] = NeedsAt(c, dependsOn, t, k)
  BY <1>6
<1> DEFINE T == {k \in 0 .. LastTask : ~ (c[k] \subseteq X)}
<1> SUFFICES ASSUME T # {}
             PROVE  FALSE
  BY <1>1, <1>7
<1>9. T \in SUBSET Nat
  BY <1>1
<1>10. PICK k \in T : \A m \in T : k <= m
  BY <1>9, LeastNat
<1>11. k # 0
  BY <1>8 DEF NeedsAt
<1>12. k - 1 \in 0 .. LastTask /\ k - 1 \notin T
  BY <1>1, <1>10, <1>11
<1>13. c[k - 1] \subseteq X
  BY <1>12
<1>14. c[k] = c[k - 1] \union UNION {dependsOn[d] : d \in c[k - 1]}
  BY <1>8, <1>11 DEF NeedsAt
<1> QED
  BY <1>13, <1>14

\* What a task of one layer needs is complete in the layers before.
LEMMA NeedsAreEarlier ==
  ASSUME Graph, NEW k \in 1 .. LastTask, NEW t \in Completed[k]
  PROVE  Needs(t) \subseteq Completed[k - 1]
<1>1. LastTask \in Nat /\ k - 1 \in 0 .. LastTask
  BY TasksAssumption
<1>2. Completed[k - 1] \in SUBSET Tasks /\ t \in Tasks /\ dependsOn[t] \subseteq Completed[k - 1]
  BY <1>1, CompletedLayers
<1>3. ASSUME NEW d \in Completed[k - 1]
      PROVE  dependsOn[d] \subseteq Completed[k - 1]
  <2>1. k # 1
    BY CompletedLayers
  <2>2. k - 1 \in 1 .. LastTask
    BY <1>1, <2>1
  <2>3. dependsOn[d] \subseteq Completed[(k - 1) - 1]
    BY <2>2, CompletedLayers
  <2>4. Completed[(k - 1) - 1] \subseteq Completed[k - 1]
    BY <2>2, LayersGrow
  <2> QED
    BY <2>3, <2>4
<1> QED
  BY <1>2, <1>3, NeedsWithin

-------------------------------------------------------------------------------
(* The inductive invariant.                                                  *)

Phase == {"planned", "refused", "layers", "dispatching", "done", "failed"}
Stages == {"idle", "called", "slot", "running", "ended"}

RunType ==
  /\ Graph
  /\ phase \in Phase /\ layer \in 1 .. LastTask + 1
  /\ queue \subseteq Tasks /\ error \in Tasks \union {Nil}
  /\ outcomes \in [Tasks -> Endings \union {"cancelled", Nil}]

ThreadType ==
  /\ answers \in [Tasks -> Endings \union {Nil}]
  /\ task \in [Workers -> Tasks \union {Nil}]
  /\ stage \in [Threads -> Stages]
  /\ verdict \in [Threads -> Endings \union {Nil}]

LedgerType ==
  /\ usage \in Ledger!Usage /\ reserved \in Ledger!Usage
  /\ hold \in [Threads -> Ledger!Reservation \union {Nil}]
  /\ sinceCheck \in Nat

Typed == RunType /\ ThreadType /\ LedgerType

\* The run is at a layer it has dispatched, or stopped there.
AtLayer == phase = "dispatching" \/ error # Nil

Phases ==
  /\ phase \notin {"planned", "refused"} => Ordered
  /\ phase \in {"planned", "refused"} => layer = 1
  /\ AtLayer => layer <= LastTask
  /\ error # Nil => phase = "failed"
  /\ phase = "done" => Completed[layer - 1] = Tasks
  /\ phase # "dispatching" => queue = {} /\ \A w \in Workers : task[w] = Nil

\* A task in work is with one worker, or still in the queue.
InWork(t) == t \in queue \/ \E w \in Workers : task[w] = t

Working ==
  /\ \A w \in Workers : stage[w] = "idle" <=> task[w] = Nil
  /\ \A w \in Workers : task[w] # Nil =>
       task[w] \notin queue /\ \A v \in Workers \ {w} : task[v] # task[w]
  /\ \A c \in Threads : stage[c] = "ended" => verdict[c] # Nil

\* What the run and its threads know of a task before its layer, at it and after it.
Untouched(t) == outcomes[t] = Nil /\ answers[t] = Nil /\ ~ InWork(t)

Current(t) ==
  /\ Blocked(t) => outcomes[t] = "cancelled" /\ answers[t] = Nil /\ ~ InWork(t)
  /\ ~ Blocked(t) => outcomes[t] = Nil /\ (answers[t] = Nil <=> InWork(t))

Final(t) ==
  /\ answers[t] \notin {"error", "overlong"} /\ ~ InWork(t)
  /\ Blocked(t) => outcomes[t] = "cancelled" /\ answers[t] = Nil
  /\ ~ Blocked(t) => outcomes[t] = IF answers[t] = Nil THEN "budget" ELSE answers[t]

Records ==
  \A t \in Tasks :
    /\ t \in Completed[layer - 1] => Final(t)
    /\ AtLayer /\ t \in Layer => Current(t)
    /\ t \notin Completed[IF AtLayer THEN layer ELSE layer - 1] => Untouched(t)

ErrorIsFirst == error # Nil => error \in Failures /\ \A t \in Failures : error <= t

\* A tool that runs is booked as one call.
Booked ==
  \A c \in Threads : stage[c] = "running" =>
    hold[c] \in Ledger!Reservation /\ hold[c].usage = Estimate

IInv == Typed /\ Phases /\ Working /\ Records /\ ErrorIsFirst /\ Booked /\ LayerStaysAdmitted

-------------------------------------------------------------------------------
(* What it says of the properties.                                           *)

\* The layers a run is at, or has been through.
LEMMA LayerFacts ==
  ASSUME RunType, Phases
  PROVE  /\ LastTask \in Nat /\ layer - 1 \in 0 .. LastTask
         /\ Completed[layer - 1] \in SUBSET Tasks
         /\ AtLayer => /\ layer \in 1 .. LastTask
                       /\ Completed[layer] = {t \in Tasks : dependsOn[t] \subseteq Completed[layer - 1]}
                       /\ Completed[layer - 1] \subseteq Completed[layer]
                       /\ Layer \in SUBSET Tasks
<1>1. LastTask \in Nat
  BY TasksAssumption
<1>2. layer - 1 \in 0 .. LastTask
  BY <1>1 DEF RunType
<1>3. ASSUME AtLayer
      PROVE  layer \in 1 .. LastTask
  BY <1>1, <1>3 DEF RunType, Phases
<1>4. Completed[layer - 1] \in SUBSET Tasks
  BY <1>2, CompletedLayers DEF RunType
<1>5. ASSUME AtLayer
      PROVE  /\ Completed[layer] = {t \in Tasks : dependsOn[t] \subseteq Completed[layer - 1]}
             /\ Completed[layer - 1] \subseteq Completed[layer]
  BY <1>3, <1>5, CompletedLayers, LayersGrow DEF RunType
<1> QED
  BY <1>1, <1>2, <1>3, <1>4, <1>5 DEF Layer

\* What succeeded, and what is being worked on, has all it needs.
LEMMA SucceededHasNeeds ==
  ASSUME RunType, Phases, Records, NEW t \in Tasks,
         \A d \in dependsOn[t] : outcomes[d] = "succeeded"
  PROVE  \A d \in Needs(t) : outcomes[d] = "succeeded"
<1> DEFINE X == {d \in Tasks : outcomes[d] = "succeeded"}
<1>1. "succeeded" # Nil
  BY NilAssumption DEF Endings
<1>2. ASSUME NEW d \in X
      PROVE  ~ Blocked(d)
  <2>1. ~ Untouched(d)
    BY <1>1 DEF Untouched
  <2>2. CASE d \in Completed[layer - 1]
    BY <2>2 DEF Records, Final
  <2>3. CASE AtLayer /\ d \in Layer
    BY <2>3 DEF Records, Current
  <2>4. CASE d \notin Completed[IF AtLayer THEN layer ELSE layer - 1]
    BY <2>1, <2>4 DEF Records
  <2> QED
    BY <2>2, <2>3, <2>4 DEF Layer
<1>3. ASSUME NEW d \in X
      PROVE  dependsOn[d] \subseteq X
  BY <1>2 DEF Blocked, Succeeded, RunType, Graph
<1>4. dependsOn[t] \subseteq X
  BY DEF RunType, Graph
<1>5. Needs(t) \subseteq X
  BY <1>3, <1>4, NeedsWithin DEF RunType
<1> QED
  BY <1>5

\* What needs a task of the layer was not touched.
LEMMA DependentsUntouched ==
  ASSUME RunType, Phases, Records, AtLayer, NEW t \in Layer, NEW s \in Tasks, t \in Needs(s)
  PROVE  Untouched(s)
<1>1. s \notin Completed[layer]
  <2>1. SUFFICES ASSUME s \in Completed[layer]
                 PROVE  FALSE
    OBVIOUS
  <2>2. Needs(s) \subseteq Completed[layer - 1]
    BY <2>1, LayerFacts, NeedsAreEarlier DEF RunType
  <2> QED
    BY <2>2 DEF Layer
<1> QED
  BY <1>1 DEF Records

LEMMA DependenciesFollow == IInv => DependenciesHeld
<1> SUFFICES ASSUME IInv, NEW w \in Workers, stage[w] \in {"slot", "running", "ended"}
             PROVE  /\ \A d \in Needs(task[w]) : outcomes[d] = "succeeded"
                    /\ \A t \in Tasks : task[w] \in Needs(t) => outcomes[t] = Nil /\ answers[t] = Nil
                    /\ \A v \in Workers \ {w} : task[v] # task[w]
  BY DEF DependenciesHeld
<1> USE DEF IInv, Typed
<1>1. task[w] # Nil /\ task[w] \in Tasks
  BY DEF Working, ThreadType
<1>2. AtLayer
  BY <1>1 DEF Phases, AtLayer
<1>3. InWork(task[w])
  BY DEF InWork
<1>4. task[w] \in Layer /\ ~ Blocked(task[w])
  <2>1. ~ Final(task[w]) /\ ~ Untouched(task[w])
    BY <1>3 DEF Final, Untouched
  <2>2. task[w] \in Layer
    BY <1>1, <1>2, <2>1 DEF Records, Layer
  <2> QED
    BY <1>1, <1>2, <1>3, <2>2 DEF Records, Current
<1>5. \A d \in Needs(task[w]) : outcomes[d] = "succeeded"
  BY <1>1, <1>4, SucceededHasNeeds DEF Blocked, Succeeded
<1>6. \A t \in Tasks : task[w] \in Needs(t) => outcomes[t] = Nil /\ answers[t] = Nil
  BY <1>2, <1>4, DependentsUntouched DEF Untouched
<1>7. \A v \in Workers \ {w} : task[v] # task[w]
  BY <1>1 DEF Working
<1> QED
  BY <1>5, <1>6, <1>7

LEMMA ResultFollows == IInv => ResultIsSequential
<1> SUFFICES ASSUME IInv
             PROVE  ResultIsSequential
  OBVIOUS
<1> USE DEF IInv, Typed
<1>1. ASSUME phase = "done", NEW t \in Tasks
      PROVE  IF \A d \in dependsOn[t] : outcomes[d] = "succeeded"
             THEN outcomes[t] = IF answers[t] = Nil THEN "budget" ELSE answers[t]
             ELSE outcomes[t] = "cancelled" /\ answers[t] = Nil
  <2>1. Final(t)
    BY <1>1 DEF Phases, Records
  <2> QED
    BY <2>1 DEF Final, Blocked, Succeeded
<1>2. ASSUME error # Nil
      PROVE  /\ answers[error] \in {"error", "overlong"}
             /\ \A d \in Needs(error) : outcomes[d] = "succeeded"
             /\ \A t \in Tasks : answers[t] \in {"error", "overlong"} => error <= t
             /\ \A t \in Tasks : error \in Needs(t) => answers[t] = Nil
  <2>1. AtLayer /\ error \in Tasks
    BY <1>2 DEF AtLayer, RunType
  <2>2. error \in Layer /\ answers[error] \in {"error", "overlong"}
    BY <1>2 DEF ErrorIsFirst, Failures
  <2>3. "error" # Nil /\ "overlong" # Nil
    BY NilAssumption DEF Endings
  <2>4. ~ Blocked(error)
    BY <2>1, <2>2, <2>3 DEF Records, Current
  <2>5. \A d \in Needs(error) : outcomes[d] = "succeeded"
    BY <2>1, <2>4, SucceededHasNeeds DEF Blocked, Succeeded
  <2>6. ASSUME NEW t \in Tasks, answers[t] \in {"error", "overlong"}
        PROVE  error <= t
    <3>1. ~ Final(t) /\ ~ Untouched(t)
      BY <2>3, <2>6 DEF Final, Untouched
    <3>2. t \in Layer
      BY <2>1, <3>1 DEF Records, Layer
    <3> QED
      BY <1>2, <2>6, <3>2 DEF ErrorIsFirst, Failures
  <2>7. \A t \in Tasks : error \in Needs(t) => answers[t] = Nil
    BY <2>1, <2>2, DependentsUntouched DEF Untouched
  <2> QED
    BY <2>2, <2>5, <2>6, <2>7
<1> QED
  BY <1>1, <1>2 DEF ResultIsSequential

-------------------------------------------------------------------------------
(* The thread that runs the graph.                                           *)

RunInv == RunType /\ Phases /\ Records /\ ErrorIsFirst

USE DEF run, threads

LEMMA RunKept ==
  ASSUME RunInv, UNCHANGED <<run, task, answers>>
  PROVE  RunInv'
<1>1. Completed' = Completed
  BY SameGraph
<1>2. RunType' /\ Phases'
  BY <1>1 DEF RunInv, RunType, Graph, Phases, AtLayer, Ordered
<1>3. \A t \in Tasks :
        /\ Untouched(t)' <=> Untouched(t)
        /\ Current(t)' <=> Current(t)
        /\ Final(t)' <=> Final(t)
  BY DEF Untouched, Current, Final, InWork, Blocked, Succeeded
<1>4. Layer' = Layer /\ (AtLayer' <=> AtLayer) /\ Failures' = Failures
  BY <1>1 DEF Layer, AtLayer, Failures
<1>5. Records'
  BY <1>1, <1>3, <1>4 DEF RunInv, Records
<1>6. ErrorIsFirst'
  BY <1>4 DEF RunInv, ErrorIsFirst
<1> QED
  BY <1>2, <1>5, <1>6 DEF RunInv

\* Whether a task is blocked was settled in the layers before its own.
LEMMA SameBlocked ==
  ASSUME Graph, layer \in 1 .. LastTask, NEW t \in Completed[layer], dependsOn' = dependsOn,
         \A d \in Completed[layer - 1] : outcomes'[d] = outcomes[d]
  PROVE  Blocked(t)' <=> Blocked(t)
<1>1. dependsOn[t] \subseteq Completed[layer - 1]
  BY CompletedLayers
<1> QED
  BY <1>1 DEF Blocked, Succeeded

\* Between two layers nothing is in work, and the next layer is there.
LEMMA BetweenLayers ==
  ASSUME RunInv, phase = "layers"
  PROVE  /\ error = Nil /\ ~ AtLayer /\ \A t \in Tasks : ~ InWork(t)
         /\ queue = {} /\ \A w \in Workers : task[w] = Nil
         /\ \A t \in Tasks : (t \in Completed[layer - 1] => Final(t))
         /\ \A t \in Tasks : (t \notin Completed[layer - 1] => Untouched(t))
         /\ InLayers =>
              /\ layer \in 1 .. LastTask /\ layer + 1 \in 1 .. LastTask + 1
              /\ Completed[layer - 1] \subseteq Completed[layer]
              /\ Completed[layer] \in SUBSET Tasks
<1> USE DEF RunInv
<1>1. error = Nil /\ ~ AtLayer
  BY DEF Phases, AtLayer
<1>2. queue = {} /\ \A w \in Workers : task[w] = Nil
  BY DEF Phases
<1>3. \A t \in Tasks : ~ InWork(t)
  BY <1>2, NilAssumption DEF InWork
<1>4. /\ \A t \in Tasks : (t \in Completed[layer - 1] => Final(t))
      /\ \A t \in Tasks : (t \notin Completed[layer - 1] => Untouched(t))
  BY <1>1 DEF Records
<1>5. ASSUME InLayers
      PROVE  layer \in 1 .. LastTask
  <2>1. layer - 1 # LastTask
    BY <1>5 DEF InLayers, Phases, Ordered
  <2> QED
    BY <2>1, LayerFacts DEF RunType
<1>6. ASSUME InLayers
      PROVE  /\ Completed[layer - 1] \subseteq Completed[layer]
             /\ Completed[layer] \in SUBSET Tasks
  <2>1. layer \in 0 .. LastTask
    BY <1>5, <1>6, LayerFacts
  <2> QED
    BY <1>5, <1>6, <2>1, LayersGrow, CompletedLayers DEF RunType
<1>7. InLayers => layer + 1 \in 1 .. LastTask + 1
  BY <1>5, LayerFacts
<1> QED
  BY <1>1, <1>2, <1>3, <1>4, <1>5, <1>6, <1>7

LEMMA AdmitStep ==
  ASSUME RunInv, Admit
  PROVE  RunInv'
<1> USE DEF RunInv
<1> DEFINE ready == {t \in Layer : ~ Blocked(t)}
<1>1. /\ InLayers /\ phase = "layers" /\ phase' = "dispatching" /\ queue' = ready
      /\ outcomes' = [t \in Tasks |-> IF t \in Layer \ ready THEN "cancelled" ELSE outcomes[t]]
      /\ UNCHANGED <<dependsOn, layer, error, task, answers>>
  BY DEF Admit, InLayers, RunFrame
<1>2. Completed' = Completed /\ Layer' = Layer
  BY <1>1, SameGraph DEF Layer
<1>3. /\ error = Nil /\ layer \in 1 .. LastTask /\ \A t \in Tasks : ~ InWork(t)
      /\ \A w \in Workers : task[w] = Nil
      /\ Completed[layer - 1] \subseteq Completed[layer] /\ Completed[layer] \in SUBSET Tasks
      /\ \A t \in Tasks : (t \in Completed[layer - 1] => Final(t))
      /\ \A t \in Tasks : (t \notin Completed[layer - 1] => Untouched(t))
  BY <1>1, BetweenLayers
<1>4. AtLayer' /\ error' = Nil
  BY <1>1, <1>3 DEF AtLayer
<1>5. RunType'
  <2>1. ready \subseteq Tasks
    BY <1>3 DEF Layer
  <2>2. outcomes' \in [Tasks -> Endings \union {"cancelled", Nil}]
    BY <1>1 DEF RunType
  <2> QED
    BY <1>1, <2>1, <2>2 DEF RunType, Graph, Phase
<1>6. Phases'
  BY <1>1, <1>2, <1>3, <1>4, LayerFacts DEF Phases, Ordered
<1>7. \A t \in Completed[layer] : Blocked(t)' <=> Blocked(t)
  <2>1. \A d \in Completed[layer - 1] : outcomes'[d] = outcomes[d]
    BY <1>1, <1>3 DEF Layer
  <2> QED
    BY <1>1, <1>3, <2>1, SameBlocked DEF RunType
<1>8. \A t \in Tasks : InWork(t)' <=> t \in ready
  BY <1>1, <1>3, NilAssumption DEF InWork
<1> HIDE DEF ready
<1>9. ASSUME NEW t \in Tasks, t \in Completed[layer - 1]
      PROVE  Final(t)'
  <2>1. t \notin ready /\ outcomes'[t] = outcomes[t] /\ answers'[t] = answers[t]
    BY <1>1, <1>9 DEF Layer, ready
  <2> QED
    BY <1>3, <1>7, <1>8, <1>9, <2>1 DEF Final
<1>10. ASSUME NEW t \in Tasks, t \in Layer
       PROVE  Current(t)'
  <2>1. Untouched(t) /\ (Blocked(t)' <=> Blocked(t)) /\ (t \in ready <=> ~ Blocked(t))
    BY <1>3, <1>7, <1>10 DEF Layer, ready
  <2>2. outcomes'[t] = (IF Blocked(t) THEN "cancelled" ELSE outcomes[t]) /\ answers'[t] = answers[t]
    BY <1>1, <1>10, <2>1
  <2> QED
    BY <1>8, <2>1, <2>2 DEF Current, Untouched
<1>11. ASSUME NEW t \in Tasks, t \notin Completed[layer]
       PROVE  Untouched(t)'
  <2>1. t \notin ready /\ outcomes'[t] = outcomes[t] /\ answers'[t] = answers[t] /\ Untouched(t)
    BY <1>1, <1>3, <1>11 DEF Layer, ready
  <2> QED
    BY <1>8, <2>1 DEF Untouched
<1>12. Records'
  BY <1>1, <1>2, <1>4, <1>9, <1>10, <1>11 DEF Records
<1> QED
  BY <1>4, <1>5, <1>6, <1>12 DEF ErrorIsFirst

\* A layer that is over: its tasks are final, and the next one is not begun.
LEMMA LayerIsOver ==
  ASSUME RunInv, layer \in 1 .. LastTask, error = Nil,
         phase' = "layers", layer' = layer + 1, queue' = {},
         UNCHANGED <<dependsOn, error, task, answers>>,
         outcomes' \in [Tasks -> Endings \union {"cancelled", Nil}],
         phase \notin {"planned", "refused"},
         \A w \in Workers : task[w] = Nil,
         \A t \in Tasks \ Layer : outcomes'[t] = outcomes[t],
         \A t \in Layer :
            /\ answers[t] \notin {"error", "overlong"}
            /\ Blocked(t) => outcomes'[t] = "cancelled" /\ answers[t] = Nil
            /\ ~ Blocked(t) => outcomes'[t] = IF answers[t] = Nil THEN "budget" ELSE answers[t]
  PROVE  RunInv'
<1> USE DEF RunInv
<1>1. Completed' = Completed /\ layer' - 1 = layer /\ LastTask \in Nat
  BY SameGraph, TasksAssumption
<1>2. ~ AtLayer' /\ error' = Nil
  BY DEF AtLayer
<1>3. RunType' /\ Phases'
  BY <1>1, <1>2 DEF RunType, Graph, Phase, Phases, Ordered
<1>4. Completed[layer - 1] \subseteq Completed[layer] /\ Completed[layer] \in SUBSET Tasks
  <2>1. layer \in 0 .. LastTask
    BY <1>1
  <2> QED
    BY <2>1, LayersGrow, CompletedLayers DEF RunType
<1>5. \A t \in Completed[layer] : Blocked(t)' <=> Blocked(t)
  <2>1. \A d \in Completed[layer - 1] : outcomes'[d] = outcomes[d]
    BY <1>4 DEF Layer
  <2> QED
    BY <2>1, SameBlocked DEF RunType
<1>6. \A t \in Tasks : ~ InWork(t)'
  BY NilAssumption DEF InWork
<1>7. ASSUME NEW t \in Completed[layer]
      PROVE  Final(t)'
  <2>1. CASE t \in Completed[layer - 1]
    <3>1. Final(t) /\ outcomes'[t] = outcomes[t]
      BY <1>4, <2>1 DEF Records, Layer
    <3> QED
      BY <1>4, <1>5, <1>6, <3>1 DEF Final
  <2>2. CASE t \notin Completed[layer - 1]
    <3>1. t \in Layer
      BY <2>2 DEF Layer
    <3> QED
      BY <1>4, <1>5, <1>6, <3>1 DEF Final
  <2> QED
    BY <2>1, <2>2
<1>8. ASSUME NEW t \in Tasks, t \notin Completed[layer]
      PROVE  Untouched(t)'
  <2>1. outcomes'[t] = outcomes[t]
    BY <1>8 DEF Layer
  <2>2. Untouched(t)
    BY <1>4, <1>8 DEF Records
  <2> QED
    BY <1>6, <2>1, <2>2 DEF Untouched
<1>9. Records'
  BY <1>1, <1>2, <1>7, <1>8 DEF Records
<1> QED
  BY <1>2, <1>3, <1>9 DEF ErrorIsFirst

LEMMA DenyStep ==
  ASSUME RunInv, Deny
  PROVE  RunInv'
<1> DEFINE ready == {t \in Layer : ~ Blocked(t)}
<1>1. /\ InLayers /\ phase = "layers"
      /\ outcomes' = [t \in Tasks |-> CASE t \in ready         -> "budget"
                                        [] t \in Layer \ ready -> "cancelled"
                                        [] OTHER               -> outcomes[t]]
      /\ layer' = layer + 1
      /\ UNCHANGED <<dependsOn, phase, queue, error, task, answers>>
  BY DEF Deny, InLayers, RunFrame
<1>2. /\ error = Nil /\ layer \in 1 .. LastTask /\ queue = {} /\ \A w \in Workers : task[w] = Nil
      /\ Completed[layer] \in SUBSET Tasks
      /\ \A t \in Tasks : t \notin Completed[layer - 1] => Untouched(t)
  BY <1>1, BetweenLayers
<1>3. outcomes' \in [Tasks -> Endings \union {"cancelled", Nil}]
  BY <1>1 DEF RunInv, RunType, Endings
<1>4. ASSUME NEW t \in Layer
      PROVE  /\ answers[t] = Nil /\ t \in Tasks
             /\ outcomes'[t] = IF Blocked(t) THEN "cancelled" ELSE "budget"
  BY <1>1, <1>2 DEF Layer, Untouched
<1>5. \A t \in Tasks \ Layer : outcomes'[t] = outcomes[t]
  BY <1>1
<1>6. Nil \notin {"error", "overlong"}
  BY NilAssumption DEF Endings
<1> HIDE DEF ready
<1> QED
  BY <1>1, <1>2, <1>3, <1>4, <1>5, <1>6, LayerIsOver

LEMMA JoinedLayer ==
  ASSUME RunInv, Working, Joined
  PROVE  /\ phase = "dispatching" /\ queue = {} /\ error = Nil /\ AtLayer
         /\ \A w \in Workers : task[w] = Nil
         /\ \A t \in Tasks : ~ InWork(t)
         /\ layer \in 1 .. LastTask /\ Layer \in SUBSET Tasks
<1>1. phase = "dispatching" /\ queue = {} /\ \A w \in Workers : task[w] = Nil
  BY DEF Joined, Working
<1>2. error = Nil /\ AtLayer
  BY <1>1 DEF RunInv, Phases, AtLayer
<1>3. \A t \in Tasks : ~ InWork(t)
  BY <1>1, NilAssumption DEF InWork
<1> QED
  BY <1>1, <1>2, <1>3, LayerFacts DEF RunInv

LEMMA CollectStep ==
  ASSUME RunInv, ThreadType, Working, Collect
  PROVE  RunInv'
<1>1. /\ Joined /\ Failures = {}
      /\ outcomes' = [t \in Tasks |-> IF t \in Layer /\ answers[t] # Nil THEN answers[t]
                                      ELSE outcomes[t]]
      /\ layer' = layer + 1 /\ phase' = "layers"
      /\ UNCHANGED <<dependsOn, queue, error, task, answers>>
  BY DEF Collect, RunFrame
<1>2. /\ phase = "dispatching" /\ queue = {} /\ error = Nil /\ AtLayer
      /\ \A w \in Workers : task[w] = Nil
      /\ \A t \in Tasks : ~ InWork(t)
      /\ layer \in 1 .. LastTask /\ Layer \in SUBSET Tasks
  BY <1>1, JoinedLayer
<1>3. outcomes' \in [Tasks -> Endings \union {"cancelled", Nil}]
  BY <1>1 DEF RunInv, RunType, ThreadType
<1>4. \A t \in Tasks \ Layer : outcomes'[t] = outcomes[t]
  BY <1>1
<1>5. ASSUME NEW t \in Layer
      PROVE  /\ answers[t] \notin {"error", "overlong"}
             /\ Blocked(t) => outcomes'[t] = "cancelled" /\ answers[t] = Nil
             /\ ~ Blocked(t) => outcomes'[t] = IF answers[t] = Nil THEN "budget" ELSE answers[t]
  <2>1. answers[t] \notin {"error", "overlong"}
    BY <1>1 DEF Failures
  <2>2. Current(t) /\ ~ InWork(t) /\ t \in Tasks
    BY <1>2 DEF RunInv, Records
  <2>3. outcomes'[t] = IF answers[t] # Nil THEN answers[t] ELSE outcomes[t]
    BY <1>1, <2>2
  <2> QED
    BY <2>1, <2>2, <2>3 DEF Current
<1> QED
  BY <1>1, <1>2, <1>3, <1>4, <1>5, LayerIsOver

LEMMA FailStep ==
  ASSUME RunInv, Working, Fail
  PROVE  RunInv'
<1> USE DEF RunInv
<1>1. /\ Joined /\ Failures # {}
      /\ phase' = "failed" /\ error' = FirstError(Failures)
      /\ UNCHANGED <<dependsOn, layer, queue, outcomes, task, answers>>
  BY DEF Fail, RunFrame
<1>2. /\ phase = "dispatching" /\ queue = {} /\ error = Nil /\ AtLayer
      /\ \A w \in Workers : task[w] = Nil
      /\ layer \in 1 .. LastTask /\ Layer \in SUBSET Tasks
  BY <1>1, JoinedLayer
<1>3. error' \in Failures /\ \A t \in Failures : error' <= t
  <2>1. Failures \in SUBSET Nat
    <3>1. Tasks \subseteq Nat
      BY TasksAssumption DEF Tasks
    <3> QED
      BY <1>2, <3>1 DEF Failures
  <2>2. \E m \in Failures : \A t \in Failures : m <= t
    BY <1>1, <2>1, LeastNat
  <2> QED
    BY <1>1, <2>2 DEF FirstError, Min
<1>4. error' \in Tasks
  BY <1>2, <1>3 DEF Failures
<1>5. error' # Nil /\ AtLayer'
  BY <1>4, NilAssumption DEF AtLayer
<1>6. Completed' = Completed /\ Layer' = Layer /\ Failures' = Failures
  BY <1>1, SameGraph DEF Layer, Failures
<1>7. RunType'
  BY <1>1, <1>4 DEF RunType, Graph, Phase
<1>8. Phases'
  BY <1>1, <1>2, <1>6, LayerFacts DEF Phases, Ordered
<1>9. \A t \in Tasks :
        /\ Untouched(t)' <=> Untouched(t)
        /\ Current(t)' <=> Current(t)
        /\ Final(t)' <=> Final(t)
  BY <1>1 DEF Untouched, Current, Final, InWork, Blocked, Succeeded
<1>10. Records'
  BY <1>1, <1>2, <1>5, <1>6, <1>9 DEF Records
<1> QED
  BY <1>3, <1>6, <1>7, <1>8, <1>10 DEF ErrorIsFirst

\* Whatever else the thread that runs the graph does moves only its phase.
LEMMA PhaseStep ==
  ASSUME RunInv, Refuse \/ Begin \/ AdmitFails \/ Merge
  PROVE  RunInv'
<1> USE DEF RunInv
<1>1. UNCHANGED <<dependsOn, layer, queue, outcomes, error, task, answers>>
  BY DEF Refuse, Begin, AdmitFails, InLayers, Merge, RunFrame
<1>2. Completed' = Completed /\ Layer' = Layer
  BY <1>1, SameGraph DEF Layer
<1>3. phase' # "dispatching" /\ phase # "dispatching" /\ error = Nil
  BY DEF Refuse, Begin, AdmitFails, InLayers, Merge, Phases
<1>4. ~ AtLayer /\ ~ AtLayer'
  BY <1>1, <1>3 DEF AtLayer
<1>5. RunType'
  BY <1>1 DEF RunType, Graph, Phase, Refuse, Begin, AdmitFails, InLayers, Merge
<1>6. Phases'
  <2>1. phase' \notin {"planned", "refused"} => Ordered'
    BY <1>1, <1>2 DEF Phases, Ordered, Refuse, Begin, AdmitFails, InLayers, Merge
  <2>2. phase' \in {"planned", "refused"} => layer' = 1
    BY <1>1 DEF Phases, Refuse, Begin, AdmitFails, InLayers, Merge
  <2>3. phase' = "done" => Completed'[layer' - 1] = Tasks
    BY <1>1, <1>2 DEF Refuse, Begin, AdmitFails, InLayers, Merge
  <2> QED
    BY <1>1, <1>3, <1>4, <2>1, <2>2, <2>3 DEF Phases
<1>7. \A t \in Tasks :
        /\ Untouched(t)' <=> Untouched(t)
        /\ Final(t)' <=> Final(t)
  BY <1>1 DEF Untouched, Final, InWork, Blocked, Succeeded
<1>8. Records'
  BY <1>1, <1>2, <1>4, <1>7 DEF Records
<1> QED
  BY <1>1, <1>3, <1>5, <1>6, <1>8 DEF ErrorIsFirst

-------------------------------------------------------------------------------
(* The workers of a layer.                                                   *)

\* Moving one task of the layer in work, or out of it with an answer, changes what is
\* known of that task only.
LEMMA WorkKept ==
  ASSUME RunInv, phase = "dispatching", NEW x \in Tasks, InWork(x),
         UNCHANGED <<dependsOn, phase, layer, outcomes, error>>, queue' \subseteq Tasks,
         \A t \in Tasks \ {x} : answers'[t] = answers[t] /\ (InWork(t)' <=> InWork(t)),
         answers'[x] = Nil <=> InWork(x)'
  PROVE  RunInv'
<1> USE DEF RunInv
<1>1. Completed' = Completed /\ Layer' = Layer
  BY SameGraph DEF Layer
<1>2. AtLayer /\ AtLayer' /\ error = Nil /\ error' = Nil
  BY DEF AtLayer, Phases
<1>3. x \in Layer /\ ~ Blocked(x) /\ outcomes[x] = Nil
  <2>1. ~ Final(x) /\ ~ Untouched(x)
    BY DEF Final, Untouched
  <2>2. x \in Layer
    BY <1>2, <2>1 DEF Records, Layer
  <2> QED
    BY <1>2, <2>2 DEF Records, Current
<1>4. RunType' /\ Phases'
  BY <1>1, <1>2 DEF RunType, Graph, Phases, Ordered
<1>5. \A t \in Tasks : Blocked(t)' <=> Blocked(t)
  BY DEF Blocked, Succeeded
<1>6. \A t \in Tasks \ {x} :
        /\ Untouched(t)' <=> Untouched(t)
        /\ Current(t)' <=> Current(t)
        /\ Final(t)' <=> Final(t)
  BY <1>5 DEF Untouched, Current, Final
<1>7. Current(x)'
  BY <1>3, <1>5 DEF Current
<1>8. x \notin Completed[layer - 1] /\ x \in Completed[layer]
  BY <1>3 DEF Layer
<1>9. Records'
  BY <1>1, <1>2, <1>6, <1>7, <1>8 DEF Records
<1> QED
  BY <1>2, <1>4, <1>9 DEF ErrorIsFirst

LEMMA ClaimStep ==
  ASSUME RunInv, ThreadType, Working, NEW w \in Workers, Claim(w)
  PROVE  /\ RunInv' /\ ThreadType' /\ Working'
         /\ \E x \in queue : queue' = queue \ {x} /\ task' = [task EXCEPT ![w] = x]
<1>0. Min(queue) \in queue
  <2>1. queue \in SUBSET Nat /\ queue # {}
    <3>1. Tasks \subseteq Nat
      BY TasksAssumption DEF Tasks
    <3> QED
      BY <3>1 DEF RunInv, RunType, Claim
  <2>2. \E m \in queue : \A t \in queue : m <= t
    BY <2>1, LeastNat
  <2> QED
    BY <2>2 DEF Min
<1> PICK x \in queue : x = Min(queue)
  BY <1>0
<1>1. /\ phase = "dispatching" /\ queue # {} /\ stage[w] = "idle"
      /\ task' = [task EXCEPT ![w] = x] /\ queue' = queue \ {x}
      /\ stage' = [stage EXCEPT ![w] = "called"]
      /\ UNCHANGED <<dependsOn, phase, layer, outcomes, error, verdict, answers>>
  BY DEF Claim
<1>2. x \in queue
  OBVIOUS
<1>3. x \in Tasks /\ x # Nil /\ w \in Threads
  BY <1>2, NilAssumption DEF RunInv, RunType, Threads
<1>4. task[w] = Nil /\ InWork(x) /\ InWork(x)'
  <2>1. task[w] = Nil
    BY <1>1 DEF Working
  <2>2. InWork(x)
    BY <1>2 DEF InWork
  <2>3. task'[w] = x
    BY <1>1 DEF ThreadType
  <2> QED
    BY <2>1, <2>2, <2>3 DEF InWork
<1>5. \A t \in Tasks \ {x} : InWork(t)' <=> InWork(t)
  BY <1>1, <1>4, NilAssumption DEF InWork, ThreadType
<1>6. answers'[x] = Nil
  <2>1. ~ Final(x) /\ ~ Untouched(x)
    BY <1>4 DEF Final, Untouched
  <2>2. AtLayer /\ x \in Layer
    BY <1>1, <1>3, <2>1 DEF RunInv, Records, Layer, AtLayer
  <2> QED
    BY <1>1, <1>3, <1>4, <2>2 DEF RunInv, Records, Current
<1>7. RunInv'
  <2>1. queue' \subseteq Tasks
    BY <1>1 DEF RunInv, RunType
  <2>2. answers'[x] = Nil <=> InWork(x)'
    BY <1>4, <1>6
  <2>3. \A t \in Tasks \ {x} : answers'[t] = answers[t] /\ (InWork(t)' <=> InWork(t))
    BY <1>1, <1>5
  <2> QED
    BY <1>1, <1>3, <1>4, <2>1, <2>2, <2>3, WorkKept
<1>8. ThreadType'
  BY <1>1, <1>3 DEF ThreadType, Stages
<1>9. Working'
  BY <1>1, <1>2, <1>3, <1>4 DEF Working, ThreadType, Threads
<1> QED
  BY <1>1, <1>2, <1>7, <1>8, <1>9

\* A thread leaves the executor; a worker's task is answered.
LEMMA LeaveStep ==
  ASSUME RunInv, ThreadType, Working, NEW c \in Threads, stage[c] # "idle",
         NEW v \in Endings, Leave(c, v)
  PROVE  RunInv' /\ ThreadType' /\ Working'
<1>1. /\ stage' = [stage EXCEPT ![c] = "idle"] /\ verdict' = [verdict EXCEPT ![c] = Nil]
      /\ UNCHANGED run
  BY DEF Leave
<1>2. CASE c \notin Workers
  <2>1. UNCHANGED <<answers, task>>
    BY <1>2 DEF Leave
  <2>2. RunInv'
    BY <1>1, <2>1, RunKept
  <2>3. ThreadType' /\ Working'
    BY <1>1, <1>2, <2>1 DEF ThreadType, Working, Stages, Threads
  <2> QED
    BY <2>2, <2>3
<1>3. CASE c \in Workers
  <2> PICK x : x = task[c]
    OBVIOUS
  <2>1. answers' = [answers EXCEPT ![x] = v] /\ task' = [task EXCEPT ![c] = Nil]
    BY <1>3 DEF Leave
  <2>2. x \in Tasks /\ x # Nil /\ InWork(x)
    BY <1>3 DEF Working, ThreadType, InWork
  <2>3. phase = "dispatching"
    BY <1>3, <2>2 DEF RunInv, Phases
  <2>4. x \notin queue /\ \A u \in Workers \ {c} : task[u] # x
    BY <1>3, <2>2 DEF Working
  <2>5. ~ InWork(x)'
    <3>1. x \notin queue'
      BY <1>1, <2>4
    <3>2. ASSUME NEW u \in Workers
          PROVE  task'[u] # x
      BY <1>3, <2>1, <2>2, <2>4 DEF ThreadType
    <3> QED
      BY <3>1, <3>2 DEF InWork
  <2>6. \A t \in Tasks \ {x} : InWork(t)' <=> InWork(t)
    <3>1. \A t \in Tasks \ {x} : t # Nil /\ task[c] # t
      BY NilAssumption
    <3> QED
      BY <1>1, <1>3, <2>1, <3>1 DEF InWork, ThreadType
  <2>7. answers'[x] = v /\ v # Nil /\ \A t \in Tasks \ {x} : answers'[t] = answers[t]
    BY <2>1, <2>2, NilAssumption DEF ThreadType
  <2>8. RunInv'
    <3>1. UNCHANGED <<dependsOn, phase, layer, outcomes, error>> /\ queue' = queue
      BY <1>1
    <3>2. queue' \subseteq Tasks
      BY <3>1 DEF RunInv, RunType
    <3>3. answers'[x] = Nil <=> InWork(x)'
      BY <2>5, <2>7
    <3>4. \A t \in Tasks \ {x} : answers'[t] = answers[t] /\ (InWork(t)' <=> InWork(t))
      BY <2>6, <2>7
    <3> QED
      BY <2>2, <2>3, <3>1, <3>2, <3>3, <3>4, WorkKept
  <2>9. ThreadType'
    BY <1>1, <2>1 DEF ThreadType, Stages
  <2>10. Working'
    BY <1>1, <1>3, <2>1 DEF Working, ThreadType, Threads
  <2> QED
    BY <2>8, <2>9, <2>10
<1> QED
  BY <1>2, <1>3

-------------------------------------------------------------------------------
(* Amounts, and what the ledger does with them.                              *)

LEMMA AmountFacts ==
  /\ "tool_calls" \in Ledger!Dimension
  /\ Limit["tool_calls"] \in Nat
  /\ Ledger!Zero \in Ledger!Usage /\ Ledger!Zero["tool_calls"] = 0
  /\ Estimate \in Ledger!Usage /\ Estimate["tool_calls"] = 1
  /\ \A charge \in Charges : charge \in Ledger!Usage /\ charge["tool_calls"] = 1
  /\ \A n \in Nat : Calls(n) \in Ledger!Usage /\ Calls(n)["tool_calls"] = n
<1>1. "tool_calls" \in Ledger!Dimension /\ "duration_seconds" \in Ledger!Dimension
      /\ "artifact_bytes" \in Ledger!Dimension
  BY DEF Ledger!Dimension
<1>2. Limit["tool_calls"] \in Nat
  BY <1>1, LedgerAssumption DEF Ledger!Usage
<1>3. Ledger!Zero \in Ledger!Usage /\ Ledger!Zero["tool_calls"] = 0
  BY <1>1 DEF Ledger!Zero, Ledger!Usage
<1>4. Estimate \in Ledger!Usage /\ Estimate["tool_calls"] = 1
  BY <1>1, <1>3, TimeAssumption DEF Estimate, Ledger!ToolEstimate, Ledger!Usage
<1>5. ASSUME NEW charge \in Charges
      PROVE  charge \in Ledger!Usage /\ charge["tool_calls"] = 1
  <2>1. PICK elapsed \in Amounts \intersect 0 .. Deadline, bytes \in Amounts :
          charge = Ledger!ToolCharge(elapsed, bytes)
    BY DEF Charges
  <2>2. elapsed \in Nat /\ bytes \in Nat
    BY TimeAssumption
  <2> QED
    BY <1>1, <1>3, <2>1, <2>2 DEF Ledger!ToolCharge, Ledger!Usage
<1>6. \A n \in Nat : Calls(n) \in Ledger!Usage /\ Calls(n)["tool_calls"] = n
  BY <1>1, <1>3 DEF Calls, Ledger!Usage
<1> QED
  BY <1>1, <1>2, <1>3, <1>4, <1>5, <1>6

LEMMA ReserveMeans ==
  ASSUME LedgerType, NEW n, Ledger!Reserve(n, Estimate)
  PROVE  /\ usage' = usage /\ reserved' \in Ledger!Usage
         /\ reserved'["tool_calls"] = reserved["tool_calls"] + 1
<1>1. usage' = usage /\ reserved' = [d \in Ledger!Dimension |-> reserved[d] + Estimate[d]]
  BY DEF Ledger!Reserve, Ledger!Plus
<1>2. \A d \in Ledger!Dimension : reserved[d] + Estimate[d] \in Nat
  BY AmountFacts DEF LedgerType, Ledger!Usage
<1> QED
  BY <1>1, <1>2, AmountFacts DEF Ledger!Usage

\* What a reservation gives up is there to be given up.
LEMMA LessReserved ==
  ASSUME LedgerType, NEW own \in Ledger!Usage, Ledger!AtMost(own, reserved),
         reserved' = Ledger!Minus(reserved, own)
  PROVE  /\ reserved' \in Ledger!Usage
         /\ reserved'["tool_calls"] = reserved["tool_calls"] - own["tool_calls"]
         /\ reserved'["tool_calls"] <= reserved["tool_calls"]
<1>1. reserved' = [d \in Ledger!Dimension |-> reserved[d] - own[d]]
  BY DEF Ledger!Minus
<1>2. \A d \in Ledger!Dimension : /\ reserved[d] - own[d] \in Nat
                                  /\ reserved[d] \in Nat /\ own[d] \in Nat
  BY DEF Ledger!AtMost, LedgerType, Ledger!Usage
<1> QED
  BY <1>1, <1>2, AmountFacts DEF Ledger!Usage

LEMMA CommitMeans ==
  ASSUME LedgerType, NEW h \in Ledger!Reservation, NEW charge \in Ledger!Usage,
         Ledger!Commit(h, charge)
  PROVE  /\ usage' \in Ledger!Usage /\ reserved' \in Ledger!Usage
         /\ usage'["tool_calls"] = usage["tool_calls"] + charge["tool_calls"]
         /\ reserved'["tool_calls"] = reserved["tool_calls"] - h.usage["tool_calls"]
<1>1. /\ Ledger!AtMost(h.usage, reserved) /\ reserved' = Ledger!Minus(reserved, h.usage)
      /\ usage' = [d \in Ledger!Dimension |-> usage[d] + charge[d]]
  BY DEF Ledger!Commit, Ledger!Fits, Ledger!Plus
<1>2. h.usage \in Ledger!Usage
  BY DEF Ledger!Reservation
<1>3. \A d \in Ledger!Dimension : usage[d] + charge[d] \in Nat
  BY DEF LedgerType, Ledger!Usage
<1>4. usage' \in Ledger!Usage /\ usage'["tool_calls"] = usage["tool_calls"] + charge["tool_calls"]
  BY <1>1, <1>3, AmountFacts DEF Ledger!Usage
<1> QED
  BY <1>1, <1>2, <1>4, LessReserved

LEMMA ReleaseMeans ==
  ASSUME LedgerType, NEW h \in Ledger!Reservation, Ledger!Release(h)
  PROVE  /\ usage' = usage /\ reserved' \in Ledger!Usage
         /\ reserved'["tool_calls"] <= reserved["tool_calls"]
<1>1. CASE h \in reservations /\ Ledger!AtMost(h.usage, reserved)
  <2>1. usage' = usage /\ reserved' = Ledger!Minus(reserved, h.usage)
    BY <1>1 DEF Ledger!Release
  <2>2. h.usage \in Ledger!Usage
    BY DEF Ledger!Reservation
  <2> QED
    BY <1>1, <2>1, <2>2, LessReserved
<1>2. CASE ~ (h \in reservations /\ Ledger!AtMost(h.usage, reserved))
  <2>1. usage' = usage /\ reserved' = reserved
    BY <1>2 DEF Ledger!Release, Ledger!ledger
  <2>2. reserved["tool_calls"] \in Nat
    BY AmountFacts DEF LedgerType, Ledger!Usage
  <2> QED
    BY <2>1, <2>2 DEF LedgerType
<1> QED
  BY <1>1, <1>2

-------------------------------------------------------------------------------
(* The tool calls a layer has still to make.                                 *)

Preparing == {w \in Workers : stage[w] \in {"called", "slot"}}
Ahead == queue \union {task[w] : w \in Preparing}
Spoken == usage["tool_calls"] + reserved["tool_calls"]

LEMMA Admitted ==
  LayerStaysAdmitted <=>
    (phase = "dispatching" => Spoken + Cardinality(Ahead) <= Limit["tool_calls"] + sinceCheck)
BY DEF LayerStaysAdmitted, Spoken, Ahead, Preparing

LEMMA SpokenType ==
  ASSUME LedgerType
  PROVE  Spoken \in Nat /\ usage["tool_calls"] \in Nat /\ reserved["tool_calls"] \in Nat
BY AmountFacts DEF LedgerType, Spoken, Ledger!Usage

LEMMA TasksFinite ==
  ASSUME NEW S \in SUBSET Tasks
  PROVE  IsFiniteSet(S) /\ Cardinality(S) \in Nat
<1>1. IsFiniteSet(Tasks)
  BY TasksAssumption, FS_Interval DEF Tasks
<1> QED
  BY <1>1, FS_Subset, FS_CardinalityType

LEMMA AheadFinite ==
  ASSUME RunType, ThreadType, Working
  PROVE  Ahead \in SUBSET Tasks /\ IsFiniteSet(Ahead) /\ Cardinality(Ahead) \in Nat
<1>1. Ahead \in SUBSET Tasks
  <2>1. \A w \in Preparing : task[w] \in Tasks
    BY DEF Preparing, Working, ThreadType
  <2> QED
    BY <2>1 DEF Ahead, RunType
<1> QED
  BY <1>1, TasksFinite

\* A step that adds no task and takes no tool call.
LEMMA LayerKept ==
  ASSUME RunType, ThreadType, Working, LedgerType, LedgerType', LayerStaysAdmitted,
         phase' = "dispatching" => phase = "dispatching",
         Ahead' \subseteq Ahead, Spoken' <= Spoken, sinceCheck <= sinceCheck'
  PROVE  LayerStaysAdmitted'
<1>1. /\ IsFiniteSet(Ahead) /\ Cardinality(Ahead) \in Nat
  BY AheadFinite
<1>2. Cardinality(Ahead') \in Nat /\ Cardinality(Ahead') <= Cardinality(Ahead)
  BY <1>1, FS_Subset, FS_CardinalityType
<1>3. Spoken \in Nat /\ Spoken' \in Nat /\ Limit["tool_calls"] \in Nat
      /\ sinceCheck \in Nat /\ sinceCheck' \in Nat
  <2>1. Spoken' \in Nat
    BY AmountFacts DEF LedgerType, Spoken, Ledger!Usage
  <2> QED
    BY <2>1, SpokenType, AmountFacts DEF LedgerType
<1>4. phase' = "dispatching" =>
        Spoken' + Cardinality(Ahead') <= Limit["tool_calls"] + sinceCheck'
  BY <1>1, <1>2, <1>3, Admitted
<1> QED
  BY <1>4 DEF LayerStaysAdmitted, Spoken, Ahead, Preparing

-------------------------------------------------------------------------------
(* Every step keeps the invariant.                                           *)

LEMMA Parts ==
  IInv <=> RunInv /\ ThreadType /\ Working /\ LedgerType /\ Booked /\ LayerStaysAdmitted
BY DEF IInv, Typed, RunInv

LEMMA PartsNext ==
  ASSUME RunInv', ThreadType', Working', LedgerType', Booked', LayerStaysAdmitted'
  PROVE  IInv'
BY DEF IInv, Typed, RunInv

LEMMA AdmittedIsEnough ==
  ASSUME phase' = "dispatching" =>
           Spoken' + Cardinality(Ahead') <= Limit["tool_calls"] + sinceCheck'
  PROVE  LayerStaysAdmitted'
BY DEF LayerStaysAdmitted, Spoken, Ahead, Preparing

\* The check finds the calls of the whole layer; nobody prepares one yet.
LEMMA AdmitFinds ==
  ASSUME IInv, Admit
  PROVE  LayerStaysAdmitted'
<1> USE DEF IInv, Typed
<1>1. RunInv /\ phase = "layers" /\ InLayers
  BY DEF RunInv, Admit, InLayers
<1>2. \A w \in Workers : stage[w] = "idle"
  BY <1>1, BetweenLayers DEF Working
<1> PICK ready : ready = {t \in Layer : ~ Blocked(t)}
  OBVIOUS
<1>3. /\ Ledger!Fits(Calls(Cardinality(ready)), Ledger!Zero)
      /\ queue' = ready /\ sinceCheck' = 0
      /\ UNCHANGED <<stage, usage, reserved>>
  BY DEF Admit, Admits, RunFrame, ledger, counted
<1>4. Ahead' = ready
  BY <1>2, <1>3 DEF Ahead, Preparing
<1>5. Cardinality(ready) \in Nat
  <2>1. ready \in SUBSET Tasks
    <3>1. Layer \subseteq Tasks
      BY <1>1, BetweenLayers DEF Layer
    <3> QED
      BY <3>1
  <2> QED
    BY <2>1, TasksFinite
<1>6. Spoken + Cardinality(ready) <= Limit["tool_calls"]
  <2>1. Calls(Cardinality(ready))["tool_calls"] = Cardinality(ready)
    BY <1>5, AmountFacts
  <2>2. usage["tool_calls"] + (reserved["tool_calls"] - Ledger!Zero["tool_calls"])
          + Calls(Cardinality(ready))["tool_calls"] <= Limit["tool_calls"]
    BY <1>3, AmountFacts DEF Ledger!Fits, Ledger!AtMost, Ledger!Plus, Ledger!Minus
  <2> QED
    BY <1>5, <2>1, <2>2, SpokenType, AmountFacts DEF Spoken
<1>7. Spoken' = Spoken /\ Limit["tool_calls"] \in Nat
  BY <1>3, AmountFacts DEF Spoken
<1> QED
  BY <1>3, <1>4, <1>6, <1>7, AmountFacts, AdmittedIsEnough

LEMMA RunStep ==
  ASSUME IInv, Run
  PROVE  IInv'
<1>1. RunInv /\ ThreadType /\ Working /\ LedgerType /\ Booked /\ LayerStaysAdmitted
  BY Parts
<1>2. RunInv'
  BY <1>1, PhaseStep, AdmitStep, DenyStep, CollectStep, FailStep DEF Run
<1>3. UNCHANGED <<threads, usage, reserved, hold>> /\ (sinceCheck' = sinceCheck \/ sinceCheck' = 0)
  BY DEF Run, Refuse, Begin, Admit, Deny, AdmitFails, Collect, Fail, Merge, RunFrame, ledger,
         counted
<1>4. ThreadType' /\ LedgerType' /\ Booked'
  BY <1>1, <1>3 DEF ThreadType, LedgerType, Booked
<1>5. Working'
  <2>1. CASE Admit
    <3>1. \A w \in Workers : task[w] = Nil
      BY <1>1, <2>1, BetweenLayers DEF Admit, InLayers
    <3> QED
      BY <1>1, <1>3, <3>1 DEF Working
  <2>2. CASE ~ Admit
    <3>1. queue' = queue
      BY <2>2 DEF Run, Refuse, Begin, Deny, AdmitFails, Collect, Fail, Merge
    <3> QED
      BY <1>1, <1>3, <3>1 DEF Working
  <2> QED
    BY <2>1, <2>2
<1>6. LayerStaysAdmitted'
  <2>1. CASE Admit
    BY <2>1, AdmitFinds
  <2>2. CASE ~ Admit
    <3>1. phase' # "dispatching"
      BY <2>2 DEF Run, Refuse, Begin, Deny, AdmitFails, Collect, Fail, Merge, InLayers
    <3> QED
      BY <3>1 DEF LayerStaysAdmitted
  <2> QED
    BY <2>1, <2>2
<1> QED
  BY <1>2, <1>4, <1>5, <1>6, PartsNext

\* A thread that prepares no new call for its layer.
LEMMA AheadShrinks ==
  ASSUME queue' \subseteq queue,
         \A w \in Workers : stage'[w] \in {"called", "slot"} =>
           task'[w] \in queue \/ (stage[w] \in {"called", "slot"} /\ task'[w] = task[w])
  PROVE  Ahead' \subseteq Ahead
BY DEF Ahead, Preparing

\* What a step must leave alone for the books of the calls that run to stay right.
LEMMA BooksKept ==
  ASSUME Booked,
         \A d \in Threads : stage'[d] = "running" => stage[d] = "running" /\ hold'[d] = hold[d]
  PROVE  Booked'
<1>1. Estimate' = Estimate
  BY DEF Estimate, Ledger!ToolEstimate, Ledger!Zero, Ledger!Dimension
<1> QED
  BY <1>1 DEF Booked

LEMMA ClaimKeeps ==
  ASSUME IInv, NEW w \in Workers, Claim(w)
  PROVE  IInv'
<1>1. RunInv /\ ThreadType /\ Working /\ LedgerType /\ Booked /\ LayerStaysAdmitted
  BY Parts
<1>2. RunInv' /\ ThreadType' /\ Working'
  BY <1>1, ClaimStep
<1> PICK x \in queue : queue' = queue \ {x} /\ task' = [task EXCEPT ![w] = x]
  BY <1>1, ClaimStep
<1>3. /\ stage' = [stage EXCEPT ![w] = "called"] /\ phase' = phase
      /\ UNCHANGED <<usage, reserved, hold, sinceCheck>>
  BY DEF Claim, ledger, counted, others
<1>4. LedgerType'
  BY <1>1, <1>3 DEF LedgerType
<1>5. Booked'
  BY <1>1, <1>3, BooksKept DEF ThreadType
<1>6. Ahead' \subseteq Ahead
  <2>1. ASSUME NEW v \in Workers, stage'[v] \in {"called", "slot"}
        PROVE  task'[v] \in queue \/ (stage[v] \in {"called", "slot"} /\ task'[v] = task[v])
    BY <1>1, <1>3, <2>1 DEF ThreadType, Threads
  <2> QED
    BY <2>1, AheadShrinks
<1>7. Spoken' <= Spoken /\ sinceCheck <= sinceCheck'
  <2>1. Spoken \in Nat /\ Spoken' = Spoken
    BY <1>1, <1>3, SpokenType DEF Spoken
  <2> QED
    BY <1>1, <1>3, <2>1 DEF LedgerType
<1>8. LayerStaysAdmitted'
  BY <1>1, <1>3, <1>4, <1>6, <1>7, LayerKept DEF RunInv
<1> QED
  BY <1>2, <1>4, <1>5, <1>8, PartsNext

\* Steps of a thread that move nothing in the ledger and leave no task.
LEMMA StageKeeps ==
  ASSUME IInv, NEW c \in Threads, NEW s \in {"called", "slot"},
         s = "called" => c \in Others, c \in Workers => stage[c] = "called",
         stage' = [stage EXCEPT ![c] = s],
         UNCHANGED <<run, task, verdict, answers, ledger, sinceCheck>>
  PROVE  IInv'
<1>1. RunInv /\ ThreadType /\ Working /\ LedgerType /\ Booked /\ LayerStaysAdmitted
  BY Parts
<1>2. RunInv'
  BY <1>1, RunKept
<1>3. ThreadType' /\ Working'
  BY <1>1 DEF ThreadType, Working, Stages, Threads
<1>4. LedgerType' /\ UNCHANGED <<usage, reserved, hold>>
  BY <1>1 DEF LedgerType, ledger, counted
<1>5. Booked'
  BY <1>1, <1>4, BooksKept DEF ThreadType
<1>6. Ahead' \subseteq Ahead
  <2>1. ASSUME NEW v \in Workers, stage'[v] \in {"called", "slot"}
        PROVE  stage[v] \in {"called", "slot"} /\ task'[v] = task[v]
    BY <1>1, <2>1, ThreadsAssumption DEF ThreadType, Threads
  <2> QED
    BY <2>1, AheadShrinks
<1>7. Spoken' <= Spoken /\ sinceCheck <= sinceCheck'
  <2>1. Spoken \in Nat /\ Spoken' = Spoken
    BY <1>1, <1>4, SpokenType DEF Spoken
  <2> QED
    BY <1>1, <2>1 DEF LedgerType
<1>8. LayerStaysAdmitted'
  BY <1>1, <1>4, <1>6, <1>7, LayerKept DEF RunInv
<1> QED
  BY <1>2, <1>3, <1>4, <1>5, <1>8, PartsNext

LEMMA LeaveKeeps ==
  ASSUME IInv, NEW c \in Threads, stage[c] # "idle", NEW v \in Endings, Leave(c, v),
         UNCHANGED ledger
  PROVE  IInv'
<1>1. RunInv /\ ThreadType /\ Working /\ LedgerType /\ Booked /\ LayerStaysAdmitted
  BY Parts
<1>2. RunInv' /\ ThreadType' /\ Working'
  BY <1>1, LeaveStep
<1>3. /\ stage' = [stage EXCEPT ![c] = "idle"] /\ phase' = phase /\ queue' = queue
      /\ UNCHANGED <<usage, reserved, hold, sinceCheck>>
      /\ \A w \in Workers \ {c} : task'[w] = task[w]
  BY <1>1 DEF Leave, ledger, counted, others, ThreadType
<1>4. LedgerType'
  BY <1>1, <1>3 DEF LedgerType
<1>5. Booked'
  BY <1>1, <1>3, BooksKept DEF ThreadType
<1>6. Ahead' \subseteq Ahead
  <2>1. ASSUME NEW w \in Workers, stage'[w] \in {"called", "slot"}
        PROVE  stage[w] \in {"called", "slot"} /\ task'[w] = task[w]
    BY <1>1, <1>3, <2>1 DEF ThreadType, Threads
  <2> QED
    BY <1>3, <2>1, AheadShrinks
<1>7. Spoken' <= Spoken /\ sinceCheck <= sinceCheck'
  <2>1. Spoken \in Nat /\ Spoken' = Spoken
    BY <1>1, <1>3, SpokenType DEF Spoken
  <2> QED
    BY <1>1, <1>3, <2>1 DEF LedgerType
<1>8. LayerStaysAdmitted'
  BY <1>1, <1>3, <1>4, <1>6, <1>7, LayerKept DEF RunInv
<1> QED
  BY <1>2, <1>4, <1>5, <1>8, PartsNext

\* A call that ends takes no more from the ledger than it had reserved.
LEMMA EndsKeeps ==
  ASSUME IInv, NEW c \in Threads, stage[c] \in {"slot", "running"}, NEW v \in Endings, Ends(c, v),
         usage' \in Ledger!Usage, reserved' \in Ledger!Usage, Spoken' <= Spoken
  PROVE  IInv'
<1>1. RunInv /\ ThreadType /\ Working /\ LedgerType /\ Booked /\ LayerStaysAdmitted
  BY Parts
<1>2. /\ stage' = [stage EXCEPT ![c] = "ended"] /\ verdict' = [verdict EXCEPT ![c] = v]
      /\ hold' = [hold EXCEPT ![c] = Nil]
      /\ UNCHANGED <<run, task, answers, sinceCheck>>
  BY DEF Ends
<1>3. RunInv'
  BY <1>1, <1>2, RunKept
<1>4. ThreadType' /\ Working'
  BY <1>1, <1>2, NilAssumption DEF ThreadType, Working, Stages, Threads
<1>5. LedgerType'
  BY <1>1, <1>2 DEF LedgerType
<1>6. Booked'
  BY <1>1, <1>2, BooksKept DEF ThreadType, LedgerType
<1>7. Ahead' \subseteq Ahead
  <2>1. ASSUME NEW w \in Workers, stage'[w] \in {"called", "slot"}
        PROVE  stage[w] \in {"called", "slot"} /\ task'[w] = task[w]
    BY <1>1, <1>2, <2>1 DEF ThreadType, Threads
  <2> QED
    BY <1>2, <2>1, AheadShrinks
<1>8. sinceCheck <= sinceCheck' /\ phase' = phase
  BY <1>1, <1>2 DEF LedgerType
<1>9. LayerStaysAdmitted'
  BY <1>1, <1>5, <1>7, <1>8, LayerKept DEF RunInv
<1> QED
  BY <1>3, <1>4, <1>5, <1>6, <1>9, PartsNext

\* The ledger books the call: what a worker prepared is reserved now, and another
\* caller's call is counted.
LEMMA ToolStartsKeeps ==
  ASSUME IInv, NEW c \in Threads, ToolStarts(c)
  PROVE  IInv'
<1>1. RunInv /\ ThreadType /\ Working /\ LedgerType /\ Booked /\ LayerStaysAdmitted
  BY Parts
<1> PICK n \in 1 .. (LastTask + MaxOther) :
       /\ Ledger!Reserve(n, Estimate)
       /\ hold' = [hold EXCEPT ![c] = [id |-> n, usage |-> Estimate]]
  BY DEF ToolStarts
<1>2. /\ stage[c] = "slot" /\ stage' = [stage EXCEPT ![c] = "running"]
      /\ sinceCheck' = IF c \in Others THEN sinceCheck + 1 ELSE sinceCheck
      /\ UNCHANGED <<run, task, verdict, answers>>
  BY DEF ToolStarts
<1>3. /\ usage' = usage /\ reserved' \in Ledger!Usage
      /\ reserved'["tool_calls"] = reserved["tool_calls"] + 1
  BY <1>1, ReserveMeans
<1>4. /\ [id |-> n, usage |-> Estimate] \in Ledger!Reservation
      /\ [id |-> n, usage |-> Estimate].usage = Estimate
  <2>1. n \in Ledger!ReservationId
    BY DEF Ledger!ReservationId
  <2> QED
    BY <2>1, AmountFacts DEF Ledger!Reservation
<1>5. RunInv'
  BY <1>1, <1>2, RunKept
<1>6. ThreadType' /\ Working'
  BY <1>1, <1>2 DEF ThreadType, Working, Stages, Threads
<1>7. LedgerType'
  BY <1>1, <1>2, <1>3, <1>4 DEF LedgerType
<1>8. Booked'
  <2>1. Estimate' = Estimate
    BY DEF Estimate, Ledger!ToolEstimate, Ledger!Zero, Ledger!Dimension
  <2>2. ASSUME NEW d \in Threads, stage'[d] = "running"
        PROVE  hold'[d] \in Ledger!Reservation /\ hold'[d].usage = Estimate
    <3>1. CASE d = c
      BY <1>1, <1>4, <3>1 DEF LedgerType
    <3>2. CASE d # c
      <4>1. stage[d] = "running" /\ hold'[d] = hold[d]
        BY <1>1, <1>2, <2>2, <3>2 DEF ThreadType, LedgerType
      <4> QED
        BY <1>1, <4>1 DEF Booked
    <3> QED
      BY <3>1, <3>2
  <2> QED
    BY <2>1, <2>2 DEF Booked
<1>9. ASSUME NEW w \in Workers, stage'[w] \in {"called", "slot"}
      PROVE  w # c /\ stage[w] \in {"called", "slot"} /\ task'[w] = task[w]
  BY <1>1, <1>2, <1>9 DEF ThreadType, Threads
<1>10. Ahead' \subseteq Ahead
  BY <1>2, <1>9, AheadShrinks
<1>11. Spoken \in Nat /\ Spoken' = Spoken + 1 /\ sinceCheck \in Nat /\ Limit["tool_calls"] \in Nat
  BY <1>1, <1>3, SpokenType, AmountFacts DEF Spoken, LedgerType
<1>12. IsFiniteSet(Ahead) /\ Ahead \in SUBSET Tasks /\ Cardinality(Ahead) \in Nat
  BY <1>1, AheadFinite DEF RunInv
<1>13. phase = "dispatching" => Spoken + Cardinality(Ahead) <= Limit["tool_calls"] + sinceCheck
  BY <1>1, Admitted
<1>14. Cardinality(Ahead') \in Nat /\ Cardinality(Ahead') <= Cardinality(Ahead)
  BY <1>10, <1>12, FS_Subset, FS_CardinalityType
<1>15. CASE c \in Others
  <2>1. sinceCheck' = sinceCheck + 1
    BY <1>2, <1>15
  <2> QED
    BY <1>2, <1>5, <1>6, <1>7, <1>8, <1>11, <1>12, <1>13, <1>14, <2>1, AdmittedIsEnough, PartsNext
<1>16. CASE c \in Workers
  <2>1. task[c] \in Ahead /\ sinceCheck' = sinceCheck
    BY <1>2, <1>16, ThreadsAssumption DEF Ahead, Preparing
  <2>2. task[c] # Nil
    BY <1>1, <1>2, <1>16 DEF Working
  <2>3. task[c] \notin Ahead'
    <3>1. task[c] \notin queue'
      BY <1>1, <1>2, <1>16, <2>2 DEF Working
    <3>2. ASSUME NEW w \in Workers, stage'[w] \in {"called", "slot"}
          PROVE  task'[w] # task[c]
      BY <1>1, <1>9, <1>16, <2>2, <3>2 DEF Working
    <3> QED
      BY <3>1, <3>2 DEF Ahead, Preparing
  <2>4. /\ IsFiniteSet(Ahead \ {task[c]})
        /\ Cardinality(Ahead \ {task[c]}) = Cardinality(Ahead) - 1
    BY <1>12, <2>1, FS_RemoveElement
  <2>5. Cardinality(Ahead') <= Cardinality(Ahead) - 1
    <3>1. Ahead' \subseteq Ahead \ {task[c]}
      BY <1>10, <2>3
    <3> QED
      BY <2>4, <3>1, FS_Subset
  <2> QED
    BY <1>2, <1>5, <1>6, <1>7, <1>8, <1>11, <1>12, <1>13, <1>14, <2>1, <2>5,
       AdmittedIsEnough, PartsNext
<1> QED
  BY <1>15, <1>16 DEF Threads

LEMMA ToolEndsKeeps ==
  ASSUME IInv, NEW c \in Threads, ToolAnswers(c) \/ CommitRefused(c) \/ ToolBreaks(c)
  PROVE  IInv'
<1>1. LedgerType /\ Booked
  BY Parts
<1>2. stage[c] = "running"
  BY DEF ToolAnswers, CommitRefused, ToolBreaks
<1>3. hold[c] \in Ledger!Reservation /\ hold[c].usage = Estimate
  BY <1>1, <1>2 DEF Booked
<1>4. /\ usage["tool_calls"] \in Nat /\ reserved["tool_calls"] \in Nat
      /\ usage \in Ledger!Usage
  BY <1>1, SpokenType DEF LedgerType
<1>5. CASE ToolAnswers(c)
  <2>1. PICK charge \in Charges, v \in {"succeeded", "reported", "overlong"} :
          Ledger!Commit(hold[c], charge) /\ Ends(c, v)
    BY <1>5 DEF ToolAnswers
  <2>2. charge \in Ledger!Usage /\ charge["tool_calls"] = 1 /\ Estimate["tool_calls"] = 1
    BY AmountFacts
  <2>3. /\ usage' \in Ledger!Usage /\ reserved' \in Ledger!Usage
        /\ usage'["tool_calls"] = usage["tool_calls"] + 1
        /\ reserved'["tool_calls"] = reserved["tool_calls"] - 1
    BY <1>1, <1>3, <2>1, <2>2, CommitMeans
  <2>4. Spoken' <= Spoken
    BY <1>4, <2>3 DEF Spoken
  <2>5. v \in Endings
    BY DEF Endings
  <2> QED
    BY <1>2, <2>1, <2>3, <2>4, <2>5, EndsKeeps
<1>6. CASE CommitRefused(c) \/ ToolBreaks(c)
  <2>1. PICK v \in {"overrun", "broken"} : Ledger!Release(hold[c]) /\ Ends(c, v)
    BY <1>6 DEF CommitRefused, ToolBreaks
  <2>2. /\ usage' = usage /\ reserved' \in Ledger!Usage
        /\ reserved'["tool_calls"] <= reserved["tool_calls"]
    BY <1>1, <1>3, <2>1, ReleaseMeans
  <2>3. Spoken' <= Spoken
    <3>1. reserved'["tool_calls"] \in Nat
      BY <2>2, AmountFacts DEF Ledger!Usage
    <3> QED
      BY <1>4, <2>2, <3>1 DEF Spoken
  <2>4. v \in Endings
    BY DEF Endings
  <2> QED
    BY <1>2, <1>4, <2>1, <2>2, <2>3, <2>4, EndsKeeps
<1> QED
  BY <1>5, <1>6

LEMMA ExecutorKeeps ==
  ASSUME IInv, NEW c \in Threads, Executor(c)
  PROVE  IInv'
<1>1. LedgerType /\ Working /\ ThreadType
  BY Parts
<1>2. CASE TurnedAway(c)
  <2>1. PICK v \in {"refused", "error"} : stage[c] = "called" /\ Leave(c, v) /\ UNCHANGED ledger
    BY <1>2 DEF TurnedAway
  <2>2. v \in Endings
    BY DEF Endings
  <2> QED
    BY <2>1, <2>2, LeaveKeeps
<1>3. CASE QueueTimesOut(c)
  <2>1. "capacity" \in Endings
    BY DEF Endings
  <2> QED
    BY <1>3, <2>1, LeaveKeeps DEF QueueTimesOut
<1>4. CASE TakeSlot(c)
  <2>1. /\ stage' = [stage EXCEPT ![c] = "slot"] /\ stage[c] = "called"
        /\ UNCHANGED <<run, task, verdict, answers, ledger, sinceCheck>>
    BY <1>4 DEF TakeSlot, others
  <2> QED
    BY <2>1, StageKeeps
<1>5. CASE ToolStarts(c)
  BY <1>5, ToolStartsKeeps
<1>6. CASE ReserveRefused(c)
  <2>1. "budget" \in Endings
    BY DEF Endings
  <2>2. stage[c] = "slot" /\ Ends(c, "budget") /\ usage' = usage /\ reserved' = reserved
    BY <1>6 DEF ReserveRefused, ReserveFails, counted
  <2>3. Spoken' <= Spoken
    BY <1>1, <2>2, SpokenType DEF Spoken
  <2> QED
    BY <1>1, <2>1, <2>2, <2>3, EndsKeeps DEF LedgerType
<1>7. CASE ToolAnswers(c) \/ CommitRefused(c) \/ ToolBreaks(c)
  BY <1>7, ToolEndsKeeps
<1>8. CASE Returns(c)
  <2>1. stage[c] = "ended" /\ Leave(c, verdict[c]) /\ UNCHANGED ledger
    BY <1>8 DEF Returns
  <2>2. verdict[c] \in Endings
    BY <1>1, <2>1 DEF Working, ThreadType
  <2> QED
    BY <2>1, <2>2, LeaveKeeps
<1> QED
  BY <1>2, <1>3, <1>4, <1>5, <1>6, <1>7, <1>8 DEF Executor

LEMMA StutterKeeps ==
  ASSUME IInv, UNCHANGED vars
  PROVE  IInv'
<1>1. RunInv /\ ThreadType /\ Working /\ LedgerType /\ Booked /\ LayerStaysAdmitted
  BY Parts
<1>2. UNCHANGED <<run, threads, usage, reserved, hold, sinceCheck>>
  BY DEF vars, ledger, counted, others
<1>3. RunInv'
  BY <1>1, <1>2, RunKept
<1>4. ThreadType' /\ Working' /\ LedgerType'
  BY <1>1, <1>2 DEF ThreadType, Working, LedgerType
<1>5. Booked'
  BY <1>1, <1>2, BooksKept
<1>6. LayerStaysAdmitted'
  BY <1>1, <1>2 DEF LayerStaysAdmitted
<1> QED
  BY <1>3, <1>4, <1>5, <1>6, PartsNext

LEMMA InvNext == IInv /\ [Next]_vars => IInv'
<1> SUFFICES ASSUME IInv, [Next]_vars
             PROVE  IInv'
  OBVIOUS
<1>1. CASE Run
  BY <1>1, RunStep
<1>2. ASSUME NEW w \in Workers, Claim(w)
      PROVE  IInv'
  BY <1>2, ClaimKeeps
<1>3. ASSUME NEW c \in Others, OtherCalls(c)
      PROVE  IInv'
  <2>1. /\ stage' = [stage EXCEPT ![c] = "called"] /\ c \in Threads /\ c \notin Workers
        /\ UNCHANGED <<run, task, verdict, answers, ledger, sinceCheck>>
    BY <1>3, ThreadsAssumption DEF OtherCalls, Threads
  <2> QED
    BY <2>1, StageKeeps
<1>4. ASSUME NEW c \in Threads, Executor(c)
      PROVE  IInv'
  BY <1>4, ExecutorKeeps
<1>5. CASE UNCHANGED vars
  BY <1>5, StutterKeeps
<1> QED
  BY <1>1, <1>2, <1>3, <1>4, <1>5 DEF Next

LEMMA InvInit == Init => IInv
<1> SUFFICES ASSUME Init
             PROVE  IInv
  OBVIOUS
<1> USE DEF Init
<1>1. LastTask \in Nat /\ LastTask >= 1
  BY TasksAssumption
<1>2. Graph /\ Completed[0] = {}
  BY CompletedLayers DEF Graph
<1>3. ~ AtLayer /\ layer - 1 = 0
  BY DEF AtLayer
<1>4. Typed
  BY <1>1, <1>2, AmountFacts DEF Typed, RunType, ThreadType, LedgerType, Phase, Stages
<1>5. Phases
  BY <1>3 DEF Phases
<1>6. Working /\ Booked
  BY DEF Working, Booked, Threads
<1>7. \A t \in Tasks : ~ InWork(t)
  BY NilAssumption DEF InWork
<1>8. Records
  BY <1>2, <1>3, <1>7 DEF Records, Untouched
<1> QED
  BY <1>4, <1>5, <1>6, <1>8 DEF IInv, ErrorIsFirst, LayerStaysAdmitted

LEMMA Invariant == Spec => []IInv
BY InvInit, InvNext, PTL DEF Spec

-------------------------------------------------------------------------------
(* What calls hold.                                                          *)

Busy == {c \in Threads : stage[c] \in {"slot", "running", "ended"}}
Running == {c \in Threads : stage[c] = "running"}

\* Only a call that runs carries a reservation.
Carried == \A c \in Threads : stage[c] # "running" => hold[c] = Nil

Slots == IsFiniteSet(Busy) /\ held = Cardinality(Busy)

\* What is reserved is what the calls that run reserved, each under its own number.
Reserves ==
  /\ reservations = {hold[c] : c \in Running}
  /\ \A c, d \in Running : hold[c].id = hold[d].id => c = d
  /\ reserved = [d \in Ledger!Dimension |-> Cardinality(Running) * Estimate[d]]

ChargedEndings == {"succeeded", "reported", "overlong"}

Charging(w) == stage[w] = "ended" /\ verdict[w] \in ChargedEndings

\* Tasks whose tool answered, the worker back or still on its way.
Spent ==
  {t \in Tasks : answers[t] \in ChargedEndings \/ \E w \in Workers : Charging(w) /\ task[w] = t}

Charged ==
  /\ otherCharges \in Nat
  /\ usage["tool_calls"] = otherCharges + Cardinality(Spent)

Books == Carried /\ Slots /\ Reserves /\ Charged

LEMMA SpentFinite == IsFiniteSet(Spent) /\ Cardinality(Spent) \in Nat
<1>1. IsFiniteSet(Spent)
  BY TasksFinite, FS_Subset DEF Spent
<1> QED
  BY <1>1, FS_CardinalityType

LEMMA RunningFinite ==
  ASSUME Slots
  PROVE  IsFiniteSet(Running) /\ Cardinality(Running) \in Nat
<1>1. Running \subseteq Busy
  BY DEF Running, Busy
<1> QED
  BY <1>1, FS_Subset, FS_CardinalityType DEF Slots

LEMMA StageMoves ==
  ASSUME ThreadType, NEW c \in Threads, NEW s, stage' = [stage EXCEPT ![c] = s]
  PROVE  /\ Busy' = IF s \in {"slot", "running", "ended"} THEN Busy \union {c} ELSE Busy \ {c}
         /\ Running' = IF s = "running" THEN Running \union {c} ELSE Running \ {c}
         /\ stage'[c] = s /\ \A d \in Threads \ {c} : stage'[d] = stage[d]
<1>1. stage'[c] = s /\ \A d \in Threads \ {c} : stage'[d] = stage[d]
  BY DEF ThreadType
<1>2. Busy' = IF s \in {"slot", "running", "ended"} THEN Busy \union {c} ELSE Busy \ {c}
  BY <1>1 DEF Busy
<1>3. Running' = IF s = "running" THEN Running \union {c} ELSE Running \ {c}
  BY <1>1 DEF Running
<1> QED
  BY <1>1, <1>2, <1>3

\* The task a worker is busy with has no answer yet, and no other worker has it.
LEMMA TaskInHand ==
  ASSUME IInv, NEW w \in Workers, stage[w] # "idle"
  PROVE  /\ task[w] \in Tasks /\ answers[task[w]] = Nil
         /\ \A v \in Workers \ {w} : task[v] # task[w]
<1>1. RunInv /\ ThreadType /\ Working
  BY Parts
<1>2. Phases /\ Records /\ RunType
  BY DEF IInv, Typed
<1>3. task[w] \in Tasks /\ \A v \in Workers \ {w} : task[v] # task[w]
  BY <1>1 DEF Working, ThreadType
<1>4. phase = "dispatching" /\ AtLayer
  BY <1>2, <1>3, NilAssumption DEF Phases, AtLayer
<1>5. InWork(task[w])
  BY DEF InWork
<1>6. task[w] \in Completed[layer]
  BY <1>2, <1>3, <1>4, <1>5 DEF Records, Untouched
<1>7. task[w] \notin Completed[layer - 1]
  BY <1>2, <1>3, <1>5 DEF Records, Final
<1>8. Current(task[w])
  BY <1>2, <1>3, <1>4, <1>6, <1>7 DEF Records, Layer
<1>9. answers[task[w]] = Nil
  BY <1>5, <1>8 DEF Current
<1> QED
  BY <1>3, <1>9

\* A step that lets nobody start or end, and leaves the reservations alone.
LEMMA HoldsStay ==
  ASSUME Books, Running' = Running, UNCHANGED <<hold, reservations, reserved>>
  PROVE  Carried' /\ Reserves'
<1>1. Estimate' = Estimate
  BY DEF Estimate, Ledger!ToolEstimate, Ledger!Zero, Ledger!Dimension
<1>2. \A c \in Threads : stage'[c] = "running" <=> stage[c] = "running"
  BY DEF Running
<1>3. Carried'
  BY <1>2 DEF Books, Carried
<1>4. Ledger!Dimension' = Ledger!Dimension
  BY DEF Ledger!Dimension
<1>5. Reserves'
  BY <1>1, <1>4 DEF Books, Reserves
<1> QED
  BY <1>3, <1>5

\* A step that keeps every part of the books.
LEMMA BooksStay ==
  ASSUME Books, Busy' = Busy, Running' = Running, Spent' = Spent,
         UNCHANGED <<held, hold, reservations, reserved, usage, otherCharges>>
  PROVE  Books'
<1>1. Carried' /\ Reserves'
  BY HoldsStay
<1>2. Slots'
  BY DEF Books, Slots
<1>3. Charged'
  BY DEF Books, Charged
<1> QED
  BY <1>1, <1>2, <1>3 DEF Books

LEMMA IdleBooks ==
  ASSUME Books, UNCHANGED <<threads, held, ledger, otherCharges>>
  PROVE  Books'
<1>1. Busy' = Busy /\ Running' = Running /\ Spent' = Spent
  BY DEF threads, Busy, Running, Spent, Charging
<1> QED
  BY <1>1, BooksStay DEF ledger, counted

\* A thread begins a call.
LEMMA CallBooks ==
  ASSUME IInv, Books, NEW c \in Threads, stage[c] = "idle", stage' = [stage EXCEPT ![c] = "called"],
         \A w \in Workers \ {c} : task'[w] = task[w],
         UNCHANGED <<verdict, answers, held, ledger, otherCharges>>
  PROVE  Books'
<1>1. ThreadType
  BY Parts
<1>2. Busy' = Busy /\ Running' = Running
  BY <1>1, StageMoves DEF Busy, Running
<1>3. \A w \in Workers : (Charging(w) <=> Charging(w)') /\ (Charging(w) => task'[w] = task[w])
  BY <1>1, StageMoves DEF Charging, Threads
<1>4. Spent' = Spent
  BY <1>3 DEF Spent
<1> QED
  BY <1>2, <1>4, BooksStay DEF ledger, counted

\* A call that never had a slot.
LEMMA TurnedAwayBooks ==
  ASSUME IInv, Books, NEW c \in Threads, stage[c] = "called", NEW v, v \notin ChargedEndings,
         Leave(c, v), UNCHANGED <<held, ledger>>
  PROVE  Books'
<1>1. ThreadType
  BY Parts
<1>2. /\ stage' = [stage EXCEPT ![c] = "idle"] /\ verdict' = [verdict EXCEPT ![c] = Nil]
      /\ otherCharges' = otherCharges
  BY DEF Leave, others
<1>3. Busy' = Busy /\ Running' = Running
  BY <1>1, <1>2, StageMoves DEF Busy, Running
<1>4. \A w \in Workers : /\ Charging(w) <=> Charging(w)'
                         /\ Charging(w) => w # c
  BY <1>1, <1>2, StageMoves DEF Charging, Threads, ThreadType
<1>5. Spent' = Spent
  <2>1. CASE c \in Workers
    <3>1. /\ answers' = [answers EXCEPT ![task[c]] = v] /\ task' = [task EXCEPT ![c] = Nil]
          /\ task[c] \in Tasks /\ answers[task[c]] = Nil
      BY <2>1, TaskInHand DEF Leave
    <3>2. \A w \in Workers \ {c} : task'[w] = task[w]
      BY <1>1, <3>1 DEF ThreadType
    <3>3. \A t \in Tasks : answers'[t] \in ChargedEndings <=> answers[t] \in ChargedEndings
      BY <1>1, <3>1, NilAssumption DEF ThreadType, ChargedEndings, Endings
    <3> QED
      BY <1>4, <3>2, <3>3 DEF Spent
  <2>2. CASE c \notin Workers
    BY <1>4, <2>2 DEF Leave, Spent
  <2> QED
    BY <2>1, <2>2
<1> QED
  BY <1>2, <1>3, <1>5, BooksStay DEF ledger, counted

LEMMA SlotBooks ==
  ASSUME IInv, Books, NEW c \in Threads, TakeSlot(c)
  PROVE  Books'
<1>1. ThreadType /\ Slots
  BY Parts DEF Books
<1>2. /\ stage[c] = "called" /\ stage' = [stage EXCEPT ![c] = "slot"] /\ held' = held + 1
      /\ UNCHANGED <<task, verdict, answers, ledger, otherCharges>>
  BY DEF TakeSlot, others
<1>3. Busy' = Busy \union {c} /\ c \notin Busy /\ Running' = Running
  BY <1>1, <1>2, StageMoves DEF Busy, Running
<1>4. Slots'
  BY <1>1, <1>2, <1>3, FS_AddElement DEF Slots
<1>5. \A w \in Workers : Charging(w) <=> Charging(w)'
  BY <1>1, <1>2, StageMoves DEF Charging, Threads
<1>6. Spent' = Spent
  BY <1>2, <1>5 DEF Spent
<1>7. Carried' /\ Reserves'
  BY <1>2, <1>3, HoldsStay DEF ledger, counted
<1>8. Charged'
  BY <1>2, <1>6 DEF Books, Charged, ledger, counted
<1> QED
  BY <1>4, <1>7, <1>8 DEF Books

\* The worker that returns gives its slot back and its task the answer.
LEMMA ReturnBooks ==
  ASSUME IInv, Books, NEW c \in Threads, Returns(c)
  PROVE  Books'
<1>1. ThreadType /\ Slots
  BY Parts DEF Books
<1>2. /\ stage[c] = "ended" /\ held' = held - 1
      /\ stage' = [stage EXCEPT ![c] = "idle"] /\ verdict' = [verdict EXCEPT ![c] = Nil]
      /\ UNCHANGED <<ledger, otherCharges>>
  BY DEF Returns, Leave, others
<1>3. Busy' = Busy \ {c} /\ c \in Busy /\ Running' = Running
  BY <1>1, <1>2, StageMoves DEF Busy, Running
<1>4. Slots'
  BY <1>1, <1>2, <1>3, FS_RemoveElement DEF Slots
<1>5. \A w \in Workers \ {c} : Charging(w) <=> Charging(w)'
  BY <1>1, <1>2, StageMoves DEF Charging, Threads, ThreadType
<1>6. ~ Charging(c)'
  BY <1>1, <1>2, StageMoves DEF Charging
<1>7. Spent' = Spent
  <2>1. CASE c \in Workers
    <3>1. /\ answers' = [answers EXCEPT ![task[c]] = verdict[c]]
          /\ task' = [task EXCEPT ![c] = Nil] /\ task[c] \in Tasks /\ answers[task[c]] = Nil
      BY <1>2, <2>1, TaskInHand DEF Returns, Leave
    <3>2. \A w \in Workers \ {c} : task'[w] = task[w]
      BY <1>1, <3>1 DEF ThreadType
    <3>3. ASSUME NEW t \in Tasks, t # task[c]
          PROVE  t \in Spent' <=> t \in Spent
      <4>1. answers'[t] = answers[t]
        BY <1>1, <3>1, <3>3 DEF ThreadType
      <4> QED
        BY <1>5, <1>6, <3>2, <3>3, <4>1 DEF Spent
    <3>4. task[c] \in Spent' <=> verdict[c] \in ChargedEndings
      <4>1. answers'[task[c]] = verdict[c]
        BY <1>1, <3>1 DEF ThreadType
      <4>2. \A w \in Workers \ {c} : task'[w] # task[c]
        BY <1>2, <2>1, <3>2, TaskInHand
      <4> QED
        BY <1>6, <3>1, <4>1, <4>2 DEF Spent
    <3>5. task[c] \in Spent <=> verdict[c] \in ChargedEndings
      <4>1. \A w \in Workers \ {c} : task[w] # task[c]
        BY <1>2, <2>1, TaskInHand
      <4>2. Nil \notin ChargedEndings
        BY NilAssumption DEF ChargedEndings, Endings
      <4> QED
        BY <1>2, <2>1, <3>1, <4>1, <4>2 DEF Spent, Charging
    <3> QED
      BY <3>3, <3>4, <3>5 DEF Spent
  <2>2. CASE c \notin Workers
    <3>1. UNCHANGED <<answers, task>>
      BY <2>2 DEF Returns, Leave
    <3> QED
      BY <1>5, <2>2, <3>1 DEF Spent
  <2> QED
    BY <2>1, <2>2
<1>8. Carried' /\ Reserves'
  BY <1>2, <1>3, HoldsStay DEF ledger, counted
<1>9. Charged'
  BY <1>2, <1>7 DEF Books, Charged, ledger, counted
<1> QED
  BY <1>4, <1>8, <1>9 DEF Books

\* So many deadlines: one more, one less, and one of them is there to be given up.
LEMMA Multiples ==
  ASSUME NEW k \in Nat, NEW e \in Nat
  PROVE  /\ (k + 1) * e = k * e + e
         /\ k * e \in Nat /\ 0 * e = 0
         /\ k # 0 => (k - 1) * e = k * e - e /\ e <= k * e
<1>1. (k + 1) * e = k * e + e /\ k * e \in Nat /\ 0 * e = 0
  OBVIOUS
<1>2. ASSUME k # 0
      PROVE  (k - 1) * e = k * e - e /\ e <= k * e
  <2>1. k - 1 \in Nat /\ (k - 1) * e \in Nat
    BY <1>2
  <2>2. (k - 1) * e = k * e - e
    OBVIOUS
  <2> QED
    BY <2>1, <2>2
<1> QED
  BY <1>1, <1>2

\* A call that goes on inside the executor, as the tasks it may be charged for see it.
LEMMA InsideBooks ==
  ASSUME IInv, NEW c \in Threads, stage[c] \in {"slot", "running"}, NEW s \in {"running", "ended"},
         stage' = [stage EXCEPT ![c] = s], UNCHANGED <<task, answers>>,
         \A w \in Workers \ {c} : verdict'[w] = verdict[w]
  PROVE  /\ Busy' = Busy
         /\ Spent' = IF c \in Workers /\ s = "ended" /\ verdict'[c] \in ChargedEndings
                     THEN Spent \union {task[c]} ELSE Spent
         /\ c \in Workers => task[c] \in Tasks \ Spent
<1>1. ThreadType
  BY Parts
<1>2. Busy' = Busy
  BY <1>1, StageMoves DEF Busy
<1>3. \A w \in Workers \ {c} : Charging(w) <=> Charging(w)'
  BY <1>1, StageMoves DEF Charging, Threads
<1>4. ~ Charging(c)
  BY DEF Charging
<1>5. c \in Workers => (Charging(c)' <=> s = "ended" /\ verdict'[c] \in ChargedEndings)
  BY <1>1, StageMoves DEF Charging
<1>6. c \in Workers => task[c] \in Tasks \ Spent
  <2>1. SUFFICES ASSUME c \in Workers
                 PROVE  task[c] \in Tasks \ Spent
    OBVIOUS
  <2>2. /\ task[c] \in Tasks /\ answers[task[c]] = Nil
        /\ \A v \in Workers \ {c} : task[v] # task[c]
    BY <2>1, TaskInHand
  <2>3. Nil \notin ChargedEndings
    BY NilAssumption DEF ChargedEndings, Endings
  <2> QED
    BY <1>4, <2>2, <2>3 DEF Spent
<1>7. Spent' = IF c \in Workers /\ s = "ended" /\ verdict'[c] \in ChargedEndings
               THEN Spent \union {task[c]} ELSE Spent
  BY <1>3, <1>4, <1>5, <1>6 DEF Spent
<1> QED
  BY <1>2, <1>6, <1>7

\* The tool starts with a number nobody has.
LEMMA StartBooks ==
  ASSUME IInv, Books, NEW c \in Threads, ToolStarts(c)
  PROVE  Books'
<1>1. ThreadType /\ LedgerType /\ Slots /\ Reserves
  BY Parts DEF Books
<1> PICK n \in 1 .. (LastTask + MaxOther) :
       /\ Ledger!Reserve(n, Estimate)
       /\ hold' = [hold EXCEPT ![c] = [id |-> n, usage |-> Estimate]]
  BY DEF ToolStarts
<1>2. /\ stage[c] = "slot" /\ stage' = [stage EXCEPT ![c] = "running"]
      /\ UNCHANGED <<task, verdict, answers, held, otherCharges>>
  BY DEF ToolStarts
<1>3. Busy' = Busy /\ Spent' = Spent
  BY <1>2, InsideBooks
<1>4. Running' = Running \union {c} /\ c \notin Running
  BY <1>1, <1>2, StageMoves DEF Running
<1>5. hold'[c] = [id |-> n, usage |-> Estimate] /\ \A d \in Threads \ {c} : hold'[d] = hold[d]
  BY <1>1 DEF LedgerType
<1>6. Estimate' = Estimate
  BY DEF Estimate, Ledger!ToolEstimate, Ledger!Zero, Ledger!Dimension
<1>7. Carried'
  BY <1>1, <1>2, <1>5, StageMoves DEF Books, Carried
<1>8. Slots'
  BY <1>1, <1>2, <1>3 DEF Slots
<1>9. /\ reservations' = reservations \union {[id |-> n, usage |-> Estimate]}
      /\ n \notin {r.id : r \in reservations} /\ usage' = usage
      /\ reserved' = [d \in Ledger!Dimension |-> reserved[d] + Estimate[d]]
  BY DEF Ledger!Reserve, Ledger!IsNextId, Ledger!Plus
<1>10. Reserves'
  <2>1. reservations' = {hold'[d] : d \in Running'}
    <3>1. \A d \in Running : hold'[d] = hold[d]
      BY <1>4, <1>5 DEF Running
    <3> QED
      BY <1>1, <1>4, <1>5, <1>9, <3>1 DEF Reserves
  <2>2. ASSUME NEW d \in Running', NEW e \in Running', hold'[d].id = hold'[e].id
        PROVE  d = e
    <3>1. \A f \in Running : hold'[f] = hold[f] /\ hold[f].id # n
      BY <1>1, <1>4, <1>5, <1>9 DEF Running, Reserves
    <3>2. hold'[c].id = n
      BY <1>5
    <3> QED
      BY <1>1, <1>4, <2>2, <3>1, <3>2 DEF Reserves
  <2>3. Cardinality(Running') = Cardinality(Running) + 1 /\ Cardinality(Running) \in Nat
    BY <1>1, <1>4, RunningFinite, FS_AddElement
  <2>4. ASSUME NEW d \in Ledger!Dimension
        PROVE  reserved[d] + Estimate[d] = Cardinality(Running') * Estimate[d]
    <3>1. Estimate[d] \in Nat /\ reserved[d] = Cardinality(Running) * Estimate[d]
      BY <1>1, AmountFacts DEF Reserves, Ledger!Usage
    <3> QED
      BY <2>3, <3>1, Multiples
  <2> QED
    BY <1>6, <1>9, <2>1, <2>2, <2>3, <2>4 DEF Reserves, Ledger!Dimension
<1>11. Charged'
  BY <1>2, <1>3, <1>9 DEF Books, Charged
<1> QED
  BY <1>7, <1>8, <1>10, <1>11 DEF Books

\* A call that ran gives up its own reservation and no other.
LEMMA GivesUp ==
  ASSUME IInv, Books, NEW c \in Threads, stage[c] = "running",
         stage' = [stage EXCEPT ![c] = "ended"], hold' = [hold EXCEPT ![c] = Nil],
         reservations' = Ledger!Without(hold[c]), reserved' = Ledger!Minus(reserved, Estimate)
  PROVE  Carried' /\ Reserves'
<1>1. ThreadType /\ LedgerType /\ Slots /\ Reserves
  BY Parts DEF Books
<1>2. Running' = Running \ {c} /\ c \in Running
  BY <1>1, StageMoves DEF Running
<1>3. hold'[c] = Nil /\ \A d \in Threads \ {c} : hold'[d] = hold[d]
  BY <1>1 DEF LedgerType
<1>4. Carried'
  BY <1>1, <1>3, StageMoves DEF Books, Carried
<1>5. reservations' = {hold'[d] : d \in Running'}
  <2>1. reservations' = {r \in reservations : r.id # hold[c].id}
    BY DEF Ledger!Without
  <2>2. \A d \in Running \ {c} : hold'[d] = hold[d] /\ hold[d].id # hold[c].id
    BY <1>1, <1>2, <1>3 DEF Running, Reserves
  <2> QED
    BY <1>1, <1>2, <2>1, <2>2 DEF Reserves
<1>6. \A d, e \in Running' : hold'[d].id = hold'[e].id => d = e
  BY <1>1, <1>2, <1>3 DEF Running, Reserves
<1>7. reserved' = [d \in Ledger!Dimension |-> Cardinality(Running') * Estimate[d]]
  <2>1. Cardinality(Running') = Cardinality(Running) - 1 /\ Cardinality(Running) \in Nat
        /\ Cardinality(Running) # 0
    BY <1>1, <1>2, RunningFinite, FS_RemoveElement, FS_EmptySet
  <2>2. ASSUME NEW d \in Ledger!Dimension
        PROVE  reserved[d] - Estimate[d] = Cardinality(Running') * Estimate[d]
    <3>1. Estimate[d] \in Nat /\ reserved[d] = Cardinality(Running) * Estimate[d]
      BY <1>1, AmountFacts DEF Reserves, Ledger!Usage
    <3> QED
      BY <2>1, <3>1, Multiples
  <2> QED
    BY <2>2 DEF Ledger!Minus
<1>8. Estimate' = Estimate
  BY DEF Estimate, Ledger!ToolEstimate, Ledger!Zero, Ledger!Dimension
<1> QED
  BY <1>4, <1>5, <1>6, <1>7, <1>8 DEF Reserves, Ledger!Dimension

\* The reservation of a call that runs can be given up.
LEMMA CanGiveUp ==
  ASSUME IInv, Books, NEW c \in Threads, stage[c] = "running"
  PROVE  hold[c] \in reservations /\ hold[c].usage = Estimate /\ Ledger!AtMost(Estimate, reserved)
<1>1. Booked /\ Slots /\ Reserves /\ c \in Running
  BY Parts DEF Books, Running
<1>2. Cardinality(Running) \in Nat /\ Cardinality(Running) # 0
  BY <1>1, RunningFinite, FS_EmptySet
<1>3. ASSUME NEW d \in Ledger!Dimension
      PROVE  Estimate[d] <= reserved[d]
  <2>1. Estimate[d] \in Nat /\ reserved[d] = Cardinality(Running) * Estimate[d]
    BY <1>1, AmountFacts DEF Reserves, Ledger!Usage
  <2> QED
    BY <1>2, <2>1, Multiples
<1> QED
  BY <1>1, <1>3 DEF Booked, Reserves, Ledger!AtMost

\* A call ends: its stage moves on, and it carries nothing any more.
LEMMA EndsMeans ==
  ASSUME IInv, NEW c \in Threads, NEW v, Ends(c, v)
  PROVE  /\ stage' = [stage EXCEPT ![c] = "ended"] /\ hold' = [hold EXCEPT ![c] = Nil]
         /\ verdict'[c] = v /\ \A d \in Threads \ {c} : verdict'[d] = verdict[d]
         /\ UNCHANGED <<task, answers, held>>
         /\ otherCharges' = IF c \in Others /\ v = "succeeded" THEN otherCharges + 1
                            ELSE otherCharges
<1>1. ThreadType
  BY Parts
<1> QED
  BY <1>1 DEF Ends, ThreadType

LEMMA RefusedBooks ==
  ASSUME IInv, Books, NEW c \in Threads, ReserveRefused(c)
  PROVE  Books'
<1>1. ThreadType /\ LedgerType
  BY Parts
<1>2. stage[c] = "slot" /\ Ends(c, "budget") /\ UNCHANGED counted
  BY DEF ReserveRefused, ReserveFails
<1>3. /\ stage' = [stage EXCEPT ![c] = "ended"] /\ hold' = [hold EXCEPT ![c] = Nil]
      /\ verdict'[c] = "budget" /\ \A d \in Threads \ {c} : verdict'[d] = verdict[d]
      /\ UNCHANGED <<task, answers, held, otherCharges>>
  BY <1>2, EndsMeans
<1>4. hold' = hold
  BY <1>1, <1>2, <1>3 DEF Books, Carried, LedgerType
<1>5. Running' = Running
  BY <1>1, <1>2, <1>3, StageMoves DEF Running
<1>6. Busy' = Busy /\ Spent' = Spent
  BY <1>2, <1>3, InsideBooks, ThreadsAssumption DEF ChargedEndings, Threads
<1> QED
  BY <1>2, <1>3, <1>4, <1>5, <1>6, BooksStay DEF counted

\* Nothing was delivered: the reservation is given back and nobody is charged.
LEMMA FailedBooks ==
  ASSUME IInv, Books, NEW c \in Threads, CommitRefused(c) \/ ToolBreaks(c)
  PROVE  Books'
<1> PICK v \in {"overrun", "broken"} : stage[c] = "running" /\ Ledger!Release(hold[c]) /\ Ends(c, v)
  BY DEF CommitRefused, ToolBreaks
<1>1. /\ stage' = [stage EXCEPT ![c] = "ended"] /\ hold' = [hold EXCEPT ![c] = Nil]
      /\ verdict'[c] = v /\ \A d \in Threads \ {c} : verdict'[d] = verdict[d]
      /\ UNCHANGED <<task, answers, held, otherCharges>>
  BY EndsMeans
<1>2. /\ reservations' = Ledger!Without(hold[c]) /\ usage' = usage
      /\ reserved' = Ledger!Minus(reserved, Estimate)
  BY CanGiveUp DEF Ledger!Release
<1>3. Carried' /\ Reserves'
  BY <1>1, <1>2, GivesUp
<1>4. Busy' = Busy /\ Spent' = Spent
  BY <1>1, InsideBooks, ThreadsAssumption DEF ChargedEndings, Threads
<1>5. Slots'
  BY <1>1, <1>4 DEF Books, Slots
<1>6. Charged'
  BY <1>1, <1>2, <1>4 DEF Books, Charged
<1> QED
  BY <1>3, <1>5, <1>6 DEF Books

\* A tool that answers is charged one call: to the worker's task, or to the others.
LEMMA AnswerBooks ==
  ASSUME IInv, Books, NEW c \in Threads, ToolAnswers(c)
  PROVE  Books'
<1> PICK charge \in Charges, v \in ChargedEndings :
      /\ stage[c] = "running"
      /\ c \in Others => v = "succeeded"
      /\ Ledger!Commit(hold[c], charge) /\ Ends(c, v)
  BY DEF ToolAnswers, ChargedEndings
<1>1. LedgerType /\ Booked
  BY Parts
<1>2. /\ stage' = [stage EXCEPT ![c] = "ended"] /\ hold' = [hold EXCEPT ![c] = Nil]
      /\ verdict'[c] = v /\ \A d \in Threads \ {c} : verdict'[d] = verdict[d]
      /\ UNCHANGED <<task, answers, held>>
      /\ otherCharges' = IF c \in Others /\ v = "succeeded" THEN otherCharges + 1
                         ELSE otherCharges
  BY EndsMeans
<1>3. hold[c] \in Ledger!Reservation /\ hold[c].usage = Estimate
  BY <1>1 DEF Booked
<1>4. /\ charge \in Ledger!Usage /\ charge["tool_calls"] = 1
      /\ usage'["tool_calls"] = usage["tool_calls"] + 1
  BY <1>1, <1>3, AmountFacts, CommitMeans
<1>5. reservations' = Ledger!Without(hold[c]) /\ reserved' = Ledger!Minus(reserved, Estimate)
  BY <1>3 DEF Ledger!Commit
<1>6. Carried' /\ Reserves'
  BY <1>2, <1>5, GivesUp
<1>7. /\ Busy' = Busy
      /\ Spent' = IF c \in Workers THEN Spent \union {task[c]} ELSE Spent
      /\ c \in Workers => task[c] \in Tasks \ Spent
  BY <1>2, InsideBooks, ThreadsAssumption DEF Threads
<1>8. Slots'
  BY <1>2, <1>7 DEF Books, Slots
<1>9. Charged'
  <2>1. otherCharges \in Nat /\ usage["tool_calls"] = otherCharges + Cardinality(Spent)
    BY DEF Books, Charged
  <2>2. IsFiniteSet(Spent) /\ Cardinality(Spent) \in Nat
    BY SpentFinite
  <2>3. CASE c \in Workers
    <3>1. Cardinality(Spent') = Cardinality(Spent) + 1 /\ otherCharges' = otherCharges
      BY <1>2, <1>7, <2>2, <2>3, FS_AddElement, ThreadsAssumption
    <3> QED
      BY <1>4, <2>1, <2>2, <3>1 DEF Charged
  <2>4. CASE c \in Others
    <3>1. Spent' = Spent /\ otherCharges' = otherCharges + 1
      BY <1>2, <1>7, <2>4, ThreadsAssumption
    <3> QED
      BY <1>4, <2>1, <2>2, <3>1 DEF Charged
  <2> QED
    BY <2>3, <2>4 DEF Threads
<1> QED
  BY <1>6, <1>8, <1>9 DEF Books

LEMMA BooksNext == IInv /\ Books /\ [Next]_vars => Books'
<1> SUFFICES ASSUME IInv, Books, [Next]_vars
             PROVE  Books'
  OBVIOUS
<1>1. ThreadType
  BY Parts
<1>2. CASE Run \/ UNCHANGED vars
  <2>1. UNCHANGED <<threads, held, ledger, otherCharges>>
    BY <1>2 DEF Run, Refuse, Begin, Admit, Deny, AdmitFails, Collect, Fail, Merge, RunFrame, vars,
                others
  <2> QED
    BY <2>1, IdleBooks
<1>3. ASSUME NEW w \in Workers, Claim(w)
      PROVE  Books'
  <2>1. \A v \in Workers \ {w} : task'[v] = task[v]
    BY <1>1, <1>3 DEF Claim, ThreadType
  <2> QED
    BY <1>3, <2>1, CallBooks DEF Claim, others, Threads
<1>4. ASSUME NEW c \in Others, OtherCalls(c)
      PROVE  Books'
  BY <1>4, CallBooks DEF OtherCalls, Threads
<1>5. ASSUME NEW c \in Threads, TurnedAway(c) \/ QueueTimesOut(c)
      PROVE  Books'
  <2>1. PICK v \in {"refused", "error", "capacity"} :
          stage[c] = "called" /\ Leave(c, v) /\ UNCHANGED <<held, ledger>>
    BY <1>5 DEF TurnedAway, QueueTimesOut
  <2>2. v \notin ChargedEndings
    BY DEF ChargedEndings
  <2> QED
    BY <2>1, <2>2, TurnedAwayBooks
<1> QED
  BY <1>2, <1>3, <1>4, <1>5, SlotBooks, ReturnBooks, StartBooks, RefusedBooks, FailedBooks,
     AnswerBooks DEF Next, Executor

LEMMA BooksInit == Init => Books
<1> SUFFICES ASSUME Init
             PROVE  Books
  OBVIOUS
<1>1. Busy = {} /\ Running = {}
  BY DEF Init, Busy, Running
<1>2. Spent = {}
  BY NilAssumption DEF Init, Spent, Charging, Threads, ChargedEndings, Endings
<1>3. \A d \in Ledger!Dimension : 0 * Estimate[d] = 0
  BY AmountFacts, Multiples DEF Ledger!Usage
<1>4. Carried /\ Slots
  BY <1>1, FS_EmptySet DEF Init, Carried, Slots
<1>5. Reserves
  BY <1>1, <1>3, FS_EmptySet DEF Init, Reserves, Ledger!Zero
<1>6. Charged
  BY <1>2, FS_EmptySet, AmountFacts DEF Init, Charged
<1> QED
  BY <1>4, <1>5, <1>6 DEF Books

LEMMA BooksHold == Spec => [](IInv /\ Books)
BY InvInit, InvNext, BooksInit, BooksNext, PTL DEF Spec

-------------------------------------------------------------------------------
(* The ledger of a run is a BudgetLedger.                                    *)

\* Each step of a call is the ledger's step of that name.
LEMMA StartIsLedgerStep ==
  ASSUME IInv, Books, NEW c \in Threads, ToolStarts(c)
  PROVE  Ledger!Tool(c)
<1> PICK n \in 1 .. (LastTask + MaxOther) :
       /\ Ledger!Reserve(n, Estimate)
       /\ hold' = [hold EXCEPT ![c] = [id |-> n, usage |-> Estimate]]
  BY DEF ToolStarts
<1>1. hold[c] = Nil
  BY DEF ToolStarts, Books, Carried
<1>2. Ledger!Take(c, n, Estimate)
  BY <1>1 DEF Ledger!Take, Ledger!unit
<1>3. Deadline \in (Amounts \union {Deadline}) \ {0}
  BY TimeAssumption
<1> QED
  BY <1>2, <1>3 DEF Ledger!Tool, Ledger!ToolReserves, Estimate

LEMMA EndIsLedgerStep ==
  ASSUME IInv, Books, NEW c \in Threads, ToolAnswers(c) \/ CommitRefused(c) \/ ToolBreaks(c)
  PROVE  Ledger!Tool(c)
<1>1. stage[c] = "running" /\ LedgerType /\ Booked
  BY Parts DEF ToolAnswers, CommitRefused, ToolBreaks
<1>2. hold[c] # Nil /\ hold[c].usage = Estimate
  BY <1>1, LedgerAssumption DEF Booked
<1>3. Ledger!InFlight(c)
  BY <1>2 DEF Ledger!InFlight
<1>4. CASE ToolAnswers(c)
  <2>1. PICK elapsed \in Amounts \intersect 0 .. Deadline, bytes \in Amounts :
          Ledger!Commit(hold[c], Ledger!ToolCharge(elapsed, bytes)) /\ hold' = [hold EXCEPT ![c] = Nil]
    BY <1>4 DEF ToolAnswers, Charges, Ends
  <2>2. elapsed <= hold[c].usage["duration_seconds"]
    <3>1. Estimate["duration_seconds"] = Deadline
      BY DEF Estimate, Ledger!ToolEstimate, Ledger!Zero, Ledger!Dimension
    <3> QED
      BY <1>2, <3>1, TimeAssumption
  <2>3. Ledger!ToolCommits(c, elapsed, bytes)
    BY <1>3, <2>1, <2>2 DEF Ledger!ToolCommits, Ledger!unit
  <2> QED
    BY <2>3 DEF Ledger!Tool
<1>5. CASE CommitRefused(c) \/ ToolBreaks(c)
  <2>1. Ledger!Release(hold[c]) /\ hold' = [hold EXCEPT ![c] = Nil]
    BY <1>5 DEF CommitRefused, ToolBreaks, Ends
  <2>2. Ledger!CallFails(c)
    BY <1>3, <2>1 DEF Ledger!CallFails, Ledger!unit
  <2> QED
    BY <2>2 DEF Ledger!Tool
<1> QED
  BY <1>4, <1>5

\* Every other step leaves the ledger alone.
LEMMA StepIsLedgerStep ==
  ASSUME IInv, Books, [Next]_vars
  PROVE  (\E c \in Threads : Ledger!Tool(c)) \/ UNCHANGED Ledger!vars
<1>1. ASSUME UNCHANGED ledger
      PROVE  UNCHANGED Ledger!vars
  BY <1>1 DEF ledger, counted, Ledger!vars, Ledger!ledger, Ledger!calls, Ledger!unit
<1>2. CASE \/ Run \/ UNCHANGED vars \/ \E w \in Workers : Claim(w)
           \/ \E c \in Others : OtherCalls(c)
  <2>1. UNCHANGED ledger
    BY <1>2 DEF Run, Refuse, Begin, Admit, Deny, AdmitFails, Collect, Fail, Merge, RunFrame,
                vars, Claim, OtherCalls
  <2> QED
    BY <1>1, <2>1
<1>3. ASSUME NEW c \in Threads, TurnedAway(c) \/ QueueTimesOut(c) \/ TakeSlot(c) \/ Returns(c)
      PROVE  UNCHANGED Ledger!vars
  BY <1>1, <1>3 DEF TurnedAway, QueueTimesOut, TakeSlot, Returns
<1>4. ASSUME NEW c \in Threads, ReserveRefused(c)
      PROVE  UNCHANGED Ledger!vars
  <2>1. stage[c] = "slot" /\ hold' = [hold EXCEPT ![c] = Nil] /\ UNCHANGED counted
    BY <1>4 DEF ReserveRefused, ReserveFails, Ends
  <2>2. hold' = hold
    BY <2>1, Parts DEF Books, Carried, LedgerType
  <2> QED
    BY <1>1, <2>1, <2>2 DEF ledger
<1>5. ASSUME NEW c \in Threads, ToolStarts(c) \/ ToolAnswers(c) \/ CommitRefused(c) \/ ToolBreaks(c)
      PROVE  Ledger!Tool(c)
  BY <1>5, StartIsLedgerStep, EndIsLedgerStep
<1> QED
  BY <1>2, <1>3, <1>4, <1>5 DEF Next, Executor

LEMMA InitIsLedgerInit == Init => Ledger!Init
BY DEF Init, Ledger!Init, Ledger!Calls, Ledger!Zero

-------------------------------------------------------------------------------
(* What is proved of the ledger, for the ledger of a run.                    *)

LedgerProofs == INSTANCE BudgetLedgerProofs
                  WITH ToolCalls <- Threads, ModelCalls <- {},
                       Amounts <- Amounts \union {Deadline},
                       MaxReservation <- LastTask + MaxOther, MaxExits <- 0,
                       up <- TRUE, settled <- [c \in Threads |-> FALSE], working <- FALSE,
                       export <- Nil, saved <- Nil, restored <- {}, exits <- 0

\* Both instances define the same: types, arithmetic, operations and a call's steps.
LEMMA SameTypes ==
  /\ LedgerProofs!Usage = Ledger!Usage
  /\ LedgerProofs!Reservation = Ledger!Reservation /\ LedgerProofs!Snapshot = Ledger!Snapshot
BY DEF Ledger!Snapshot, LedgerProofs!Snapshot, Ledger!Reservation, LedgerProofs!Reservation,
       Ledger!Usage, LedgerProofs!Usage, Ledger!Dimension, LedgerProofs!Dimension,
       Ledger!ReservationId, LedgerProofs!ReservationId

LEMMA SameInit == Ledger!Init => LedgerProofs!Init
BY DEF Ledger!Init, LedgerProofs!Init, Ledger!Zero, LedgerProofs!Zero,
       Ledger!Dimension, LedgerProofs!Dimension, Ledger!Calls, LedgerProofs!Calls

LEMMA SameArithmetic ==
  /\ LedgerProofs!Zero = Ledger!Zero
  /\ \A u, v : /\ LedgerProofs!Plus(u, v) = Ledger!Plus(u, v)
               /\ LedgerProofs!Minus(u, v) = Ledger!Minus(u, v)
               /\ LedgerProofs!AtMost(u, v) <=> Ledger!AtMost(u, v)
  /\ \A n : LedgerProofs!IsNextId(n) <=> Ledger!IsNextId(n)
  /\ \A h : LedgerProofs!Without(h) = Ledger!Without(h)
BY DEF Ledger!Zero, LedgerProofs!Zero, Ledger!Plus, LedgerProofs!Plus,
       Ledger!Minus, LedgerProofs!Minus, Ledger!AtMost, LedgerProofs!AtMost,
       Ledger!IsNextId, LedgerProofs!IsNextId, Ledger!Without, LedgerProofs!Without,
       Ledger!Dimension, LedgerProofs!Dimension

LEMMA SameOperations ==
  /\ \A n, charge : Ledger!Reserve(n, charge) => LedgerProofs!Reserve(n, charge)
  /\ \A h, charge : Ledger!Commit(h, charge) => LedgerProofs!Commit(h, charge)
  /\ \A h : Ledger!Release(h) => LedgerProofs!Release(h)
<1>1. \A charge, own : LedgerProofs!Fits(charge, own) <=> Ledger!Fits(charge, own)
  BY SameArithmetic DEF Ledger!Fits, LedgerProofs!Fits
<1> QED
  BY <1>1, SameArithmetic
     DEF Ledger!Reserve, LedgerProofs!Reserve, Ledger!Commit, LedgerProofs!Commit,
         Ledger!Release, LedgerProofs!Release, Ledger!ledger, LedgerProofs!ledger

LEMMA SameTool ==
  ASSUME NEW c \in Threads, Ledger!Tool(c)
  PROVE  LedgerProofs!Tool(c)
<1>1. ASSUME NEW n, NEW deadline, Ledger!ToolReserves(c, n, deadline)
      PROVE  LedgerProofs!ToolReserves(c, n, deadline)
  <2>1. LedgerProofs!ToolEstimate(deadline) = Ledger!ToolEstimate(deadline)
    BY SameArithmetic DEF LedgerProofs!ToolEstimate, Ledger!ToolEstimate
  <2> QED
    BY <1>1, <2>1, SameOperations
       DEF Ledger!ToolReserves, LedgerProofs!ToolReserves, Ledger!Take, LedgerProofs!Take,
           Ledger!unit, LedgerProofs!unit
<1>2. ASSUME NEW elapsed, NEW bytes, Ledger!ToolCommits(c, elapsed, bytes)
      PROVE  LedgerProofs!ToolCommits(c, elapsed, bytes)
  <2>1. LedgerProofs!ToolCharge(elapsed, bytes) = Ledger!ToolCharge(elapsed, bytes)
    BY SameArithmetic DEF LedgerProofs!ToolCharge, Ledger!ToolCharge
  <2> QED
    BY <1>2, <2>1, SameOperations
       DEF Ledger!ToolCommits, LedgerProofs!ToolCommits, Ledger!InFlight, LedgerProofs!InFlight,
           Ledger!unit, LedgerProofs!unit
<1>3. ASSUME Ledger!CallFails(c)
      PROVE  LedgerProofs!CallFails(c)
  BY <1>3, SameOperations
     DEF Ledger!CallFails, LedgerProofs!CallFails, Ledger!InFlight, LedgerProofs!InFlight,
         Ledger!unit, LedgerProofs!unit
<1> QED
  BY <1>1, <1>2, <1>3 DEF Ledger!Tool, LedgerProofs!Tool

\* The constants of a run meet the ledger's assumptions.
LEMMA LedgerAssumed ==
  /\ Limit \in LedgerProofs!Usage /\ Amounts \union {Deadline} \subseteq Nat
  /\ Nil \notin LedgerProofs!Reservation /\ Nil \notin LedgerProofs!Snapshot
  /\ (LastTask + MaxOther) \in Nat /\ 0 \in Nat
BY SameTypes, TasksAssumption, CapacityAssumption, TimeAssumption, LedgerAssumption

\* What holds of a call in flight, said of either instance.
LEMMA SameProperties ==
  /\ LedgerProofs!WithinLimits => Ledger!WithinLimits
  /\ LedgerProofs!HoldersOwn => Ledger!HoldersOwn
  /\ LedgerProofs!NothingLeaks => Ledger!NothingLeaks
BY SameArithmetic
   DEF Ledger!WithinLimits, LedgerProofs!WithinLimits, Ledger!HoldersOwn, LedgerProofs!HoldersOwn,
       Ledger!NothingLeaks, LedgerProofs!NothingLeaks, Ledger!InFlight, LedgerProofs!InFlight,
       Ledger!Calls, LedgerProofs!Calls

LEMMA RunIsProvedLedger == Spec => LedgerProofs!Spec
<1>1. Init => LedgerProofs!Init
  BY InitIsLedgerInit, SameInit
<1>2. IInv /\ Books /\ [Next]_vars => [LedgerProofs!Next]_(LedgerProofs!vars)
  <2> SUFFICES ASSUME IInv, Books, [Next]_vars
               PROVE  [LedgerProofs!Next]_(LedgerProofs!vars)
    OBVIOUS
  <2>1. (\E c \in Threads : LedgerProofs!Tool(c)) \/ UNCHANGED Ledger!vars
    BY StepIsLedgerStep, SameTool
  <2>2. UNCHANGED Ledger!vars => UNCHANGED LedgerProofs!vars
    BY DEF Ledger!vars, LedgerProofs!vars, Ledger!ledger, LedgerProofs!ledger,
           Ledger!calls, LedgerProofs!calls, Ledger!unit, LedgerProofs!unit
  <2> QED
    BY <2>1, <2>2 DEF LedgerProofs!Next
<1> QED
  BY <1>1, <1>2, BooksHold, PTL DEF Spec, LedgerProofs!Spec

-------------------------------------------------------------------------------
(* The theorems.                                                             *)

\* For any graph and any number of threads, a tool runs for a task only when all the
\* task needs succeeded, while nothing that needs it was touched and no other worker
\* has it (AgentCoordinator::run, dependency_layers).
THEOREM ToolsWaitForDependencies == Spec => []DependenciesHeld
BY Invariant, DependenciesFollow, PTL

\* For any interleaving of the threads of a layer, each task comes to what its own call
\* came to or is cancelled for one it depends on, and the error returned is the first in
\* task order (AgentCoordinator::run, after the threads of a layer are joined).
THEOREM OrderDoesNotShow == Spec => []ResultIsSequential
BY Invariant, ResultFollows, PTL

\* For any budget, pool of slots and other callers, an admitted layer loses tool calls
\* only to calls others made since (admission_check and ToolExecutor::execute).
THEOREM AdmissionHolds == Spec => []LayerStaysAdmitted
<1>1. IInv => LayerStaysAdmitted
  BY DEF IInv
<1> QED
  BY <1>1, Invariant, PTL

\* Whatever the run, its workers and other callers do to the budget they share is what
\* BudgetLedger lets calls do, or nothing: what is proved of the ledger for any calls
\* holds in every run (ToolExecutor::execute on BudgetLedger).
THEOREM RunIsOnTheLedger == Spec => Ledger!Spec
<1>1. IInv /\ Books /\ [Next]_vars => [Ledger!Next]_(Ledger!vars)
  BY StepIsLedgerStep DEF Ledger!Next
<1> QED
  BY <1>1, BooksHold, InitIsLedgerInit, PTL DEF Spec, Ledger!Spec

\* So the run and whoever else calls the executor never overdraw the budget, whatever is
\* reserved, used and given back at once; each call that runs owns its reservation, and
\* no reservation is left without one (BudgetLedger::check_locked, commit_charge, release).
THEOREM RunKeepsTheBudget ==
  Spec => [](Ledger!WithinLimits /\ Ledger!HoldersOwn /\ Ledger!NothingLeaks)
BY LedgerAssumed, RunIsProvedLedger, SameProperties, LedgerProofs!NeverOversubscribed,
   LedgerProofs!ReservationsAreOwned, LedgerProofs!NothingIsLeaked, PTL

Returned == phase \in {"done", "failed", "refused"} /\ \A c \in Threads : stage[c] = "idle"

\* A run that returned, with the others' calls over, has settled: no slot and no
\* reservation is held, and the tool calls charged are those whose tool answered,
\* whichever call failed where (AgentCoordinator::run and ToolExecutor::execute).
THEOREM ReturnedIsSettled == Spec => [](Returned => Settled)
<1>1. Books /\ Returned => Settled
  <2> SUFFICES ASSUME Books, Returned
               PROVE  Settled
    OBVIOUS
  <2>1. Busy = {} /\ Running = {}
    BY DEF Returned, Busy, Running
  <2>2. held = 0 /\ reservations = {}
    BY <2>1, FS_EmptySet DEF Books, Slots, Reserves
  <2>3. reserved = Ledger!Zero
    <3>1. \A d \in Ledger!Dimension : 0 * Estimate[d] = 0
      BY AmountFacts, Multiples DEF Ledger!Usage
    <3> QED
      BY <2>1, <3>1, FS_EmptySet DEF Books, Reserves, Ledger!Zero
  <2>4. Spent = {t \in Tasks : answers[t] \in {"succeeded", "reported", "overlong"}}
    BY DEF Returned, Spent, Charging, ChargedEndings, Threads
  <2> QED
    BY <2>2, <2>3, <2>4 DEF Books, Charged, Returned, Settled
<1> QED
  BY <1>1, BooksHold, PTL
===============================================================================
