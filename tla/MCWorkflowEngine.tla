-------------------------- MODULE MCWorkflowEngine --------------------------
(***************************************************************************)
(* Two threads share one engine.  The definition has a plain step and a    *)
(* gated step that may be tried twice, so that a failed try, a replan or   *)
(* the other thread lands between an approval and its use.                 *)
(***************************************************************************)
EXTENDS WorkflowEngine, TLC

Chain == <<[from |-> "empty", to |-> "drafted", step |-> "draft", gate |-> FALSE],
           [from |-> "drafted", to |-> "released", step |-> "release", gate |-> TRUE]>>

Limits == [s \in Steps |-> IF s = "release" THEN 2 ELSE 1]

Symmetry == Permutations(Callers)

=============================================================================
