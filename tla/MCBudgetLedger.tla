---------------------------- MODULE MCBudgetLedger ----------------------------
(***************************************************************************)
(* BudgetLedger on small sets, for TLC.                                     *)
(***************************************************************************)
EXTENDS BudgetLedger, TLC

CONSTANTS t1, m1, m2

\* Two calls of each kind fit and a third does not; a call may use more than it
\* estimated of everything but its own count.
MCLimit ==
  [d \in Dimension |-> CASE d \in {"model_calls", "tool_calls"} -> 2
                         [] d \in {"artifact_bytes", "duration_seconds", "total_tokens"} -> 1
                         [] OTHER -> 0]

Symmetry == Permutations(ToolCalls) \union Permutations(ModelCalls)
===============================================================================
