-------------------------- MODULE MCAgentCoordinator --------------------------
(***************************************************************************)
(* AgentCoordinator on small sets, for TLC.                                 *)
(***************************************************************************)
EXTENDS AgentCoordinator

CONSTANTS w1, w2, o1

\* A layer of three does not fit, a layer of two does unless somebody else is
\* quicker; two deadlines can be reserved at a time, and one artifact charged.
MCLimit ==
  [model_calls |-> 0, tool_calls |-> 2, total_tokens |-> 0, artifact_bytes |-> 1,
   duration_seconds |-> 2, cost |-> 0, replanning_attempts |-> 0]
===============================================================================
