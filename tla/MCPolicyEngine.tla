--------------------------- MODULE MCPolicyEngine ---------------------------
(***************************************************************************)
(* Three requests for room of two: a tool call, the same call after the    *)
(* workspace and with it the action changed, a repeat of its first form    *)
(* under another id, which its tool class lets through, and a plain call.  *)
(***************************************************************************)
EXTENDS PolicyEngine, TLC

Call(id, state, action, kind) ==
  [id |-> id, state |-> state, action |-> action, caps |-> {"read"}, kind |-> kind]

Asked == {Call("first", "s1", "a", "class"), Call("first", "s2", "b", "class"),
          Call("repeat", "s1", "a", "class"), Call("third", "s1", "b", "plain")}

Symmetry == Permutations(Refused)

=============================================================================
