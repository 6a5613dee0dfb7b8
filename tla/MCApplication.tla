---------------------------- MODULE MCApplication ----------------------------
(***************************************************************************)
(* Application for TLC: one workflow of a plain and a gated step, and the  *)
(* drafts of one design.                                                   *)
(***************************************************************************)
EXTENDS Application, TLC

CONSTANTS t1, t2, t3

Chain == <<[from |-> "empty", to |-> "drafted", step |-> "draft", gate |-> FALSE],
           [from |-> "drafted", to |-> "released", step |-> "release", gate |-> TRUE]>>

Limits == [s \in Steps |-> 1]

\* One thread commits revisions, one runs the workflow, and two decide its checkpoint.
Roles == [t \in Threads |-> CASE t = t1 -> {"prepare", "decide"}
                             [] t = t2 -> {"run", "checkpoint"}
                             [] OTHER  -> {"checkpoint"}]

\* A bound: the third thread and the second draft are not in one behaviour.
OneCrowd == task[t3] # None => \A r \in db.prepared : r.draft = Own

=============================================================================
