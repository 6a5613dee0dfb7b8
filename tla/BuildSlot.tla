------------------------------- MODULE BuildSlot -------------------------------
(***************************************************************************)
(* What the bridge promises about the one Solid Edge slot (jobs.py, module  *)
(* docstring; docs/adr/0008, D4): a build holds the slot from its admission *)
(* until its outcome is known, an execution happens only while the build    *)
(* holds the slot, and an unknown outcome keeps the slot until an operator  *)
(* releases it.  How many threads, processes and files that takes is left   *)
(* to JobManager.                                                           *)
(***************************************************************************)
CONSTANT BuildIds

VARIABLES
  phase,     \* what the ledger says of each build
  native,    \* what Solid Edge did with it
  released   \* builds an operator has let go

vars == <<phase, native, released>>

Holds(b) == phase[b] \in {"queued", "running", "unknown"}

Init ==
  /\ phase = [b \in BuildIds |-> "new"]
  /\ native = [b \in BuildIds |-> "idle"]
  /\ released = {}

\* The slot is free and the build is new.
Admit(b) ==
  /\ phase[b] = "new"
  /\ \A other \in BuildIds : ~Holds(other)
  /\ phase' = [phase EXCEPT ![b] = "queued"]
  /\ UNCHANGED <<native, released>>

\* Committed to before Solid Edge hears of it.
Commit(b) ==
  /\ phase[b] = "queued"
  /\ phase' = [phase EXCEPT ![b] = "running"]
  /\ UNCHANGED <<native, released>>

\* Solid Edge begins, once, a build that holds the slot; a released build whose
\* command was already on its way may still begin.
Execute(b) ==
  /\ native[b] = "idle"
  /\ phase[b] \in {"running", "unknown"} \/ b \in released
  /\ native' = [native EXCEPT ![b] = "running"]
  /\ UNCHANGED <<phase, released>>

Finish(b) ==
  /\ native[b] = "running"
  /\ native' = [native EXCEPT ![b] = "ended"]
  /\ UNCHANGED <<phase, released>>

\* A definite outcome needs an execution that is over, or that never began.
Settle(b) ==
  /\ \/ phase[b] = "running" /\ native[b] = "ended"
     \/ Holds(b) /\ native[b] = "idle"
  /\ phase' = [phase EXCEPT ![b] = "settled"]
  /\ UNCHANGED <<native, released>>

LoseTrack(b) ==
  /\ phase[b] = "running"
  /\ phase' = [phase EXCEPT ![b] = "unknown"]
  /\ UNCHANGED <<native, released>>

Resolve(b) ==
  /\ phase[b] = "unknown"
  /\ phase' = [phase EXCEPT ![b] = "settled"]
  /\ released' = released \union {b}
  /\ UNCHANGED native

\* Most of what the bridge does is none of the slot's business.
Next ==
  \/ UNCHANGED vars
  \/ \E b \in BuildIds :
       \/ Admit(b) \/ Commit(b) \/ Execute(b) \/ Finish(b)
       \/ Settle(b) \/ LoseTrack(b) \/ Resolve(b)

Spec == Init /\ [][Next]_vars

-------------------------------------------------------------------------------
\* Two executions overlap only if an operator released one of them.
OneExecution ==
  \A a, b \in BuildIds :
    a # b /\ native[a] = "running" /\ native[b] = "running" => {a, b} \cap released # {}
===============================================================================
