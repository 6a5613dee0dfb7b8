----------------------------- MODULE MCJobManager -----------------------------
(***************************************************************************)
(* JobManager on small sets, for TLC.                                       *)
(***************************************************************************)
EXTENDS JobManager, TLC

\* Builds, requests, payload digests and HTTP threads are interchangeable in every
\* definition and safety property; the liveness runs do without.
Symmetry == Permutations(BuildIds) \union Permutations(RequestIds)
              \union Permutations(Digests) \union Permutations(HttpThreads)
===============================================================================
