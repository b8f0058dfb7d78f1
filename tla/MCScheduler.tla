----------------------------- MODULE MCScheduler -----------------------------
(* Small instances of Scheduler for TLC. *)
EXTENDS Scheduler, TLC

CONSTANTS s1, s2

\* s1 runs two tools, a second scan one.
MCPlanSize == [s \in Scans |-> IF s = s1 THEN 2 ELSE 1]

\* Executors are interchangeable, and so are fingerprints.
Interchangeable == Permutations(Executors) \cup Permutations(Fingerprints)
==============================================================================
