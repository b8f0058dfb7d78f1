-------------------------------- MODULE MCIast --------------------------------
(* A small instance of IastPipeline for TLC. *)
EXTENDS IastPipeline, TLC

CONSTANTS v1, v2, v3

\* Two events at one place of the program, and one elsewhere.
MCFingerprintOf == [v \in Events |-> IF v = v3 THEN "g" ELSE "f"]

\* Requests and threads are interchangeable, and so are v1 and v2.
Interchangeable ==
  Permutations(Requests) \cup Permutations(Threads) \cup Permutations({v1, v2})
==============================================================================
