----------------------------- MODULE ScanPromise -----------------------------
(***************************************************************************)
(* What a user of POST /scans is promised about one accepted scan,         *)
(* whatever executes it: it is accepted, worked on, and ends completed or  *)
(* failed for good; and its findings are published in one step, while it   *)
(* is being worked on, every fingerprint at most once.                     *)
(*                                                                         *)
(*   phase[s]       where the scan is, as the user sees it                 *)
(*   results[s][f]  how many findings with fingerprint f the scan has      *)
(***************************************************************************)
EXTENDS Naturals

CONSTANTS Scans, Fingerprints

VARIABLES phase, results

promiseVars == <<phase, results>>

Phase == {"unknown", "accepted", "working", "completed", "failed"}

NoResults == [f \in Fingerprints |-> 0]

\* One finding for each fingerprint of F.
OneOfEach(F) == [f \in Fingerprints |-> IF f \in F THEN 1 ELSE 0]

Move(s, from, to) ==
  /\ phase[s] \in from
  /\ phase' = [phase EXCEPT ![s] = to]
  /\ UNCHANGED results

Publish(s) ==
  /\ phase[s] = "working"
  /\ results[s] = NoResults
  /\ \E F \in SUBSET Fingerprints : results' = [results EXCEPT ![s] = OneOfEach(F)]
  /\ UNCHANGED phase

Init ==
  /\ phase = [s \in Scans |-> "unknown"]
  /\ results = [s \in Scans |-> NoResults]

Next ==
  \E s \in Scans :
    \/ Move(s, {"unknown"}, "accepted")
    \/ Move(s, {"accepted"}, "working")
    \/ Publish(s)
    \/ Move(s, {"working"}, "completed")
    \/ Move(s, {"accepted", "working"}, "failed")

Spec == Init /\ [][Next]_promiseVars
==============================================================================
