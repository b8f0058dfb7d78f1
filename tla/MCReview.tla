------------------------------- MODULE MCReview -------------------------------
(* A small instance of Review for TLC. *)
EXTENDS Review

CONSTANTS f1, f2, f3

\* A scan with a finding of severity high and a critical RVD finding, and a
\* scan of another project with a finding of severity medium.
MCScanOf == [f \in Findings |-> IF f = f3 THEN "t" ELSE "s"]
MCClassOf == [f \in Findings |-> CASE f = f1 -> "SAST" [] f = f2 -> "RVD" [] f = f3 -> "DAST"]
MCSeverityOf == [f \in Findings |-> CASE f = f1 -> "high" [] f = f2 -> "critical" [] f = f3 -> "medium"]
MCProjectOf == [s \in Scans |-> IF s = "s" THEN 2 ELSE 1]

\* f1 and f3 are of one day, of which one window misses the first half; f2 is
\* of the day before.
MCFirstSeen == [f \in Findings |-> CASE f = f1 -> 2 [] f = f2 -> 1 [] f = f3 -> 3]

Asking(action, status, override, F) ==
  {[action |-> action, finding |-> f, status |-> status, override |-> override] : f \in F}

MCAsks ==
  Asking("assign", "same", "none", {f1, f2}) \cup Asking("triage", "fixed", "none", Findings)
    \cup Asking("triage", "open", "critical", {f1, f2}) \cup Asking("triage", "same", "low", {f1, f2})

Interchangeable == Permutations(Requests)
==============================================================================
