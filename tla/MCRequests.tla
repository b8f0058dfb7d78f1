------------------------------ MODULE MCRequests ------------------------------
(* A small instance of ScanRequests for TLC. *)
EXTENDS ScanRequests, TLC

CONSTANTS h1, h2, all, only2, sastTool, rvdTool, k, p1, p2

MCCovers == [p \in Patterns |-> IF p = all THEN {h1, h2} ELSE {h2}]

MCToolsOf == [c \in ScanClass |-> CASE c = "SAST" -> {sastTool}
                                    [] c = "RVD" -> {rvdTool}
                                    [] OTHER -> {}]
MCDefault == MCToolsOf

Body(p, key, c, H, allow, T) ==
  [project |-> p, key |-> key, class |-> c, hosts |-> H,
   override |-> [allow |-> allow, deny |-> {}], tools |-> T]

\* A keyed clone, the same key in another project with a tool of another
\* class, a dangerous class, a request that brings its own allowlist, and one
\* with an empty key.
MCBodies ==
  {Body(p1, k, "SAST", {h1}, {}, {}), Body(p2, k, "SAST", {}, {}, {rvdTool}),
   Body(p1, k, "RVD", {h1}, {all}, {}), Body(p1, NoKey, "SAST", {h2}, {all}, {}),
   Body(p1, EmptyKey, "SAST", {}, {}, {})}

\* A git target that allows nothing and denies its own host, and an owned
\* one that allows everything.
MCTargets ==
  {[project |-> p1, kind |-> "git", host |-> h2, allow |-> {}, deny |-> {only2}, owned |-> FALSE],
   [project |-> p1, kind |-> "git", host |-> h1, allow |-> {all}, deny |-> {}, owned |-> TRUE]}

Interchangeable == Permutations(Requests)
==============================================================================
