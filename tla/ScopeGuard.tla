------------------------------ MODULE ScopeGuard ------------------------------
(***************************************************************************)
(* Who may scan what: core/scope_guard.py, resolve_scope of                *)
(* api/services/projects.py and plan of engine/planner.py, as operators.   *)
(* A pattern stands for the hosts fnmatch lets it match.                   *)
(***************************************************************************)
CONSTANTS
  Hosts,     \* network hosts
  Patterns,  \* entries of allowlists and denylists
  Covers,    \* Covers[p]: the hosts pattern p matches
  Tools,     \* adapter names
  ToolsOf,   \* ToolsOf[c]: the adapters registered for scan class c
  Default    \* Default[c]: the first of them, in a set; empty if there are none

ScanClass == {"SAST", "DAST", "IAST", "RVD"}

ASSUME CoversAssumption == Covers \in [Patterns -> SUBSET Hosts]
ASSUME ToolsAssumption ==
  /\ ToolsOf \in [ScanClass -> SUBSET Tools]
  /\ \A c \in ScanClass : /\ Default[c] \subseteq ToolsOf[c]
                          /\ Default[c] = {} <=> ToolsOf[c] = {}

Scope == [allow : SUBSET Patterns, deny : SUBSET Patterns, owned : BOOLEAN]

\* Classes that touch a live system or produce weaponizable output.
Dangerous == {"DAST", "IAST", "RVD"}

MatchesAny(h, P) == \E p \in P : h \in Covers[p]

\* The decision of scope_guard.check.
Check(class, scope, hosts) ==
  /\ class \in Dangerous => scope.owned
  /\ hosts # {} => scope.allow # {}
  /\ \A h \in hosts : ~MatchesAny(h, scope.deny) /\ MatchesAny(h, scope.allow)

Allowlists(targets) == UNION {t.allow : t \in targets}
Denylists(targets)  == UNION {t.deny : t \in targets}

\* The targets' lists together with those of the request; ownership comes
\* from the targets alone.
ResolveScope(targets, override) ==
  [allow |-> Allowlists(targets) \cup override.allow,
   deny  |-> Denylists(targets) \cup override.deny,
   owned |-> \E t \in targets : t.owned]

\* The adapters a plan runs: the tools asked for, or the default.
Requested(class, tools) == IF tools = {} THEN Default[class] ELSE tools

ToolsKnown(class, tools) ==
  /\ Requested(class, tools) # {}
  /\ Requested(class, tools) \subseteq ToolsOf[class]

\* planner.plan returns a plan.
Plannable(class, scope, hosts, tools) ==
  Check(class, scope, hosts) /\ ToolsKnown(class, tools)
==============================================================================
