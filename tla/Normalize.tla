------------------------------- MODULE Normalize -------------------------------
(***************************************************************************)
(* From SARIF results to findings: normalize/severity.py, fingerprint.py   *)
(* and finding.py.  A score is in tenths.  What a result does not carry is *)
(* the empty set, what it carries a singleton.                             *)
(***************************************************************************)
EXTENDS Integers, SequencesExt

\* Function f with v as its value of x.
Put(f, x, v) == [y \in DOMAIN f \cup {x} |-> IF y = x THEN v ELSE f[y]]

-----------------------------------------------------------------------------
(* Severity *)

Rank == [info |-> 0, low |-> 1, medium |-> 2, high |-> 3, critical |-> 4]

Severities == DOMAIN Rank

FromLevel == [error |-> "high", warning |-> "medium", note |-> "low", none |-> "info"]

FromText ==
  [critical |-> "critical", blocker |-> "critical",
   high |-> "high", error |-> "high",
   medium |-> "medium", moderate |-> "medium", warning |-> "medium",
   low |-> "low", minor |-> "low",
   info |-> "info", informational |-> "info", note |-> "info"]

FromSarifLevel(level) == IF level \in DOMAIN FromLevel THEN FromLevel[level] ELSE "medium"

FromCvss(score) ==
  CASE score >= 90 -> "critical"
    [] score \in 70..89 -> "high"
    [] score \in 40..69 -> "medium"
    [] score \in 1..39 -> "low"
    [] OTHER -> "info"

\* Variant: the tool's own word is taken as it is.
Resolve_AsGiven(r) ==
  IF r.severity # {} THEN CHOOSE t \in r.severity : TRUE ELSE FromSarifLevel(r.level)

\* A score counts before a word, a word that is known before the level.
Resolve(r) ==
  LET known == r.severity \cap DOMAIN FromText
  IN  IF r.cvss # {} THEN FromCvss(CHOOSE c \in r.cvss : TRUE)
      ELSE IF known # {} THEN FromText[CHOOSE t \in known : TRUE]
      ELSE FromSarifLevel(r.level)

Worse(s, t) == IF Rank[t] > Rank[s] THEN t ELSE s

-----------------------------------------------------------------------------
(* SARIF results *)

\* A location: the file of its physical location, if any, and the properties
\* of its own.  Lines, which no fingerprint has, and logical locations, which
\* only a tool that writes SARIF itself may give, are left out.
Location(uri, props) == [uri |-> uri, props |-> props]

\* The defaults of a result.
PlainResult(rule, loc) ==
  [rule |-> rule, level |-> "warning", severity |-> {}, cvss |-> {},
   loc |-> loc, score |-> 0]

-----------------------------------------------------------------------------
(* Fingerprints *)

\* Variant: a URL is no place.
KeyedProps_NoUrl == {"route", "param", "sink", "composition_path"}

KeyedProps == {"url", "route", "param", "sink", "composition_path"}

\* The parts that are there, which the code joins in a fixed order.
LocationKey(loc) ==
  [uri |-> loc.uri, props |-> [k \in KeyedProps \cap DOMAIN loc.props |-> loc.props[k]]]

Fingerprint(class, r) == <<class, r.rule, LocationKey(r.loc)>>

-----------------------------------------------------------------------------
(* Findings *)

Normalized(class, tool, r) ==
  [fp |-> Fingerprint(class, r), sources |-> {tool},
   severity |-> Resolve(r), score |-> r.score]

\* normalize_sarif, of one tool's results.
NormalizeSarif(class, tool, results) ==
  [i \in DOMAIN results |-> Normalized(class, tool, results[i])]

\* Variant: what was found first is kept as it is.
Merged_KeepsFirst(f, g) == [f EXCEPT !.sources = @ \cup g.sources]

Merged(f, g) ==
  [f EXCEPT !.sources = @ \cup g.sources, !.severity = Worse(@, g.severity),
            !.score = IF g.score > @ THEN g.score ELSE @]

\* One step of dedup's loop: S is the set of the values of its by_fp.
Collapse(S, f) ==
  LET same == {e \in S : e.fp = f.fp}
  IN  (S \ same) \cup (IF same = {} THEN {f} ELSE {Merged(e, f) : e \in same})

\* dedup: by_fp[n] is what its loop has made of the first n.
Dedup(findings) ==
  LET by_fp[n \in 0..Len(findings)] ==
        IF n = 0 THEN {} ELSE Collapse(by_fp[n - 1], findings[n])
  IN  by_fp[Len(findings)]

\* What dedup is for, whatever the order of the jobs: one finding per
\* fingerprint, with all its sources, its worst severity and its best score.
Grouped(F) ==
  {[fp |-> p, sources |-> UNION {f.sources : f \in {g \in F : g.fp = p}},
    severity |-> CHOOSE s \in Severities :
       /\ \E f \in F : f.fp = p /\ f.severity = s
       /\ \A f \in F : f.fp = p => Rank[f.severity] <= Rank[s],
    score |-> CHOOSE n \in {f.score : f \in F} :
       /\ \E f \in F : f.fp = p /\ f.score = n
       /\ \A f \in F : f.fp = p => f.score <= n] : p \in {f.fp : f \in F}}
==============================================================================
