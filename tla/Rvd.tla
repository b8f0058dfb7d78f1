---------------------------------- MODULE Rvd ----------------------------------
(***************************************************************************)
(* The RVD engine: adapters/rvd/engine.py, chainability.py and the two     *)
(* backends.  A hypothesis is [focus, path, file, severity]; what a report *)
(* keeps of it has its chainability score, in tenths, as well.  "general"  *)
(* is the focus of a hypothesis without one.                               *)
(*                                                                         *)
(* No backend verifies anything: probe answers verified = False and no     *)
(* PoC, so every result is a note and store_poc is never called.           *)
(***************************************************************************)
EXTENDS Normalize, FiniteSetsExt, TLC

CONSTANTS
  MaxOllama,     \* _MAX_HYPOTHESES: 20 in the code
  MaxHeuristic   \* 50 in the code

ASSUME CapsAssumption == MaxOllama \in Nat /\ MaxHeuristic \in Nat

-----------------------------------------------------------------------------
(* Backends *)

\* What may come of OllamaBackend's check of its server when "asked" is the
\* name in the request: it is ready; BackendUnavailable (no server, an error
\* status, a body that is no JSON, no such model); any other error (a URL
\* httpx does not parse, tags that are no list of objects).
Checks(asked) ==
  IF asked \in {"none", "ollama"} THEN {"ready", "unavailable", "raises"} ELSE {"none"}

\* Variant: the server is not asked.
Constructible_Unchecked(name, check) == name \in {"ollama", "heuristic"}

Constructible(name, check) ==
  \/ name = "heuristic"
  \/ name = "ollama" /\ check = "ready"

Preference == <<"ollama", "heuristic">>

\* get_backend, unless the check raises: the first in order that can be
\* constructed, and "heuristic" when there is none; names nobody knows are
\* passed over.
GetBackend(asked, check) ==
  LET order == IF asked = "none" THEN Preference ELSE <<asked>>
      usable == {i \in DOMAIN order : Constructible(order[i], check)}
  IN  IF usable = {} THEN "heuristic" ELSE order[Min(usable)]

\* HeuristicBackend.hypothesize: one for every file and area in focus of
\* which the file has two markers, file by file in whatever order the
\* directory lists them, and cut at the cap, which splits one file at most.
\* hits is a set of <<file, area>>.
HeuristicHypotheses(hits) ==
  LET kept == {K \in kSubset(Min({MaxHeuristic, Cardinality(hits)}), hits) :
                 Cardinality({h[1] : h \in K} \cap {h[1] : h \in hits \ K}) <= 1}
  IN  {SetToSeq({[focus |-> h[2], path |-> <<h[1]>>, file |-> h[1],
                  severity |-> "medium"] : h \in K}) : K \in kept}

\* OllamaBackend.hypothesize, of an answer it can read.
OllamaHypotheses(answer) == SubSeq(answer, 1, Min({MaxOllama, Len(answer)}))

-----------------------------------------------------------------------------
(* chainability.py *)

\* The weight of two areas, in tenths.
ChainAffinity(areas) ==
  CASE areas = {"auth", "isolation"} -> 4
    [] areas = {"deserialization", "isolation"} -> 5
    [] areas = {"auth", "deserialization"} -> 3
    [] areas = {"memory-safety", "isolation"} -> 5
    [] OTHER -> 0

\* _affinity.
Affinity(a, b) ==
  LET base == ChainAffinity({a.focus, b.focus})
      shared == ToSet(a.path) \cap ToSet(b.path) # {}
  IN  base + (IF shared THEN 2 ELSE 0)

\* Variant: a score above 1.0.
Capped_Not(n) == n

Capped(n) == IF n > 10 THEN 10 ELSE n

\* The weight w of the pair p counts for both.
AddEdge(scores, p, w) ==
  [i \in DOMAIN scores |-> IF i \in {p[1], p[2]} THEN Capped(scores[i] + w) ELSE scores[i]]

\* score: every pair adds its weight to both, never above 1.0.
Scores(hyps) ==
  LET pairs == SetToSeq({p \in (DOMAIN hyps) \X (DOMAIN hyps) : p[1] < p[2]})
      scores[n \in 0..Len(pairs)] ==
        IF n = 0 THEN [i \in DOMAIN hyps |-> 0]
        ELSE AddEdge(scores[n - 1], pairs[n], Affinity(hyps[pairs[n][1]], hyps[pairs[n][2]]))
  IN  scores[Len(pairs)]

\* run_native's report: the hypotheses with their scores.
Report(hyps) ==
  LET scores == Scores(hyps)
  IN  [i \in DOMAIN hyps |->
         [focus |-> hyps[i].focus, path |-> hyps[i].path, file |-> hyps[i].file,
          severity |-> hyps[i].severity, score |-> scores[i]]]

-----------------------------------------------------------------------------

\* parse_output: the file is a property of the location no fingerprint has.
OfRvd(item) ==
  [PlainResult(<<"RVD", item.focus>>,
               Location({}, [file |-> item.file, composition_path |-> item.path])) EXCEPT
     !.level = "note", !.severity = {item.severity}, !.score = item.score]

-----------------------------------------------------------------------------

\* What a score is meant to be: the sum of the weights, at most 1.0, and
\* nothing for a finding that chains with no other.
ScoreOf(items, i) ==
  LET total == SumFunction([j \in DOMAIN items \ {i} |-> Affinity(items[i], items[j])])
  IN  IF total > 10 THEN 10 ELSE total
==============================================================================
