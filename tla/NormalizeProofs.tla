--------------------------- MODULE NormalizeProofs ---------------------------
(***************************************************************************)
(* TLAPS proofs about what becomes of a tool's output: that dedup groups   *)
(* whatever it is given, what the fingerprint of a result keeps of its     *)
(* place, that severities are in the enumeration and that scores add up.   *)
(*                                                                         *)
(* Loops are recursive functions.  That there is one, and what its value   *)
(* is, follows by induction on a set of naturals.                          *)
(***************************************************************************)
EXTENDS Adapters, Rvd, SumProofs

-----------------------------------------------------------------------------
(* Loops *)

\* g has the values a loop of N steps from b goes through, F its body.
LoopOf(g, X, b, F, N) ==
  g \in [0..N -> X] /\ g[0] = b /\ \A m \in 1..N : g[m] = F[<<m, g[m - 1]>>]

\* A loop gets to its end.
LEMMA Recursion ==
  ASSUME NEW X, NEW b \in X, NEW F \in [Nat \X X -> X], NEW N \in Nat
  PROVE  \E g : LoopOf(g, X, b, F, N)
  <1> DEFINE Runs(g, n) == LoopOf(g, X, b, F, n)
             T == {n \in Nat : \E g : Runs(g, n)}
  <1> USE DEF LoopOf
  <1>1. 0 \in T
    <2>1. Runs([m \in 0..0 |-> b], 0)
      OBVIOUS
    <2>2. QED
      BY <2>1
  <1>2. ASSUME NEW n \in T PROVE n + 1 \in T
    <2>1. PICK g : Runs(g, n)
      OBVIOUS
    <2> DEFINE h == [m \in 0..(n + 1) |-> IF m = n + 1 THEN F[<<n + 1, g[n]>>] ELSE g[m]]
    <2>2. g[n] \in X /\ F[<<n + 1, g[n]>>] \in X
      BY <2>1
    <2>3. h \in [0..(n + 1) -> X] /\ h[0] = b
      BY <2>1, <2>2
    <2>4. ASSUME NEW m \in 1..(n + 1) PROVE h[m] = F[<<m, h[m - 1]>>]
      <3>1. CASE m = n + 1
        <4>1. m - 1 = n /\ h[n] = g[n] /\ h[m] = F[<<n + 1, g[n]>>]
          BY <3>1
        <4>2. QED
          BY <3>1, <4>1
      <3>2. CASE m \in 1..n
        <4>1. h[m] = g[m] /\ h[m - 1] = g[m - 1]
          BY <3>2
        <4>2. QED
          BY <2>1, <3>2, <4>1
      <3>3. QED
        BY <3>1, <3>2
    <2> HIDE DEF h
    <2>5. Runs(h, n + 1)
      BY <2>3, <2>4
    <2>6. QED
      BY <2>5
  <1>3. N \in T
    <2> HIDE DEF T
    <2>1. T \subseteq Nat
      BY DEF T
    <2>2. QED
      BY <1>1, <1>2, <2>1, Induction
  <1>4. QED
    BY <1>3

-----------------------------------------------------------------------------
(* Dedup *)

\* Findings, of whatever fingerprints.
Found(P) == [fp : P, sources : SUBSET Tools, severity : Severities, score : 0..10]

\* Of all in F with its fingerprint, e has the sources, the worst severity
\* and the best score.
Heads(e, F) ==
  /\ e.sources = UNION {f.sources : f \in {g \in F : g.fp = e.fp}}
  /\ \E f \in F : f.fp = e.fp /\ f.severity = e.severity
  /\ \E f \in F : f.fp = e.fp /\ f.score = e.score
  /\ \A f \in F : f.fp = e.fp => Rank[f.severity] <= Rank[e.severity] /\ f.score <= e.score

\* R has one finding for each fingerprint in F.
Groups(R, F) ==
  /\ \A f \in F : \E e \in R : e.fp = f.fp
  /\ \A e \in R : Heads(e, F)
  /\ \A e, d \in R : e.fp = d.fp => e = d

\* The severities differ in rank.
LEMMA Ranks ==
  /\ Severities = {"info", "low", "medium", "high", "critical"}
  /\ \A s \in Severities : Rank[s] \in 0..4
  /\ \A s, t \in Severities : Rank[s] = Rank[t] => s = t
  BY DEF Severities, Rank

\* There is one way to group F.
LEMMA GroupsUnique ==
  ASSUME NEW P, NEW F \in SUBSET Found(P), NEW R \in SUBSET Found(P), Groups(R, F)
  PROVE  R = Grouped(F)
  <1> DEFINE Worst(p) == CHOOSE s \in Severities :
               /\ \E f \in F : f.fp = p /\ f.severity = s
               /\ \A f \in F : f.fp = p => Rank[f.severity] <= Rank[s]
             Best(p) == CHOOSE n \in {f.score : f \in F} :
               /\ \E f \in F : f.fp = p /\ f.score = n
               /\ \A f \in F : f.fp = p => f.score <= n
             Group(p) == [fp |-> p, sources |-> UNION {f.sources : f \in {g \in F : g.fp = p}},
                          severity |-> Worst(p), score |-> Best(p)]
  <1>1. Grouped(F) = {Group(p) : p \in {f.fp : f \in F}}
    BY DEF Grouped
  <1>2. ASSUME NEW e \in R PROVE e = Group(e.fp)
    <2>1. e \in Found(P) /\ Heads(e, F)
      BY DEF Groups
    <2>2. Worst(e.fp) = e.severity
      <3>1. e.severity \in Severities /\ \A f \in F : f.severity \in Severities
        BY <2>1 DEF Found
      <3>2. ASSUME NEW s \in Severities, \E f \in F : f.fp = e.fp /\ f.severity = s,
                   \A f \in F : f.fp = e.fp => Rank[f.severity] <= Rank[s]
            PROVE  s = e.severity
        BY <2>1, <3>1, <3>2, Ranks DEF Heads
      <3>3. QED
        BY <2>1, <3>1, <3>2 DEF Heads
    <2>3. Best(e.fp) = e.score
      <3>1. e.score \in Nat /\ \A f \in F : f.score \in Nat
        BY <2>1 DEF Found
      <3>2. ASSUME NEW n \in {f.score : f \in F}, \E f \in F : f.fp = e.fp /\ f.score = n,
                   \A f \in F : f.fp = e.fp => f.score <= n
            PROVE  n = e.score
        BY <2>1, <3>1, <3>2 DEF Heads
      <3>3. QED
        BY <2>1, <3>1, <3>2 DEF Heads
    <2>4. e.sources = UNION {f.sources : f \in {g \in F : g.fp = e.fp}}
      BY <2>1 DEF Heads
    <2>5. e = [fp |-> e.fp, sources |-> e.sources, severity |-> e.severity, score |-> e.score]
      BY <2>1 DEF Found
    <2>6. QED
      BY <2>2, <2>3, <2>4, <2>5
  <1>3. {e.fp : e \in R} = {f.fp : f \in F}
    BY DEF Groups, Heads
  <1>4. R = {Group(p) : p \in {e.fp : e \in R}}
    <2> HIDE DEF Group
    <2>1. ASSUME NEW e \in R PROVE e \in {Group(p) : p \in {d.fp : d \in R}}
      BY <1>2
    <2>2. ASSUME NEW p \in {d.fp : d \in R} PROVE Group(p) \in R
      BY <1>2
    <2>3. QED
      BY <2>1, <2>2
  <1>5. QED
    BY <1>1, <1>3, <1>4

\* One step of the loop adds one finding to what is grouped.
LEMMA CollapseGroups ==
  ASSUME NEW P, NEW F \in SUBSET Found(P), NEW R \in SUBSET Found(P), Groups(R, F),
         NEW f \in Found(P)
  PROVE  Collapse(R, f) \in SUBSET Found(P) /\ Groups(Collapse(R, f), F \cup {f})
  <1> DEFINE same == {e \in R : e.fp = f.fp}
             G == F \cup {f}
  <1>1. ASSUME NEW e \in R, e.fp # f.fp PROVE Heads(e, G)
    <2>1. {g \in G : g.fp = e.fp} = {g \in F : g.fp = e.fp}
      BY <1>1
    <2>2. Heads(e, F)
      BY DEF Groups
    <2>3. QED
      BY <1>1, <2>1, <2>2 DEF Heads
  <1>2. CASE same = {}
    <2>1. Collapse(R, f) = R \cup {f}
      BY <1>2 DEF Collapse
    <2>2. \A g \in F : g.fp # f.fp
      BY <1>2 DEF Groups
    <2>3. Heads(f, G)
      <3>1. {g \in G : g.fp = f.fp} = {f}
        BY <2>2
      <3>2. Rank[f.severity] <= Rank[f.severity] /\ f.score <= f.score
        BY Ranks DEF Found
      <3>3. QED
        BY <2>2, <3>1, <3>2 DEF Heads
    <2>4. QED
      BY <1>1, <1>2, <2>1, <2>3 DEF Groups
  <1>3. ASSUME NEW e \in same PROVE Collapse(R, f) \in SUBSET Found(P) /\ Groups(Collapse(R, f), G)
    <2> DEFINE m == Merged(e, f)
    <2>1. e \in Found(P) /\ e \in R /\ e.fp = f.fp /\ Heads(e, F) /\ same = {e}
      BY <1>3 DEF Groups
    <2>2. Collapse(R, f) = (R \ {e}) \cup {m}
      BY <2>1 DEF Collapse
    <2>3. /\ m \in Found(P) /\ m.fp = e.fp /\ m.sources = e.sources \cup f.sources
          /\ m.severity = Worse(e.severity, f.severity)
          /\ m.score = IF f.score > e.score THEN f.score ELSE e.score
      BY <2>1 DEF Merged, Found, Worse
    <2>4. Heads(m, G)
      <3>1. {g \in G : g.fp = m.fp} = {g \in F : g.fp = e.fp} \cup {f}
        BY <2>1, <2>3
      <3>2. m.sources = UNION {g.sources : g \in {h \in G : h.fp = m.fp}}
        BY <2>1, <2>3, <3>1 DEF Heads
      <3>3. /\ \E g \in G : g.fp = m.fp /\ g.severity = m.severity
            /\ \A g \in G : g.fp = m.fp => Rank[g.severity] <= Rank[m.severity]
        <4>1. e.severity \in Severities /\ f.severity \in Severities /\ \A g \in F : g.severity \in Severities
          BY <2>1 DEF Found
        <4>2. QED
          BY <2>1, <2>3, <4>1, Ranks DEF Heads, Worse
      <3>4. /\ \E g \in G : g.fp = m.fp /\ g.score = m.score
            /\ \A g \in G : g.fp = m.fp => g.score <= m.score
        <4>1. e.score \in Nat /\ f.score \in Nat /\ \A g \in F : g.score \in Nat
          BY <2>1 DEF Found
        <4>2. QED
          BY <2>1, <2>3, <4>1 DEF Heads
      <3>5. QED
        BY <3>2, <3>3, <3>4 DEF Heads
    <2>5. \A d \in R \ {e} : d.fp # f.fp
      BY <2>1
    <2>6. QED
      BY <1>1, <2>1, <2>2, <2>3, <2>4, <2>5 DEF Groups
  <1>4. QED
    BY <1>2, <1>3

\* The loop of dedup.
LEMMA DedupLoop ==
  ASSUME NEW P, NEW s \in Seq(Found(P))
  PROVE  \E g : /\ g[0] = {} /\ Dedup(s) = g[Len(s)]
               /\ \A m \in 1..Len(s) : g[m] = Collapse(g[m - 1], s[m])
  <1> DEFINE X == SUBSET Found(P)
             N == Len(s)
             F == [p \in Nat \X X |-> IF p[1] \in 1..N THEN Collapse(p[2], s[p[1]]) ELSE p[2]]
             Body(g, m) == IF m = 0 THEN {} ELSE Collapse(g[m - 1], s[m])
             Loop(g) == g = [m \in 0..N |-> Body(g, m)]
  <1>1. ASSUME NEW R \in X, NEW m \in 1..N PROVE Collapse(R, s[m]) \in X
    <2>1. s[m] \in Found(P)
      OBVIOUS
    <2>2. \A e \in R : Merged(e, s[m]) \in Found(P)
      BY <2>1 DEF Merged, Found, Worse
    <2>3. QED
      BY <2>1, <2>2 DEF Collapse
  <1>2. F \in [Nat \X X -> X] /\ {} \in X /\ N \in Nat
    <2>1. ASSUME NEW p \in Nat \X X PROVE F[p] \in X
      <3>1. p[1] \in Nat /\ p[2] \in X
        OBVIOUS
      <3>2. F[p] = IF p[1] \in 1..N THEN Collapse(p[2], s[p[1]]) ELSE p[2]
        OBVIOUS
      <3> HIDE DEF F, X, N
      <3>3. QED
        BY <1>1, <3>1, <3>2
    <2>2. F = [p \in Nat \X X |-> F[p]]
      OBVIOUS
    <2>3. {} \in X /\ N \in Nat
      OBVIOUS
    <2> HIDE DEF F, X, N
    <2>4. QED
      BY <2>1, <2>2, <2>3
  <1>3. PICK g \in [0..N -> X] : g[0] = {} /\ \A m \in 1..N : g[m] = F[<<m, g[m - 1]>>]
    <2> HIDE DEF F, X, N
    <2>1. \E g : LoopOf(g, X, {}, F, N)
      BY <1>2, Recursion
    <2>2. QED
      BY <2>1 DEF LoopOf
  <1>4. ASSUME NEW m \in 0..N PROVE g[m] = Body(g, m)
    <2>1. CASE m = 0
      BY <1>3, <2>1
    <2>2. CASE m \in 1..N
      <3>1. m - 1 \in 0..N /\ m \in Nat
        BY <2>2
      <3>2. g[m - 1] \in X
        BY <1>3, <3>1
      <3>3. F[<<m, g[m - 1]>>] = Collapse(g[m - 1], s[m])
        BY <2>2, <3>1, <3>2
      <3>4. QED
        BY <1>3, <2>2, <3>3
    <2>3. QED
      BY <2>1, <2>2
  <1>5. \E h : Loop(h)
    <2> HIDE DEF Body
    <2>1. QED
      BY <1>3, <1>4
  <1> DEFINE h == CHOOSE h : Loop(h)
  <1>6. Loop(h)
    <2> HIDE DEF Loop
    <2>1. QED
      BY <1>5
  <1>7. Dedup(s) = h[N]
    BY DEF Dedup
  <1>8. \A m \in 0..N : h[m] = Body(h, m)
    <2> HIDE DEF h, Body
    <2>1. QED
      BY <1>6
  <1>9. h[0] = {} /\ \A m \in 1..N : h[m] = Collapse(h[m - 1], s[m])
    <2> HIDE DEF h
    <2>1. QED
      BY <1>2, <1>8
  <1>10. QED
    BY <1>7, <1>9

\* dedup groups what it is given.
THEOREM DedupGroups ==
  ASSUME NEW P, NEW s \in Seq(Found(P))
  PROVE  Dedup(s) = Grouped(ToSet(s)) /\ Dedup(s) \in SUBSET Found(P)
  <1> DEFINE first(n) == {s[i] : i \in 1..n}
  <1>1. PICK g : /\ g[0] = {} /\ Dedup(s) = g[Len(s)]
                 /\ \A m \in 1..Len(s) : g[m] = Collapse(g[m - 1], s[m])
    BY DedupLoop
  <1> DEFINE T == {n \in Nat : n <= Len(s) => g[n] \in SUBSET Found(P) /\ Groups(g[n], first(n))}
  <1>2. 0 \in T
    <2>1. g[0] = {} /\ first(0) = {}
      BY <1>1
    <2>2. QED
      BY <2>1 DEF Groups
  <1>3. ASSUME NEW n \in T PROVE n + 1 \in T
    <2> SUFFICES ASSUME n + 1 <= Len(s)
                 PROVE  g[n + 1] \in SUBSET Found(P) /\ Groups(g[n + 1], first(n + 1))
      OBVIOUS
    <2>1. g[n] \in SUBSET Found(P) /\ Groups(g[n], first(n))
      OBVIOUS
    <2>2. s[n + 1] \in Found(P) /\ first(n) \in SUBSET Found(P)
      OBVIOUS
    <2>3. g[n + 1] = Collapse(g[n], s[n + 1])
      <3>1. n + 1 \in 1..Len(s) /\ (n + 1) - 1 = n
        OBVIOUS
      <3>2. QED
        BY <1>1, <3>1
    <2>4. first(n + 1) = first(n) \cup {s[n + 1]}
      OBVIOUS
    <2> HIDE DEF first
    <2>5. ASSUME NEW F \in SUBSET Found(P), NEW R \in SUBSET Found(P), NEW f \in Found(P), Groups(R, F)
          PROVE  Collapse(R, f) \in SUBSET Found(P) /\ Groups(Collapse(R, f), F \cup {f})
      BY <2>5, CollapseGroups
    <2>6. /\ Collapse(g[n], s[n + 1]) \in SUBSET Found(P)
          /\ Groups(Collapse(g[n], s[n + 1]), first(n) \cup {s[n + 1]})
      BY <2>1, <2>2, <2>5
    <2>7. QED
      BY <2>3, <2>4, <2>6
  <1>4. T = Nat
    <2> HIDE DEF T
    <2>1. QED
      BY <1>2, <1>3, Induction DEF T
  <1>5. g[Len(s)] \in SUBSET Found(P) /\ Groups(g[Len(s)], first(Len(s)))
    <2>1. Len(s) \in Nat /\ Len(s) <= Len(s)
      OBVIOUS
    <2> HIDE DEF T
    <2>2. Len(s) \in T
      BY <1>4, <2>1
    <2>3. QED
      BY <2>1, <2>2 DEF T
  <1>6. first(Len(s)) = ToSet(s) /\ first(Len(s)) \in SUBSET Found(P)
    BY DEF ToSet
  <1>7. QED
    BY <1>1, <1>5, <1>6, GroupsUnique

-----------------------------------------------------------------------------
(* What a finding is *)

\* Sources are tools, and severity and score are of their kinds.
IsFinding(f) ==
  /\ f = [fp |-> f.fp, sources |-> f.sources, severity |-> f.severity, score |-> f.score]
  /\ f.sources \subseteq Tools /\ f.severity \in Severities /\ f.score \in 0..10

\* dedup groups findings whatever their fingerprints, into findings.
THEOREM DedupFindings ==
  ASSUME NEW s, s \in Seq(ToSet(s)), \A f \in ToSet(s) : IsFinding(f)
  PROVE  Dedup(s) = Grouped(ToSet(s)) /\ \A f \in Dedup(s) : IsFinding(f)
  <1> DEFINE P == {f.fp : f \in ToSet(s)}
  <1>1. ToSet(s) \subseteq Found(P)
    BY DEF IsFinding, Found
  <1>2. s \in Seq(Found(P))
    <2> HIDE DEF P
    <2>1. QED
      BY <1>1
  <1>3. Dedup(s) = Grouped(ToSet(s)) /\ Dedup(s) \in SUBSET Found(P)
    <2> HIDE DEF P
    <2>1. QED
      BY <1>2, DedupGroups
  <1>4. \A f \in Found(P) : IsFinding(f)
    <2> HIDE DEF P
    <2>1. QED
      BY DEF IsFinding, Found
  <1>5. QED
    BY <1>3, <1>4

\* Whatever the word, score and level of a result, its severity is one of the
\* five.
LEMMA ResolveSeverity ==
  ASSUME NEW r PROVE Resolve(r) \in Severities
  <1>1. \A c : FromCvss(c) \in Severities
    BY Ranks DEF FromCvss
  <1>2. \A t \in DOMAIN FromText : FromText[t] \in Severities
    BY Ranks DEF FromText
  <1>3. \A level : FromSarifLevel(level) \in Severities
    BY Ranks DEF FromSarifLevel, FromLevel
  <1>4. QED
    BY <1>1, <1>2, <1>3 DEF Resolve

\* A result with a score that may be one becomes a finding.
LEMMA NormalizedFinding ==
  ASSUME NEW class, NEW a \in Tools, NEW r, r.score \in 0..10
  PROVE  IsFinding(Normalized(class, a, r))
  BY ResolveSeverity DEF Normalized, IsFinding

-----------------------------------------------------------------------------
(* What the results keep of an item *)

\* Only RVD's results have a score.
LEMMA ParsedScore ==
  ASSUME NEW a \in Tools \ {"rvd"}, NEW item PROVE Parsed(a, item).score = 0
  <1>1. \A x, y : PlainResult(x, y).score = 0
    BY DEF PlainResult
  <1>2. a \in {"demoscan", "semgrep", "gitleaks", "bandit", "trivy", "clair", "codeql",
               "nuclei", "zap", "vigolium"}
    BY DEF Tools, Adapter
  <1> USE DEF Parsed, PlainResult
  <1>3. CASE a = "demoscan"
    BY <1>3 DEF OfDemoscan
  <1>4. CASE a = "semgrep"
    BY <1>4 DEF OfSemgrep
  <1>5. CASE a = "gitleaks"
    BY <1>5 DEF OfGitleaks
  <1>6. CASE a = "bandit"
    BY <1>6 DEF OfBandit
  <1>7. CASE a = "trivy"
    BY <1>7 DEF OfTrivy
  <1>8. CASE a = "clair"
    BY <1>8 DEF OfClair
  <1>9. CASE a = "codeql"
    BY <1>9 DEF OfCodeQL
  <1>10. CASE a = "nuclei"
    BY <1>10 DEF OfNuclei
  <1>11. CASE a = "zap"
    BY <1>11 DEF OfZap
  <1>12. CASE a = "vigolium"
    BY <1>12 DEF OfVigolium
  <1>13. QED
    BY <1>2, <1>3, <1>4, <1>5, <1>6, <1>7, <1>8, <1>9, <1>10, <1>11, <1>12

FileTools == {"demoscan", "semgrep", "gitleaks", "bandit", "trivy", "codeql"}

PageTools == {"nuclei", "vigolium"}

\* What a fingerprint keeps of the place of an item, tool by tool.
LEMMA KeyOfFile ==
  ASSUME NEW a \in FileTools, NEW item
  PROVE  /\ LocationKey(Parsed(a, item).loc).uri = {item.at}
         /\ DOMAIN LocationKey(Parsed(a, item).loc).props = {}
  <1>1. Parsed(a, item).loc = InFile(item)
    <2> USE DEF Parsed, PlainResult
    <2>1. CASE a = "demoscan"
      BY <2>1 DEF OfDemoscan
    <2>2. CASE a = "semgrep"
      BY <2>2 DEF OfSemgrep
    <2>3. CASE a = "gitleaks"
      BY <2>3 DEF OfGitleaks
    <2>4. CASE a = "bandit"
      BY <2>4 DEF OfBandit
    <2>5. CASE a = "trivy"
      BY <2>5 DEF OfTrivy
    <2>6. CASE a = "codeql"
      BY <2>6 DEF OfCodeQL
    <2>7. QED
      BY <2>1, <2>2, <2>3, <2>4, <2>5, <2>6 DEF FileTools
  <1>2. InFile(item).uri = {item.at} /\ DOMAIN InFile(item).props = {}
    BY DEF InFile, Location
  <1>3. QED
    BY <1>1, <1>2 DEF LocationKey

\* The location key of a finding in a package of an image has neither a file nor a property.
LEMMA KeyOfPackage ==
  ASSUME NEW item
  PROVE  /\ LocationKey(Parsed("clair", item).loc).uri = {}
         /\ DOMAIN LocationKey(Parsed("clair", item).loc).props = {}
  <1>1. Parsed("clair", item).loc = Location({}, [package |-> item.at])
    BY DEF Parsed, OfClair, PlainResult
  <1>2. QED
    BY <1>1 DEF LocationKey, Location, KeyedProps

\* The location key of a finding on a page has its redacted URL and its parameter.
LEMMA KeyOfPage ==
  ASSUME NEW a \in PageTools, NEW item
  PROVE  /\ LocationKey(Parsed(a, item).loc).uri = {}
         /\ DOMAIN LocationKey(Parsed(a, item).loc).props = {"url", "route", "param"}
         /\ LocationKey(Parsed(a, item).loc).props["url"] = Redact(item.at.url)
         /\ LocationKey(Parsed(a, item).loc).props["param"] = item.at.param
  <1>1. Parsed(a, item).loc = OnPage(item)
    BY DEF PageTools, Parsed, OfNuclei, OfVigolium, PlainResult
  <1>2. /\ OnPage(item).uri = {} /\ DOMAIN OnPage(item).props = {"url", "route", "param"}
        /\ OnPage(item).props["url"] = Redact(item.at.url) /\ OnPage(item).props["param"] = item.at.param
    BY DEF OnPage, Location
  <1>3. KeyedProps \cap {"url", "route", "param"} = {"url", "route", "param"}
    BY DEF KeyedProps
  <1>4. QED
    BY <1>1, <1>2, <1>3 DEF LocationKey

\* The location key of a finding at a url without a parameter has the redacted
\* URL alone.
LEMMA KeyOfUrl ==
  ASSUME NEW item
  PROVE  /\ LocationKey(Parsed("zap", item).loc).uri = {}
         /\ DOMAIN LocationKey(Parsed("zap", item).loc).props = {"url"}
         /\ LocationKey(Parsed("zap", item).loc).props["url"] = Redact(item.at)
  <1>1. Parsed("zap", item).loc = Location({}, [url |-> Redact(item.at)])
    BY DEF Parsed, OfZap, PlainResult
  <1>2. KeyedProps \cap {"url"} = {"url"}
    BY DEF KeyedProps
  <1>3. QED
    BY <1>1, <1>2 DEF LocationKey, Location

\* The location key of an RVD hypothesis has its composition path, not its file.
LEMMA KeyOfHypothesis ==
  ASSUME NEW item
  PROVE  /\ LocationKey(OfRvd(item).loc).uri = {}
         /\ DOMAIN LocationKey(OfRvd(item).loc).props = {"composition_path"}
         /\ LocationKey(OfRvd(item).loc).props["composition_path"] = item.path
  <1>1. OfRvd(item).loc = Location({}, [file |-> item.file, composition_path |-> item.path])
    BY DEF OfRvd, PlainResult
  <1>2. KeyedProps \cap {"file", "composition_path"} = {"composition_path"}
    BY DEF KeyedProps
  <1>3. QED
    BY <1>1, <1>2 DEF LocationKey, Location

-----------------------------------------------------------------------------
(* RVD *)

\* The Ollama backend is not taken unless its server is ready.
LEMMA Fallback ==
  ASSUME NEW asked, NEW check
  PROVE  /\ GetBackend(asked, check) \in {"ollama", "heuristic"}
         /\ GetBackend(asked, check) = "ollama" => check = "ready"
  <1> DEFINE order == IF asked = "none" THEN Preference ELSE <<asked>>
             usable == {i \in DOMAIN order : Constructible(order[i], check)}
  <1>1. GetBackend(asked, check) = IF usable = {} THEN "heuristic" ELSE order[Min(usable)]
    BY DEF GetBackend
  <1>2. DOMAIN order \subseteq {1, 2}
    BY DEF Preference
  <1>3. usable # {} => Min(usable) \in usable
    <2>1. usable \subseteq {1, 2}
      BY <1>2
    <2> HIDE DEF usable
    <2>2. usable # {} => \E i \in usable : \A j \in usable : i <= j
      <3>1. \A j \in usable : 1 <= j /\ (1 \notin usable => j = 2)
        BY <2>1
      <3>2. 2 <= 2
        OBVIOUS
      <3>3. QED
        BY <3>1, <3>2
    <2>3. QED
      BY <2>2 DEF Min
  <1>4. \A i \in usable : Constructible(order[i], check)
    OBVIOUS
  <1> HIDE DEF usable, order
  <1>5. QED
    BY <1>1, <1>3, <1>4 DEF Constructible

\* The sequence of a finite set has each element once.
LEMMA SeqOfSet ==
  ASSUME NEW S, IsFiniteSet(S)
  PROVE  /\ SetToSeq(S) \in Seq(S) /\ IsInjective(SetToSeq(S))
         /\ \A x \in S : \E m \in 1..Len(SetToSeq(S)) : SetToSeq(S)[m] = x
  <1>1. Cardinality(S) \in Nat /\ ExistsBijection(1..Cardinality(S), S)
    BY FS_CardinalityType
  <1>2. \E f \in [1..Cardinality(S) -> S] : IsInjective(f)
    BY <1>1 DEF ExistsBijection, Bijection, Injection
  <1> DEFINE q == SetToSeq(S)
             n == Cardinality(S)
  <1>3. q \in [1..n -> S] /\ IsInjective(q)
    BY <1>2 DEF SetToSeq
  <1> HIDE DEF q
  <1>4. q \in Surjection(1..n, S)
    <2>1. q \in Injection(1..n, S)
      BY <1>3 DEF Injection
    <2>2. Cardinality(1..n) = n
      BY <1>1, FS_Interval
    <2>3. QED
      BY <1>1, <2>1, <2>2, FS_Injection
  <1>5. q \in Seq(S) /\ Len(q) = n
    BY <1>1, <1>3
  <1>6. \A x \in S : \E m \in 1..Len(q) : q[m] = x
    BY <1>4, <1>5 DEF Surjection
  <1>7. QED
    BY <1>3, <1>5, <1>6 DEF q

\* The body of the loop of score.
LEMMA EdgeKeepsScores ==
  ASSUME NEW D, NEW scores \in [D -> 0..10], NEW p \in D \X D, NEW w \in Nat
  PROVE  AddEdge(scores, p, w) \in [D -> 0..10]
  <1>1. \A m \in 0..10 : Capped(m + w) \in 0..10
    BY DEF Capped
  <1>2. QED
    BY <1>1 DEF AddEdge

\* The affinity of two areas is a natural number.
LEMMA AffinityNat ==
  ASSUME NEW a, NEW b PROVE Affinity(a, b) \in Nat
  <1>1. \A areas : ChainAffinity(areas) \in Nat
    BY DEF ChainAffinity
  <1>2. QED
    BY <1>1 DEF Affinity

\* The pairs score adds up, in the order it takes them.
PairsOf(D) == SetToSeq({p \in D \X D : p[1] < p[2]})

\* It takes every pair once.
LEMMA PairsEnumerated ==
  ASSUME NEW D, IsFiniteSet(D)
  PROVE  /\ Len(PairsOf(D)) \in Nat
         /\ \A m \in 1..Len(PairsOf(D)) :
              /\ PairsOf(D)[m] \in D \X D /\ PairsOf(D)[m][1] < PairsOf(D)[m][2]
              /\ \A k \in 1..Len(PairsOf(D)) : PairsOf(D)[m] = PairsOf(D)[k] => m = k
         /\ \A i, j \in D : i < j => \E m \in 1..Len(PairsOf(D)) : PairsOf(D)[m] = <<i, j>>
  <1> DEFINE E == {p \in D \X D : p[1] < p[2]}
             pairs == SetToSeq(E)
  <1>1. IsFiniteSet(E)
    <2>1. IsFiniteSet(D \X D)
      BY FS_Product
    <2>2. E \in SUBSET (D \X D)
      OBVIOUS
    <2> HIDE DEF E
    <2>3. QED
      BY <2>1, <2>2, FS_Subset
  <1>2. /\ pairs \in Seq(E) /\ IsInjective(pairs)
        /\ \A p \in E : \E m \in 1..Len(pairs) : pairs[m] = p
    <2> HIDE DEF E
    <2>1. QED
      BY <1>1, SeqOfSet
  <1>3. PairsOf(D) = pairs
    BY DEF PairsOf
  <1>4. /\ Len(pairs) \in Nat /\ DOMAIN pairs = 1..Len(pairs)
        /\ \A m \in 1..Len(pairs) : pairs[m] \in E
    <2> HIDE DEF pairs, E
    <2>1. QED
      BY <1>2
  <1>5. \A i, j \in D : i < j => <<i, j>> \in E
    OBVIOUS
  <1>6. \A p \in E : p \in D \X D /\ p[1] < p[2]
    OBVIOUS
  <1> HIDE DEF pairs, E
  <1>7. QED
    BY <1>2, <1>3, <1>4, <1>5, <1>6 DEF IsInjective

\* The scores after each pair; no hypothesis has one above 1.0.
LEMMA ScoresLoop ==
  ASSUME NEW hyps, IsFiniteSet(DOMAIN hyps)
  PROVE  LET D == DOMAIN hyps
             pairs == PairsOf(D)
         IN  \E h : /\ Scores(hyps) = h[Len(pairs)]
                    /\ h[0] = [i \in D |-> 0]
                    /\ \A m \in 0..Len(pairs) : h[m] \in [D -> 0..10]
                    /\ \A m \in 1..Len(pairs) :
                         h[m] = AddEdge(h[m - 1], pairs[m],
                                        Affinity(hyps[pairs[m][1]], hyps[pairs[m][2]]))
  <1> DEFINE D == DOMAIN hyps
             pairs == PairsOf(D)
             N == Len(pairs)
             X == [D -> 0..10]
             Step(R, m) == AddEdge(R, pairs[m], Affinity(hyps[pairs[m][1]], hyps[pairs[m][2]]))
             F == [p \in Nat \X X |-> IF p[1] \in 1..N THEN Step(p[2], p[1]) ELSE p[2]]
             zero == [i \in D |-> 0]
             Body(g, m) == IF m = 0 THEN zero ELSE Step(g[m - 1], m)
             Loop(g) == g = [m \in 0..N |-> Body(g, m)]
  <1>2. N \in Nat /\ \A m \in 1..N : pairs[m] \in D \X D
    BY PairsEnumerated
  <1>3. ASSUME NEW R \in X, NEW m \in 1..N PROVE Step(R, m) \in X
    <2>1. Affinity(hyps[pairs[m][1]], hyps[pairs[m][2]]) \in Nat
      BY AffinityNat
    <2> HIDE DEF pairs, D, N
    <2>2. QED
      BY <1>2, <2>1, EdgeKeepsScores
  <1>4. zero \in X
    OBVIOUS
  <1> HIDE DEF pairs, Step, zero, N, X
  <1>5. F \in [Nat \X X -> X]
    <2>1. ASSUME NEW p \in Nat \X X PROVE F[p] \in X
      <3>1. p[1] \in Nat /\ p[2] \in X
        OBVIOUS
      <3>2. F[p] = IF p[1] \in 1..N THEN Step(p[2], p[1]) ELSE p[2]
        OBVIOUS
      <3> HIDE DEF F
      <3>3. QED
        BY <1>3, <3>1, <3>2
    <2>2. F = [p \in Nat \X X |-> F[p]]
      OBVIOUS
    <2> HIDE DEF F
    <2>3. QED
      BY <2>1, <2>2
  <1>6. PICK g : LoopOf(g, X, zero, F, N)
    <2> HIDE DEF F
    <2>1. QED
      BY <1>2, <1>4, <1>5, Recursion
  <1>7. ASSUME NEW m \in 0..N PROVE g[m] = Body(g, m)
    <2>1. CASE m = 0
      BY <1>6, <2>1 DEF LoopOf
    <2>2. CASE m \in 1..N
      <3>1. m - 1 \in 0..N /\ m \in Nat
        BY <1>2, <2>2
      <3>2. g[m - 1] \in X /\ g[m] = F[<<m, g[m - 1]>>]
        BY <1>6, <2>2, <3>1 DEF LoopOf
      <3>3. F[<<m, g[m - 1]>>] = Step(g[m - 1], m)
        BY <2>2, <3>1, <3>2
      <3>4. QED
        BY <2>2, <3>2, <3>3
    <2>3. QED
      BY <1>2, <2>1, <2>2
  <1>8. \E h : Loop(h)
    <2> HIDE DEF Body
    <2>1. g = [m \in 0..N |-> g[m]]
      BY <1>6 DEF LoopOf
    <2>2. QED
      BY <1>7, <2>1
  <1> DEFINE h == CHOOSE h : Loop(h)
  <1>9. Loop(h)
    <2> HIDE DEF Loop
    <2>1. QED
      BY <1>8
  <1>10. Scores(hyps) = h[N]
    BY DEF Scores, PairsOf, pairs, N, zero, Step
  <1>11. \A m \in 0..N : h[m] = Body(h, m)
    <2> HIDE DEF h, Body
    <2>1. QED
      BY <1>9
  <1>12. h[0] = zero /\ \A m \in 1..N : h[m] = Step(h[m - 1], m)
    <2> HIDE DEF h
    <2>1. QED
      BY <1>2, <1>11
  <1> DEFINE T == {n \in Nat : n <= N => h[n] \in X}
  <1> HIDE DEF h
  <1>13. 0 \in T
    BY <1>4, <1>12
  <1>14. ASSUME NEW n \in T PROVE n + 1 \in T
    <2> SUFFICES ASSUME n + 1 <= N PROVE h[n + 1] \in X
      OBVIOUS
    <2>1. h[n] \in X /\ n + 1 \in 1..N
      BY <1>2
    <2>2. h[n + 1] = Step(h[n], n + 1)
      BY <1>12, <2>1
    <2>3. QED
      BY <1>3, <2>1, <2>2
  <1>15. T = Nat
    <2>1. T \subseteq Nat
      OBVIOUS
    <2> HIDE DEF T
    <2>2. QED
      BY <1>13, <1>14, <2>1, Induction
  <1>16. \A m \in 0..N : h[m] \in X
    BY <1>2, <1>15
  <1>17. QED
    BY <1>10, <1>12, <1>16 DEF X, N, zero, Step, pairs

\* Two hypotheses chain alike in either order.
LEMMA AffinitySymmetric ==
  ASSUME NEW a, NEW b PROVE Affinity(a, b) = Affinity(b, a)
  <1>1. /\ {a.focus, b.focus} = {b.focus, a.focus}
        /\ ToSet(a.path) \cap ToSet(b.path) = ToSet(b.path) \cap ToSet(a.path)
    OBVIOUS
  <1>2. QED
    BY <1>1 DEF Affinity

\* A score that is capped again and again is that of the sum.
LEMMA CappedOnce ==
  ASSUME NEW m \in Nat, NEW w \in Nat
  PROVE  Capped(Capped(m) + w) = Capped(w + m)
  BY DEF Capped

\* score computes what a score is meant to be.
LEMMA ScoresAddUp ==
  ASSUME NEW hyps, IsFiniteSet(DOMAIN hyps), DOMAIN hyps \subseteq Nat, NEW i \in DOMAIN hyps
  PROVE  Scores(hyps)[i] = ScoreOf(hyps, i)
  <1> DEFINE D == DOMAIN hyps
             pairs == PairsOf(D)
             N == Len(pairs)
             others == D \ {i}
             w == [j \in others |-> Affinity(hyps[i], hyps[j])]
             J(n) == {j \in others : \E m \in 1..n : pairs[m] \in {<<i, j>>, <<j, i>>}}
             Sum(R) == SumFunctionOnSet(w, R)
  <1>1. PICK h : /\ Scores(hyps) = h[N]
                 /\ h[0] = [k \in D |-> 0]
                 /\ \A m \in 0..N : h[m] \in [D -> 0..10]
                 /\ \A m \in 1..N : h[m] = AddEdge(h[m - 1], pairs[m],
                                       Affinity(hyps[pairs[m][1]], hyps[pairs[m][2]]))
    BY ScoresLoop
  <1>2. /\ N \in Nat
        /\ \A m \in 1..N : /\ pairs[m] \in D \X D /\ pairs[m][1] < pairs[m][2]
                            /\ \A k \in 1..N : pairs[m] = pairs[k] => m = k
        /\ \A a, b \in D : a < b => \E m \in 1..N : pairs[m] = <<a, b>>
    BY PairsEnumerated
  <1>3. /\ \A j \in others : w[j] = Affinity(hyps[i], hyps[j]) /\ w[j] \in Nat
        /\ DOMAIN w = others
    BY AffinityNat
  <1>4. /\ Sum({}) = 0
        /\ \A R \in SUBSET others :
             Sum(R) \in Nat /\ \A j \in R : Sum(R) = w[j] + Sum(R \ {j})
    <2>1. IsFiniteSet(others)
      BY FS_RemoveElement
    <2> HIDE DEF w, others
    <2>2. QED
      BY <1>3, <2>1, SumInsert
  <1> HIDE DEF pairs, w, Sum
  <1>5. ASSUME NEW n \in Nat, n + 1 \in 1..N
        PROVE  h[n + 1][i] = IF i \in {pairs[n + 1][1], pairs[n + 1][2]}
                             THEN Capped(h[n][i] + Affinity(hyps[pairs[n + 1][1]], hyps[pairs[n + 1][2]]))
                             ELSE h[n][i]
    <2>1. (n + 1) - 1 = n /\ n \in 0..N
      BY <1>2, <1>5
    <2>2. h[n] \in [D -> 0..10]
      BY <1>1, <2>1
    <2>3. h[n + 1] = AddEdge(h[n], pairs[n + 1],
                             Affinity(hyps[pairs[n + 1][1]], hyps[pairs[n + 1][2]]))
      BY <1>1, <1>5, <2>1
    <2>4. QED
      BY <2>2, <2>3 DEF AddEdge
  <1> DEFINE T == {n \in Nat : n <= N => h[n][i] = Capped(Sum(J(n)))}
  <1>6. 0 \in T
    <2>1. J(0) = {}
      OBVIOUS
    <2> HIDE DEF J
    <2>2. QED
      BY <1>1, <1>4, <2>1 DEF Capped
  <1>7. ASSUME NEW n \in T PROVE n + 1 \in T
    <2> SUFFICES ASSUME n + 1 <= N PROVE h[n + 1][i] = Capped(Sum(J(n + 1)))
      OBVIOUS
    <2>1. n + 1 \in 1..N /\ h[n][i] = Capped(Sum(J(n)))
      BY <1>2
    <2> DEFINE p == pairs[n + 1]
    <2>2. /\ p = <<p[1], p[2]>> /\ p[1] \in D /\ p[2] \in D /\ p[1] < p[2]
          /\ p[1] \in Nat /\ p[2] \in Nat
          /\ \A m \in 1..n : pairs[m] # p /\ pairs[m][1] < pairs[m][2]
      <3>1. p \in D \X D /\ p[1] < p[2]
        BY <1>2, <2>1
      <3>2. \A m \in 1..n : m \in 1..N /\ m # n + 1
        BY <1>2, <2>1
      <3>3. QED
        BY <1>2, <2>1, <3>1, <3>2
    <2>3. \A j \in others : j \in J(n + 1) <=> (j \in J(n) \/ p \in {<<i, j>>, <<j, i>>})
      <3>1. 1..(n + 1) = 1..n \cup {n + 1}
        OBVIOUS
      <3>2. \A j \in others : (\E m \in 1..(n + 1) : pairs[m] \in {<<i, j>>, <<j, i>>})
                    <=> \/ \E m \in 1..n : pairs[m] \in {<<i, j>>, <<j, i>>}
                        \/ pairs[n + 1] \in {<<i, j>>, <<j, i>>}
        BY <3>1
      <3>3. QED
        BY <3>2
    <2> DEFINE a == p[1]
               b == p[2]
    <2> HIDE DEF p
    <2>4. CASE i \notin {a, b}
      <3>1. J(n + 1) = J(n)
        BY <2>2, <2>3, <2>4
      <3>2. QED
        BY <1>5, <2>1, <2>4, <3>1 DEF p
    <2>5. ASSUME NEW j \in others, p \in {<<i, j>>, <<j, i>>}
          PROVE  h[n + 1][i] = Capped(Sum(J(n + 1)))
      <3>1. J(n + 1) = J(n) \cup {j}
        BY <2>2, <2>3, <2>5
      <3>2. j \notin J(n)
        <4> SUFFICES ASSUME NEW m \in 1..n, pairs[m] \in {<<i, j>>, <<j, i>>} PROVE FALSE
          OBVIOUS
        <4>1. pairs[m] # p /\ pairs[m][1] < pairs[m][2] /\ p[1] < p[2]
          BY <2>2
        <4>2. i \in Nat /\ j \in Nat
          OBVIOUS
        <4>3. QED
          BY <2>5, <4>1, <4>2
      <3>3. Sum(J(n + 1)) = w[j] + Sum(J(n)) /\ Sum(J(n)) \in Nat /\ w[j] \in Nat
        <4>1. J(n + 1) \in SUBSET others /\ J(n) \in SUBSET others
          OBVIOUS
        <4>2. j \in J(n + 1) /\ J(n + 1) \ {j} = J(n)
          BY <3>1, <3>2
        <4> HIDE DEF J, others
        <4>3. QED
          BY <1>3, <1>4, <4>1, <4>2
      <3>4. h[n + 1][i] = Capped(h[n][i] + w[j])
        <4>1. \/ a = i /\ b = j
              \/ a = j /\ b = i
          BY <2>5
        <4>2. Affinity(hyps[a], hyps[b]) = w[j]
          BY <1>3, <4>1, AffinitySymmetric
        <4>3. h[n + 1][i] = Capped(h[n][i] + Affinity(hyps[a], hyps[b]))
          BY <1>5, <2>1, <4>1 DEF p
        <4>4. QED
          BY <4>2, <4>3
      <3> HIDE DEF J, others
      <3>5. QED
        BY <2>1, <3>3, <3>4, CappedOnce
    <2>6. CASE i \in {a, b}
      <3>1. PICK j \in {a, b} : j # i
        BY <2>2
      <3>2. j \in others /\ p \in {<<i, j>>, <<j, i>>}
        BY <2>2, <2>6, <3>1
      <3>3. QED
        BY <2>5, <3>2
    <2>7. QED
      BY <2>4, <2>6
  <1>8. N \in T
    <2>1. T \subseteq Nat
      OBVIOUS
    <2> HIDE DEF T
    <2>2. QED
      BY <1>2, <1>6, <1>7, <2>1, Induction
  <1>9. J(N) = others
    <2> SUFFICES ASSUME NEW j \in others
                 PROVE  \E m \in 1..N : pairs[m] \in {<<i, j>>, <<j, i>>}
      OBVIOUS
    <2>1. i < j \/ j < i
      OBVIOUS
    <2>2. QED
      BY <1>2, <2>1
  <1>10. Scores(hyps)[i] = Capped(Sum(others))
    <2>1. h[N][i] = Capped(Sum(J(N)))
      BY <1>2, <1>8
    <2> HIDE DEF J, N
    <2>2. QED
      BY <1>1, <1>9, <2>1
  <1>11. ScoreOf(hyps, i) = Capped(SumFunction(w))
    BY DEF ScoreOf, w, Capped
  <1>12. SumFunction(w) = Sum(others)
    BY <1>3 DEF SumFunction, Sum
  <1>13. QED
    BY <1>10, <1>11, <1>12

\* What run_native reports of its hypotheses: as many, with such scores.
LEMMA ReportScores ==
  ASSUME NEW hyps, hyps \in Seq(ToSet(hyps))
  PROVE  /\ Report(hyps) \in Seq(ToSet(Report(hyps)))
         /\ \A item \in ToSet(Report(hyps)) : item.score \in 0..10
         /\ \A n \in DOMAIN Report(hyps) : Report(hyps)[n].score = ScoreOf(Report(hyps), n)
  <1>1. DOMAIN hyps = 1..Len(hyps) /\ Len(hyps) \in Nat
    OBVIOUS
  <1>2. IsFiniteSet(DOMAIN hyps) /\ DOMAIN hyps \subseteq Nat
    <2>1. IsFiniteSet(1..Len(hyps))
      BY <1>1, FS_Interval
    <2>2. QED
      BY <1>1, <2>1
  <1>3. Scores(hyps) \in [DOMAIN hyps -> 0..10]
    <2>1. Len(PairsOf(DOMAIN hyps)) \in Nat
      BY <1>2, PairsEnumerated
    <2>2. PICK h : /\ Scores(hyps) = h[Len(PairsOf(DOMAIN hyps))]
                   /\ \A m \in 0..Len(PairsOf(DOMAIN hyps)) : h[m] \in [DOMAIN hyps -> 0..10]
      BY <1>2, ScoresLoop
    <2>3. QED
      BY <2>1, <2>2
  <1>4. /\ DOMAIN Report(hyps) = 1..Len(hyps)
        /\ \A i \in DOMAIN hyps : Report(hyps)[i].score = Scores(hyps)[i]
    BY <1>1 DEF Report
  <1>5. Report(hyps) = [i \in 1..Len(hyps) |-> Report(hyps)[i]]
    BY <1>1 DEF Report
  <1>6. ASSUME NEW n \in DOMAIN Report(hyps)
        PROVE  Report(hyps)[n].score = ScoreOf(Report(hyps), n)
    <2>1. /\ n \in DOMAIN hyps /\ DOMAIN Report(hyps) = DOMAIN hyps
          /\ \A i \in DOMAIN hyps : /\ Report(hyps)[i].focus = hyps[i].focus
                                     /\ Report(hyps)[i].path = hyps[i].path
      BY <1>1, <1>4, <1>6 DEF Report
    <2>2. \A i, j \in DOMAIN hyps :
            Affinity(Report(hyps)[i], Report(hyps)[j]) = Affinity(hyps[i], hyps[j])
      BY <2>1 DEF Affinity
    <2>3. ScoreOf(Report(hyps), n) = ScoreOf(hyps, n)
      <3>1. [j \in DOMAIN hyps \ {n} |-> Affinity(Report(hyps)[n], Report(hyps)[j])]
              = [j \in DOMAIN hyps \ {n} |-> Affinity(hyps[n], hyps[j])]
        BY <2>1, <2>2
      <3>2. QED
        BY <2>1, <3>1 DEF ScoreOf
    <2>4. Scores(hyps)[n] = ScoreOf(hyps, n)
      BY <1>2, <2>1, ScoresAddUp
    <2>5. QED
      BY <1>4, <2>1, <2>3, <2>4
  <1>7. QED
    BY <1>1, <1>3, <1>4, <1>5, <1>6 DEF ToSet

\* A sequence is one of its own elements.
LEMMA SeqOfItself ==
  ASSUME NEW X, NEW s \in Seq(X) PROVE s \in Seq(ToSet(s))
  BY DEF ToSet

\* What either backend makes up is a sequence.
LEMMA HeuristicSeq ==
  ASSUME NEW hits, IsFiniteSet(hits), NEW hyps \in HeuristicHypotheses(hits)
  PROVE  hyps \in Seq(ToSet(hyps))
  <1> DEFINE Made(h) == [focus |-> h[2], path |-> <<h[1]>>, file |-> h[1], severity |-> "medium"]
  <1>1. PICK K \in SUBSET hits : hyps = SetToSeq({Made(h) : h \in K})
    BY DEF HeuristicHypotheses, kSubset
  <1>2. IsFiniteSet({Made(h) : h \in K})
    <2> DEFINE f == [h \in K |-> Made(h)]
               M == {Made(h) : h \in K}
    <2>1. IsFiniteSet(K)
      BY FS_Subset
    <2>2. f \in Surjection(K, M)
      BY DEF Surjection
    <2> HIDE DEF f, M
    <2>3. IsFiniteSet(M)
      BY <2>1, <2>2, FS_Surjection
    <2>4. QED
      BY <2>3 DEF M
  <1> DEFINE M == {Made(h) : h \in K}
  <1> HIDE DEF M, Made
  <1>3. hyps \in Seq(M)
    BY <1>1, <1>2, SeqOfSet DEF M
  <1>4. QED
    BY <1>3, SeqOfItself

\* What the Ollama backend proposes is a sequence, a model's answer cut at the cap.
LEMMA OllamaSeq ==
  ASSUME NEW answer, answer \in Seq(ToSet(answer))
  PROVE  OllamaHypotheses(answer) \in Seq(ToSet(OllamaHypotheses(answer)))
  <1> DEFINE n == Min({MaxOllama, Len(answer)})
  <1>1. n \in 0..Len(answer)
    <2>1. MaxOllama \in Nat /\ Len(answer) \in Nat
      BY CapsAssumption
    <2>2. \E x \in {MaxOllama, Len(answer)} : \A y \in {MaxOllama, Len(answer)} : x <= y
      BY <2>1
    <2>3. n \in {MaxOllama, Len(answer)} /\ \A y \in {MaxOllama, Len(answer)} : n <= y
      BY <2>2 DEF Min
    <2> HIDE DEF n
    <2>4. QED
      BY <2>1, <2>3
  <1>2. OllamaHypotheses(answer) = SubSeq(answer, 1, n)
    BY DEF OllamaHypotheses
  <1> HIDE DEF n
  <1>3. SubSeq(answer, 1, n) \in Seq(ToSet(answer))
    BY <1>1
  <1>4. QED
    BY <1>2, <1>3, SeqOfItself
==============================================================================
