------------------------------ MODULE MCPipeline ------------------------------
(* A small instance of ScanPipeline for TLC. *)
EXTENDS ScanPipeline

CONSTANTS f1, f2, u1, u2

Item(rule, word, at) == [rule |-> rule, word |-> word, at |-> at]

Url(page, token) == [page |-> page, token |-> token]

At(url, param) == [url |-> url, param |-> param]

\* Rules two tools share: c1 (Trivy and Clair), t (Nuclei and Vigolium).  Of
\* page u2 there are two URLs that differ in a token.
MCItems ==
  [demoscan |-> {Item("d", "high", f1), Item("d", "high", f2), Item("e", "medium", f1)},
   semgrep  |-> {Item("s", "error", f1), Item("s", "error", f2), Item("s2", "unlisted", f1)},
   gitleaks |-> {Item("g", "unset", f1), Item("g", "low", f1)},
   bandit   |-> {Item("b", "LOW", f1), Item("b", "HIGH", f1), Item("b", "UNDEFINED", f2)},
   trivy    |-> {Item("c1", "9.0", f1), Item("c2", "8.9", f1), Item("c3", "0.0", f2)},
   codeql   |-> {Item("q", "4.0", f1), Item("q2", "n/a", f1)},
   clair    |-> {Item("c1", "High", u1), Item("c1", "Low", u2), Item("c2", "Negligible", u1)},
   nuclei   |-> {Item("t", "high", At(Url(u2, "k1"), "None")),
                 Item("t", "high", At(Url(u1, "none"), "q")),
                 Item("n", "unknown", At(Url(u1, "none"), "None"))},
   zap      |-> {Item("z", "warning", Url(u1, "none")), Item("z", "note", Url(u2, "k1")),
                 Item("z", "error", Url(u2, "k2"))},
   vigolium |-> {Item("t", "low", At(Url(u1, "none"), "q")),
                 Item("t", "informational", At(Url(u2, "k2"), "None")),
                 Item("v", "strange", At(Url(u1, "none"), "None"))}]

\* demoscan, in the worker's own process, always writes a report.
MCReportsOf ==
  [a \in DOMAIN MCItems |->
     {[kind |-> "report", items |-> s] : s \in BoundedSeq(MCItems[a], 2)}
       \cup {[kind |-> k, items |-> <<>>] : k \in
               IF Adapter[a].native THEN {} ELSE {"garbage", "empty"}}]

Hypothesis(focus, path, file, severity) ==
  [focus |-> focus, path |-> path, file |-> file, severity |-> severity]

\* Two of the same focus on one path, two without a path.
MCHypotheses ==
  {Hypothesis("auth", <<f1, f2>>, f1, "medium"),
   Hypothesis("isolation", <<f1, f2>>, f1, "low"),
   Hypothesis("isolation", <<f1, f2>>, f2, "critical"),
   Hypothesis("deserialization", <<f1>>, f1, "high"),
   Hypothesis("general", <<>>, f1, "info"),
   Hypothesis("general", <<>>, f2, "medium")}

\* Up to three hypotheses, and one more than the cap.
MCAnswers ==
  BoundedSeq(MCHypotheses, 3)
    \cup {[i \in 1..4 |-> Hypothesis("auth", <<f1>>, f1, "high")]}

Scan(class, tools, has, auth) ==
  [class |-> class, tools |-> tools, has |-> has, auth |-> auth,
   backend |-> "none", code |-> TRUE, hits |-> {}]

Rvd(has, asked, text, found) ==
  [class |-> "RVD", tools |-> <<"rvd">>, has |-> has, auth |-> FALSE,
   backend |-> asked, code |-> text, hits |-> found]

MCHits == {<<f1, "auth">>, <<f1, "isolation">>, <<f2, "deserialization">>}

MCWanted ==
  {Scan("SAST", <<"demoscan", "semgrep">>, {"directory", "rules"}, FALSE),
   Scan("SAST", <<"demoscan", "semgrep">>, {"directory"}, FALSE),
   Scan("SAST", <<"demoscan", "demoscan">>, {"directory"}, FALSE),
   Scan("SAST", <<"bandit", "gitleaks">>, {"directory"}, FALSE),
   Scan("SAST", <<"codeql", "trivy">>, {"directory", "language"}, FALSE),
   Scan("SAST", <<"trivy", "clair">>, {"image"}, TRUE),
   Scan("DAST", <<"nuclei", "vigolium">>, {"target", "allowlist"}, FALSE),
   Scan("DAST", <<"zap">>, {"target", "allowlist"}, TRUE),
   Rvd({"target"}, "none", FALSE, {}),
   Rvd({"target", "allowlist"}, "ollama", FALSE, {}),
   Rvd({"directory"}, "none", TRUE, MCHits),
   Rvd({"directory"}, "heuristic", TRUE, MCHits),
   Rvd({"directory"}, "unheard", TRUE, {})}

MCHosts == {[docker |-> TRUE, secret |-> TRUE], [docker |-> TRUE, secret |-> FALSE],
            [docker |-> FALSE, secret |-> TRUE]}

Hook(direction, project, active, events) ==
  [direction |-> direction, project |-> project, url |-> direction = "outbound",
   active |-> active, events |-> events]

MCHookOf ==
  [everywhere |-> Hook("outbound", "all", TRUE, {"scan.completed"}),
   ours       |-> Hook("outbound", "p", TRUE, {"scan.completed", "other"}),
   theirs     |-> Hook("outbound", "q", TRUE, {"scan.completed"}),
   deaf       |-> Hook("outbound", "all", TRUE, {"other"}),
   inbound    |-> Hook("inbound", "p", TRUE, {"scan.completed"})]

MCEarlyHooks == <<"deaf", "everywhere", "theirs", "inbound">>
==============================================================================
