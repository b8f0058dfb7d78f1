-------------------------------- MODULE Adapters --------------------------------
(***************************************************************************)
(* The adapters under adapters/: what each asks of a request, the          *)
(* container it declares and how it turns its tool's report into SARIF.    *)
(* RVD's report is in module Rvd.                                          *)
(*                                                                         *)
(* A request is [class, has, auth]: what there is to scan and whether it   *)
(* names a secret; "language" is in has unless it names a language CodeQL  *)
(* does not know.  An item of a tool's report is [rule, word, at]: the     *)
(* rule, the tool's own word for its severity, and the place: a file, a    *)
(* package, a URL, or for Nuclei and Vigolium a URL and a parameter.  A    *)
(* URL is [page, token], token: what of it looks like a secret, if         *)
(* anything does.                                                          *)
(***************************************************************************)
EXTENDS Normalize

\* Defaults of ContainerSpec and ScannerAdapter.  onEmpty says whether an
\* empty report is one without results, lines whether a report is read line
\* by line, skipping what is no JSON.
Contract ==
  [class |-> "SAST", native |-> FALSE, needs |-> {"directory"}, network |-> "none",
   okCodes |-> {0}, secret |-> FALSE, onEmpty |-> TRUE, lines |-> FALSE]

Demoscan == [Contract EXCEPT !.native = TRUE, !.onEmpty = FALSE]

Semgrep == [Contract EXCEPT !.needs = {"directory", "rules"}, !.okCodes = {0, 1},
                            !.onEmpty = FALSE]

Gitleaks == [Contract EXCEPT !.okCodes = {0, 1}]

Bandit == [Contract EXCEPT !.okCodes = {0, 1}]

\* Asks for a workspace path without looking at it: one the planner
\* prepared is a directory.
Trivy == [Contract EXCEPT !.network = "egress"]

Clair == [Contract EXCEPT !.needs = {"image"}, !.network = "egress",
                          !.secret = TRUE]

CodeQL == [Contract EXCEPT !.needs = {"directory", "language"}]

\* What every DAST adapter asks for and declares.
Dynamic == [Contract EXCEPT !.class = "DAST", !.needs = {"target", "allowlist"},
                            !.network = "target"]

Nuclei == [Dynamic EXCEPT !.lines = TRUE]

Zap == [Dynamic EXCEPT !.okCodes = {0, 1, 2}, !.secret = TRUE]

Vigolium == [Dynamic EXCEPT !.okCodes = {0, 1}, !.lines = TRUE]

RvdAdapter == [Contract EXCEPT !.class = "RVD", !.native = TRUE, !.needs = {},
                               !.onEmpty = FALSE]

\* registry.py: every adapter is registered once, under its name.
Adapter ==
  [demoscan |-> Demoscan, semgrep |-> Semgrep, gitleaks |-> Gitleaks,
   bandit |-> Bandit, trivy |-> Trivy, clair |-> Clair, codeql |-> CodeQL,
   nuclei |-> Nuclei, zap |-> Zap, vigolium |-> Vigolium, rvd |-> RvdAdapter]

Tools == DOMAIN Adapter

NamesForClass(class) == {a \in Tools : Adapter[a].class = class}

\* validate_inputs.
Accepts(a, q) ==
  /\ q.class = Adapter[a].class
  /\ Adapter[a].needs \subseteq q.has
  /\ a = "rvd" => /\ q.has \cap {"directory", "target"} # {}
                  /\ "target" \in q.has => "allowlist" \in q.has

\* build_invocation: what depends on the request.
Network(a, q) == IF a = "rvd" /\ "target" \in q.has THEN "egress" ELSE Adapter[a].network

NeedsSecret(a, q) == Adapter[a].secret /\ q.auth

-----------------------------------------------------------------------------
(* parse_output: an item of a report as a SARIF result *)

InFile(item) == Location({item.at}, <<>>)

OfDemoscan(item) ==
  [PlainResult(item.rule, InFile(item)) EXCEPT
     !.level = IF item.word = "high" THEN "error" ELSE "warning",
     !.severity = {item.word}]

\* The rule's default level, if the report lists the rule.
OfSemgrep(item) ==
  [PlainResult(item.rule, InFile(item)) EXCEPT
     !.level = IF item.word = "unlisted" THEN @ ELSE item.word]

\* A severity the report gives is kept.
OfGitleaks(item) ==
  [PlainResult(item.rule, InFile(item)) EXCEPT
     !.level = "error",
     !.severity = IF item.word = "unset" THEN {"high"} ELSE {item.word}]

BanditLevel == [HIGH |-> "error", MEDIUM |-> "warning", LOW |-> "note"]
BanditText == [HIGH |-> "high", MEDIUM |-> "medium", LOW |-> "low"]

OfBandit(item) ==
  LET known == item.word \in DOMAIN BanditText
  IN  [PlainResult(item.rule, InFile(item)) EXCEPT
         !.level = IF known THEN BanditLevel[item.word] ELSE "note",
         !.severity = {IF known THEN BanditText[item.word] ELSE "low"}]

\* The rule's security-severity, in tenths, if it is a number.
SecuritySeverity ==
  "9.8" :> {98} @@ "9.0" :> {90} @@ "8.9" :> {89} @@ "4.0" :> {40}
    @@ "0.1" :> {1} @@ "0.0" :> {0} @@ "n/a" :> {} @@ "unset" :> {}

OfTrivy(item) ==
  [PlainResult(item.rule, InFile(item)) EXCEPT !.cvss = SecuritySeverity[item.word]]

OfCodeQL(item) ==
  [PlainResult(item.rule, InFile(item)) EXCEPT !.cvss = SecuritySeverity[item.word]]

ClairText ==
  [Critical |-> "critical", High |-> "high", Medium |-> "medium", Low |-> "low",
   Negligible |-> "info", Unknown |-> "info"]

ClairLevel ==
  [critical |-> "error", high |-> "error", medium |-> "warning", low |-> "note", info |-> "note"]

\* The package is a property of the location, and no fingerprint has it.
OfClair(item) ==
  LET text == IF item.word \in DOMAIN ClairText THEN ClairText[item.word] ELSE "info"
  IN  [PlainResult(item.rule, Location({}, [package |-> item.at])) EXCEPT
         !.level = ClairLevel[text], !.severity = {text}]

\* redact, of a URL: whatever looks like a secret in it, the path of a vault
\* reference included, becomes the same mask.
Redact(url) == [url EXCEPT !.token = IF @ = "none" THEN @ ELSE "***"]

\* Nuclei and Vigolium: the URL is redacted, the parameter is not.
OnPage(item) ==
  LET url == Redact(item.at.url)
  IN  Location({}, [url |-> url, route |-> url, param |-> item.at.param])

NucleiLevel ==
  [critical |-> "error", high |-> "error", medium |-> "warning",
   low |-> "note", info |-> "note", unknown |-> "note"]

OfNuclei(item) ==
  [PlainResult(item.rule, OnPage(item)) EXCEPT
     !.level = IF item.word \in DOMAIN NucleiLevel THEN NucleiLevel[item.word] ELSE "note",
     !.severity = {item.word}]

\* ZAP's SARIF as it is, URLs redacted.
OfZap(item) ==
  [PlainResult(item.rule, Location({}, [url |-> Redact(item.at)])) EXCEPT !.level = item.word]

VigoliumLevel ==
  [critical |-> "error", high |-> "error", medium |-> "warning",
   low |-> "note", info |-> "note", informational |-> "note"]

OfVigolium(item) ==
  LET known == item.word \in DOMAIN VigoliumLevel
  IN  [PlainResult(item.rule, OnPage(item)) EXCEPT
         !.level = IF known THEN VigoliumLevel[item.word] ELSE "note",
         !.severity = {IF known THEN item.word ELSE "info"}]

\* The result a scanner's item is parsed to.
Parsed(a, item) ==
  CASE a = "demoscan" -> OfDemoscan(item)
    [] a = "semgrep"  -> OfSemgrep(item)
    [] a = "gitleaks" -> OfGitleaks(item)
    [] a = "bandit"   -> OfBandit(item)
    [] a = "trivy"    -> OfTrivy(item)
    [] a = "clair"    -> OfClair(item)
    [] a = "codeql"   -> OfCodeQL(item)
    [] a = "nuclei"   -> OfNuclei(item)
    [] a = "zap"      -> OfZap(item)
    [] a = "vigolium" -> OfVigolium(item)
==============================================================================
