-------------------------------- MODULE Reports --------------------------------
(***************************************************************************)
(* Readers of findings: list_findings of api/services/findings.py, the     *)
(* report and the gate of api/routes/reports.py and the dashboard of       *)
(* api/services/dashboard.py.                                              *)
(*                                                                         *)
(* A reader lists the findings and then reads the latest record of each,   *)
(* one query after the other: what others commit meanwhile shows in some   *)
(* of them.  All readers read the same way and differ in what they make of *)
(* it, so one read stands for all.                                         *)
(***************************************************************************)
EXTENDS Triage, Functions

CONSTANTS
  ProjectOf,  \* ProjectOf[s]: the project of scan s; ids have an order
  FirstSeen,  \* FirstSeen[f]: when finding f is stored
  DayLength,  \* the instants of a day
  Windows,    \* the instants since which a dashboard counts
  MaxTop      \* the projects a dashboard lists: 10 in the code

ASSUME ReportsAssumption ==
  /\ ProjectOf \in [Scans -> Nat]
  /\ FirstSeen \in [Findings -> Nat]
  /\ DayLength \in Nat \ {0}
  /\ Windows \subseteq Nat
  /\ MaxTop \in Nat

VARIABLES
  reader  \* reader[r]: state of r when it reads, the scan it asks for, the
          \* findings it has yet to read, what it read of the others, and how
          \* many records each had when it began

\* Variant: the severity of the row, whatever was decided.
Shown_OfRow(f) == [severity |-> SeverityOf[f], status |-> EffectiveStatus(f)]

Shown(f) == [severity |-> EffectiveSeverity(f), status |-> EffectiveStatus(f)]

NoReader == [state |-> "idle", scan |-> {}, todo |-> {}, read |-> <<>>, before |-> <<>>]

ReaderTypeOK ==
  /\ DOMAIN reader = Requests
  /\ \A r \in Requests : \E F, G \in SUBSET Findings :
       reader[r] \in [state : {"idle", "reading", "done"}, scan : SUBSET Scans,
                      todo : SUBSET Findings, before : [G -> Nat],
                      read : [F -> [severity : Severities, status : TriageStatus]]]

ReaderInit == reader = [r \in Requests |-> NoReader]

-----------------------------------------------------------------------------
(* list_findings *)

\* The findings of one scan, or for the dashboard of all: S is the set.
BeginRead(r, S) ==
  /\ reader[r].state = "idle"
  /\ LET rows == {f \in Findings : ScanOf[f] \in S \cap published}
     IN  reader' = [reader EXCEPT ![r] =
           [state |-> "reading", scan |-> S, todo |-> rows, read |-> <<>>,
            before |-> [f \in rows |-> Cardinality(records[f])]]]

\* effective, of one of them.
ReadOne(r, f) ==
  /\ reader[r].state = "reading" /\ f \in reader[r].todo
  /\ reader' = [reader EXCEPT ![r].todo = @ \ {f}, ![r].read = Put(@, f, Shown(f))]

EndRead(r) ==
  /\ reader[r].state = "reading" /\ reader[r].todo = {}
  /\ reader' = [reader EXCEPT ![r].state = "done"]

-----------------------------------------------------------------------------
(* What is made of it: R[f] is what was read of finding f *)

\* Variant: what is embargoed does not block.
BlockingStatus_NotEmbargoed == {"open", "confirmed"}

BlockingStatus == {"open", "confirmed", "embargoed"}

\* gate: the findings of severity high and up whose status blocks.
GateBlocking(R) ==
  {f \in DOMAIN R : Rank[R[f].severity] >= Rank["high"] /\ R[f].status \in BlockingStatus}

GatePasses(R) == GateBlocking(R) = {}

SarifLevel ==
  [critical |-> "error", high |-> "error", medium |-> "warning", low |-> "note", info |-> "none"]

\* report: the totals of the JSON form and the results of the SARIF form.
CountBySeverity(R, F) ==
  [s \in Severities |-> Cardinality({f \in F : R[f].severity = s})]

Totals(R) == CountBySeverity(R, DOMAIN R)

SarifResults(R) == [f \in DOMAIN R |-> [level |-> SarifLevel[R[f].severity], status |-> R[f].status]]

Engines == {"SAST", "DAST", "IAST", "RVD"}

Resolved == {"fixed", "false_positive", "accepted_risk"}
Suppressed == {"false_positive", "accepted_risk"}

\* Variant: what nobody has left open is resolved.
Bucket_OnlyOpen(status) == IF status = "open" THEN "open" ELSE "resolved"

Bucket(status) == IF status \in Resolved THEN "resolved" ELSE "open"

Day(f) == FirstSeen[f] \div DayLength

\* effs of build: the findings of the engines the query names, or of all when
\* it names no known one, that are not older than the window.
Counted(R, named, since) ==
  {f \in DOMAIN R : /\ named \cap Engines # {} => ClassOf[f] \in named
                    /\ FirstSeen[f] >= since}

CountByProject(F) ==
  [p \in {ProjectOf[ScanOf[f]] : f \in F} |-> Cardinality({f \in F : ProjectOf[ScanOf[f]] = p})]

\* _rank: the projects with the most findings come first, then by id.
RankedBefore(total, p) ==
  {q \in DOMAIN total : total[q] > total[p] \/ (total[q] = total[p] /\ q < p)}

Top(total) == Restrict(total, {p \in DOMAIN total : Cardinality(RankedBefore(total, p)) < MaxTop})

\* build.  The applications are listed as the projects are; they, the names and
\* the overview's counts are left out.
Dashboard(R, named, since) ==
  LET F == Counted(R, named, since)
  IN  [by_severity  |-> CountBySeverity(R, F),
       by_engine    |-> [e \in Engines |-> CountBySeverity(R, {f \in F : ClassOf[f] = e})],
       remediations |-> Cardinality({f \in F : R[f].status = "fixed"}),
       suppressions |-> Cardinality({f \in F : R[f].status \in Suppressed}),
       trends       |-> [d \in {Day(f) : f \in F} |-> [b \in {"open", "resolved"} |->
                           Cardinality({f \in F : Day(f) = d /\ Bucket(R[f].status) = b})]],
       top_projects |-> Top(CountByProject(F)),
       total        |-> Cardinality(F)]

-----------------------------------------------------------------------------
(* The strengthening that makes the properties below inductive. *)

\* Somebody closed f; or lowered its severity.
Closed(f) == \E t \in records[f] : t.explicit /\ t.status \in Resolved

Eased(f) == Closed(f) \/ \E t \in records[f] : t.override \in {"medium", "low", "info"}

\* A reader has read, or has yet to read, the findings it listed: those of its
\* scan that were stored.  What it read of one without a new record since is
\* what is shown, a finding it read as resolved was closed, and a severe
\* finding it read blocks or was eased.
ReadersOK ==
  /\ \A f \in Findings : IsFiniteSet(records[f])
  /\ \A r \in Requests :
       LET R == reader[r]
       IN  /\ R.state = "idle" => DOMAIN R.before = {}
           /\ R.state = "done" => R.todo = {}
           /\ DOMAIN R.before = R.todo \cup DOMAIN R.read
           /\ \A f \in DOMAIN R.before : /\ ScanOf[f] \in published
                                         /\ R.before[f] <= Cardinality(records[f])
           /\ \A f \in DOMAIN R.read :
                /\ Cardinality(records[f]) = R.before[f] => R.read[f] = Shown(f)
                /\ R.read[f].status \in Resolved => Closed(f)
                /\ Rank[SeverityOf[f]] >= Rank["high"] =>
                     Eased(f) \/ f \in GateBlocking(R.read)

-----------------------------------------------------------------------------
(* Properties *)

Answered == {r \in Requests : reader[r].state = "done"}

\* The gate lets a scan with a severe finding pass only if the findings were
\* not stored yet when it was asked, or somebody has closed the finding or
\* lowered its severity: no interleaving of its reads with other requests
\* passes a finding nobody decided about (reports.py:107-112,
\* findings.py:74-86).
GatePassNeedsDecision ==
  \A r \in Answered : GatePasses(reader[r].read) =>
    \A f \in Findings :
      ScanOf[f] \in reader[r].scan /\ Rank[SeverityOf[f]] >= Rank["high"] =>
        \/ f \notin DOMAIN reader[r].before
        \/ \E t \in records[f] : \/ t.explicit /\ t.status \in Resolved
                                 \/ t.override \in {"medium", "low", "info"}

\* An answer is up to date unless it was overtaken: where no record of a
\* finding was committed since the reader began, the reader has what is in
\* effect for it now (findings.py:74-86).
AnswersAreCurrent ==
  \A r \in Answered : \A f \in DOMAIN reader[r].read :
    Cardinality(records[f]) = reader[r].before[f] =>
      reader[r].read[f] = [severity |-> EffectiveSeverity(f), status |-> EffectiveStatus(f)]

\* Of the same reads R, the gate passes exactly if the SARIF report has no
\* error whose status blocks.
ReportAgrees(R) ==
  GatePasses(R) <=> \A f \in DOMAIN R : SarifResults(R)[f].level = "error"
                                          => SarifResults(R)[f].status \notin BlockingStatus

\* A dashboard's parts add up to what it counts in its window: by severity, by
\* engine, by day and as decided.  No project it leaves out has more findings
\* than one it lists.
DashboardAdds(R, since) ==
  LET all == Dashboard(R, {}, since)
      OfEngine(e) == Dashboard(R, {e}, since)
      Sum(b) == SumFunction([d \in DOMAIN all.trends |-> all.trends[d][b]])
      projects == CountByProject(Counted(R, {}, since))
  IN  /\ SumFunction(all.by_severity) = all.total
      /\ \A e \in Engines : OfEngine(e).by_severity = all.by_engine[e]
      /\ SumFunction([e \in Engines |-> OfEngine(e).total]) = all.total
      /\ Sum("open") + Sum("resolved") = all.total
      /\ all.remediations + all.suppressions = Sum("resolved")
      /\ \A p \in DOMAIN all.top_projects : \A q \in DOMAIN projects \ DOMAIN all.top_projects :
           projects[q] <= all.top_projects[p]

\* What nobody closed, of the findings of the window that were stored when the
\* dashboard was asked, is open on its day; what nobody eased counts as severe.
DashboardShows(R, stored, since) ==
  LET all == Dashboard(R, {}, since)
      recent == {f \in stored : FirstSeen[f] >= since}
      unclosed == {f \in recent : ~Closed(f)}
      severe == {f \in recent : Rank[SeverityOf[f]] >= Rank["high"] /\ ~Eased(f)}
  IN  /\ \A d \in {Day(f) : f \in unclosed} :
           Cardinality({f \in unclosed : Day(f) = d}) <= all.trends[d]["open"]
      /\ Cardinality(severe) <= all.by_severity["high"] + all.by_severity["critical"]

\* Whatever others commit while a report, a gate or a dashboard reads, the
\* forms of a report agree with the gate, the parts of a dashboard add up, and
\* no finding of its window that nobody decided about is missing from it
\* (reports.py:27-33, 77-84, 112; dashboard.py:42-97, 110-115).
ReadersAgree ==
  \A r \in Answered :
    /\ ReportAgrees(reader[r].read)
    /\ reader[r].scan = Scans => \A since \in Windows :
         /\ DashboardAdds(reader[r].read, since)
         /\ DashboardShows(reader[r].read, DOMAIN reader[r].before, since)
==============================================================================
