-------------------------------- MODULE Triage --------------------------------
(***************************************************************************)
(* Findings and what people decide about them: api/services/findings.py,   *)
(* the PATCH routes of api/routes/findings.py and audit.record.  A finding *)
(* never changes; a decision is a TriageRecord, and the one with the       *)
(* latest created_at counts.                                               *)
(*                                                                         *)
(* A request reads the state in effect, stamps its record when it flushes  *)
(* it and makes it visible, with its audit entry, when it commits: records *)
(* become visible in another order than their stamps say, and what a       *)
(* request read may be out of date by then.  Stamps are distinct; an audit *)
(* entry is stamped as it is committed.                                    *)
(***************************************************************************)
EXTENDS Normalize, TLC

CONSTANTS
  Findings,
  ScanOf,      \* ScanOf[f]: the scan that reports finding f
  ClassOf,     \* ClassOf[f]: its scan class
  SeverityOf,  \* SeverityOf[f]: its severity
  Requests,    \* the requests people make; bounds their number
  Asks         \* what triage and assign requests ask for: see Asked

TriageStatus == {"open", "confirmed", "false_positive", "accepted_risk", "fixed", "embargoed"}

\* "same": the request has no status; "none": no severity_override.  An
\* assignment has neither.
Asked == [action : {"triage", "assign"}, finding : Findings,
          status : TriageStatus \cup {"same"}, override : Severities \cup {"none"}]

Scans == {ScanOf[f] : f \in Findings}

RvdFindings == {f \in Findings : ClassOf[f] = "RVD"}

ASSUME FindingsAssumption ==
  /\ IsFiniteSet(Findings)
  /\ ScanOf \in [Findings -> Scans]
  /\ ClassOf \in [Findings -> {"SAST", "DAST", "IAST", "RVD"}]
  /\ SeverityOf \in [Findings -> Severities]
  /\ Asks \subseteq Asked
  /\ \A a \in Asks : a.action = "assign" => a.status = "same" /\ a.override = "none"

VARIABLES
  published,  \* scans whose findings are stored
  records,    \* records[f]: the committed TriageRecords of f
  history,    \* history[f]: the audit entries about f, in order
  clock,      \* the next created_at
  at,         \* at[r]: the next statement of request r
  ask,        \* ask[r]: what r asks for
  seen,       \* seen[r]: status in effect r read, with the time it is of
  stamp       \* stamp[r]: created_at of r's record

triageVars == <<published, records, history, clock, at, ask, seen, stamp>>

\* explicit: the status was asked for; otherwise it was copied from the
\* record of time saw (0 when there was none).
TriageRecord == [time : Nat, status : TriageStatus, override : Severities \cup {"none"},
                 explicit : BOOLEAN, saw : Nat]

AuditEntry == [action : {"triage", "assign", "comment"}, status : TriageStatus \cup {"none"}]

Unread == [status |-> "open", time |-> 0]

NoAsk == [action |-> "none"]

TriageTypeOK ==
  /\ published \in SUBSET Scans
  /\ records \in [Findings -> SUBSET TriageRecord]
  /\ history \in [Findings -> Seq(AuditEntry)]
  /\ clock \in Nat
  /\ at \in [Requests -> {"idle", "flush", "commit", "done"}]
  /\ ask \in [Requests -> Asks \cup {NoAsk}]
  /\ \A r \in Requests : at[r] \in {"flush", "commit"} => ask[r] \in Asks
  /\ seen \in [Requests -> [status : TriageStatus, time : Nat]]
  /\ stamp \in [Requests -> Nat]

TriageInit ==
  /\ published = {}
  /\ records = [f \in Findings |-> {}]
  /\ history = [f \in Findings |-> <<>>]
  /\ clock = 1
  /\ at = [r \in Requests |-> "idle"]
  /\ ask = [r \in Requests |-> NoAsk]
  /\ seen = [r \in Requests |-> Unread]
  /\ stamp = [r \in Requests |-> 0]

-----------------------------------------------------------------------------
(* What a reader of the API is shown *)

DefaultStatus(f) == IF f \in RvdFindings THEN "embargoed" ELSE "open"

\* _latest_triage, of a finding that has records.
Latest(R) == CHOOSE r \in R : \A x \in R : x.time <= r.time

EffectiveStatus(f) ==
  IF records[f] = {} THEN DefaultStatus(f) ELSE Latest(records[f]).status

EffectiveTime(f) == IF records[f] = {} THEN 0 ELSE Latest(records[f]).time

EffectiveSeverity(f) ==
  LET override == IF records[f] = {} THEN "none" ELSE Latest(records[f]).override
  IN  IF override = "none" THEN SeverityOf[f] ELSE override

-----------------------------------------------------------------------------
(* _persist_findings: the findings of a scan, and the embargo of RVD's.     *)

Publish(s) ==
  /\ s \notin published
  /\ published' = published \cup {s}
  /\ records' = [f \in Findings |->
       IF ScanOf[f] = s /\ f \in RvdFindings
       THEN {[time |-> clock, status |-> "embargoed", override |-> "none",
              explicit |-> TRUE, saw |-> 0]}
       ELSE records[f]]
  /\ clock' = clock + 1
  /\ UNCHANGED <<history, at, ask, seen, stamp>>

\* PATCH triage or PATCH assignee: the request reads the status in effect.
ReadEffective(r, a) ==
  /\ at[r] = "idle"
  /\ ScanOf[a.finding] \in published
  /\ at' = [at EXCEPT ![r] = "flush"]
  /\ ask' = [ask EXCEPT ![r] = a]
  /\ seen' = [seen EXCEPT ![r] = [status |-> EffectiveStatus(a.finding),
                                  time   |-> EffectiveTime(a.finding)]]
  /\ UNCHANGED <<published, records, history, clock, stamp>>

\* require_role: somebody who is no triager is refused.
Forbid(r) ==
  /\ at[r] = "idle"
  /\ at' = [at EXCEPT ![r] = "done"]
  /\ UNCHANGED <<published, records, history, clock, ask, seen, stamp>>

\* session.flush: the record gets its created_at.
Flush(r) ==
  /\ at[r] = "flush"
  /\ at' = [at EXCEPT ![r] = "commit"]
  /\ stamp' = [stamp EXCEPT ![r] = clock]
  /\ clock' = clock + 1
  /\ UNCHANGED <<published, records, history, ask, seen>>

\* Variant: without a status the finding is opened.
RecordOf_Opens(r) ==
  [time |-> stamp[r],
   status |-> IF ask[r].status = "same" THEN "open" ELSE ask[r].status,
   override |-> ask[r].override,
   explicit |-> ask[r].status # "same",
   saw |-> seen[r].time]

\* Variant: a status that is none of the enumeration.
RecordOf_Same(r) ==
  [time |-> stamp[r], status |-> ask[r].status, override |-> ask[r].override,
   explicit |-> ask[r].status # "same", saw |-> seen[r].time]

RecordOf(r) ==
  [time |-> stamp[r],
   status |-> IF ask[r].status = "same" THEN seen[r].status ELSE ask[r].status,
   override |-> ask[r].override,
   explicit |-> ask[r].status # "same",
   saw |-> seen[r].time]

\* Variant: the entry has the status from before.
EntryOf_Before(r) ==
  [action |-> ask[r].action,
   status |-> IF ask[r].action = "triage" THEN seen[r].status ELSE "none"]

\* audit.record.  An assignment's entry does not say the status.
EntryOf(r) ==
  [action |-> ask[r].action,
   status |-> IF ask[r].action = "triage" THEN RecordOf(r).status ELSE "none"]

\* The record and its audit entry are committed.
Commit(r) ==
  /\ at[r] = "commit"
  /\ at' = [at EXCEPT ![r] = "done"]
  /\ records' = [records EXCEPT ![ask[r].finding] = @ \cup {RecordOf(r)}]
  /\ history' = [history EXCEPT ![ask[r].finding] = Append(@, EntryOf(r))]
  /\ UNCHANGED <<published, clock, ask, seen, stamp>>

\* The transaction is rolled back.
Abort(r) ==
  /\ at[r] \in {"flush", "commit"}
  /\ at' = [at EXCEPT ![r] = "done"]
  /\ UNCHANGED <<published, records, history, clock, ask, seen, stamp>>

TriageStep ==
  \/ \E s \in Scans : Publish(s)
  \/ \E r \in Requests : Flush(r) \/ Commit(r) \/ Abort(r)

-----------------------------------------------------------------------------
(* The strengthening that makes the properties below inductive. *)

\* The requests under way, about finding f.
Pending(f) == {r \in Requests : at[r] \in {"flush", "commit"} /\ ask[r].finding = f}

\* Of what is not stored yet nothing is decided.
PublishedOK ==
  /\ \A f \in Findings : ScanOf[f] \notin published =>
       /\ records[f] = {} /\ Pending(f) = {}
       /\ \A i \in DOMAIN history[f] : history[f][i].action # "triage"
  /\ \A f \in RvdFindings : ScanOf[f] \in published => records[f] # {}

\* Stamps are in the past and distinct, and later than what their requests saw.
StampsOK ==
  \A f \in Findings :
    /\ \A x \in records[f] : /\ x.saw < x.time /\ x.time < clock
                             /\ \A y \in records[f] : x.time = y.time => x = y
    /\ \A r \in Pending(f) :
         /\ seen[r].time < clock
         /\ at[r] = "commit" =>
              /\ seen[r].time < stamp[r] /\ stamp[r] < clock
              /\ \A x \in records[f] : x.time # stamp[r]
              /\ \A q \in Pending(f) : at[q] = "commit" /\ q # r => stamp[q] # stamp[r]

\* There is a latest record, and a latest decision.
HasLatest(R) == \E r \in R : \A x \in R : x.time <= r.time

LatestOK ==
  \A f \in Findings :
    /\ records[f] # {} => HasLatest(records[f])
    /\ {x \in records[f] : x.explicit} # {} => HasLatest({x \in records[f] : x.explicit})

\* The status s was in effect for f from time n on: it is of the record in R
\* stamped then, or of a finding without records.
Was(R, f, s, n) ==
  IF n = 0 THEN s = DefaultStatus(f) ELSE \E x \in R : x.time = n /\ x.status = s

\* What a request saw was in effect, and who sets no status copies that; every
\* status but the first was decided.
SawOK ==
  \A f \in Findings :
    /\ \A x \in records[f] : x.explicit \/ Was(records[f], f, x.status, x.saw)
    /\ \A x \in records[f] : x.saw = 0 \/ \E y \in records[f] : y.time = x.saw
    /\ \A r \in Pending(f) : Was(records[f], f, seen[r].status, seen[r].time)
    /\ \A x \in records[f] : \/ x.status = DefaultStatus(f)
                             \/ \E y \in records[f] : y.explicit /\ y.status = x.status

\* Every time up to a record's was overtaken by some record: it is stamped
\* later, and its request saw nothing later.  Past the last decision that is
\* one without a status, with the status of the record it leads to.
OvertakenOK ==
  \A f \in Findings : \A x \in records[f] : \A n \in 0..(x.time - 1) :
    /\ \E m \in records[f] : m.saw <= n /\ n < m.time
    /\ (\A d \in records[f] : d.explicit => d.time <= n) =>
         \E m \in records[f] : /\ ~m.explicit /\ m.status = x.status
                               /\ m.saw <= n /\ n < m.time

-----------------------------------------------------------------------------
(* Properties *)

\* The status of the last explicit decision about f, embargo included.
Decisions(f) == {r \in records[f] : r.explicit}

DecidedStatus(f) ==
  IF Decisions(f) = {} THEN DefaultStatus(f) ELSE Latest(Decisions(f)).status

DecidedTime(f) == IF Decisions(f) = {} THEN 0 ELSE Latest(Decisions(f)).time

\* The status in effect is the one last decided, unless a request that sets
\* no status (an assignment, a severity override) copied what was in effect
\* before that decision and was stamped after it (findings.py:101-104,
\* 129-132): only overlapping requests undo a decision.
DecisionHolds ==
  \A f \in Findings :
    \/ EffectiveStatus(f) = DecidedStatus(f)
    \/ \E r \in records[f] : /\ ~r.explicit
                             /\ r.time > DecidedTime(f)
                             /\ r.saw < DecidedTime(f)

\* An RVD finding leaves its embargo only by a decision that says so: no
\* assignment, severity override or interleaving lifts it
\* (scheduler.py:207-217, findings.py:32-38).
EmbargoNeedsDecision ==
  \A f \in RvdFindings :
    EffectiveStatus(f) # "embargoed" => \E r \in Decisions(f) : r.status # "embargoed"

\* Two decisions overlapped: neither of their requests saw the other's.
Overlapped(f) ==
  \E r, q \in records[f] : r # q /\ r.saw < q.time /\ q.saw < r.time

\* Entry i is the last one of h that says a status.
LastTriage(h, i) ==
  h[i].action = "triage" /\ \A j \in DOMAIN h : j > i => h[j].action # "triage"

\* The history of a finding tells its status: the last status in it is the
\* one in effect, unless requests overlapped.  Then the history has them as
\* they were committed and the status is of the one flushed last
\* (findings.py:22-29, 110-119, 148-155).
HistoryTells ==
  \A f \in Findings : \A i \in DOMAIN history[f] :
    LastTriage(history[f], i) => history[f][i].status = EffectiveStatus(f) \/ Overlapped(f)
==============================================================================
