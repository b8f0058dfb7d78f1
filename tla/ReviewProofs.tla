----------------------------- MODULE ReviewProofs -----------------------------
(***************************************************************************)
(* TLAPS proofs about Review, for every set of findings, of requests and   *)
(* of what they ask for.                                                   *)
(***************************************************************************)
EXTENDS Review, SumProofs

-----------------------------------------------------------------------------
(* Constants *)

\* The severities, and the rank of each.
LEMMA SeverityRanks ==
  /\ Severities = {"info", "low", "medium", "high", "critical"}
  /\ \A s \in Severities : Rank[s] >= Rank["high"] <=> s \in {"high", "critical"}
  BY DEF Severities, Rank

\* What a request may ask for.
LEMMA AskTypes ==
  ASSUME NEW a \in Asks
  PROVE  /\ a.action \in {"triage", "assign"} /\ a.finding \in Findings
         /\ a.status \in TriageStatus \cup {"same"}
         /\ a.override \in Severities \cup {"none"}
         /\ a.action = "assign" => a.status = "same"
  BY FindingsAssumption DEF Asked

\* Scans are of findings.
LEMMA ScanTypes ==
  ASSUME NEW f \in Findings
  PROVE  ScanOf[f] \in Scans /\ SeverityOf[f] \in Severities /\ DefaultStatus(f) \in {"open", "embargoed"}
  BY FindingsAssumption DEF DefaultStatus

-----------------------------------------------------------------------------
(* What each part sees of a step *)

AddsEntry(f) ==
  /\ history' = [history EXCEPT ![f] = Append(@, [action |-> "comment", status |-> "none"])]
  /\ UNCHANGED <<published, records, clock, at, ask, seen, stamp>>

TriageSees ==
  \/ TriageStep
  \/ \E r \in Requests : Forbid(r) \/ \E a \in Asks : ReadEffective(r, a)
  \/ \E f \in Findings : AddsEntry(f)

\* Triage sees its own steps, and the entry of a new comment.
LEMMA TriageSteps ==
  ASSUME BodiesOK, [Next]_vars
  PROVE  TriageSees \/ UNCHANGED triageVars
  <1>1. ASSUME NEW r \in Requests, Comment(r) PROVE TriageSees \/ UNCHANGED triageVars
    <2>1. CASE CommitAdd(r)
      <3>1. cask[r].finding \in Findings
        BY <2>1 DEF CommitAdd, BodiesOK
      <3>2. AddsEntry(cask[r].finding)
        BY <1>1, <2>1 DEF Comment, CommitAdd, CommitEdit, CommitDelete, AbortComment, AddsEntry
      <3>3. QED
        BY <3>1, <3>2 DEF TriageSees
    <2>2. CASE ~CommitAdd(r)
      BY <1>1, <2>2 DEF Comment, CommitEdit, CommitDelete, AbortComment, triageVars
    <2>3. QED
      BY <2>1, <2>2
  <1>2. ASSUME NEW r \in Requests, ArriveTriage(r) PROVE TriageSees
    BY <1>2 DEF ArriveTriage, TriageSees
  <1>3. CASE Read \/ \E r \in Requests : ArriveComment(r) \/ ArriveReader(r)
    BY <1>3 DEF Read, ArriveComment, ArriveReader
  <1>4. CASE UNCHANGED vars
    BY <1>4 DEF vars
  <1>5. QED
    BY <1>1, <1>2, <1>3, <1>4 DEF Next, TriageSees

-----------------------------------------------------------------------------
(* Records *)

\* The latest of some records.
LEMMA LatestIs ==
  ASSUME NEW R, HasLatest(R)
  PROVE  Latest(R) \in R /\ \A x \in R : x.time <= Latest(R).time
  BY DEF HasLatest, Latest

\* What is in effect.
LEMMA Effective ==
  ASSUME TriageTypeOK, LatestOK, NEW f \in Findings
  PROVE  /\ EffectiveStatus(f) \in TriageStatus /\ EffectiveTime(f) \in Nat
         /\ EffectiveSeverity(f) \in Severities
         /\ records[f] # {} =>
              LET l == Latest(records[f])
              IN  /\ l \in records[f] /\ \A x \in records[f] : x.time <= l.time
                  /\ EffectiveStatus(f) = l.status /\ EffectiveTime(f) = l.time
  <1>1. CASE records[f] = {}
    BY <1>1, ScanTypes DEF EffectiveStatus, EffectiveTime, EffectiveSeverity, TriageStatus
  <1>2. CASE records[f] # {}
    <2>1. HasLatest(records[f]) /\ records[f] \subseteq TriageRecord
      BY <1>2 DEF LatestOK, TriageTypeOK
    <2>2. /\ Latest(records[f]) \in records[f]
          /\ \A x \in records[f] : x.time <= Latest(records[f]).time
      BY <2>1, LatestIs
    <2>3. Latest(records[f]) \in TriageRecord
      BY <2>1, <2>2
    <2>4. QED
      BY <1>2, <2>2, <2>3, ScanTypes
         DEF EffectiveStatus, EffectiveTime, EffectiveSeverity, TriageRecord
  <1>3. QED
    BY <1>1, <1>2

\* A request that commits has its record ready.
LEMMA RecordTypes ==
  ASSUME TriageTypeOK, NEW r \in Requests, at[r] \in {"flush", "commit"}
  PROVE  /\ ask[r] \in Asks /\ ask[r].finding \in Findings
         /\ RecordOf(r) \in TriageRecord /\ EntryOf(r) \in AuditEntry
         /\ r \in Pending(ask[r].finding)
  <1>1. ask[r] \in Asks /\ seen[r] \in [status : TriageStatus, time : Nat] /\ stamp[r] \in Nat
    BY DEF TriageTypeOK
  <1>2. RecordOf(r) \in TriageRecord
    BY <1>1, AskTypes DEF RecordOf, TriageRecord
  <1>3. RecordOf(r).status \in TriageStatus
    BY <1>2 DEF TriageRecord
  <1>4. EntryOf(r) \in AuditEntry
    BY <1>1, <1>3, AskTypes DEF EntryOf, AuditEntry
  <1>5. QED
    BY <1>1, <1>2, <1>4, AskTypes DEF Pending

\* Every step keeps the types of triage.
LEMMA TriageTypeNext ==
  ASSUME TriageTypeOK, LatestOK, BodiesOK, [Next]_vars
  PROVE  TriageTypeOK'
  <1> USE DEF TriageTypeOK
  <1>1. ASSUME NEW s \in Scans, Publish(s) PROVE TriageTypeOK'
    <2>1. [time |-> clock, status |-> "embargoed", override |-> "none", explicit |-> TRUE, saw |-> 0]
            \in TriageRecord
      BY DEF TriageRecord, TriageStatus
    <2>2. records' \in [Findings -> SUBSET TriageRecord]
      BY <1>1, <2>1 DEF Publish
    <2>3. published' \in SUBSET Scans /\ clock' \in Nat
      BY <1>1 DEF Publish
    <2>4. UNCHANGED <<history, at, ask, seen, stamp>>
      BY <1>1 DEF Publish
    <2>5. QED
      BY <2>2, <2>3, <2>4
  <1>2. ASSUME NEW r \in Requests, NEW a \in Asks, ReadEffective(r, a) PROVE TriageTypeOK'
    <2>1. [status |-> EffectiveStatus(a.finding), time |-> EffectiveTime(a.finding)]
            \in [status : TriageStatus, time : Nat]
      BY AskTypes, Effective
    <2>2. QED
      BY <1>2, <2>1 DEF ReadEffective
  <1>3. ASSUME NEW r \in Requests, Forbid(r) PROVE TriageTypeOK'
    BY <1>3 DEF Forbid
  <1>4. ASSUME NEW r \in Requests, Flush(r) PROVE TriageTypeOK'
    BY <1>4 DEF Flush
  <1>5. ASSUME NEW r \in Requests, Commit(r) PROVE TriageTypeOK'
    <2>1. /\ ask[r].finding \in Findings /\ RecordOf(r) \in TriageRecord
          /\ EntryOf(r) \in AuditEntry
      BY <1>5, RecordTypes DEF Commit
    <2>2. records' \in [Findings -> SUBSET TriageRecord]
      BY <1>5, <2>1 DEF Commit
    <2>3. history' \in [Findings -> Seq(AuditEntry)]
      BY <1>5, <2>1 DEF Commit
    <2>4. QED
      BY <1>5, <2>2, <2>3 DEF Commit
  <1>6. ASSUME NEW r \in Requests, Abort(r) PROVE TriageTypeOK'
    BY <1>6 DEF Abort
  <1>7. ASSUME NEW f \in Findings, AddsEntry(f) PROVE TriageTypeOK'
    <2>1. [action |-> "comment", status |-> "none"] \in AuditEntry
      BY DEF AuditEntry
    <2>2. history' \in [Findings -> Seq(AuditEntry)]
      BY <1>7, <2>1 DEF AddsEntry
    <2>3. QED
      BY <1>7, <2>2 DEF AddsEntry
  <1>8. CASE UNCHANGED triageVars
    BY <1>8 DEF triageVars
  <1> QED
    BY TriageSteps, <1>1, <1>2, <1>3, <1>4, <1>5, <1>6, <1>7, <1>8 DEF TriageSees, TriageStep

-----------------------------------------------------------------------------
(* What a step does to one finding *)

\* The record that makes an RVD finding embargoed when it is stored.
Embargo(n) ==
  [time |-> n, status |-> "embargoed", override |-> "none", explicit |-> TRUE, saw |-> 0]

Commits(r, f) ==
  /\ r \in Pending(f) /\ at[r] = "commit" /\ at'[r] = "done"
  /\ records'[f] = records[f] \cup {RecordOf(r)}
  /\ history'[f] = Append(history[f], EntryOf(r))
  /\ clock' = clock /\ published' = published

\* The records of a finding stay, or it gets its first or one more.
LEMMA RecordsNext ==
  ASSUME TriageTypeOK, BodiesOK, [Next]_vars, NEW f \in Findings
  PROVE  \/ records'[f] = records[f] /\ clock' \in {clock, clock + 1}
         \/ /\ f \in RvdFindings /\ ScanOf[f] \notin published /\ ScanOf[f] \in published'
            /\ records'[f] = {Embargo(clock)} /\ clock' = clock + 1 /\ history' = history
            /\ UNCHANGED <<at, ask, seen, stamp>>
         \/ \E r \in Requests : Commits(r, f)
  <1>1. ASSUME NEW r \in Requests, Commit(r)
        PROVE  (records'[f] = records[f] /\ clock' = clock) \/ Commits(r, f)
    <2>1. ask[r].finding \in Findings /\ at[r] = "commit" /\ r \in Pending(ask[r].finding)
      BY <1>1, RecordTypes DEF Commit
    <2>2. CASE ask[r].finding = f
      BY <1>1, <2>1, <2>2 DEF Commit, Commits, TriageTypeOK
    <2>3. CASE ask[r].finding # f
      BY <1>1, <2>1, <2>3 DEF Commit, TriageTypeOK
    <2>4. QED
      BY <2>2, <2>3
  <1>2. ASSUME NEW s \in Scans, Publish(s)
        PROVE  \/ records'[f] = records[f] /\ clock' = clock + 1
               \/ /\ f \in RvdFindings /\ ScanOf[f] \notin published /\ ScanOf[f] \in published'
                  /\ records'[f] = {Embargo(clock)} /\ clock' = clock + 1 /\ history' = history
                  /\ UNCHANGED <<at, ask, seen, stamp>>
    BY <1>2 DEF Publish, Embargo
  <1>3. ASSUME TriageSees, ~\E s \in Scans : Publish(s), ~\E r \in Requests : Commit(r)
        PROVE  records' = records /\ clock' \in {clock, clock + 1}
    BY <1>3 DEF TriageSees, TriageStep, Flush, Abort, Forbid, ReadEffective, AddsEntry
  <1>4. CASE UNCHANGED triageVars
    BY <1>4 DEF triageVars
  <1>5. QED
    BY <1>1, <1>2, <1>3, <1>4, TriageSteps

\* A request under way was so before or has just read what is in effect.
LEMMA PendingNext ==
  ASSUME TriageTypeOK, BodiesOK, [Next]_vars, NEW f \in Findings, NEW r \in Pending(f)'
  PROVE  \/ r \in Pending(f) /\ seen'[r] = seen[r]
         \/ /\ seen'[r] = [status |-> EffectiveStatus(f), time |-> EffectiveTime(f)]
            /\ records' = records /\ ScanOf[f] \in published
  <1>1. r \in Requests /\ at'[r] \in {"flush", "commit"} /\ ask'[r].finding = f
    BY DEF Pending
  <1>2. ASSUME NEW q \in Requests, NEW a \in Asks, ReadEffective(q, a)
        PROVE  \/ r \in Pending(f) /\ seen'[r] = seen[r]
               \/ /\ seen'[r] = [status |-> EffectiveStatus(f), time |-> EffectiveTime(f)]
                  /\ records' = records /\ ScanOf[f] \in published
    <2>1. CASE q = r
      BY <1>1, <1>2, <2>1 DEF ReadEffective, TriageTypeOK
    <2>2. CASE q # r
      BY <1>1, <1>2, <2>2 DEF ReadEffective, TriageTypeOK, Pending
    <2>3. QED
      BY <2>1, <2>2
  <1>3. ASSUME TriageSees, ~\E q \in Requests, a \in Asks : ReadEffective(q, a)
        PROVE  seen' = seen /\ ask' = ask /\ (at'[r] \in {"flush", "commit"} => at[r] \in {"flush", "commit"})
    BY <1>1, <1>3 DEF TriageSees, TriageStep, Publish, Flush, Commit, Abort, Forbid, AddsEntry, TriageTypeOK
  <1>4. CASE UNCHANGED triageVars
    BY <1>1, <1>4 DEF triageVars, Pending
  <1>5. QED
    BY <1>1, <1>2, <1>3, <1>4, TriageSteps DEF Pending

\* A history stays, or gets the entry of a comment or of a record.
LEMMA HistoryNext ==
  ASSUME TriageTypeOK, BodiesOK, [Next]_vars, NEW f \in Findings
  PROVE  \/ history'[f] = history[f]
         \/ /\ history'[f] = Append(history[f], [action |-> "comment", status |-> "none"])
            /\ records' = records
         \/ \E r \in Requests : Commits(r, f)
  <1>1. ASSUME NEW r \in Requests, Commit(r) PROVE history'[f] = history[f] \/ Commits(r, f)
    <2>1. ask[r].finding \in Findings /\ at[r] = "commit" /\ r \in Pending(ask[r].finding)
      BY <1>1, RecordTypes DEF Commit
    <2>2. CASE ask[r].finding = f
      BY <1>1, <2>1, <2>2 DEF Commit, Commits, TriageTypeOK
    <2>3. CASE ask[r].finding # f
      BY <1>1, <2>1, <2>3 DEF Commit, TriageTypeOK
    <2>4. QED
      BY <2>2, <2>3
  <1>2. ASSUME NEW g \in Findings, AddsEntry(g)
        PROVE  \/ history'[f] = history[f]
               \/ /\ history'[f] = Append(history[f], [action |-> "comment", status |-> "none"])
                  /\ records' = records
    BY <1>2 DEF AddsEntry, TriageTypeOK
  <1>3. ASSUME TriageSees, ~\E g \in Findings : AddsEntry(g), ~\E r \in Requests : Commit(r)
        PROVE  history' = history
    BY <1>3 DEF TriageSees, TriageStep, Publish, Flush, Abort, Forbid, ReadEffective
  <1>4. CASE UNCHANGED triageVars
    BY <1>4 DEF triageVars
  <1>5. QED
    BY <1>1, <1>2, <1>3, <1>4, TriageSteps

\* What is stored stays so.
LEMMA PublishedGrows ==
  ASSUME BodiesOK, [Next]_vars
  PROVE  published \subseteq published'
  BY TriageSteps
     DEF TriageSees, TriageStep, Publish, Flush, Commit, Abort, Forbid, ReadEffective, AddsEntry, triageVars

\* No step removes a record.
LEMMA RecordsGrow ==
  ASSUME TriageTypeOK, PublishedOK, BodiesOK, [Next]_vars, NEW f \in Findings
  PROVE  records[f] \subseteq records'[f]
  BY RecordsNext DEF PublishedOK, Commits

-----------------------------------------------------------------------------
(* The invariants of records *)

\* The entries of a longer history.
LEMMA Appended ==
  ASSUME NEW S, NEW h \in Seq(S), NEW e
  PROVE  /\ DOMAIN Append(h, e) = DOMAIN h \cup {Len(h) + 1}
         /\ DOMAIN h = 1..Len(h) /\ Len(h) \in Nat
         /\ \A i \in DOMAIN h : Append(h, e)[i] = h[i]
         /\ Append(h, e)[Len(h) + 1] = e
  <1>1. DOMAIN h = 1..Len(h) /\ Len(h) \in Nat
    OBVIOUS
  <1>2. DOMAIN Append(h, e) = 1..(Len(h) + 1)
    OBVIOUS
  <1>3. 1..(Len(h) + 1) = 1..Len(h) \cup {Len(h) + 1}
    BY <1>1
  <1>4. QED
    BY <1>1, <1>2, <1>3

\* Requests and entries are about what is stored.
LEMMA PublishedNext ==
  ASSUME TriageTypeOK, PublishedOK, BodiesOK, [Next]_vars
  PROVE  PublishedOK'
  <1>1. ASSUME NEW f \in Findings, ScanOf[f] \notin published'
        PROVE  /\ records'[f] = {} /\ Pending(f)' = {}
               /\ \A i \in DOMAIN history'[f] : history'[f][i].action # "triage"
    <2>1. /\ ScanOf[f] \notin published /\ records[f] = {} /\ Pending(f) = {}
          /\ \A i \in DOMAIN history[f] : history[f][i].action # "triage"
      BY <1>1, PublishedGrows DEF PublishedOK
    <2>2. records'[f] = {}
      BY <1>1, <2>1, RecordsNext DEF Commits
    <2>3. Pending(f)' = {}
      BY <2>1, PendingNext
    <2>4. \A i \in DOMAIN history'[f] : history'[f][i].action # "triage"
      <3>1. history[f] \in Seq(AuditEntry)
        BY DEF TriageTypeOK
      <3>2. \/ history'[f] = history[f]
            \/ history'[f] = Append(history[f], [action |-> "comment", status |-> "none"])
        BY <2>1, HistoryNext DEF Commits
      <3>3. QED
        BY <2>1, <3>1, <3>2, Appended
    <2>5. QED
      BY <2>2, <2>3, <2>4
  <1>2. ASSUME NEW f \in RvdFindings, ScanOf[f] \in published' PROVE records'[f] # {}
    <2>1. CASE ScanOf[f] \in published
      BY <2>1, RecordsGrow DEF PublishedOK, RvdFindings
    <2>2. CASE ScanOf[f] \notin published
      <3>1. PICK s \in Scans : Publish(s)
        BY <1>2, <2>2, TriageSteps
           DEF TriageSees, TriageStep, Flush, Commit, Abort, Forbid, ReadEffective, AddsEntry, triageVars
      <3>2. QED
        BY <1>2, <2>2, <3>1 DEF Publish, RvdFindings
    <2>3. QED
      BY <2>1, <2>2
  <1>3. QED
    BY <1>1, <1>2 DEF PublishedOK

\* A record more has a latest one again.
LEMMA LatestOfMore ==
  ASSUME NEW R \in SUBSET TriageRecord, NEW n \in TriageRecord, R # {} => HasLatest(R)
  PROVE  HasLatest(R \cup {n})
  <1>1. \A x \in R \cup {n} : x.time \in Nat
    BY DEF TriageRecord
  <1>2. CASE R = {}
    BY <1>1, <1>2 DEF HasLatest
  <1>3. CASE R # {}
    <2>1. PICK l \in R : \A x \in R : x.time <= l.time
      BY <1>3 DEF HasLatest
    <2>2. CASE n.time <= l.time
      BY <1>1, <2>1, <2>2 DEF HasLatest
    <2>3. CASE ~(n.time <= l.time)
      <3>1. \A x \in R \cup {n} : x.time <= n.time
        BY <1>1, <2>1, <2>3
      <3>2. QED
        BY <3>1 DEF HasLatest
    <2>4. QED
      BY <2>2, <2>3
  <1>4. QED
    BY <1>2, <1>3

\* The records of a finding, and those that decide, have a latest.
LEMMA LatestNext ==
  ASSUME TriageTypeOK, LatestOK, BodiesOK, [Next]_vars
  PROVE  LatestOK'
  <1> SUFFICES ASSUME NEW f \in Findings
               PROVE  /\ records'[f] # {} => HasLatest(records'[f])
                      /\ {x \in records'[f] : x.explicit} # {} =>
                           HasLatest({x \in records'[f] : x.explicit})
    BY DEF LatestOK
  <1> DEFINE Of(R) == {x \in R : x.explicit}
  <1>1. /\ records[f] \in SUBSET TriageRecord /\ Of(records[f]) \in SUBSET TriageRecord
        /\ records[f] # {} => HasLatest(records[f])
        /\ Of(records[f]) # {} => HasLatest(Of(records[f]))
    BY DEF LatestOK, TriageTypeOK
  <1>2. CASE records'[f] = records[f]
    BY <1>1, <1>2
  <1>3. CASE records'[f] = {Embargo(clock)}
    <2>1. HasLatest({Embargo(clock)}) /\ Of({Embargo(clock)}) = {Embargo(clock)}
      BY DEF HasLatest, Embargo, TriageTypeOK
    <2>2. QED
      BY <1>3, <2>1
  <1>4. ASSUME NEW r \in Requests, Commits(r, f)
        PROVE  /\ records'[f] # {} => HasLatest(records'[f])
               /\ Of(records'[f]) # {} => HasLatest(Of(records'[f]))
    <2>1. RecordOf(r) \in TriageRecord /\ records'[f] = records[f] \cup {RecordOf(r)}
      BY <1>4, RecordTypes DEF Commits
    <2>2. HasLatest(records'[f])
      BY <1>1, <2>1, LatestOfMore
    <2>3. Of(records'[f]) \in {Of(records[f]), Of(records[f]) \cup {RecordOf(r)}}
      BY <2>1
    <2>4. Of(records'[f]) # {} => HasLatest(Of(records'[f]))
      BY <1>1, <2>1, <2>3, LatestOfMore
    <2>5. QED
      BY <2>2, <2>4
  <1>5. QED
    BY <1>2, <1>3, <1>4, RecordsNext

\* The stamps of one finding.
Stamped(f) ==
  /\ \A x \in records[f] : /\ x.saw < x.time /\ x.time < clock
                           /\ \A y \in records[f] : x.time = y.time => x = y
  /\ \A r \in Pending(f) :
       /\ seen[r].time < clock
       /\ at[r] = "commit" =>
            /\ seen[r].time < stamp[r] /\ stamp[r] < clock
            /\ \A x \in records[f] : x.time # stamp[r]
            /\ \A q \in Pending(f) : at[q] = "commit" /\ q # r => stamp[q] # stamp[r]

\* What is in effect is of a time before now.
LEMMA EffectivePast ==
  ASSUME TriageTypeOK, LatestOK, NEW f \in Findings, Stamped(f), 0 < clock
  PROVE  EffectiveTime(f) < clock
  <1>1. CASE records[f] = {}
    BY <1>1 DEF EffectiveTime
  <1>2. CASE records[f] # {}
    BY <1>2, Effective DEF Stamped
  <1>3. QED
    BY <1>1, <1>2

\* A record is stamped with a time nobody else gets, when all it saw is past.
LEMMA StampsNext ==
  ASSUME TriageTypeOK, PublishedOK, LatestOK, StampsOK, BodiesOK, 0 < clock, [Next]_vars
  PROVE  StampsOK' /\ 0 < clock'
  <1>1. \A f \in Findings : Stamped(f)
    BY DEF StampsOK, Stamped
  <1>2. clock \in Nat /\ \A f \in Findings : records[f] \in SUBSET TriageRecord
    BY DEF TriageTypeOK
  <1>3. \A f \in Findings : \A x \in records[f] : x.time \in Nat /\ x.saw \in Nat
    BY <1>2 DEF TriageRecord
  <1>4. \A r \in Requests : seen[r].time \in Nat /\ stamp[r] \in Nat
    BY DEF TriageTypeOK
  <1>5. ASSUME NEW s \in Scans, Publish(s), NEW f \in Findings PROVE Stamped(f)'
    <2>1. clock' = clock + 1 /\ UNCHANGED <<at, ask, seen, stamp>> /\ Pending(f)' = Pending(f)
      BY <1>5 DEF Publish, Pending
    <2>2. CASE records'[f] = records[f]
      BY <1>1, <1>2, <1>3, <1>4, <2>1, <2>2 DEF Stamped, Pending
    <2>3. CASE records'[f] # records[f]
      <3>1. records'[f] = {Embargo(clock)} /\ ScanOf[f] \notin published
        BY <1>5, <2>3 DEF Publish, Embargo, TriageTypeOK
      <3>2. Pending(f)' = {}
        BY <2>1, <3>1 DEF PublishedOK
      <3>3. QED
        BY <1>2, <2>1, <3>1, <3>2 DEF Stamped, Embargo
    <2>4. QED
      BY <2>2, <2>3
  <1>6. ASSUME NEW r \in Requests, NEW a \in Asks, ReadEffective(r, a), NEW f \in Findings
        PROVE  Stamped(f)'
    <2>1. /\ UNCHANGED <<records, clock, stamp>>
          /\ \A q \in Requests \ {r} : at'[q] = at[q] /\ ask'[q] = ask[q] /\ seen'[q] = seen[q]
          /\ at'[r] = "flush" /\ ask'[r] = a /\ seen'[r].time = EffectiveTime(a.finding)
      BY <1>6 DEF ReadEffective, TriageTypeOK
    <2>2. EffectiveTime(a.finding) < clock
      BY <1>1, AskTypes, EffectivePast
    <2>3. Pending(f)' \subseteq Pending(f) \cup {r}
      BY <2>1 DEF Pending
    <2>4. QED
      BY <1>1, <2>1, <2>2, <2>3 DEF Stamped, Pending
  <1>7. ASSUME NEW r \in Requests, Flush(r), NEW f \in Findings PROVE Stamped(f)'
    <2>1. /\ UNCHANGED <<records, ask, seen>> /\ clock' = clock + 1
          /\ at[r] = "flush" /\ at'[r] = "commit" /\ stamp'[r] = clock
          /\ \A q \in Requests \ {r} : at'[q] = at[q] /\ stamp'[q] = stamp[q]
      BY <1>7 DEF Flush, TriageTypeOK
    <2>2. Pending(f)' = Pending(f)
      BY <2>1 DEF Pending
    <2>3. ASSUME NEW q \in Pending(f), at'[q] = "commit"
          PROVE  /\ seen[q].time < stamp'[q] /\ stamp'[q] < clock + 1
                 /\ \A x \in records[f] : x.time # stamp'[q]
                 /\ \A p \in Pending(f) : at'[p] = "commit" /\ p # q => stamp'[p] # stamp'[q]
      BY <1>1, <1>2, <1>3, <1>4, <2>1, <2>3 DEF Stamped, Pending
    <2>4. \A x \in records[f] : /\ x.saw < x.time /\ x.time < clock + 1
                                /\ \A y \in records[f] : x.time = y.time => x = y
      BY <1>1, <1>2, <1>3 DEF Stamped
    <2>5. \A q \in Pending(f) : seen[q].time < clock + 1
      BY <1>1, <1>2, <1>4 DEF Stamped, Pending
    <2>6. QED
      BY <2>1, <2>2, <2>3, <2>4, <2>5 DEF Stamped
  <1>8. ASSUME NEW r \in Requests, Commit(r), NEW f \in Findings PROVE Stamped(f)'
    <2>1. /\ UNCHANGED <<clock, ask, seen, stamp>> /\ at[r] = "commit" /\ at'[r] = "done"
          /\ \A q \in Requests \ {r} : at'[q] = at[q]
      BY <1>8 DEF Commit, TriageTypeOK
    <2>2. Pending(f)' \subseteq Pending(f) /\ r \notin Pending(f)'
      BY <2>1 DEF Pending
    <2>3. CASE records'[f] = records[f]
      BY <1>1, <2>1, <2>2, <2>3 DEF Stamped, Pending
    <2>4. CASE records'[f] # records[f]
      <3>1. records'[f] = records[f] \cup {RecordOf(r)} /\ r \in Pending(f)
        BY <1>8, <2>1, <2>4, RecordTypes DEF Commit, TriageTypeOK, Pending
      <3>2. RecordOf(r).time = stamp[r] /\ RecordOf(r).saw = seen[r].time
        BY DEF RecordOf
      <3>3. QED
        BY <1>1, <2>1, <2>2, <3>1, <3>2 DEF Stamped, Pending
    <2>5. QED
      BY <2>3, <2>4
  <1>9. ASSUME TriageSees \/ UNCHANGED triageVars, ~\E s \in Scans : Publish(s),
               ~\E r \in Requests : Flush(r) \/ Commit(r) \/ \E a \in Asks : ReadEffective(r, a),
               NEW f \in Findings
        PROVE  Stamped(f)'
    <2>1. UNCHANGED <<records, clock, ask, seen, stamp>>
      BY <1>9 DEF TriageSees, TriageStep, Forbid, Abort, AddsEntry, triageVars
    <2>2. \A q \in Requests : at'[q] = at[q] \/ at'[q] = "done"
      BY <1>9 DEF TriageSees, TriageStep, Forbid, Abort, AddsEntry, triageVars, TriageTypeOK
    <2>3. Pending(f)' \subseteq Pending(f)
      BY <2>1, <2>2 DEF Pending
    <2>4. QED
      BY <1>1, <2>1, <2>2, <2>3 DEF Stamped, Pending
  <1>10. \A f \in Findings : Stamped(f)'
    BY <1>5, <1>6, <1>7, <1>8, <1>9, TriageSteps
  <1>11. StampsOK'
    BY <1>10 DEF StampsOK, Stamped
  <1>12. 0 < clock'
    BY <1>2, TriageSteps
       DEF TriageSees, TriageStep, Publish, Flush, Commit, Abort, Forbid, ReadEffective, AddsEntry, triageVars
  <1>13. QED
    BY <1>11, <1>12

\* What was in effect once was so then.
LEMMA WasStays ==
  ASSUME NEW R, NEW Q, R \subseteq Q, NEW f, NEW s, NEW n, Was(R, f, s, n)
  PROVE  Was(Q, f, s, n)
  BY DEF Was

\* What is in effect was so from the time of its record on.
LEMMA EffectiveWas ==
  ASSUME TriageTypeOK, LatestOK, StampsOK, NEW f \in Findings
  PROVE  Was(records[f], f, EffectiveStatus(f), EffectiveTime(f))
  <1>1. CASE records[f] = {}
    BY <1>1 DEF Was, EffectiveStatus, EffectiveTime
  <1>2. CASE records[f] # {}
    <2>1. PICK l \in records[f] : EffectiveStatus(f) = l.status /\ EffectiveTime(f) = l.time
      BY <1>2, Effective
    <2>2. l.saw \in Nat /\ l.time \in Nat /\ l.saw < l.time
      BY DEF StampsOK, TriageTypeOK, TriageRecord
    <2>3. QED
      BY <2>1, <2>2 DEF Was
  <1>3. QED
    BY <1>1, <1>2

\* A status that was in effect once was decided or is the first one.
LEMMA WasDecided ==
  ASSUME SawOK, NEW f \in Findings, NEW s, NEW n, Was(records[f], f, s, n)
  PROVE  s = DefaultStatus(f) \/ \E y \in records[f] : y.explicit /\ y.status = s
  BY DEF Was, SawOK

\* A request copies what was in effect when it read.
LEMMA SawNext ==
  ASSUME TriageTypeOK, PublishedOK, StampsOK, LatestOK, SawOK, BodiesOK, [Next]_vars
  PROVE  SawOK'
  <1> SUFFICES ASSUME NEW f \in Findings
               PROVE  /\ \A x \in records'[f] : x.explicit \/ Was(records'[f], f, x.status, x.saw)
                      /\ \A x \in records'[f] : x.saw = 0 \/ \E y \in records'[f] : y.time = x.saw
                      /\ \A r \in Pending(f)' : Was(records'[f], f, seen'[r].status, seen'[r].time)
                      /\ \A x \in records'[f] :
                           \/ x.status = DefaultStatus(f)
                           \/ \E y \in records'[f] : y.explicit /\ y.status = x.status
    BY DEF SawOK, DefaultStatus
  <1>1. records[f] \subseteq records'[f]
    BY RecordsGrow
  <1>2. ASSUME NEW r \in Pending(f)' PROVE Was(records'[f], f, seen'[r].status, seen'[r].time)
    <2>1. Was(records[f], f, seen'[r].status, seen'[r].time)
      <3>1. CASE r \in Pending(f) /\ seen'[r] = seen[r]
        BY <3>1 DEF SawOK
      <3>2. CASE seen'[r] = [status |-> EffectiveStatus(f), time |-> EffectiveTime(f)]
        BY <3>2, EffectiveWas
      <3>3. QED
        BY <3>1, <3>2, PendingNext
    <2>2. QED
      BY <1>1, <2>1, WasStays
  <1>3. ASSUME NEW x \in records'[f]
        PROVE  /\ x.explicit \/ Was(records'[f], f, x.status, x.saw)
               /\ x.saw = 0 \/ \E y \in records'[f] : y.time = x.saw
               /\ \/ x.status = DefaultStatus(f)
                  \/ \E y \in records'[f] : y.explicit /\ y.status = x.status
    <2>1. CASE x \in records[f]
      BY <1>1, <2>1, WasStays DEF SawOK
    <2>2. CASE x = Embargo(clock)
      BY <1>3, <2>2 DEF Embargo
    <2>3. ASSUME NEW r \in Requests, Commits(r, f), x = RecordOf(r)
          PROVE  /\ x.explicit \/ Was(records'[f], f, x.status, x.saw)
                 /\ x.saw = 0 \/ \E y \in records'[f] : y.time = x.saw
                 /\ \/ x.status = DefaultStatus(f)
                    \/ \E y \in records'[f] : y.explicit /\ y.status = x.status
      <3>1. Was(records[f], f, seen[r].status, seen[r].time) /\ x.saw = seen[r].time
        BY <2>3 DEF SawOK, Commits, RecordOf
      <3>2. x.explicit \/ x.status = seen[r].status
        BY <2>3 DEF RecordOf
      <3>3. x.explicit \/ Was(records'[f], f, x.status, x.saw)
        BY <1>1, <3>1, <3>2, WasStays
      <3>4. x.saw = 0 \/ \E y \in records'[f] : y.time = x.saw
        BY <1>1, <3>1 DEF Was
      <3>5. \/ x.status = DefaultStatus(f)
            \/ \E y \in records'[f] : y.explicit /\ y.status = x.status
        BY <1>1, <1>3, <3>1, <3>2, WasDecided
      <3>6. QED
        BY <3>3, <3>4, <3>5
    <2>4. QED
      BY <1>3, <2>1, <2>2, <2>3, RecordsNext DEF Commits
  <1>4. QED
    BY <1>2, <1>3

\* The same of one set R of records: at n, before x, some record overtook.
Overtaken(R, x, n) ==
  /\ \E m \in R : m.saw <= n /\ n < m.time
  /\ (\A d \in R : d.explicit => d.time <= n) =>
       \E m \in R : ~m.explicit /\ m.status = x.status /\ m.saw <= n /\ n < m.time

\* A record overtakes what lies between it and what its request saw; before
\* that, what its request saw has been overtaken.
LEMMA OvertakenNext ==
  ASSUME TriageTypeOK, PublishedOK, SawOK, OvertakenOK, BodiesOK, [Next]_vars
  PROVE  OvertakenOK'
  <1> SUFFICES ASSUME NEW f \in Findings, NEW x \in records'[f], NEW n \in 0..(x.time - 1)
               PROVE  Overtaken(records'[f], x, n)
    BY DEF OvertakenOK, Overtaken
  <1>1. records[f] \in SUBSET TriageRecord /\ records[f] \subseteq records'[f] /\ clock \in Nat
    BY RecordsGrow DEF TriageTypeOK
  <1>2. \A y \in records[f] : y.time \in Nat /\ y.saw \in Nat
    BY <1>1 DEF TriageRecord
  <1>3. ASSUME NEW y \in records[f], NEW k \in Nat, k < y.time PROVE Overtaken(records[f], y, k)
    <2>1. k \in 0..(y.time - 1)
      BY <1>2, <1>3
    <2>2. QED
      BY <2>1 DEF OvertakenOK, Overtaken
  <1>4. ASSUME NEW y \in records[f], NEW k \in Nat, k < y.time PROVE Overtaken(records'[f], y, k)
    <2>1. Overtaken(records[f], y, k)
      BY <1>3, <1>4
    <2>2. QED
      BY <1>1, <2>1 DEF Overtaken
  <1>5. CASE x \in records[f]
    <2>1. n \in Nat /\ n < x.time
      BY <1>2, <1>5
    <2>2. QED
      BY <1>4, <1>5, <2>1
  <1>6. CASE x = Embargo(clock)
    BY <1>1, <1>6 DEF Embargo, Overtaken
  <1>7. ASSUME NEW r \in Requests, Commits(r, f), x = RecordOf(r) PROVE Overtaken(records'[f], x, n)
    <2>1. /\ Was(records[f], f, seen[r].status, seen[r].time) /\ x.saw = seen[r].time
          /\ x.explicit \/ x.status = seen[r].status
      BY <1>7 DEF SawOK, Commits, RecordOf
    <2>2. x.time \in Nat /\ x.saw \in Nat /\ n \in Nat /\ n < x.time
      BY <1>7, RecordTypes DEF Commits, TriageRecord
    <2>3. CASE x.saw <= n
      BY <2>2, <2>3 DEF Overtaken
    <2>4. CASE ~(x.saw <= n)
      <3>1. x.saw # 0 /\ n < x.saw
        BY <2>2, <2>4
      <3>2. PICK y \in records[f] : y.time = x.saw /\ y.status = seen[r].status
        BY <2>1, <3>1 DEF Was
      <3>3. Overtaken(records'[f], y, n)
        BY <1>4, <2>2, <3>1, <3>2
      <3>4. (\A d \in records'[f] : d.explicit => d.time <= n) => ~x.explicit
        BY <2>2
      <3>5. QED
        BY <2>1, <3>2, <3>3, <3>4 DEF Overtaken
    <2>5. QED
      BY <2>3, <2>4
  <1>8. QED
    BY <1>5, <1>6, <1>7, RecordsNext DEF Commits

-----------------------------------------------------------------------------
(* What is in effect, and what was decided *)

\* A status undone by a request that saw nothing of its decision was stamped
\* after it.
LEMMA DecisionsHold ==
  ASSUME TriageTypeOK, StampsOK, LatestOK, SawOK, OvertakenOK
  PROVE  DecisionHolds
  <1> SUFFICES ASSUME NEW f \in Findings
               PROVE  \/ EffectiveStatus(f) = DecidedStatus(f)
                      \/ \E r \in records[f] : /\ ~r.explicit
                                               /\ r.time > DecidedTime(f)
                                               /\ r.saw < DecidedTime(f)
    BY DEF DecisionHolds
  <1>1. /\ \A x \in records[f] : x.time \in Nat /\ x.saw \in Nat /\ x.saw < x.time
        /\ \A x, y \in records[f] : x.time = y.time => x = y
    BY DEF StampsOK, TriageTypeOK, TriageRecord
  <1>2. CASE records[f] = {}
    BY <1>2 DEF EffectiveStatus, DecidedStatus, Decisions
  <1>3. CASE records[f] # {}
    <2>1. PICK l \in records[f] : EffectiveStatus(f) = l.status /\ \A x \in records[f] : x.time <= l.time
      BY <1>3, Effective
    <2>2. /\ DecidedTime(f) \in Nat
          /\ \A d \in records[f] : d.explicit => d.time <= DecidedTime(f)
          /\ \/ Decisions(f) = {} /\ DecidedTime(f) = 0 /\ DecidedStatus(f) = DefaultStatus(f)
             \/ \E d \in records[f] : /\ d.explicit /\ d.time = DecidedTime(f)
                                      /\ d.status = DecidedStatus(f)
      <3>1. CASE Decisions(f) = {}
        BY <3>1 DEF DecidedTime, DecidedStatus, Decisions
      <3>2. CASE Decisions(f) # {}
        <4>1. /\ Latest(Decisions(f)) \in Decisions(f)
              /\ \A x \in Decisions(f) : x.time <= Latest(Decisions(f)).time
          BY <3>2, LatestIs DEF LatestOK, Decisions
        <4>2. QED
          BY <1>1, <3>2, <4>1 DEF DecidedTime, DecidedStatus, Decisions
      <3>3. QED
        BY <3>1, <3>2
    <2>3. CASE l.explicit
      <3>1. PICK d \in records[f] : d.time = DecidedTime(f) /\ d.status = DecidedStatus(f)
        BY <2>2, <2>3 DEF Decisions
      <3>2. l.time = d.time
        BY <1>1, <2>1, <2>2, <2>3, <3>1
      <3>3. QED
        BY <1>1, <2>1, <3>1, <3>2
    <2>4. CASE ~l.explicit
      <3>1. DecidedTime(f) < l.time
        BY <1>1, <2>1, <2>2, <2>4
      <3>2. PICK m \in records[f] : /\ ~m.explicit /\ m.status = l.status
                                    /\ m.saw <= DecidedTime(f) /\ DecidedTime(f) < m.time
        BY <1>1, <2>2, <3>1 DEF OvertakenOK
      <3>3. CASE m.saw < DecidedTime(f)
        BY <1>1, <2>2, <3>2, <3>3
      <3>4. CASE m.saw = DecidedTime(f)
        <4>1. Was(records[f], f, l.status, DecidedTime(f))
          BY <3>2, <3>4 DEF SawOK
        <4>2. CASE DecidedTime(f) = 0
          BY <1>1, <2>1, <2>2, <4>1, <4>2 DEF Was
        <4>3. CASE DecidedTime(f) # 0
          BY <1>1, <2>1, <2>2, <4>1, <4>3 DEF Was
        <4>4. QED
          BY <4>2, <4>3
      <3>5. QED
        BY <1>1, <2>2, <3>2, <3>3, <3>4
    <2>5. QED
      BY <2>3, <2>4
  <1>4. QED
    BY <1>2, <1>3

\* A status in effect that is not the first one was decided.
LEMMA StatusDecided ==
  ASSUME TriageTypeOK, LatestOK, SawOK, NEW f \in Findings
  PROVE  \/ EffectiveStatus(f) = DefaultStatus(f)
         \/ \E d \in records[f] : d.explicit /\ d.status = EffectiveStatus(f)
  <1>1. CASE records[f] = {}
    BY <1>1 DEF EffectiveStatus
  <1>2. CASE records[f] # {}
    BY <1>2, Effective DEF SawOK
  <1>3. QED
    BY <1>1, <1>2

\* An embargo is the first status of an RVD finding.
LEMMA EmbargoHolds ==
  ASSUME TriageTypeOK, LatestOK, SawOK
  PROVE  EmbargoNeedsDecision
  BY StatusDecided DEF EmbargoNeedsDecision, Decisions, DefaultStatus, RvdFindings

-----------------------------------------------------------------------------
(* The history *)

\* The request that commits has seen the latest record, or overlapped with the
\* request of a record that is there.
LEMMA SeesLatest ==
  ASSUME TriageTypeOK, StampsOK, LatestOK, SawOK, OvertakenOK,
         NEW f \in Findings, NEW r \in Pending(f), at[r] = "commit", records[f] # {}
  PROVE  \/ /\ EffectiveStatus(f) = seen[r].status
            /\ \A x \in records[f] : x.time < stamp[r]
         \/ \E m \in records[f] : m.saw < stamp[r] /\ seen[r].time < m.time
  <1>1. PICK l \in records[f] : EffectiveStatus(f) = l.status /\ \A x \in records[f] : x.time <= l.time
    BY Effective
  <1>2. /\ seen[r].time \in Nat /\ stamp[r] \in Nat /\ seen[r].time < stamp[r]
        /\ \A x \in records[f] : /\ x.time \in Nat /\ x.saw \in Nat /\ x.time # stamp[r]
                                 /\ x.saw < x.time /\ 0 < x.time
        /\ \A x, y \in records[f] : x.time = y.time => x = y
    BY DEF StampsOK, TriageTypeOK, TriageRecord, Pending
  <1>3. Was(records[f], f, seen[r].status, seen[r].time)
    BY DEF SawOK
  <1>4. CASE seen[r].time >= l.time
    <2>1. PICK y \in records[f] : y.time = seen[r].time /\ y.status = seen[r].status
      BY <1>1, <1>2, <1>3, <1>4 DEF Was
    <2>2. y = l
      BY <1>1, <1>2, <1>4, <2>1
    <2>3. QED
      BY <1>1, <1>2, <1>4, <2>1, <2>2
  <1>5. CASE seen[r].time < l.time /\ l.time < stamp[r]
    BY <1>1, <1>2, <1>5
  <1>6. CASE stamp[r] < l.time
    <2>1. PICK m \in records[f] : m.saw <= stamp[r] /\ stamp[r] < m.time
      BY <1>1, <1>2, <1>6 DEF OvertakenOK
    <2>2. m.saw # stamp[r]
      <3>1. m.saw = 0 \/ \E y \in records[f] : y.time = m.saw
        BY DEF SawOK
      <3>2. QED
        BY <1>2, <3>1
    <2>3. QED
      BY <1>2, <2>1, <2>2
  <1>7. QED
    BY <1>1, <1>2, <1>4, <1>5, <1>6

\* Every step keeps the history telling.
LEMMA HistoryTellsNext ==
  ASSUME TriageTypeOK, PublishedOK, StampsOK, LatestOK, LatestOK', SawOK, OvertakenOK, BodiesOK,
         HistoryTells, TriageTypeOK', StampsOK', [Next]_vars
  PROVE  HistoryTells'
  <1> SUFFICES ASSUME NEW f \in Findings, NEW i \in DOMAIN history'[f], LastTriage(history'[f], i),
                      ~Overlapped(f)'
               PROVE  history'[f][i].status = EffectiveStatus(f)'
    BY DEF HistoryTells
  <1>1. records[f] \subseteq records'[f] /\ ~Overlapped(f)
    BY RecordsGrow DEF Overlapped
  <1>2. history[f] \in Seq(AuditEntry)
    BY DEF TriageTypeOK
  <1>3. \A j \in DOMAIN history[f] :
          LastTriage(history[f], j) => history[f][j].status = EffectiveStatus(f)
    BY <1>1 DEF HistoryTells
  <1>4. records'[f] = records[f] => EffectiveStatus(f)' = EffectiveStatus(f)
    BY DEF EffectiveStatus
  <1>5. ASSUME NEW e, history'[f] = Append(history[f], e), e.action # "triage"
        PROVE  history'[f][i].status = EffectiveStatus(f)
    <2>1. i \in DOMAIN history[f] /\ history'[f][i] = history[f][i]
      BY <1>2, <1>5, Appended DEF LastTriage
    <2>2. LastTriage(history[f], i)
      BY <1>2, <1>5, <2>1, Appended DEF LastTriage
    <2>3. QED
      BY <1>3, <2>1, <2>2
  <1>6. ASSUME NEW r \in Requests, Commits(r, f)
        PROVE  history'[f][i].status = EffectiveStatus(f)'
    <2>1. /\ r \in Pending(f) /\ at[r] = "commit" /\ ask[r] \in Asks
          /\ records'[f] = records[f] \cup {RecordOf(r)}
          /\ RecordOf(r).time = stamp[r] /\ RecordOf(r).saw = seen[r].time
      BY <1>6 DEF Commits, RecordOf, Pending, TriageTypeOK
    <2>2. /\ records[f] = {} => seen[r].status = DefaultStatus(f)
          /\ \A x \in records[f] : x.time < stamp[r]
          /\ EffectiveStatus(f) = seen[r].status
      <3>1. CASE records[f] = {}
        <4>1. Was({}, f, seen[r].status, seen[r].time)
          BY <2>1, <3>1 DEF SawOK
        <4>2. QED
          BY <3>1, <4>1 DEF Was, EffectiveStatus
      <3>2. CASE records[f] # {}
        <4>1. ASSUME NEW m \in records[f], m.saw < stamp[r], seen[r].time < m.time PROVE FALSE
          <5>1. m # RecordOf(r)
            BY <2>1 DEF StampsOK
          <5>2. QED
            BY <2>1, <4>1, <5>1 DEF Overlapped
        <4>2. QED
          BY <2>1, <3>2, <4>1, SeesLatest
      <3>3. QED
        BY <3>1, <3>2
    <2>3. EffectiveStatus(f)' = RecordOf(r).status
      <3>1. PICK l \in records'[f] : /\ EffectiveStatus(f)' = l.status
                                     /\ \A x \in records'[f] : x.time <= l.time
        <4>1. HasLatest(records'[f]) /\ records'[f] # {}
          BY <2>1 DEF LatestOK, HasLatest
        <4>2. /\ Latest(records'[f]) \in records'[f]
              /\ \A x \in records'[f] : x.time <= Latest(records'[f]).time
          BY <4>1, LatestIs
        <4>3. EffectiveStatus(f)' = Latest(records'[f]).status
          BY <4>1 DEF EffectiveStatus
        <4>4. QED
          BY <4>2, <4>3
      <3>2. stamp[r] \in Nat /\ \A x \in records[f] : x.time \in Nat
        BY DEF TriageTypeOK, TriageRecord
      <3>3. l = RecordOf(r)
        BY <2>1, <2>2, <3>1, <3>2
      <3>4. QED
        BY <3>1, <3>3
    <2>4. CASE ask[r].action = "triage"
      <3>1. EntryOf(r).action = "triage" /\ EntryOf(r).status = RecordOf(r).status
        BY <2>4 DEF EntryOf
      <3>2. i = Len(history[f]) + 1 /\ history'[f][i] = EntryOf(r)
        BY <1>2, <1>6, <3>1, Appended DEF Commits, LastTriage
      <3>3. QED
        BY <2>3, <3>1, <3>2
    <2>5. CASE ask[r].action = "assign"
      <3>1. EntryOf(r).action # "triage" /\ RecordOf(r).status = seen[r].status
        BY <2>1, <2>5, AskTypes DEF EntryOf, RecordOf
      <3>2. QED
        BY <1>5, <1>6, <2>2, <2>3, <3>1 DEF Commits
    <2>6. QED
      BY <2>1, <2>4, <2>5, AskTypes
  <1>7. CASE history'[f] = history[f] /\ records'[f] = records[f]
    BY <1>3, <1>4, <1>7
  <1>8. CASE records'[f] = {Embargo(clock)} /\ history' = history /\ ScanOf[f] \notin published
    BY <1>8 DEF PublishedOK, LastTriage
  <1>9. CASE history'[f] = Append(history[f], [action |-> "comment", status |-> "none"])
             /\ records' = records
    BY <1>4, <1>5, <1>9
  <1>10. QED
    BY <1>6, <1>7, <1>8, <1>9, RecordsNext, HistoryNext

-----------------------------------------------------------------------------
(* Comments *)

CommentSees ==
  \/ \E r \in Requests, f \in Findings : AskAdd(r, f)
  \/ \E r \in Requests, op \in {"edit", "delete"}, c \in DOMAIN comments, author \in BOOLEAN :
       AskChange(r, op, c, author)
  \/ \E r \in Requests : Comment(r)
  \/ UNCHANGED commentVars

\* Comments see their own steps.
LEMMA CommentSteps ==
  ASSUME [Next]_vars
  PROVE  CommentSees
  <1>1. CASE TriageStep /\ UNCHANGED <<commentVars, reader>>
    BY <1>1 DEF CommentSees
  <1>2. ASSUME NEW r \in Requests, ArriveTriage(r) \/ ArriveComment(r) \/ ArriveReader(r) \/ Comment(r)
        PROVE  CommentSees
    BY <1>2 DEF ArriveTriage, ArriveComment, ArriveReader, CommentSees
  <1>3. CASE Read
    BY <1>3 DEF Read, CommentSees
  <1>4. CASE UNCHANGED vars
    BY <1>4 DEF vars, CommentSees
  <1>5. QED
    BY <1>1, <1>2, <1>3, <1>4 DEF Next

Entry(c, r) == [comment |-> c, by |-> r, previous |-> cask[r].read]

CommentOf(r) ==
  [finding |-> cask[r].finding, body |-> r, deleted |-> FALSE, edited |-> FALSE]

\* A commit changes its own comment, and ends its request.
Changes(r) ==
  /\ cat[r] = "commit" /\ cat' = [cat EXCEPT ![r] = "done"] /\ cask' = cask
  /\ \/ /\ cask[r].op = "add" /\ cask[r].finding \in Findings /\ r \notin DOMAIN comments
        /\ DOMAIN comments' = DOMAIN comments \cup {r} /\ comments'[r] = CommentOf(r)
        /\ \A c \in DOMAIN comments : comments'[c] = comments[c]
        /\ revisions' = revisions
     \/ \E c \in DOMAIN comments :
        /\ c = cask[r].comment /\ DOMAIN comments' = DOMAIN comments
        /\ \A d \in DOMAIN comments \ {c} : comments'[d] = comments[d]
        /\ \/ /\ comments'[c] = [comments[c] EXCEPT !.body = r, !.edited = TRUE]
              /\ revisions' = revisions \cup {Entry(c, r)}
              /\ cask[r].read \in Requests \cup {Deleted}
              /\ comments[c].deleted \/ cask[r].read \in Written(c)
           \/ /\ comments'[c] = [comments[c] EXCEPT !.body = Deleted, !.deleted = TRUE]
              /\ revisions' = revisions
     \/ UNCHANGED <<comments, revisions>>

\* What the commit of a comment, an edit or a deletion does.
LEMMA CommentChanges ==
  ASSUME CommentsTypeOK, BodiesOK, NEW r \in Requests, Comment(r)
  PROVE  Changes(r)
  <1>1. cat[r] = "commit" /\ cat' = [cat EXCEPT ![r] = "done"] /\ cask' = cask
    BY DEF Comment, CommitAdd, CommitEdit, CommitDelete, AbortComment
  <1>2. CASE CommitAdd(r)
    <2>1. cask[r].op = "add" /\ cask[r].finding \in Findings /\ r \notin DOMAIN comments
      BY <1>1, <1>2 DEF CommitAdd, BodiesOK
    <2>2. comments' = Put(comments, r, CommentOf(r)) /\ revisions' = revisions
      BY <1>2 DEF CommitAdd, CommentOf
    <2>3. /\ DOMAIN comments' = DOMAIN comments \cup {r} /\ comments'[r] = CommentOf(r)
          /\ \A c \in DOMAIN comments : comments'[c] = comments[c]
      BY <2>1, <2>2 DEF Put
    <2>4. QED
      BY <1>1, <2>1, <2>2, <2>3 DEF Changes
  <1>3. CASE CommitEdit(r) \/ CommitDelete(r)
    <2> DEFINE c == cask[r].comment
    <2>1. /\ c \in DOMAIN comments /\ cask[r].read \in Requests \cup {Deleted}
          /\ comments[c].deleted \/ cask[r].read \in Written(c)
      BY <1>1, <1>3 DEF CommitEdit, CommitDelete, BodiesOK
    <2>2. CASE CommitEdit(r)
      <3>1. /\ DOMAIN comments' = DOMAIN comments
            /\ \A d \in DOMAIN comments \ {c} : comments'[d] = comments[d]
            /\ comments'[c] = [comments[c] EXCEPT !.body = r, !.edited = TRUE]
            /\ revisions' = revisions \cup {Entry(c, r)}
        BY <2>1, <2>2 DEF CommitEdit, Entry
      <3>2. QED
        BY <1>1, <2>1, <3>1 DEF Changes
    <2>3. CASE CommitDelete(r)
      <3>1. /\ DOMAIN comments' = DOMAIN comments
            /\ \A d \in DOMAIN comments \ {c} : comments'[d] = comments[d]
            /\ comments'[c] = [comments[c] EXCEPT !.body = Deleted, !.deleted = TRUE]
            /\ revisions' = revisions
        BY <2>1, <2>3 DEF CommitDelete
      <3>2. QED
        BY <1>1, <2>1, <3>1 DEF Changes
    <2>4. QED
      BY <1>3, <2>2, <2>3
  <1>4. CASE AbortComment(r)
    BY <1>1, <1>4 DEF AbortComment, Changes
  <1>5. QED
    BY <1>2, <1>3, <1>4 DEF Comment

CommentType ==
  [finding : Findings, body : Requests \cup {Deleted}, deleted : BOOLEAN, edited : BOOLEAN]

\* Every step keeps the types of comments.
LEMMA CommentsTypeNext ==
  ASSUME CommentsTypeOK, BodiesOK, [Next]_vars
  PROVE  CommentsTypeOK'
  <1>1. ASSUME NEW r \in Requests, NEW f \in Findings, AskAdd(r, f) PROVE CommentsTypeOK'
    BY <1>1 DEF AskAdd, CommentsTypeOK
  <1>2. ASSUME NEW r \in Requests, NEW op \in {"edit", "delete"}, NEW c \in DOMAIN comments,
               NEW author \in BOOLEAN, AskChange(r, op, c, author)
        PROVE  CommentsTypeOK'
    BY <1>2 DEF AskChange, CommentsTypeOK
  <1>3. ASSUME NEW r \in Requests, Comment(r) PROVE CommentsTypeOK'
    <2>1. /\ DOMAIN comments \subseteq Requests /\ \A c \in DOMAIN comments : comments[c] \in CommentType
          /\ revisions \subseteq [comment : Requests, by : Requests, previous : Requests \cup {Deleted}]
      BY DEF CommentsTypeOK, CommentType
    <2>2. Changes(r)
      BY <1>3, CommentChanges
    <2>3. DOMAIN comments' \subseteq Requests
      BY <2>1, <2>2 DEF Changes
    <2>4. \A c \in DOMAIN comments' : comments'[c] \in CommentType
      <3>1. CASE UNCHANGED comments
        BY <2>1, <3>1
      <3>2. CASE DOMAIN comments' = DOMAIN comments \cup {r} /\ comments'[r] = CommentOf(r)
                 /\ (\A c \in DOMAIN comments : comments'[c] = comments[c]) /\ cask[r].finding \in Findings
        <4>1. CommentOf(r) \in CommentType
          BY <3>2 DEF CommentOf, CommentType
        <4>2. QED
          BY <2>1, <3>2, <4>1
      <3>3. ASSUME NEW c \in DOMAIN comments, DOMAIN comments' = DOMAIN comments,
                   \A d \in DOMAIN comments \ {c} : comments'[d] = comments[d],
                   \/ comments'[c] = [comments[c] EXCEPT !.body = r, !.edited = TRUE]
                   \/ comments'[c] = [comments[c] EXCEPT !.body = Deleted, !.deleted = TRUE]
            PROVE  \A d \in DOMAIN comments' : comments'[d] \in CommentType
        <4>1. comments[c] \in CommentType
          BY <2>1
        <4>2. comments'[c] \in CommentType
          BY <3>3, <4>1 DEF CommentType
        <4>3. QED
          BY <2>1, <3>3, <4>2
      <3>4. QED
        BY <2>2, <3>1, <3>2, <3>3 DEF Changes
    <2>5. revisions' \subseteq [comment : Requests, by : Requests, previous : Requests \cup {Deleted}]
      <3>1. ASSUME NEW c \in DOMAIN comments, cask[r].read \in Requests \cup {Deleted}
            PROVE  Entry(c, r) \in [comment : Requests, by : Requests, previous : Requests \cup {Deleted}]
        BY <2>1, <3>1 DEF Entry
      <3>2. \/ revisions' = revisions
            \/ \E c \in DOMAIN comments : /\ cask[r].read \in Requests \cup {Deleted}
                                         /\ revisions' = revisions \cup {Entry(c, r)}
        BY <2>2 DEF Changes
      <3>3. QED
        BY <2>1, <3>1, <3>2
    <2>6. cat' \in [Requests -> {"idle", "commit", "done"}] /\ DOMAIN cask' = Requests
      BY <2>2 DEF Changes, CommentsTypeOK
    <2>7. QED
      BY <2>3, <2>4, <2>5, <2>6 DEF CommentsTypeOK, CommentType
  <1>4. CASE UNCHANGED commentVars
    BY <1>4 DEF commentVars, CommentsTypeOK
  <1>5. QED
    BY <1>1, <1>2, <1>3, <1>4, CommentSteps DEF CommentSees

\* Nothing of a comment is lost but by its deletion.
LEMMA CommentsGrow ==
  ASSUME CommentsTypeOK, BodiesOK, [Next]_vars
  PROVE  /\ DOMAIN comments \subseteq DOMAIN comments' /\ revisions \subseteq revisions'
         /\ \A c \in DOMAIN comments : comments[c].deleted => comments'[c].deleted
         /\ \A c : Written(c) \subseteq Written(c)'
         /\ \A r \in Requests : cat[r] = "done" => cat'[r] = "done"
  <1>1. ASSUME NEW r \in Requests, Comment(r)
        PROVE  /\ DOMAIN comments \subseteq DOMAIN comments' /\ revisions \subseteq revisions'
               /\ \A c \in DOMAIN comments : comments[c].deleted => comments'[c].deleted
               /\ \A q \in Requests : cat[q] = "done" => cat'[q] = "done"
    <2>1. Changes(r)
      BY <1>1, CommentChanges
    <2>2. \A c \in DOMAIN comments : comments[c] \in CommentType
      BY DEF CommentsTypeOK, CommentType
    <2>3. DOMAIN comments \subseteq DOMAIN comments' /\ revisions \subseteq revisions'
      BY <2>1 DEF Changes
    <2>4. \A c \in DOMAIN comments : comments[c].deleted => comments'[c].deleted
      <3>1. ASSUME NEW c \in DOMAIN comments,
                   \/ comments'[c] = [comments[c] EXCEPT !.body = r, !.edited = TRUE]
                   \/ comments'[c] = [comments[c] EXCEPT !.body = Deleted, !.deleted = TRUE]
            PROVE  comments[c].deleted => comments'[c].deleted
        <4>1. comments[c] \in CommentType
          BY <2>2
        <4>2. QED
          BY <3>1, <4>1 DEF CommentType
      <3>2. QED
        BY <2>1, <3>1 DEF Changes
    <2>5. \A q \in Requests : cat[q] = "done" => cat'[q] = "done"
      BY <2>1 DEF Changes, CommentsTypeOK
    <2>6. QED
      BY <2>3, <2>4, <2>5
  <1>2. CASE ~\E r \in Requests : Comment(r)
    <2>1. UNCHANGED <<comments, revisions>> /\ \A q \in Requests : cat[q] = "done" => cat'[q] = "done"
      BY <1>2, CommentSteps DEF CommentSees, AskAdd, AskChange, commentVars, CommentsTypeOK
    <2>2. QED
      BY <2>1 DEF Written
  <1>3. revisions \subseteq revisions' => \A c : Written(c) \subseteq Written(c)'
    BY DEF Written
  <1>4. QED
    BY <1>1, <1>2, <1>3

\* Every step keeps comments to the bodies their edits tell of.
LEMMA BodiesNext ==
  ASSUME CommentsTypeOK, BodiesOK, [Next]_vars
  PROVE  BodiesOK'
  <1>1. /\ \A c \in DOMAIN comments :
             cat[c] = "done" /\ (comments[c].deleted \/ comments[c].body \in Written(c))
        /\ DOMAIN comments \subseteq Requests
        /\ \A e \in revisions : e.comment \in DOMAIN comments /\ cat[e.by] = "done" /\ e.by \in Requests
    BY DEF BodiesOK, CommentsTypeOK
  <1>2. ASSUME NEW c \in DOMAIN comments'
        PROVE  cat'[c] = "done" /\ (comments'[c].deleted \/ comments'[c].body \in Written(c)')
    <2>1. CASE c \in DOMAIN comments /\ comments'[c] = comments[c]
      BY <1>1, <2>1, CommentsGrow
    <2>2. ASSUME NEW r \in Requests, Comment(r), ~(c \in DOMAIN comments /\ comments'[c] = comments[c])
          PROVE  cat'[c] = "done" /\ (comments'[c].deleted \/ comments'[c].body \in Written(c)')
      <3>1. Changes(r)
        BY <2>2, CommentChanges
      <3>2. CASE c \notin DOMAIN comments
        <4>1. c = r /\ comments'[c] = CommentOf(r) /\ cat'[r] = "done"
          BY <1>2, <3>1, <3>2 DEF Changes, CommentsTypeOK
        <4>2. QED
          BY <4>1 DEF CommentOf, Written
      <3>3. CASE c \in DOMAIN comments
        <4>1. /\ comments[c] \in CommentType /\ cat'[c] = "done"
              /\ \/ /\ comments'[c] = [comments[c] EXCEPT !.body = r, !.edited = TRUE]
                    /\ revisions' = revisions \cup {Entry(c, r)}
                 \/ comments'[c] = [comments[c] EXCEPT !.body = Deleted, !.deleted = TRUE]
          BY <1>1, <2>2, <3>1, <3>3, CommentsGrow DEF Changes, CommentsTypeOK, CommentType
        <4>2. CASE comments'[c] = [comments[c] EXCEPT !.body = Deleted, !.deleted = TRUE]
          BY <4>1, <4>2 DEF CommentType
        <4>3. CASE comments'[c] = [comments[c] EXCEPT !.body = r, !.edited = TRUE]
                   /\ revisions' = revisions \cup {Entry(c, r)}
          <5>1. comments'[c].body = r
            BY <4>1, <4>3 DEF CommentType
          <5>2. Entry(c, r).comment = c /\ Entry(c, r).by = r
            BY DEF Entry
          <5>3. QED
            BY <4>1, <4>3, <5>1, <5>2 DEF Written
        <4>4. QED
          BY <4>1, <4>2, <4>3
      <3>4. QED
        BY <3>2, <3>3
    <2>3. CASE ~\E r \in Requests : Comment(r)
      BY <1>2, <2>1, <2>3, CommentSteps DEF CommentSees, AskAdd, AskChange, commentVars
    <2>4. QED
      BY <2>1, <2>2, <2>3
  <1>3. ASSUME NEW e \in revisions' PROVE e.comment \in DOMAIN comments' /\ cat'[e.by] = "done"
    <2>1. CASE e \in revisions
      BY <1>1, <2>1, CommentsGrow
    <2>2. CASE e \notin revisions
      <3>1. PICK r \in Requests : Comment(r)
        BY <1>3, <2>2, CommentSteps DEF CommentSees, AskAdd, AskChange, commentVars
      <3>2. Changes(r)
        BY <3>1, CommentChanges
      <3>3. cat'[r] = "done"
        BY <3>2 DEF Changes, CommentsTypeOK
      <3>4. revisions' # revisions
        BY <1>3, <2>2
      <3>5. PICK c \in DOMAIN comments : revisions' = revisions \cup {Entry(c, r)}
        BY <3>2, <3>4 DEF Changes
      <3>6. e = Entry(c, r)
        BY <1>3, <2>2, <3>5
      <3>7. QED
        BY <3>3, <3>6, CommentsGrow DEF Entry
    <2>3. QED
      BY <2>1, <2>2
  <1>4. ASSUME NEW r \in Requests, cat'[r] = "commit"
        PROVE  \/ cask'[r].op = "add" /\ cask'[r].finding \in Findings
               \/ \E c \in DOMAIN comments' :
                    /\ c = cask'[r].comment /\ cask'[r].op \in {"edit", "delete"}
                    /\ cask'[r].read \in Requests \cup {Deleted}
                    /\ comments'[c].deleted \/ cask'[r].read \in Written(c)'
    <2>1. CASE cat[r] = "commit" /\ cask'[r] = cask[r]
      <3>1. CASE cask[r].op = "add"
        BY <2>1, <3>1 DEF BodiesOK
      <3>2. ASSUME NEW c, c = cask[r].comment, cask[r].op # "add"
            PROVE  /\ c \in DOMAIN comments' /\ c = cask'[r].comment /\ cask'[r].op \in {"edit", "delete"}
                   /\ cask'[r].read \in Requests \cup {Deleted}
                   /\ comments'[c].deleted \/ cask'[r].read \in Written(c)'
        <4>1. /\ c \in DOMAIN comments /\ cask[r].op \in {"edit", "delete"}
              /\ cask[r].read \in Requests \cup {Deleted}
              /\ comments[c].deleted \/ cask[r].read \in Written(c)
          BY <2>1, <3>2 DEF BodiesOK
        <4>2. QED
          BY <2>1, <3>2, <4>1, CommentsGrow
      <3>3. QED
        BY <3>1, <3>2
    <2>2. ASSUME NEW f \in Findings, cask'[r] = [op |-> "add", finding |-> f]
          PROVE  cask'[r].op = "add" /\ cask'[r].finding \in Findings
      BY <2>2
    <2>3. ASSUME NEW op \in {"edit", "delete"}, NEW c \in DOMAIN comments,
                 cask'[r] = [op |-> op, comment |-> c, read |-> comments[c].body]
          PROVE  /\ c \in DOMAIN comments' /\ c = cask'[r].comment /\ cask'[r].op \in {"edit", "delete"}
                 /\ cask'[r].read \in Requests \cup {Deleted}
                 /\ comments'[c].deleted \/ cask'[r].read \in Written(c)'
      <3>1. cask'[r].op = op /\ cask'[r].comment = c /\ cask'[r].read = comments[c].body
        BY <2>3
      <3>2. comments[c] \in CommentType
        BY DEF CommentsTypeOK, CommentType
      <3>3. QED
        BY <1>1, <3>1, <3>2, CommentsGrow DEF CommentType
    <2>4. \/ cat[r] = "commit" /\ cask'[r] = cask[r]
          \/ \E f \in Findings : cask'[r] = [op |-> "add", finding |-> f]
          \/ \E op \in {"edit", "delete"}, c \in DOMAIN comments :
               cask'[r] = [op |-> op, comment |-> c, read |-> comments[c].body]
      <3>1. ASSUME NEW q \in Requests, Comment(q) PROVE cat[r] = "commit" /\ cask' = cask
        BY <1>4, <3>1, CommentChanges DEF Changes, CommentsTypeOK
      <3>2. ASSUME NEW q \in Requests, NEW f \in Findings, AskAdd(q, f)
            PROVE  (cat[r] = "commit" /\ cask'[r] = cask[r]) \/ cask'[r] = [op |-> "add", finding |-> f]
        BY <1>4, <3>2 DEF AskAdd, CommentsTypeOK
      <3>3. ASSUME NEW q \in Requests, NEW op \in {"edit", "delete"}, NEW c \in DOMAIN comments,
                   NEW author \in BOOLEAN, AskChange(q, op, c, author)
            PROVE  \/ cat[r] = "commit" /\ cask'[r] = cask[r]
                   \/ cask'[r] = [op |-> op, comment |-> c, read |-> comments[c].body]
        BY <1>4, <3>3 DEF AskChange, CommentsTypeOK
      <3>4. CASE UNCHANGED commentVars
        BY <1>4, <3>4 DEF commentVars
      <3>5. QED
        BY <3>1, <3>2, <3>3, <3>4, CommentSteps DEF CommentSees
    <2>5. QED
      BY <2>1, <2>2, <2>3, <2>4
  <1>5. QED
    BY <1>2, <1>3, <1>4 DEF BodiesOK, Written

Edits(c) == {e \in revisions : e.comment = c}

\* What RevisionsKept says of one comment.
Kept(c) ==
  \/ Written(c) \subseteq {comments[c].body} \cup {e.previous : e \in Edits(c)}
  \/ comments[c].deleted
  \/ \E e, d \in Edits(c) : e # d /\ e.previous = d.previous

\* An edit keeps the body it replaces: either that is the one it has read, or
\* another edit has replaced the same one.
LEMMA EditKeeps ==
  ASSUME CommentsTypeOK, BodiesOK, [Next]_vars, NEW c \in DOMAIN comments, NEW r \in Requests,
         cat[r] = "commit", Kept(c), comments'[c].body = r,
         comments[c].deleted \/ cask[r].read \in Written(c),
         revisions' = revisions \cup {Entry(c, r)}
  PROVE  Kept(c)'
  <1>1. /\ Edits(c)' = Edits(c) \cup {Entry(c, r)} /\ Entry(c, r).by = r
        /\ Entry(c, r).previous = cask[r].read
    BY DEF Edits, Entry
  <1>2. Written(c) = {c} \cup {e.by : e \in Edits(c)} /\ Written(c)' = {c} \cup {e.by : e \in Edits(c)'}
    BY DEF Written, Edits
  <1>3. Written(c)' = Written(c) \cup {r}
    BY <1>1, <1>2
  <1>4. CASE comments[c].deleted
    BY <1>4, CommentsGrow DEF Kept
  <1>5. CASE \E e, d \in Edits(c) : e # d /\ e.previous = d.previous
    BY <1>1, <1>5 DEF Kept
  <1>6. CASE /\ Written(c) \subseteq {comments[c].body} \cup {e.previous : e \in Edits(c)}
             /\ cask[r].read \in Written(c)
    <2>1. CASE cask[r].read = comments[c].body
      BY <1>1, <1>3, <1>6, <2>1 DEF Kept
    <2>2. CASE cask[r].read # comments[c].body
      <3>1. PICK e \in Edits(c) : e.previous = cask[r].read
        BY <1>6, <2>2
      <3>2. cat[e.by] = "done"
        BY DEF BodiesOK, Edits
      <3>3. e # Entry(c, r)
        BY <1>1, <3>2
      <3>4. QED
        BY <1>1, <3>1, <3>3 DEF Kept
    <2>3. QED
      BY <2>1, <2>2
  <1>7. QED
    BY <1>4, <1>5, <1>6 DEF Kept

\* Every step keeps the bodies a comment has had.
LEMMA RevisionsKeptNext ==
  ASSUME CommentsTypeOK, BodiesOK, RevisionsKept, [Next]_vars
  PROVE  RevisionsKept'
  <1> SUFFICES ASSUME NEW c \in DOMAIN comments' PROVE Kept(c)'
    BY DEF RevisionsKept, Kept, Edits
  <1>1. c \in DOMAIN comments => Kept(c)
    BY DEF RevisionsKept, Kept, Edits
  <1>2. ASSUME c \in DOMAIN comments, comments'[c] = comments[c], Edits(c)' = Edits(c) PROVE Kept(c)'
    <2>1. Written(c)' = Written(c)
      BY <1>2 DEF Written, Edits
    <2>2. QED
      BY <1>1, <1>2, <2>1 DEF Kept
  <1>3. ASSUME NEW r \in Requests, Comment(r) PROVE Kept(c)'
    <2>1. Changes(r)
      BY <1>3, CommentChanges
    <2>2. revisions' = revisions => Edits(c)' = Edits(c)
      BY DEF Edits
    <2>3. CASE c \notin DOMAIN comments
      <3>1. c = r /\ comments'[c] = CommentOf(r) /\ revisions' = revisions
        BY <2>1, <2>3 DEF Changes
      <3>2. Edits(c) = {}
        BY <2>3 DEF BodiesOK, Edits
      <3>3. Written(c)' = {c}
        BY <3>1, <3>2 DEF Written, Edits
      <3>4. QED
        BY <3>1, <3>3 DEF Kept, CommentOf
    <2>4. ASSUME NEW d \in DOMAIN comments, c \in DOMAIN comments, c # d,
                 \A b \in DOMAIN comments \ {d} : comments'[b] = comments[b],
                 revisions' = revisions \/ revisions' = revisions \cup {Entry(d, r)}
          PROVE  Kept(c)'
      <3>1. Edits(c)' = Edits(c)
        BY <2>4 DEF Edits, Entry
      <3>2. QED
        BY <1>2, <2>4, <3>1
    <2>5. ASSUME c \in DOMAIN comments, c = cask[r].comment,
                 \/ /\ comments'[c] = [comments[c] EXCEPT !.body = r, !.edited = TRUE]
                    /\ revisions' = revisions \cup {Entry(c, r)}
                    /\ comments[c].deleted \/ cask[r].read \in Written(c)
                 \/ comments'[c] = [comments[c] EXCEPT !.body = Deleted, !.deleted = TRUE]
          PROVE  Kept(c)'
      <3>1. comments[c] \in CommentType
        BY <2>5 DEF CommentsTypeOK, CommentType
      <3>2. CASE comments'[c] = [comments[c] EXCEPT !.body = Deleted, !.deleted = TRUE]
        BY <3>1, <3>2 DEF Kept, CommentType
      <3>3. CASE comments'[c] = [comments[c] EXCEPT !.body = r, !.edited = TRUE]
        <4>1. comments'[c].body = r
          BY <3>1, <3>3 DEF CommentType
        <4>2. cat[r] = "commit"
          BY <2>1 DEF Changes
        <4>3. CASE revisions' = revisions \cup {Entry(c, r)} /\ (comments[c].deleted \/ cask[r].read \in Written(c))
          BY <1>1, <2>5, <4>1, <4>2, <4>3, EditKeeps
        <4>4. QED
          BY <2>5, <3>2, <4>3
      <3>4. QED
        BY <2>5, <3>2, <3>3
    <2>6. CASE UNCHANGED revisions /\ c \in DOMAIN comments /\ comments'[c] = comments[c]
      BY <1>2, <2>2, <2>6
    <2>7. QED
      BY <2>1, <2>3, <2>4, <2>5, <2>6 DEF Changes
  <1>4. CASE ~\E r \in Requests : Comment(r)
    <2>1. UNCHANGED <<comments, revisions>>
      BY <1>4, CommentSteps DEF CommentSees, AskAdd, AskChange, commentVars
    <2>2. QED
      BY <1>2, <2>1 DEF Edits
  <1>5. QED
    BY <1>3, <1>4

-----------------------------------------------------------------------------
(* Readers *)

Reads(r) ==
  /\ \/ EndRead(r)
     \/ \E f \in Findings : ReadOne(r, f)
     \/ \E S \in SUBSET Scans : BeginRead(r, S)
  /\ UNCHANGED triageVars

\* A step is of one reader or of none.
LEMMA ReaderSteps ==
  ASSUME [Next]_vars
  PROVE  reader' = reader \/ \E r \in Requests : Reads(r)
  <1>1. CASE TriageStep /\ UNCHANGED <<commentVars, reader>>
    BY <1>1
  <1>2. ASSUME NEW r \in Requests, ArriveReader(r) PROVE Reads(r)
    <2>1. PICK S \in {{s} : s \in Scans} \cup {Scans} : BeginRead(r, S)
      BY <1>2 DEF ArriveReader
    <2>2. S \in SUBSET Scans
      BY <2>1
    <2>3. QED
      BY <1>2, <2>1, <2>2 DEF ArriveReader, Reads
  <1>3. ASSUME NEW r \in Requests, ArriveTriage(r) \/ ArriveComment(r) \/ Comment(r)
        PROVE  reader' = reader
    BY <1>3 DEF ArriveTriage, ArriveComment, Comment
  <1>4. CASE Read
    BY <1>4 DEF Read, Reads
  <1>5. CASE UNCHANGED vars
    BY <1>5 DEF vars
  <1>6. QED
    BY <1>1, <1>2, <1>3, <1>4, <1>5 DEF Next

ReaderType(F, G) ==
  [state : {"idle", "reading", "done"}, scan : SUBSET Scans, todo : SUBSET Findings,
   before : [G -> Nat], read : [F -> [severity : Severities, status : TriageStatus]]]

\* Where the records of a finding are as many as before, they are the same.
LEMMA CountNext ==
  ASSUME TriageTypeOK, PublishedOK, StampsOK, BodiesOK, [Next]_vars, NEW f \in Findings,
         IsFiniteSet(records[f])
  PROVE  /\ IsFiniteSet(records'[f]) /\ Cardinality(records[f]) \in Nat
         /\ Cardinality(records'[f]) \in Nat /\ Cardinality(records[f]) <= Cardinality(records'[f])
         /\ Cardinality(records'[f]) = Cardinality(records[f]) => records'[f] = records[f]
  <1>1. Cardinality(records[f]) \in Nat
    BY FS_CardinalityType
  <1>2. CASE records'[f] = records[f]
    BY <1>1, <1>2
  <1>3. ASSUME NEW n, n \notin records[f], records'[f] = records[f] \cup {n}
        PROVE  IsFiniteSet(records'[f]) /\ Cardinality(records'[f]) = Cardinality(records[f]) + 1
    BY <1>3, FS_AddElement
  <1>4. \/ records'[f] = records[f]
        \/ \E n : n \notin records[f] /\ records'[f] = records[f] \cup {n}
    <2>1. CASE records'[f] = {Embargo(clock)} /\ ScanOf[f] \notin published
      <3>1. records[f] = {}
        BY <2>1 DEF PublishedOK
      <3>2. QED
        BY <2>1, <3>1
    <2>2. ASSUME NEW r \in Requests, Commits(r, f) PROVE RecordOf(r) \notin records[f]
      BY <2>2 DEF Commits, StampsOK, RecordOf
    <2>3. QED
      BY <2>1, <2>2, RecordsNext DEF Commits
  <1>5. QED
    BY <1>1, <1>2, <1>3, <1>4

\* Every step keeps the types of readers.
LEMMA ReaderTypeNext ==
  ASSUME TriageTypeOK, LatestOK, ReaderTypeOK, ReadersOK, [Next]_vars
  PROVE  ReaderTypeOK'
  <1>1. DOMAIN reader = Requests /\ \A r \in Requests : \E F, G \in SUBSET Findings : reader[r] \in ReaderType(F, G)
    BY DEF ReaderTypeOK, ReaderType
  <1>2. ASSUME NEW r \in Requests, Reads(r)
        PROVE  /\ DOMAIN reader' = Requests /\ \A q \in Requests \ {r} : reader'[q] = reader[q]
               /\ \E F, G \in SUBSET Findings : reader'[r] \in ReaderType(F, G)
    <2>1. DOMAIN reader' = Requests /\ \A q \in Requests \ {r} : reader'[q] = reader[q]
      BY <1>1, <1>2 DEF Reads, EndRead, ReadOne, BeginRead
    <2>2. PICK F \in SUBSET Findings, G \in SUBSET Findings : reader[r] \in ReaderType(F, G)
      BY <1>1
    <2>3. CASE EndRead(r)
      <3>1. reader'[r] = [reader[r] EXCEPT !.state = "done"]
        BY <1>1, <2>3 DEF EndRead
      <3>2. reader'[r] \in ReaderType(F, G)
        BY <2>2, <3>1 DEF ReaderType
      <3>3. QED
        BY <2>1, <3>2
    <2>4. ASSUME NEW f \in Findings, ReadOne(r, f)
          PROVE  \E D, E \in SUBSET Findings : reader'[r] \in ReaderType(D, E)
      <3>1. Shown(f) \in [severity : Severities, status : TriageStatus]
        BY Effective DEF Shown
      <3>2. reader[r].read \in [F -> [severity : Severities, status : TriageStatus]]
        BY <2>2 DEF ReaderType
      <3>3. Put(reader[r].read, f, Shown(f)) \in [F \cup {f} -> [severity : Severities, status : TriageStatus]]
        BY <3>1, <3>2 DEF Put
      <3>4. reader'[r] = [reader[r] EXCEPT !.todo = reader[r].todo \ {f},
                                           !.read = Put(reader[r].read, f, Shown(f))]
        BY <1>1, <2>4 DEF ReadOne
      <3>5. reader'[r] \in ReaderType(F \cup {f}, G)
        BY <2>2, <3>3, <3>4 DEF ReaderType
      <3>6. QED
        BY <3>5
    <2>5. ASSUME NEW S \in SUBSET Scans, BeginRead(r, S)
          PROVE  \E D, E \in SUBSET Findings : reader'[r] \in ReaderType(D, E)
      <3> DEFINE rows == {f \in Findings : ScanOf[f] \in S \cap published}
      <3>1. reader'[r] = [state |-> "reading", scan |-> S, todo |-> rows, read |-> <<>>,
                          before |-> [f \in rows |-> Cardinality(records[f])]]
        BY <1>1, <2>5 DEF BeginRead
      <3>2. [f \in rows |-> Cardinality(records[f])] \in [rows -> Nat]
        BY FS_CardinalityType DEF ReadersOK
      <3>3. <<>> \in [{} -> [severity : Severities, status : TriageStatus]]
        OBVIOUS
      <3>4. reader'[r] \in ReaderType({}, rows)
        BY <3>1, <3>2, <3>3 DEF ReaderType
      <3>5. QED
        BY <3>4
    <2>6. QED
      BY <1>2, <2>1, <2>3, <2>4, <2>5 DEF Reads
  <1>3. QED
    BY <1>1, <1>2, ReaderSteps DEF ReaderTypeOK, ReaderType

\* A severe finding blocks unless somebody closed it or lowered its severity.
LEMMA ShownBlocks ==
  ASSUME TriageTypeOK, LatestOK, SawOK, NEW f \in Findings,
         Rank[SeverityOf[f]] >= Rank["high"], ~Eased(f)
  PROVE  Rank[Shown(f).severity] >= Rank["high"] /\ Shown(f).status \in BlockingStatus
  <1>1. SeverityOf[f] \in {"high", "critical"}
    BY ScanTypes, SeverityRanks
  <1>2. EffectiveSeverity(f) \in {"high", "critical"}
    <2>1. CASE records[f] = {}
      BY <1>1, <2>1 DEF EffectiveSeverity
    <2>2. CASE records[f] # {}
      <3>1. Latest(records[f]) \in records[f] /\ Latest(records[f]) \in TriageRecord
        BY <2>2, Effective DEF TriageTypeOK
      <3>2. Latest(records[f]).override \notin {"medium", "low", "info"}
        BY <3>1 DEF Eased
      <3>3. Latest(records[f]).override \in {"none", "high", "critical"}
        BY <3>1, <3>2, SeverityRanks DEF TriageRecord
      <3>4. QED
        BY <1>1, <2>2, <3>3 DEF EffectiveSeverity
    <2>3. QED
      BY <2>1, <2>2
  <1>3. EffectiveStatus(f) \in BlockingStatus
    <2>1. EffectiveStatus(f) \in TriageStatus
      BY Effective
    <2>2. EffectiveStatus(f) = DefaultStatus(f) \/ EffectiveStatus(f) \notin Resolved
      BY StatusDecided DEF Eased, Closed
    <2>3. QED
      BY <2>1, <2>2, ScanTypes DEF BlockingStatus, Resolved, TriageStatus
  <1>4. QED
    BY <1>2, <1>3, SeverityRanks DEF Shown

\* A finding that is shown as resolved was closed.
LEMMA ShownResolved ==
  ASSUME TriageTypeOK, LatestOK, SawOK, NEW f \in Findings, Shown(f).status \in Resolved
  PROVE  Closed(f)
  <1>1. EffectiveStatus(f) \in Resolved
    BY DEF Shown
  <1>2. EffectiveStatus(f) # DefaultStatus(f)
    BY <1>1, ScanTypes DEF Resolved
  <1>3. QED
    BY <1>1, <1>2, StatusDecided DEF Closed

\* What ReadersOK says of one reader.
ReaderOK(R) ==
  /\ R.state = "idle" => DOMAIN R.before = {}
  /\ R.state = "done" => R.todo = {}
  /\ DOMAIN R.before = R.todo \cup DOMAIN R.read
  /\ \A f \in DOMAIN R.before : /\ ScanOf[f] \in published
                                /\ R.before[f] <= Cardinality(records[f])
  /\ \A f \in DOMAIN R.read :
       /\ Cardinality(records[f]) = R.before[f] => R.read[f] = Shown(f)
       /\ R.read[f].status \in Resolved => Closed(f)
       /\ Rank[SeverityOf[f]] >= Rank["high"] => Eased(f) \/ f \in GateBlocking(R.read)

\* A reader is right whatever the others do.
LEMMA ReaderStays ==
  ASSUME TriageTypeOK, PublishedOK, StampsOK, BodiesOK, ReadersOK, [Next]_vars,
         NEW F \in SUBSET Findings, NEW G \in SUBSET Findings, NEW R \in ReaderType(F, G), ReaderOK(R)
  PROVE  ReaderOK(R)'
  <1>1. /\ R.before \in [G -> Nat] /\ DOMAIN R.before = G /\ DOMAIN R.read = F /\ F \subseteq G
    BY DEF ReaderType, ReaderOK
  <1>2. ASSUME NEW f \in G
        PROVE  /\ ScanOf[f] \in published' /\ R.before[f] <= Cardinality(records'[f])
               /\ Cardinality(records'[f]) = R.before[f] =>
                    Cardinality(records[f]) = R.before[f] /\ records'[f] = records[f]
    <2>1. /\ f \in Findings /\ ScanOf[f] \in published /\ R.before[f] \in Nat
          /\ R.before[f] <= Cardinality(records[f]) /\ IsFiniteSet(records[f])
      BY <1>1 DEF ReaderOK, ReadersOK
    <2>2. /\ Cardinality(records[f]) \in Nat /\ Cardinality(records'[f]) \in Nat
          /\ Cardinality(records[f]) <= Cardinality(records'[f])
          /\ Cardinality(records'[f]) = Cardinality(records[f]) => records'[f] = records[f]
      BY <2>1, CountNext
    <2>3. ScanOf[f] \in published'
      BY <2>1, PublishedGrows
    <2>4. QED
      BY <2>1, <2>2, <2>3
  <1>3. ASSUME NEW f \in F
        PROVE  /\ Cardinality(records'[f]) = R.before[f] => R.read[f] = Shown(f)'
               /\ R.read[f].status \in Resolved => Closed(f)'
               /\ Rank[SeverityOf[f]] >= Rank["high"] => Eased(f)' \/ f \in GateBlocking(R.read)
    <2>1. /\ Cardinality(records[f]) = R.before[f] => R.read[f] = Shown(f)
          /\ R.read[f].status \in Resolved => Closed(f)
          /\ Rank[SeverityOf[f]] >= Rank["high"] => Eased(f) \/ f \in GateBlocking(R.read)
      BY <1>1 DEF ReaderOK
    <2>2. (Closed(f) => Closed(f)') /\ (Eased(f) => Eased(f)')
      BY RecordsGrow DEF Eased, Closed
    <2>3. records'[f] = records[f] => Shown(f)' = Shown(f)
      BY DEF Shown, EffectiveSeverity, EffectiveStatus
    <2>4. QED
      BY <1>1, <1>2, <2>1, <2>2, <2>3
  <1>4. /\ R.state = "idle" => DOMAIN R.before = {}
        /\ R.state = "done" => R.todo = {}
        /\ DOMAIN R.before = R.todo \cup DOMAIN R.read
    BY DEF ReaderOK
  <1>5. QED
    BY <1>1, <1>2, <1>3, <1>4 DEF ReaderOK

\* A reader that begins, goes on or ends is right.
LEMMA ReaderActs ==
  ASSUME TriageTypeOK, LatestOK, SawOK, ReaderTypeOK, ReadersOK, NEW r \in Requests, Reads(r),
         NEW R, R = reader'[r]
  PROVE  ReaderOK(R)
  <1>1. ReaderOK(reader[r])
    BY DEF ReadersOK, ReaderOK
  <1>2. PICK F \in SUBSET Findings, G \in SUBSET Findings : reader[r] \in ReaderType(F, G)
    BY DEF ReaderTypeOK, ReaderType
  <1>3. DOMAIN reader = Requests
    BY DEF ReaderTypeOK
  <1>4. CASE EndRead(r)
    <2>1. R = [reader[r] EXCEPT !.state = "done"] /\ reader[r].todo = {}
      BY <1>3, <1>4 DEF EndRead
    <2>2. /\ R.state = "done" /\ R.todo = {} /\ R.before = reader[r].before /\ R.read = reader[r].read
      BY <1>2, <2>1 DEF ReaderType
    <2>3. QED
      BY <1>1, <2>1, <2>2 DEF ReaderOK
  <1>5. ASSUME NEW f \in Findings, ReadOne(r, f) PROVE ReaderOK(R)
    <2> DEFINE Q == reader[r]
    <2>1. /\ R = [Q EXCEPT !.todo = Q.todo \ {f}, !.read = Put(Q.read, f, Shown(f))]
          /\ f \in Q.todo /\ Q.state = "reading"
      BY <1>3, <1>5 DEF ReadOne
    <2>2. /\ R.state = "reading" /\ R.todo = Q.todo \ {f} /\ R.before = Q.before
          /\ R.read = Put(Q.read, f, Shown(f))
      BY <1>2, <2>1 DEF ReaderType
    <2>3. /\ DOMAIN R.read = DOMAIN Q.read \cup {f} /\ R.read[f] = Shown(f)
          /\ \A g \in DOMAIN Q.read \ {f} : R.read[g] = Q.read[g]
      BY <2>2 DEF Put
    <2>4. DOMAIN R.before = R.todo \cup DOMAIN R.read
      BY <1>1, <2>1, <2>2, <2>3 DEF ReaderOK
    <2>5. ASSUME NEW g \in DOMAIN R.read
          PROVE  /\ Cardinality(records[g]) = R.before[g] => R.read[g] = Shown(g)
                 /\ R.read[g].status \in Resolved => Closed(g)
                 /\ Rank[SeverityOf[g]] >= Rank["high"] => Eased(g) \/ g \in GateBlocking(R.read)
      <3>1. CASE g = f
        BY <2>3, <3>1, ShownBlocks, ShownResolved DEF GateBlocking
      <3>2. CASE g # f
        <4>1. /\ g \in DOMAIN Q.read /\ R.read[g] = Q.read[g]
              /\ g \in GateBlocking(Q.read) => g \in GateBlocking(R.read)
          BY <2>3, <3>2 DEF GateBlocking
        <4>2. QED
          BY <1>1, <2>2, <4>1 DEF ReaderOK
      <3>3. QED
        BY <3>1, <3>2
    <2>6. \A g \in DOMAIN R.before : ScanOf[g] \in published /\ R.before[g] <= Cardinality(records[g])
      BY <1>1, <2>2 DEF ReaderOK
    <2>7. QED
      BY <2>2, <2>4, <2>5, <2>6 DEF ReaderOK
  <1>6. ASSUME NEW S \in SUBSET Scans, BeginRead(r, S) PROVE ReaderOK(R)
    <2> DEFINE rows == {f \in Findings : ScanOf[f] \in S \cap published}
    <2>1. R = [state |-> "reading", scan |-> S, todo |-> rows, read |-> <<>>,
               before |-> [f \in rows |-> Cardinality(records[f])]]
      BY <1>3, <1>6 DEF BeginRead
    <2>2. DOMAIN R.read = {}
      BY <2>1
    <2>3. \A f \in rows : Cardinality(records[f]) <= Cardinality(records[f])
      BY FS_CardinalityType DEF ReadersOK
    <2>4. QED
      BY <2>1, <2>2, <2>3 DEF ReaderOK
  <1>7. QED
    BY <1>4, <1>5, <1>6 DEF Reads

\* Every step keeps the readers right.
LEMMA ReadersNext ==
  ASSUME TriageTypeOK, PublishedOK, StampsOK, LatestOK, SawOK, BodiesOK, ReaderTypeOK, ReadersOK,
         [Next]_vars
  PROVE  ReadersOK'
  <1>1. \A f \in Findings : IsFiniteSet(records'[f])
    BY CountNext DEF ReadersOK
  <1>2. ASSUME NEW r \in Requests, NEW R, R = reader'[r] PROVE ReaderOK(R)'
    <2>1. CASE R = reader[r]
      <3>1. PICK F \in SUBSET Findings, G \in SUBSET Findings : R \in ReaderType(F, G)
        BY <2>1 DEF ReaderTypeOK, ReaderType
      <3>2. ReaderOK(R)
        BY <2>1 DEF ReadersOK, ReaderOK
      <3>3. QED
        BY <3>1, <3>2, ReaderStays
    <2>2. CASE Reads(r)
      <3>1. ReaderOK(R)
        BY <1>2, <2>2, ReaderActs
      <3>2. UNCHANGED <<published, records>>
        BY <2>2 DEF Reads, triageVars
      <3>3. QED
        BY <3>1, <3>2 DEF ReaderOK, Shown, EffectiveSeverity, EffectiveStatus, Eased, Closed
    <2>3. CASE R # reader[r] /\ ~Reads(r)
      <3>1. PICK q \in Requests : Reads(q) /\ q # r
        BY <1>2, <2>3, ReaderSteps
      <3>2. reader'[r] = reader[r]
        BY <3>1 DEF Reads, EndRead, ReadOne, BeginRead, ReaderTypeOK
      <3>3. QED
        BY <1>2, <2>3, <3>2
    <2>4. QED
      BY <2>1, <2>2, <2>3
  <1>3. QED
    BY <1>1, <1>2 DEF ReadersOK, ReaderOK

\* A reader that is done has read what it listed, and the severe findings of
\* that block or were eased.
LEMMA GateHolds ==
  ASSUME ReadersOK
  PROVE  GatePassNeedsDecision
  <1> SUFFICES ASSUME NEW r \in Answered, GatePasses(reader[r].read), NEW f \in DOMAIN reader[r].before,
                      Rank[SeverityOf[f]] >= Rank["high"]
               PROVE  Eased(f)
    BY DEF GatePassNeedsDecision, Eased, Closed
  <1>1. r \in Requests /\ reader[r].state = "done"
    BY DEF Answered
  <1>2. f \in DOMAIN reader[r].read
    BY <1>1 DEF ReadersOK
  <1>3. QED
    BY <1>1, <1>2 DEF ReadersOK, GatePasses

\* What was read of a finding without new records is what is shown.
LEMMA AnswersHold ==
  ASSUME ReadersOK
  PROVE  AnswersAreCurrent
  BY DEF ReadersOK, AnswersAreCurrent, Answered, Shown

-----------------------------------------------------------------------------
(* What readers make of what they read *)

Reading == [severity : Severities, status : TriageStatus]

\* There are finitely many severities and engines.
LEMMA FewKinds == IsFiniteSet(Severities) /\ IsFiniteSet(Engines)
  <1>1. \A a, b, c, d : IsFiniteSet((({a} \cup {b}) \cup {c}) \cup {d})
    <2> TAKE a, b, c, d
    <2>1. IsFiniteSet({a} \cup {b})
      BY FS_Singleton, FS_AddElement
    <2>2. IsFiniteSet(({a} \cup {b}) \cup {c})
      BY <2>1, FS_AddElement
    <2>3. QED
      BY <2>2, FS_AddElement
  <1>2. Engines = (({"SAST"} \cup {"DAST"}) \cup {"IAST"}) \cup {"RVD"}
    BY DEF Engines
  <1>3. Severities = ((({"info"} \cup {"low"}) \cup {"medium"}) \cup {"high"}) \cup {"critical"}
    BY SeverityRanks
  <1>4. QED
    BY <1>1, <1>2, <1>3, FS_AddElement

\* Two disjoint parts of a set add up to it; a part is not larger.
LEMMA Parts ==
  ASSUME NEW S, IsFiniteSet(S)
  PROVE  \A A, B \in SUBSET S :
           /\ Cardinality(A) \in Nat /\ Cardinality(A) <= Cardinality(S)
           /\ A \cup B = S /\ A \cap B = {} => Cardinality(A) + Cardinality(B) = Cardinality(S)
  <1> SUFFICES ASSUME NEW A \in SUBSET S, NEW B \in SUBSET S
               PROVE  /\ Cardinality(A) \in Nat /\ Cardinality(A) <= Cardinality(S)
                      /\ A \cup B = S /\ A \cap B = {} =>
                           Cardinality(A) + Cardinality(B) = Cardinality(S)
    OBVIOUS
  <1>1. /\ IsFiniteSet(A) /\ IsFiniteSet(B) /\ Cardinality(A) <= Cardinality(S)
        /\ Cardinality(A) \in Nat /\ Cardinality(B) \in Nat
    BY FS_Subset, FS_CardinalityType
  <1>2. ASSUME A \cup B = S, A \cap B = {}
        PROVE  Cardinality(A) + Cardinality(B) = Cardinality(S)
    <2>1. Cardinality(S) = Cardinality(A) + Cardinality(B) - Cardinality({})
      BY <1>1, <1>2, FS_Union
    <2>2. Cardinality({}) = 0
      BY FS_EmptySet
    <2>3. QED
      BY <1>1, <2>1, <2>2
  <1>3. QED
    BY <1>1, <1>2

\* The sizes of the classes a finite set falls into add up to its size.
LEMMA ClassesAddUp ==
  ASSUME NEW F, IsFiniteSet(F), NEW D, IsFiniteSet(D), NEW class \in [F -> D],
         NEW size, size = [d \in D |-> size[d]],
         \A d \in D : size[d] = Cardinality({f \in F : class[f] = d})
  PROVE  SumFunction(size) = Cardinality(F)
  <1>1. [d \in D |-> size[d]] = [d \in D |-> Cardinality({f \in F : class[f] = d})]
    OBVIOUS
  <1>2. SumFunction([d \in D |-> Cardinality({f \in F : class[f] = d})]) = Cardinality(F)
    BY SumOfClasses
  <1>3. QED
    BY <1>1, <1>2

\* What a dashboard counts.
LEMMA CountedIs ==
  ASSUME NEW F \in SUBSET Findings, NEW R \in [F -> Reading], NEW since
  PROVE  /\ Counted(R, {}, since) = {f \in F : FirstSeen[f] >= since}
         /\ \A e \in Engines :
              Counted(R, {e}, since) = {f \in Counted(R, {}, since) : ClassOf[f] = e}
  BY DEF Counted

\* The findings of F in bucket b, by day.
PerDay(R, F, b) ==
  [d \in {Day(f) : f \in F} |-> Cardinality({f \in F : Day(f) = d /\ Bucket(R[f].status) = b})]

\* The fields of a dashboard that counts F.
Summarises(D, R, F) ==
  /\ D.by_severity = CountBySeverity(R, F)
  /\ D.by_engine = [e \in Engines |-> CountBySeverity(R, {f \in F : ClassOf[f] = e})]
  /\ D.remediations = Cardinality({f \in F : R[f].status = "fixed"})
  /\ D.suppressions = Cardinality({f \in F : R[f].status \in Suppressed})
  /\ D.trends = [d \in {Day(f) : f \in F} |-> [b \in {"open", "resolved"} |->
                   Cardinality({f \in F : Day(f) = d /\ Bucket(R[f].status) = b})]]
  /\ D.top_projects = Top(CountByProject(F))
  /\ D.total = Cardinality(F)

\* A dashboard has the fields of what it counts.
LEMMA DashboardOf ==
  ASSUME NEW R, NEW named, NEW since
  PROVE  Summarises(Dashboard(R, named, since), R, Counted(R, named, since))
  <1> DEFINE F == Counted(R, named, since)
             D == Dashboard(R, named, since)
             severities == CountBySeverity(R, F)
             engines == [e \in Engines |-> CountBySeverity(R, {f \in F : ClassOf[f] = e})]
             fixed == Cardinality({f \in F : R[f].status = "fixed"})
             waived == Cardinality({f \in F : R[f].status \in Suppressed})
             days == [d \in {Day(f) : f \in F} |-> [b \in {"open", "resolved"} |->
                        Cardinality({f \in F : Day(f) = d /\ Bucket(R[f].status) = b})]]
             top == Top(CountByProject(F))
  <1>1. D = [by_severity |-> severities, by_engine |-> engines, remediations |-> fixed,
             suppressions |-> waived, trends |-> days, top_projects |-> top,
             total |-> Cardinality(F)]
    BY Zenon DEF Dashboard
  <1> HIDE DEF D, F, severities, engines, fixed, waived, days, top
  <1>2. /\ D.by_severity = severities /\ D.by_engine = engines /\ D.remediations = fixed
        /\ D.suppressions = waived /\ D.trends = days /\ D.top_projects = top
        /\ D.total = Cardinality(F)
    BY <1>1
  <1>3. QED
    BY <1>2, Zenon DEF Summarises, D, F, severities, engines, fixed, waived, days, top

\* The findings of each severity and of each class add up to all.
LEMMA PartsAddUp ==
  ASSUME NEW G \in SUBSET Findings, NEW R \in [G -> Reading], NEW F \in SUBSET G
  PROVE  /\ SumFunction(CountBySeverity(R, F)) = Cardinality(F)
         /\ SumFunction([e \in Engines |-> Cardinality({f \in F : ClassOf[f] = e})])
              = Cardinality(F)
  <1>1. IsFiniteSet(F) /\ IsFiniteSet(Severities) /\ IsFiniteSet(Engines)
    BY FindingsAssumption, FS_Subset, FewKinds
  <1>2. SumFunction(CountBySeverity(R, F)) = Cardinality(F)
    <2> DEFINE class == [f \in F |-> R[f].severity]
               size == CountBySeverity(R, F)
    <2>1. class \in [F -> Severities]
      BY DEF Reading
    <2>2. \A s \in Severities : size[s] = Cardinality({f \in F : class[f] = s})
      <3> TAKE s \in Severities
      <3>1. {f \in F : R[f].severity = s} = {f \in F : class[f] = s}
        OBVIOUS
      <3>2. size[s] = Cardinality({f \in F : R[f].severity = s})
        BY DEF CountBySeverity
      <3>3. QED
        BY <3>1, <3>2
    <2>3. size = [s \in Severities |-> size[s]]
      BY DEF CountBySeverity
    <2> HIDE DEF class, size
    <2>4. SumFunction(size) = Cardinality(F)
      BY <1>1, <2>1, <2>2, <2>3, ClassesAddUp
    <2>5. QED
      BY <2>4 DEF size
  <1>3. SumFunction([e \in Engines |-> Cardinality({f \in F : ClassOf[f] = e})])
          = Cardinality(F)
    <2> DEFINE class == [f \in F |-> ClassOf[f]]
               size == [e \in Engines |-> Cardinality({f \in F : ClassOf[f] = e})]
    <2>1. class \in [F -> Engines]
      BY FindingsAssumption DEF Engines
    <2>2. \A e \in Engines : size[e] = Cardinality({f \in F : class[f] = e})
      <3> TAKE e \in Engines
      <3>1. {f \in F : ClassOf[f] = e} = {f \in F : class[f] = e}
        OBVIOUS
      <3>2. QED
        BY <3>1
    <2>3. size = [e \in Engines |-> size[e]]
      OBVIOUS
    <2> HIDE DEF class, size
    <2>4. SumFunction(size) = Cardinality(F)
      BY <1>1, <2>1, <2>2, <2>3, ClassesAddUp
    <2>5. QED
      BY <2>4 DEF size
  <1>4. QED
    BY <1>2, <1>3

\* The findings of each day in a bucket add up to those in the bucket.
LEMMA DaysAddUp ==
  ASSUME NEW F \in SUBSET Findings, NEW R, NEW b
  PROVE  SumFunction(PerDay(R, F, b)) = Cardinality({f \in F : Bucket(R[f].status) = b})
  <1> DEFINE Days == {Day(f) : f \in F}
             B == {f \in F : Bucket(R[f].status) = b}
             class == [f \in B |-> Day(f)]
             size == PerDay(R, F, b)
  <1>1. IsFiniteSet(F) /\ IsFiniteSet(B)
    <2>1. B \subseteq F
      OBVIOUS
    <2>2. QED
      BY <2>1, FindingsAssumption, FS_Subset
  <1>2. IsFiniteSet(Days)
    <2>1. [f \in F |-> Day(f)] \in Surjection(F, Days)
      BY DEF Surjection
    <2>2. QED
      BY <1>1, <2>1, FS_Surjection
  <1>3. class \in [B -> Days]
    OBVIOUS
  <1>4. \A d \in Days : size[d] = Cardinality({f \in B : class[f] = d})
    <2> TAKE d \in Days
    <2>1. {f \in F : Day(f) = d /\ Bucket(R[f].status) = b} = {f \in B : class[f] = d}
      OBVIOUS
    <2>2. size[d] = Cardinality({f \in F : Day(f) = d /\ Bucket(R[f].status) = b})
      BY DEF PerDay
    <2>3. QED
      BY <2>1, <2>2
  <1>5. size = [d \in Days |-> size[d]]
    BY DEF PerDay
  <1> HIDE DEF class, Days, B, size
  <1>6. SumFunction(size) = Cardinality(B)
    BY <1>1, <1>2, <1>3, <1>4, <1>5, ClassesAddUp
  <1>7. QED
    BY <1>6 DEF size, B, Days

\* No project that is cut has more findings than one that is listed: those
\* ranked before the latter would be too many.
LEMMA TopHasMost ==
  ASSUME NEW P, IsFiniteSet(P), P \subseteq Nat, NEW total \in [P -> Nat]
  PROVE  \A p \in DOMAIN Top(total) : \A q \in P \ DOMAIN Top(total) :
           total[q] <= total[p] /\ Top(total)[p] = total[p]
  <1> SUFFICES ASSUME NEW p \in DOMAIN Top(total), NEW q \in P \ DOMAIN Top(total)
               PROVE  total[q] <= total[p] /\ Top(total)[p] = total[p]
    OBVIOUS
  <1>1. /\ p \in P /\ Top(total)[p] = total[p]
        /\ Cardinality(RankedBefore(total, p)) < MaxTop
        /\ ~(Cardinality(RankedBefore(total, q)) < MaxTop)
    BY DEF Top, Restrict
  <1>2. total[p] \in Nat /\ total[q] \in Nat
    BY <1>1
  <1>3. ASSUME total[p] < total[q] PROVE FALSE
    <2>1. \A x \in P : total[x] \in Nat
      OBVIOUS
    <2>2. RankedBefore(total, q) \subseteq RankedBefore(total, p)
      <3> SUFFICES ASSUME NEW x \in RankedBefore(total, q) PROVE x \in RankedBefore(total, p)
        OBVIOUS
      <3>1. x \in P /\ total[x] \in Nat /\ total[x] >= total[q]
        BY <1>2, <2>1 DEF RankedBefore
      <3>2. total[x] > total[p]
        BY <1>2, <1>3, <3>1
      <3>3. QED
        BY <3>1, <3>2 DEF RankedBefore
    <2>3. IsFiniteSet(RankedBefore(total, p))
      <3>1. RankedBefore(total, p) \subseteq P
        BY DEF RankedBefore
      <3>2. QED
        BY <3>1, FS_Subset
    <2>4. /\ Cardinality(RankedBefore(total, q)) <= Cardinality(RankedBefore(total, p))
          /\ Cardinality(RankedBefore(total, q)) \in Nat
          /\ Cardinality(RankedBefore(total, p)) \in Nat
      BY <2>2, <2>3, FS_Subset, FS_CardinalityType
    <2>5. QED
      BY <1>1, <2>4, ReportsAssumption
  <1>4. QED
    BY <1>1, <1>2, <1>3

\* The projects of some findings, with the number of each.
LEMMA ProjectTotals ==
  ASSUME NEW F \in SUBSET Findings
  PROVE  LET P == {ProjectOf[ScanOf[f]] : f \in F}
         IN  IsFiniteSet(P) /\ P \subseteq Nat /\ CountByProject(F) \in [P -> Nat]
  <1> DEFINE P == {ProjectOf[ScanOf[f]] : f \in F}
  <1>1. IsFiniteSet(F)
    BY FindingsAssumption, FS_Subset
  <1>2. IsFiniteSet(P)
    <2>1. [f \in F |-> ProjectOf[ScanOf[f]]] \in Surjection(F, P)
      BY DEF Surjection
    <2>2. QED
      BY <1>1, <2>1, FS_Surjection
  <1>3. P \subseteq Nat
    BY ScanTypes, ReportsAssumption
  <1>4. \A p : Cardinality({f \in F : ProjectOf[ScanOf[f]] = p}) \in Nat
    <2> TAKE p
    <2>1. IsFiniteSet({f \in F : ProjectOf[ScanOf[f]] = p})
      BY <1>1, FS_Subset
    <2>2. QED
      BY <2>1, FS_CardinalityType
  <1>5. CountByProject(F) \in [P -> Nat]
    BY <1>4 DEF CountByProject
  <1>6. QED
    BY <1>2, <1>3, <1>5

\* The gate passes exactly if the SARIF report has no error that blocks.
LEMMA ReportsAgree ==
  ASSUME NEW F \in SUBSET Findings, NEW R \in [F -> Reading]
  PROVE  ReportAgrees(R)
  <1>1. ASSUME NEW f \in F
        PROVE  /\ SarifResults(R)[f].status = R[f].status
               /\ SarifResults(R)[f].level = "error" <=> Rank[R[f].severity] >= Rank["high"]
    <2>1. SarifResults(R)[f] = [level |-> SarifLevel[R[f].severity], status |-> R[f].status]
      BY DEF SarifResults
    <2>2. R[f].severity \in Severities
      BY DEF Reading
    <2>3. SarifLevel[R[f].severity] = "error" <=> R[f].severity \in {"high", "critical"}
      BY <2>2, SeverityRanks DEF SarifLevel
    <2>4. QED
      BY <2>1, <2>2, <2>3, SeverityRanks
  <1>2. QED
    BY <1>1 DEF ReportAgrees, GatePasses, GateBlocking

\* The parts of a dashboard add up, whatever it read.
LEMMA DashboardsAdd ==
  ASSUME NEW G \in SUBSET Findings, NEW R \in [G -> Reading], NEW since
  PROVE  DashboardAdds(R, since)
  <1> DEFINE F == Counted(R, {}, since)
             all == Dashboard(R, {}, since)
             In(b) == {f \in F : Bucket(R[f].status) = b}
             Sum(b) == SumFunction([d \in DOMAIN all.trends |-> all.trends[d][b]])
             Of(e) == {f \in F : ClassOf[f] = e}
             Fixed == {f \in F : R[f].status = "fixed"}
             Waived == {f \in F : R[f].status \in Suppressed}
             P == {ProjectOf[ScanOf[f]] : f \in F}
  <1>1. F \subseteq G /\ F \in SUBSET Findings /\ IsFiniteSet(F)
    <2>1. F \subseteq G
      BY CountedIs
    <2>2. QED
      BY <2>1, FindingsAssumption, FS_Subset
  <1>2. Summarises(all, R, F)
    BY DashboardOf
  <1>3. ASSUME NEW e \in Engines
        PROVE  /\ Dashboard(R, {e}, since).by_severity = CountBySeverity(R, Of(e))
               /\ Dashboard(R, {e}, since).total = Cardinality(Of(e))
    <2>1. Of(e) = Counted(R, {e}, since)
      BY CountedIs
    <2>2. Summarises(Dashboard(R, {e}, since), R, Counted(R, {e}, since))
      BY DashboardOf
    <2> HIDE DEF Of
    <2>3. QED
      BY <2>1, <2>2, Zenon DEF Summarises
  <1>4. SumFunction(all.by_severity) = all.total
    <2> HIDE DEF F, all
    <2>1. SumFunction(CountBySeverity(R, F)) = Cardinality(F)
      BY <1>1, PartsAddUp
    <2>2. QED
      BY <1>2, <2>1, Zenon DEF Summarises
  <1>5. \A e \in Engines : Dashboard(R, {e}, since).by_severity = all.by_engine[e]
    <2> TAKE e \in Engines
    <2>1. all.by_engine[e] = CountBySeverity(R, Of(e))
      <3> HIDE DEF F, all
      <3>1. QED
        BY <1>2 DEF Summarises
    <2> HIDE DEF Of, F, all
    <2>2. QED
      BY <1>3, <2>1
  <1>6. SumFunction([e \in Engines |-> Dashboard(R, {e}, since).total]) = all.total
    <2>1. [e \in Engines |-> Dashboard(R, {e}, since).total]
            = [e \in Engines |-> Cardinality({f \in F : ClassOf[f] = e})]
      BY <1>3
    <2> HIDE DEF F, all
    <2>2. QED
      BY <1>1, <1>2, <2>1, PartsAddUp DEF Summarises
  <1>7. ASSUME NEW b \in {"open", "resolved"} PROVE Sum(b) = Cardinality(In(b))
    <2> HIDE DEF F, all
    <2>1. [d \in DOMAIN all.trends |-> all.trends[d][b]] = PerDay(R, F, b)
      BY <1>2 DEF Summarises, PerDay
    <2>2. SumFunction(PerDay(R, F, b)) = Cardinality({f \in F : Bucket(R[f].status) = b})
      BY <1>1, DaysAddUp
    <2>3. QED
      BY <2>1, <2>2, Zenon
  <1>8. Cardinality(In("open")) + Cardinality(In("resolved")) = Cardinality(F)
    <2>1. /\ In("open") \in SUBSET F /\ In("resolved") \in SUBSET F
          /\ In("open") \cup In("resolved") = F /\ In("open") \cap In("resolved") = {}
      BY DEF Bucket
    <2> HIDE DEF In, F
    <2>2. QED
      BY <1>1, <2>1, Parts
  <1>9. Cardinality(Fixed) + Cardinality(Waived) = Cardinality(In("resolved"))
    <2>1. /\ Fixed \in SUBSET In("resolved") /\ Waived \in SUBSET In("resolved")
          /\ Fixed \cup Waived = In("resolved") /\ Fixed \cap Waived = {}
      BY DEF Resolved, Suppressed, Bucket
    <2>2. IsFiniteSet(In("resolved"))
      BY <1>1, FS_Subset
    <2> HIDE DEF Fixed, Waived, In
    <2>3. QED
      BY <2>1, <2>2, Parts
  <1>10. ASSUME NEW p \in DOMAIN all.top_projects,
                NEW q \in DOMAIN CountByProject(F) \ DOMAIN all.top_projects
         PROVE  CountByProject(F)[q] <= all.top_projects[p]
    <2> DEFINE total == CountByProject(F)
    <2>1. IsFiniteSet(P) /\ P \subseteq Nat /\ total \in [P -> Nat]
      BY <1>1, ProjectTotals
    <2>2. p \in DOMAIN Top(total) /\ q \in P \ DOMAIN Top(total)
      BY <1>2, <2>1 DEF Summarises
    <2> HIDE DEF total, P, F, all
    <2>3. \A x \in DOMAIN Top(total) : \A y \in P \ DOMAIN Top(total) :
            total[y] <= total[x] /\ Top(total)[x] = total[x]
      BY <2>1, TopHasMost, Zenon
    <2>4. QED
      BY <1>2, <2>2, <2>3 DEF total, Summarises
  <1>11. Sum("open") + Sum("resolved") = all.total
    <2> HIDE DEF Sum, In, F, all
    <2>1. QED
      BY <1>2, <1>7, <1>8 DEF Summarises
  <1>12. all.remediations + all.suppressions = Sum("resolved")
    <2> HIDE DEF Sum, In, F, all
    <2>1. all.remediations = Cardinality(Fixed) /\ all.suppressions = Cardinality(Waived)
      BY <1>2 DEF Summarises
    <2> HIDE DEF Fixed, Waived
    <2>2. QED
      BY <1>7, <1>9, <2>1
  <1>13. QED
    BY <1>4, <1>5, <1>6, <1>10, <1>11, <1>12, Zenon DEF DashboardAdds

\* What nobody decided about is on a dashboard that is done.
LEMMA DashboardsShow ==
  ASSUME ReaderTypeOK, ReadersOK, NEW r \in Answered, NEW since
  PROVE  DashboardShows(reader[r].read, DOMAIN reader[r].before, since)
  <1> DEFINE R == reader[r].read
             stored == DOMAIN reader[r].before
             recent == {f \in stored : FirstSeen[f] >= since}
             unclosed == {f \in recent : ~Closed(f)}
             severe == {f \in recent : Rank[SeverityOf[f]] >= Rank["high"] /\ ~Eased(f)}
             F == Counted(R, {}, since)
             all == Dashboard(R, {}, since)
             OnDay(d) == {f \in F : Day(f) = d /\ Bucket(R[f].status) = "open"}
             Of(s) == {f \in F : R[f].severity = s}
  <1>1. r \in Requests /\ reader[r].state = "done"
    BY DEF Answered
  <1>2. PICK G \in SUBSET Findings : R \in [G -> Reading]
    BY <1>1 DEF ReaderTypeOK, Reading
  <1>3. stored = DOMAIN R /\ DOMAIN R = G
    BY <1>1, <1>2 DEF ReadersOK
  <1>4. F = recent /\ F \subseteq G /\ IsFiniteSet(F)
    <2>1. F = {f \in G : FirstSeen[f] >= since}
      BY <1>2, CountedIs
    <2>2. QED
      BY <1>3, <2>1, FindingsAssumption, FS_Subset
  <1>5. \A f \in F : /\ ~Closed(f) => R[f].status \notin Resolved
                     /\ Rank[SeverityOf[f]] >= Rank["high"] /\ ~Eased(f) => f \in GateBlocking(R)
    BY <1>1, <1>3, <1>4 DEF ReadersOK
  <1>6. Summarises(all, R, F)
    BY DashboardOf
  <1>7. ASSUME NEW d \in {Day(f) : f \in unclosed}
        PROVE  Cardinality({f \in unclosed : Day(f) = d}) <= all.trends[d]["open"]
    <2>1. d \in {Day(f) : f \in F}
      BY <1>4
    <2>2. all.trends[d]["open"] = Cardinality(OnDay(d))
      <3> HIDE DEF F, all, R
      <3>1. QED
        BY <1>6, <2>1 DEF Summarises
    <2>3. {f \in unclosed : Day(f) = d} \subseteq OnDay(d)
      BY <1>4, <1>5 DEF Bucket
    <2>4. IsFiniteSet(OnDay(d))
      BY <1>4, FS_Subset
    <2> HIDE DEF OnDay, unclosed, all
    <2>5. QED
      BY <2>2, <2>3, <2>4, FS_Subset
  <1>8. Cardinality(severe) <= all.by_severity["high"] + all.by_severity["critical"]
    <2>1. all.by_severity["high"] = Cardinality(Of("high"))
          /\ all.by_severity["critical"] = Cardinality(Of("critical"))
      <3> HIDE DEF F, all, R
      <3>1. QED
        BY <1>6, SeverityRanks DEF CountBySeverity, Summarises
    <2>2. severe \subseteq Of("high") \cup Of("critical")
      <3> SUFFICES ASSUME NEW f \in severe PROVE R[f].severity \in {"high", "critical"} /\ f \in F
        OBVIOUS
      <3>1. f \in F /\ f \in GateBlocking(R)
        BY <1>4, <1>5
      <3>2. R[f].severity \in Severities
        BY <1>2, <1>4, <3>1 DEF Reading
      <3>3. QED
        BY <3>1, <3>2, SeverityRanks DEF GateBlocking
    <2>3. /\ IsFiniteSet(Of("high")) /\ IsFiniteSet(Of("critical"))
          /\ Of("high") \cap Of("critical") = {}
      <3>1. Of("high") \subseteq F /\ Of("critical") \subseteq F
        OBVIOUS
      <3>2. QED
        BY <1>4, <3>1, FS_Subset
    <2> HIDE DEF Of, severe, all
    <2>4. /\ IsFiniteSet(Of("high") \cup Of("critical"))
          /\ Cardinality(Of("high") \cup Of("critical"))
               = Cardinality(Of("high")) + Cardinality(Of("critical"))
                 - Cardinality(Of("high") \cap Of("critical"))
      BY <2>3, FS_Union
    <2>5. Cardinality(Of("high") \cap Of("critical")) = 0
      BY <2>3, FS_EmptySet
    <2>6. /\ Cardinality(severe) <= Cardinality(Of("high") \cup Of("critical"))
          /\ Cardinality(Of("high")) \in Nat /\ Cardinality(Of("critical")) \in Nat
      BY <2>2, <2>3, <2>4, FS_Subset, FS_CardinalityType
    <2>7. QED
      BY <2>1, <2>4, <2>5, <2>6
  <1>9. QED
    BY <1>7, <1>8, Zenon DEF DashboardShows

\* Reports and dashboards are right about what they read.
LEMMA ReadersHold ==
  ASSUME ReaderTypeOK, ReadersOK
  PROVE  ReadersAgree
  <1> SUFFICES ASSUME NEW r \in Answered
               PROVE  /\ ReportAgrees(reader[r].read)
                      /\ \A since \in Windows :
                           /\ DashboardAdds(reader[r].read, since)
                           /\ DashboardShows(reader[r].read, DOMAIN reader[r].before, since)
    BY DEF ReadersAgree
  <1>1. PICK G \in SUBSET Findings : reader[r].read \in [G -> Reading]
    BY DEF ReaderTypeOK, Reading, Answered
  <1>2. QED
    BY <1>1, ReportsAgree, DashboardsAdd, DashboardsShow

-----------------------------------------------------------------------------
(* The inductive invariant *)

TriageOK == PublishedOK /\ StampsOK /\ 0 < clock /\ LatestOK /\ SawOK /\ OvertakenOK

IInv == TypeOK /\ TriageOK /\ BodiesOK /\ HistoryTells /\ RevisionsKept /\ ReadersOK

\* The inductive invariant holds at first.
LEMMA InitIInv ==
  Init => IInv
  <1> SUFFICES ASSUME Init PROVE IInv
    OBVIOUS
  <1> USE DEF Init, TriageInit, CommentsInit, ReaderInit
  <1>1. TriageTypeOK
    BY DEF TriageTypeOK, Unread, TriageStatus, AuditEntry
  <1>2. CommentsTypeOK
    BY DEF CommentsTypeOK
  <1>3. ReaderTypeOK
    <2>1. NoReader \in ReaderType({}, {})
      BY DEF NoReader, ReaderType
    <2>2. QED
      BY <2>1 DEF ReaderTypeOK, ReaderType
  <1>4. PublishedOK /\ StampsOK /\ 0 < clock /\ LatestOK /\ SawOK /\ OvertakenOK
    BY DEF PublishedOK, StampsOK, LatestOK, SawOK, OvertakenOK, Pending
  <1>5. BodiesOK /\ RevisionsKept
    BY DEF BodiesOK, RevisionsKept
  <1>6. HistoryTells
    BY DEF HistoryTells
  <1>7. ReadersOK
    <2>1. \A f \in Findings : IsFiniteSet(records[f])
      BY FS_EmptySet
    <2>2. /\ NoReader.state = "idle" /\ NoReader.todo = {} /\ DOMAIN NoReader.before = {}
          /\ DOMAIN NoReader.read = {}
      BY DEF NoReader
    <2>3. \A r \in Requests : reader[r] = NoReader
      OBVIOUS
    <2>4. QED
      BY <2>1, <2>2, <2>3 DEF ReadersOK
  <1>8. QED
    BY <1>1, <1>2, <1>3, <1>4, <1>5, <1>6, <1>7 DEF IInv, TypeOK, TriageOK

\* Every step keeps the inductive invariant.
LEMMA NextIInv ==
  IInv /\ [Next]_vars => IInv'
  <1> SUFFICES ASSUME IInv, [Next]_vars PROVE IInv'
    OBVIOUS
  <1> USE DEF IInv, TypeOK, TriageOK
  <1>1. TriageTypeOK'
    BY TriageTypeNext
  <1>2. PublishedOK' /\ StampsOK' /\ (0 < clock)' /\ LatestOK'
    BY PublishedNext, StampsNext, LatestNext
  <1>3. SawOK' /\ OvertakenOK'
    BY SawNext, OvertakenNext
  <1>4. CommentsTypeOK' /\ BodiesOK' /\ RevisionsKept'
    BY CommentsTypeNext, BodiesNext, RevisionsKeptNext
  <1>5. HistoryTells'
    BY <1>1, <1>2, HistoryTellsNext
  <1>6. ReaderTypeOK' /\ ReadersOK'
    BY ReaderTypeNext, ReadersNext
  <1>7. QED
    BY <1>1, <1>2, <1>3, <1>4, <1>5, <1>6

\* The inductive invariant holds in every reachable state.
THEOREM IInvAlways == Spec => []IInv
  BY InitIInv, NextIInv, PTL DEF Spec

-----------------------------------------------------------------------------
(* What holds of every behaviour *)

\* The variables keep their types.
THEOREM TypeCorrect == Spec => []TypeOK
  <1>1. IInv => TypeOK
    BY DEF IInv
  <1>2. QED
    BY <1>1, IInvAlways, PTL

\* Only overlapping requests undo a decision about a finding.
THEOREM DecisionsStand == Spec => []DecisionHolds
  <1>1. IInv => DecisionHolds
    BY DecisionsHold DEF IInv, TypeOK, TriageOK
  <1>2. QED
    BY <1>1, IInvAlways, PTL

\* No embargo is lifted but by a decision that says so.
THEOREM EmbargoStands == Spec => []EmbargoNeedsDecision
  <1>1. IInv => EmbargoNeedsDecision
    BY EmbargoHolds DEF IInv, TypeOK, TriageOK
  <1>2. QED
    BY <1>1, IInvAlways, PTL

\* The gate passes no severe finding it listed that nobody decided about.
THEOREM GateStands == Spec => []GatePassNeedsDecision
  <1>1. IInv => GatePassNeedsDecision
    BY GateHolds DEF IInv
  <1>2. QED
    BY <1>1, IInvAlways, PTL

\* A reader has what is in effect for the findings nobody decided about since
\* it began.
THEOREM AnswersCurrent == Spec => []AnswersAreCurrent
  <1>1. IInv => AnswersAreCurrent
    BY AnswersHold DEF IInv
  <1>2. QED
    BY <1>1, IInvAlways, PTL

\* Reports agree with the gate; dashboards add up and miss nothing that nobody
\* decided about.
THEOREM ReadersSame == Spec => []ReadersAgree
  <1>1. IInv => ReadersAgree
    BY ReadersHold DEF IInv, TypeOK
  <1>2. QED
    BY <1>1, IInvAlways, PTL

\* The audit log tells the status of a finding, unless requests overlapped,
\* and the bodies of a comment, unless edits did.
THEOREM AuditLogTells == Spec => []AuditTells
  <1>1. IInv => AuditTells
    BY DEF IInv, AuditTells
  <1>2. QED
    BY <1>1, IInvAlways, PTL

==============================================================================
