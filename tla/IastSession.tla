----------------------------- MODULE IastSession -----------------------------
(***************************************************************************)
(* The server side of one IAST session: api/services/iast.py behind        *)
(* api/routes/iast.py.  A request runs in one transaction at READ          *)
(* COMMITTED: what it reads can change before it commits, and its writes   *)
(* are unconditional.                                                      *)
(***************************************************************************)
EXTENDS IastEvents

CONSTANT Requests  \* HTTP requests about the session; bounds their number

VARIABLES
  session,      \* IastSession.status, "absent" before create_session
  finalizedAt,  \* whether finalized_at is set
  scan,         \* status of the session's own scan
  past,         \* whether now is past expires_at
  rows,         \* Finding rows of that scan, each with the request it is from
  at,           \* at[h]: the next statement of request h
  kind,         \* kind[h]: what h asks for
  body,         \* body[h]: the events it carries
  seen,         \* seen[h]: the session status h read
  known,        \* known[h]: the fingerprints h found recorded
  late          \* requests that arrived when the session was over

record  == <<session, finalizedAt, scan>>
inputs  == <<kind, body, late>>
sessionVars == <<record, past, rows, at, inputs, seen, known>>

Kinds == {"ingest", "get", "finalize"}

\* "failed" stands for any error, 4xx or 5xx: nothing was committed.
Answered == {"ok", "failed"}

Labels == {"idle", "auth", "existing", "insert", "get", "expire",
           "load", "finalize"} \cup Answered

SessionStatus == {"absent", "active", "finalized", "expired"}

SessionTypeOK ==
  /\ session \in SessionStatus
  /\ finalizedAt \in BOOLEAN /\ past \in BOOLEAN
  /\ scan \in {"absent", "running", "completed"}
  /\ rows \in SUBSET [fp : Fingerprints, by : Requests]
  /\ at \in [Requests -> Labels]
  /\ kind \in [Requests -> Kinds \cup {"none"}]
  /\ body \in [Requests -> SUBSET Events]
  /\ seen \in [Requests -> SessionStatus]
  /\ known \in [Requests -> SUBSET Fingerprints]
  /\ late \in SUBSET Requests

SessionInit ==
  /\ session = "absent" /\ scan = "absent"
  /\ finalizedAt = FALSE /\ past = FALSE
  /\ rows = {}
  /\ at = [h \in Requests |-> "idle"]
  /\ kind = [h \in Requests |-> "none"]
  /\ body = [h \in Requests |-> {}]
  /\ seen = [h \in Requests |-> "absent"]
  /\ known = [h \in Requests |-> {}]
  /\ late = {}

-----------------------------------------------------------------------------
Goto(h, label) == at' = [at EXCEPT ![h] = label]

\* The request is over, and what it read is gone.
Answer(h, label) ==
  /\ Goto(h, label)
  /\ seen' = [seen EXCEPT ![h] = "absent"]
  /\ known' = [known EXCEPT ![h] = {}]

\* What get_session reports: expiry is decided when the record is read.
Current == IF session = "active" /\ past THEN "expired" ELSE session

FirstStatement == [ingest |-> "auth", get |-> "get", finalize |-> "load"]

\* create_session: the scan and the session are committed together.
Create ==
  /\ session = "absent"
  /\ session' = "active"
  /\ scan' = "running"
  /\ UNCHANGED <<finalizedAt, past, rows, at, inputs, seen, known>>

\* A request for the session arrives.
Arrive(h, k, vs) ==
  /\ at[h] = "idle"
  /\ Goto(h, FirstStatement[k])
  /\ kind' = [kind EXCEPT ![h] = k]
  /\ body' = [body EXCEPT ![h] = vs]
  /\ late' = IF Current \in {"expired", "finalized"} THEN late \cup {h} ELSE late
  /\ UNCHANGED <<record, past, rows, seen, known>>

\* expires_at passes.
Expire ==
  /\ session # "absent"
  /\ ~past
  /\ past' = TRUE
  /\ UNCHANGED <<record, rows, at, inputs, seen, known>>

\* Variant: the stored status alone is consulted.
Authenticate_StoredStatus(h) ==
  /\ at[h] = "auth"
  /\ Goto(h, IF session = "active" THEN "existing" ELSE "failed")
  /\ UNCHANGED <<record, past, rows, inputs, seen, known>>

\* authenticate_collector lets the agent's token in while the session is
\* active; a wrong token is refused like one of a session that is over.  The
\* expiry it marks is rolled back with the transaction of a refused request.
Authenticate(h) ==
  /\ at[h] = "auth"
  /\ Goto(h, IF Current = "active" THEN "existing" ELSE "failed")
  /\ UNCHANGED <<record, past, rows, inputs, seen, known>>

\* Variant: recorded fingerprints are not looked up.
ReadExisting_Nothing(h) ==
  /\ at[h] = "existing"
  /\ Goto(h, "insert")
  /\ UNCHANGED <<record, past, rows, inputs, seen, known>>

\* ingest_events: the fingerprints this scan has already.
ReadExisting(h) ==
  /\ at[h] = "existing"
  /\ known' = [known EXCEPT ![h] = {r.fp : r \in rows}]
  /\ Goto(h, "insert")
  /\ UNCHANGED <<record, past, rows, inputs, seen>>

\* One finding for each fingerprint of the batch that was not recorded.
NewRows(h) ==
  {[fp |-> f, by |-> h] : f \in {FingerprintOf[v] : v \in body[h]} \ known[h]}

\* Variant: the record is written back as it was read.
Insert_WritesRecord(h) ==
  /\ at[h] = "insert"
  /\ session' = "active"
  /\ rows' = rows \cup NewRows(h)
  /\ Answer(h, "ok")
  /\ UNCHANGED <<finalizedAt, scan, past, inputs>>

\* The rest of the batch is committed.
Insert(h) ==
  /\ at[h] = "insert"
  /\ rows' = rows \cup NewRows(h)
  /\ Answer(h, "ok")
  /\ UNCHANGED <<record, past, inputs>>

\* GET: an active session past its time is marked expired at commit.
GetSession(h) ==
  /\ at[h] = "get"
  /\ Goto(h, CASE session = "absent" -> "failed"
               [] session # "absent" /\ Current # session -> "expire"
               [] OTHER -> "ok")
  /\ UNCHANGED <<record, past, rows, inputs, seen, known>>

\* Variant: a status that is none of the enumeration.
MarkExpired_Past(h) ==
  /\ at[h] = "expire"
  /\ session' = "past"
  /\ Answer(h, "ok")
  /\ UNCHANGED <<finalizedAt, scan, past, rows, inputs>>

MarkExpired(h) ==
  /\ at[h] = "expire"
  /\ session' = "expired"
  /\ Answer(h, "ok")
  /\ UNCHANGED <<finalizedAt, scan, past, rows, inputs>>

\* finalize_session reads the record, whose expiry it does not look at ...
LoadRecord(h) ==
  /\ at[h] = "load"
  /\ seen' = [seen EXCEPT ![h] = session]
  /\ Goto(h, IF session = "absent" THEN "failed" ELSE "finalize")
  /\ UNCHANGED <<record, past, rows, inputs, known>>

\* Variant: the scan is closed only together with an active session.
Finalize_ActiveOnly(h) ==
  /\ at[h] = "finalize"
  /\ session' = IF seen[h] = "active" THEN "finalized" ELSE session
  /\ finalizedAt' = (finalizedAt \/ seen[h] = "active")
  /\ scan' = IF seen[h] = "active" THEN "completed" ELSE scan
  /\ Answer(h, "ok")
  /\ UNCHANGED <<past, rows, inputs>>

\* ... then commits.  The scan read in between is running until a finalize
\* completes it, so reading and writing it is one step.
Finalize(h) ==
  /\ at[h] = "finalize"
  /\ session' = IF seen[h] = "active" THEN "finalized" ELSE session
  /\ finalizedAt' = (finalizedAt \/ seen[h] = "active")
  /\ scan' = "completed"
  /\ Answer(h, "ok")
  /\ UNCHANGED <<past, rows, inputs>>

\* The process or the database fails before the commit: rolled back.
Die(h) ==
  /\ at[h] \notin {"idle"} \cup Answered
  /\ Answer(h, "failed")
  /\ UNCHANGED <<record, past, rows, inputs>>

Handle(h) ==
  \/ Authenticate(h) \/ ReadExisting(h) \/ Insert(h)
  \/ GetSession(h) \/ MarkExpired(h)
  \/ LoadRecord(h) \/ Finalize(h)

-----------------------------------------------------------------------------
(* The strengthening that makes the properties below inductive. *)

Over == {"finalized", "expired"}

Statements ==
  [none |-> {"idle"}, ingest |-> {"auth", "existing", "insert"} \cup Answered,
   get |-> {"get", "expire"} \cup Answered, finalize |-> {"load", "finalize"} \cup Answered]

\* A request is at a statement of its kind, and only ingests carry events.
RequestsOK ==
  \A h \in Requests : /\ at[h] \in Statements[kind[h]]
                      /\ kind[h] # "ingest" => body[h] = {}

\* Who is about to write the record has seen one, and a record that was over
\* when it was read still is.
RecordOK ==
  /\ session = "absent" => scan = "absent"
  /\ \A h \in Requests :
       /\ at[h] \in {"expire", "finalize"} => session # "absent"
       /\ at[h] = "finalize" => seen[h] # "absent"
       /\ at[h] = "finalize" /\ seen[h] # "active" => session \in Over

\* A late request never gets past its authentication: the session is over
\* then and stays so.  Whose rows are stored has been answered.
LateOK ==
  /\ late # {} => Current \in Over
  /\ \A h \in late : at[h] \notin {"idle", "existing", "insert"}
  /\ \A r \in rows : at[r.by] = "ok"

\* What a request found recorded is there still, and an ingest that was
\* answered has every event of its body stored.
StoredOK ==
  \A h \in Requests :
    /\ known[h] \subseteq {r.fp : r \in rows}
    /\ kind[h] = "ingest" /\ at[h] = "ok" =>
         \A v \in body[h] : \E r \in rows : r.fp = FingerprintOf[v]

-----------------------------------------------------------------------------
(* Properties *)

\* A request that arrives once the session is over adds no finding, however
\* it interleaves with finalize, expiry and the reads that mark it; those that
\* arrived before may still (iast.py:106,137).
LateRequestsAddNothing == \A r \in rows : r.by \notin late

\* An answered finalize has closed the session and completed its scan, for
\* good, whichever of expiry and finalize the record says came last.
FinalizeCloses ==
  \A h \in Requests :
    kind[h] = "finalize" /\ at[h] = "ok" =>
      session \in {"finalized", "expired"} /\ scan = "completed"

\* A session that is over never takes events again: no write of a stale
\* record reopens it, nor its scan.
NeverReopens ==
  [][/\ session \in {"finalized", "expired"} => session' # "active"
     /\ scan = "completed" => scan' = "completed"]_sessionVars
==============================================================================
