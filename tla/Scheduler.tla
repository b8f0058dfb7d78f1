------------------------------ MODULE Scheduler ------------------------------
(***************************************************************************)
(* The execution of scans: engine/scheduler.py, the queue in front of it   *)
(* (workers/queue.py, workers/arq_worker.py) and the request that creates  *)
(* a scan and enqueues it (api/routes/scans.py).                           *)
(*                                                                         *)
(* An executor is one call of execute_scan, that is one delivery of a scan *)
(* id.  Every "async with session_scope()" of the code is a transaction of *)
(* its own.  The database runs at READ COMMITTED and the scan row carries  *)
(* no version, so a transaction that reads the status and then assigns it  *)
(* is two steps, a read and an unconditional write at commit; whatever     *)
(* other executors commit in between is overwritten.                       *)
(***************************************************************************)
EXTENDS Lifecycle

CONSTANTS
  Scans,         \* scan ids
  RvdScans,      \* those whose scan_class is RVD
  NoScan,        \* the scan of an executor that has none yet
  Executors,     \* calls of execute_scan; bounds the number of deliveries
  Fingerprints,  \* finding fingerprints the adapters can report
  MaxJobs,       \* the longest plan
  PlanSize,      \* PlanSize[s]: number of jobs the planner makes for s
  FaultKinds,    \* which faults may happen
  MaxFaults,     \* how many of them
  MaxReplays,    \* repeated POSTs with the idempotency key of a stored scan
  Redelivers     \* TRUE: the queue delivers again what a crashed worker held

AllFaultKinds == {"abort", "lost", "crash", "timeout", "db"}

ASSUME ScansAssumption == RvdScans \subseteq Scans /\ NoScan \notin Scans
ASSUME PlanAssumption ==
  /\ MaxJobs \in Nat
  /\ PlanSize \in [Scans -> 1..MaxJobs]
ASSUME FaultAssumption ==
  /\ FaultKinds \subseteq AllFaultKinds
  /\ MaxFaults \in Nat /\ MaxReplays \in Nat /\ Redelivers \in BOOLEAN

JobNo == 1..MaxJobs

VARIABLES
  \* the API process and the queue
  request,   \* request[s]: the transaction of the POST that creates s
  queue,     \* queue[s]: deliveries of s not yet taken by an executor
  replays,   \* replayed POSTs so far
  \* the database and the object store, as committed
  status,    \* status[s]: the status column, "absent" before the row exists
  job,       \* job[e][i]: status of the i-th ScanJob row e created
  raw,       \* raw[e]: the i whose raw output is in the object store
  rows,      \* Finding rows
  embargo,   \* those with an embargoed TriageRecord
  notified,  \* scan.completed notifications posted, with the status they carry
  \* the executors
  pc,        \* pc[e]: the next statement of e
  on,        \* on[e]: the scan e was called with
  turn,      \* turn[e]: jobs of the plan that e is done with
  found,     \* found[e][i]: fingerprints that job i of e returned to e
  \* bookkeeping
  claimed,   \* executors that moved their scan to planning
  raced,     \* scans two executors were undecided about at once
  faults     \* faults so far

api      == <<request, queue, replays>>
database == <<status, job, raw, rows, embargo, notified>>
executor == <<pc, on, turn, found>>
history  == <<claimed, raced>>
vars     == <<api, database, executor, history, faults>>

PC == {"idle", "claim", "plan", "startRead", "startWrite", "jobs", "tool", "parse",
       "normWrite", "persist", "doneRead", "doneWrite", "notify",
       "failRead", "failWrite", "done", "dead"}

\* Between Claim and the end of _run: statements only a claimed scan reaches.
Claimed == {"plan", "startRead", "startWrite", "jobs", "tool", "parse",
            "normWrite", "persist", "doneRead", "doneWrite", "notify"}

Stopped == {"idle", "done", "dead"}

JobRow == JobStatus \cup {"none"}

FindingRow == [scan : Scans, fp : Fingerprints, by : Executors]

\* One type invariant for the module.
TypeOK ==
  /\ request \in [Scans -> {"none", "open", "committed", "aborted"}]
  /\ queue \in [Scans -> Nat]
  /\ replays \in Nat
  /\ status \in [Scans -> ScanStatus \cup {"absent"}]
  /\ job \in [Executors -> [JobNo -> JobRow]]
  /\ raw \in [Executors -> SUBSET JobNo]
  /\ rows \in SUBSET FindingRow
  /\ embargo \in SUBSET FindingRow
  /\ notified \in SUBSET [scan : Scans, status : ScanStatus \cup {"absent"}]
  /\ pc \in [Executors -> PC]
  /\ on \in [Executors -> Scans \cup {NoScan}]
  /\ turn \in [Executors -> Nat]
  /\ found \in [Executors -> [JobNo -> SUBSET Fingerprints]]
  /\ claimed \in SUBSET Executors
  /\ raced \in SUBSET Scans
  /\ faults \in Nat

Init ==
  /\ request = [s \in Scans |-> "none"]
  /\ queue = [s \in Scans |-> 0]
  /\ replays = 0
  /\ status = [s \in Scans |-> "absent"]
  /\ job = [e \in Executors |-> [i \in JobNo |-> "none"]]
  /\ raw = [e \in Executors |-> {}]
  /\ rows = {} /\ embargo = {} /\ notified = {}
  /\ pc = [e \in Executors |-> "idle"]
  /\ on = [e \in Executors |-> NoScan]
  /\ turn = [e \in Executors |-> 0]
  /\ found = [e \in Executors |-> [i \in JobNo |-> {}]]
  /\ claimed = {} /\ raced = {} /\ faults = 0

-----------------------------------------------------------------------------
(* Helpers *)

Goto(e, label) == pc' = [pc EXCEPT ![e] = label]

SetStatus(s, st) == status' = [status EXCEPT ![s] = st]

\* A fault of the given kind happens, within the bound.
Fault(kind) ==
  /\ kind \in FaultKinds
  /\ faults < MaxFaults
  /\ faults' = faults + 1

\* Executors between their first read of s and their first write to it.
Undecided(s) ==
  {e \in Executors : /\ on[e] = s
                     /\ e \notin claimed
                     /\ pc[e] \in {"claim", "failRead", "failWrite"}}

\* assert_scan_transition on the status just read: go on, or raise.
AssertScan(e, target, next) ==
  Goto(e, IF ScanMayMove(status[on[e]], target) THEN next ELSE "failRead")

\* Everything the jobs of e returned: all_findings after dedup, one finding
\* for each fingerprint.
AllFound(e) == UNION {found[e][i] : i \in JobNo}

FindingsOf(e) == {[scan |-> on[e], fp |-> f, by |-> e] : f \in AllFound(e)}

-----------------------------------------------------------------------------
(* The API process *)

\* POST /scans: the row is flushed in the request's transaction and the scan
\* id enqueued; that transaction commits only after the handler has returned.
Submit(s) ==
  /\ request[s] = "none"
  /\ request' = [request EXCEPT ![s] = "open"]
  /\ queue' = [queue EXCEPT ![s] = @ + 1]
  /\ UNCHANGED <<replays, database, executor, history, faults>>

CommitRequest(s) ==
  /\ request[s] = "open"
  /\ request' = [request EXCEPT ![s] = "committed"]
  /\ SetStatus(s, "queued")
  /\ UNCHANGED <<queue, replays, job, raw, rows, embargo, notified, executor, history, faults>>

\* The commit fails and the row is rolled back; the delivery is out already.
AbortRequest(s) ==
  /\ request[s] = "open"
  /\ Fault("abort")
  /\ request' = [request EXCEPT ![s] = "aborted"]
  /\ UNCHANGED <<queue, replays, database, executor, history>>

\* POST /scans again with the idempotency key of s: create_scan returns the
\* stored scan and the route enqueues it whatever its status.
Replay(s) ==
  /\ request[s] = "committed"
  /\ replays < MaxReplays
  /\ replays' = replays + 1
  /\ queue' = [queue EXCEPT ![s] = @ + 1]
  /\ UNCHANGED <<request, database, executor, history, faults>>

\* The fire-and-forget enqueue task dies (no arq, no Redis), or the process
\* that holds an in-process task goes away.
LoseDelivery(s) ==
  /\ queue[s] > 0
  /\ Fault("lost")
  /\ queue' = [queue EXCEPT ![s] = @ - 1]
  /\ UNCHANGED <<request, replays, database, executor, history>>

-----------------------------------------------------------------------------
(* execute_scan: _run *)

\* An executor takes a delivery of s and reads the row in its first
\* transaction; it goes on only if it reads "queued".
Take(e, s) ==
  /\ pc[e] = "idle"
  /\ queue[s] > 0
  /\ queue' = [queue EXCEPT ![s] = @ - 1]
  /\ on' = [on EXCEPT ![e] = s]
  /\ UNCHANGED <<request, replays, database, turn, found, claimed>>

NoteRace(s) == raced' = IF Undecided(s) = {} THEN raced ELSE raced \cup {s}

\* Variant: the status check is forgotten.
LoadQueued_NoStatusCheck(e, s) ==
  /\ Take(e, s)
  /\ status[s] # "absent"
  /\ Goto(e, "claim")
  /\ NoteRace(s)
  /\ UNCHANGED faults

LoadQueued(e, s) ==
  /\ Take(e, s)
  /\ status[s] = "queued"
  /\ Goto(e, "claim")
  /\ NoteRace(s)
  /\ UNCHANGED faults

\* The scan is not there, or somebody else has it: return.
LoadSkips(e, s) ==
  /\ Take(e, s)
  /\ status[s] # "queued"
  /\ Goto(e, "done")
  /\ UNCHANGED <<raced, faults>>

\* The read itself raises.
LoadFails(e, s) ==
  /\ Take(e, s)
  /\ Fault("db")
  /\ Goto(e, "failRead")
  /\ NoteRace(s)

\* Variant: the assignment of "planning" is forgotten.
Claim_KeepsQueued(e) ==
  /\ pc[e] = "claim"
  /\ claimed' = claimed \cup {e}
  /\ Goto(e, "plan")
  /\ UNCHANGED <<api, database, on, turn, found, raced, faults>>

\* The first transaction commits: the scan is planning.
Claim(e) ==
  /\ pc[e] = "claim"
  /\ SetStatus(on[e], "planning")
  /\ claimed' = claimed \cup {e}
  /\ Goto(e, "plan")
  /\ UNCHANGED <<api, job, raw, rows, embargo, notified, on, turn, found, raced, faults>>

\* planner.plan and, for source-based scans, workspace.prepare: neither
\* touches the database.
Plan(e) ==
  /\ pc[e] = "plan"
  /\ Goto(e, "startRead")
  /\ UNCHANGED <<api, database, on, turn, found, history, faults>>

\* Variant: the exception is swallowed and the scan left as it is.
PlanFails_Swallowed(e) ==
  /\ pc[e] = "plan"
  /\ Goto(e, "done")
  /\ UNCHANGED <<api, database, on, turn, found, history, faults>>

\* Scope denied, no adapter, unknown tool, or no workspace: an exception.
PlanFails(e) ==
  /\ pc[e] = "plan"
  /\ Goto(e, "failRead")
  /\ UNCHANGED <<api, database, on, turn, found, history, faults>>

StartRead(e) ==
  /\ pc[e] = "startRead"
  /\ AssertScan(e, "running", "startWrite")
  /\ UNCHANGED <<api, database, on, turn, found, history, faults>>

\* The job rows and the running status are committed together.
StartWrite(e) ==
  /\ pc[e] = "startWrite"
  /\ job' = [job EXCEPT ![e] =
               [i \in JobNo |-> IF i <= PlanSize[on[e]] THEN "queued" ELSE "none"]]
  /\ SetStatus(on[e], "running")
  /\ Goto(e, "jobs")
  /\ UNCHANGED <<api, raw, rows, embargo, notified, on, turn, found, history, faults>>

-----------------------------------------------------------------------------
(* execute_scan: _run_job, once for each job of the plan, in order.  Only e *)
(* reads and writes its job rows, so each of their transactions is a step.  *)

StartJob(e) ==
  LET i == turn[e] + 1 IN
  /\ pc[e] = "jobs"
  /\ turn[e] < PlanSize[on[e]]
  /\ JobMayMove(job[e][i], "running")
  /\ job' = [job EXCEPT ![e][i] = "running"]
  /\ Goto(e, "tool")
  /\ UNCHANGED <<api, status, raw, rows, embargo, notified, on, turn, found, history, faults>>

\* The adapter validates, the runner runs the tool, its output is stored.
RunTool(e) ==
  /\ pc[e] = "tool"
  /\ raw' = [raw EXCEPT ![e] = @ \cup {turn[e] + 1}]
  /\ Goto(e, "parse")
  /\ UNCHANGED <<api, status, job, rows, embargo, notified, on, turn, found, history, faults>>

\* Variant: a failed job returns what was parsed before the exception.
ToolFails_KeepsFindings(e) ==
  LET i == turn[e] + 1 IN
  /\ pc[e] \in {"tool", "parse"}
  /\ job' = [job EXCEPT ![e][i] = "failed"]
  /\ found' = [found EXCEPT ![e][i] = Fingerprints]
  /\ turn' = [turn EXCEPT ![e] = i]
  /\ Goto(e, "jobs")
  /\ UNCHANGED <<api, status, raw, rows, embargo, notified, on, history, faults>>

\* Variant: the job's own status is not recorded.
ToolFails_LeavesRunning(e) ==
  /\ pc[e] \in {"tool", "parse"}
  /\ turn' = [turn EXCEPT ![e] = @ + 1]
  /\ Goto(e, "jobs")
  /\ UNCHANGED <<api, database, on, found, history, faults>>

\* Variant: a status the jobs' table does not have.
ToolFails_Aborts(e) ==
  LET i == turn[e] + 1 IN
  /\ pc[e] \in {"tool", "parse"}
  /\ job' = [job EXCEPT ![e][i] = "aborted"]
  /\ turn' = [turn EXCEPT ![e] = i]
  /\ Goto(e, "jobs")
  /\ UNCHANGED <<api, status, raw, rows, embargo, notified, on, found, history, faults>>

\* Validation, the tool, the object store or the parser raises: the job
\* fails and contributes nothing, the scan goes on.
ToolFails(e) ==
  LET i == turn[e] + 1 IN
  /\ pc[e] \in {"tool", "parse"}
  /\ job' = [job EXCEPT ![e][i] = "failed"]
  /\ turn' = [turn EXCEPT ![e] = i]
  /\ Goto(e, "jobs")
  /\ UNCHANGED <<api, status, raw, rows, embargo, notified, on, found, history, faults>>

\* The output parses to findings with the fingerprints F; running,
\* normalizing and completed are passed in one transaction.
FinishJob(e) ==
  LET i == turn[e] + 1 IN
  /\ pc[e] = "parse"
  /\ JobMayMove(job[e][i], "normalizing")
  /\ job' = [job EXCEPT ![e][i] = "completed"]
  /\ \E F \in SUBSET Fingerprints : found' = [found EXCEPT ![e][i] = F]
  /\ turn' = [turn EXCEPT ![e] = i]
  /\ Goto(e, "jobs")
  /\ UNCHANGED <<api, status, raw, rows, embargo, notified, on, history, faults>>

-----------------------------------------------------------------------------
(* execute_scan: the rest of _run *)

NormalizeRead(e) ==
  /\ pc[e] = "jobs"
  /\ turn[e] = PlanSize[on[e]]
  /\ AssertScan(e, "normalizing", "normWrite")
  /\ UNCHANGED <<api, database, on, turn, found, history, faults>>

NormalizeWrite(e) ==
  /\ pc[e] = "normWrite"
  /\ SetStatus(on[e], "normalizing")
  /\ Goto(e, "persist")
  /\ UNCHANGED <<api, job, raw, rows, embargo, notified, on, turn, found, history, faults>>

\* Variant: the embargo record is left to a later step.
Persist_NoEmbargo(e) ==
  /\ pc[e] = "persist"
  /\ rows' = rows \cup FindingsOf(e)
  /\ Goto(e, "doneRead")
  /\ UNCHANGED <<api, status, job, raw, embargo, notified, on, turn, found, history, faults>>

\* _persist_findings: every finding, and the embargo of RVD findings, in one
\* transaction.
Persist(e) ==
  /\ pc[e] = "persist"
  /\ rows' = rows \cup FindingsOf(e)
  /\ embargo' = IF on[e] \in RvdScans THEN embargo \cup FindingsOf(e) ELSE embargo
  /\ Goto(e, "doneRead")
  /\ UNCHANGED <<api, status, job, raw, notified, on, turn, found, history, faults>>

CompleteRead(e) ==
  /\ pc[e] = "doneRead"
  /\ AssertScan(e, "completed", "doneWrite")
  /\ UNCHANGED <<api, database, on, turn, found, history, faults>>

\* Variant: notified first, completed only afterwards.
CompleteWrite_NotFirst(e) ==
  /\ pc[e] = "doneWrite"
  /\ Goto(e, "notify")
  /\ UNCHANGED <<api, database, on, turn, found, history, faults>>

CompleteWrite(e) ==
  /\ pc[e] = "doneWrite"
  /\ SetStatus(on[e], "completed")
  /\ Goto(e, "notify")
  /\ UNCHANGED <<api, job, raw, rows, embargo, notified, on, turn, found, history, faults>>

\* notify_scan_completed: the scan.completed event with the status read now;
\* best effort, nothing is posted when no hook matches or the posts fail.
Notify(e) ==
  /\ pc[e] = "notify"
  /\ notified' \in {notified, notified \cup {[scan |-> on[e], status |-> status[on[e]]]}}
  /\ Goto(e, "done")
  /\ UNCHANGED <<api, status, job, raw, rows, embargo, on, turn, found, history, faults>>

-----------------------------------------------------------------------------
(* execute_scan: _fail, and what stops an executor *)

\* Variant: the terminal check is forgotten.
FailRead_AnyStatus(e) ==
  /\ pc[e] = "failRead"
  /\ Goto(e, IF status[on[e]] = "absent" THEN "done" ELSE "failWrite")
  /\ UNCHANGED <<api, database, on, turn, found, history, faults>>

FailRead(e) ==
  /\ pc[e] = "failRead"
  /\ Goto(e, IF status[on[e]] = "absent" \/ IsTerminalScan(status[on[e]])
             THEN "done" ELSE "failWrite")
  /\ UNCHANGED <<api, database, on, turn, found, history, faults>>

FailWrite(e) ==
  /\ pc[e] = "failWrite"
  /\ SetStatus(on[e], "failed")
  /\ Goto(e, "done")
  /\ UNCHANGED <<api, job, raw, rows, embargo, notified, on, turn, found, history, faults>>

\* A transaction of _run or of _run_job raises and is rolled back; one of
\* _fail's escapes from execute_scan.
DatabaseError(e) ==
  /\ pc[e] \notin Stopped \cup {"plan"}
  /\ Fault("db")
  /\ Goto(e, IF pc[e] \in {"failRead", "failWrite"} THEN "dead" ELSE "failRead")
  /\ UNCHANGED <<api, database, on, turn, found, history>>

\* The worker process of e dies; arq gives the job to another worker.
Crash(e) ==
  /\ pc[e] \notin Stopped
  /\ Fault("crash")
  /\ Goto(e, "dead")
  /\ queue' = IF Redelivers THEN [queue EXCEPT ![on[e]] = @ + 1] ELSE queue
  /\ UNCHANGED <<request, replays, database, on, turn, found, history>>

\* arq's job timeout cancels e: CancelledError is no Exception, so neither
\* _run_job nor execute_scan handles it, and the job is not retried.
Timeout(e) ==
  /\ pc[e] \notin Stopped
  /\ Fault("timeout")
  /\ Goto(e, "dead")
  /\ UNCHANGED <<api, database, on, turn, found, history>>

-----------------------------------------------------------------------------
(* The specification *)

ApiStep(s) ==
  Submit(s) \/ CommitRequest(s) \/ AbortRequest(s) \/ Replay(s) \/ LoseDelivery(s)

LoadStep(e) ==
  \E s \in Scans : LoadQueued(e, s) \/ LoadSkips(e, s)

\* What e does by itself once the event loop or the worker schedules it.
ExecutorStep(e) ==
  \/ Claim(e) \/ Plan(e) \/ PlanFails(e)
  \/ StartRead(e) \/ StartWrite(e)
  \/ StartJob(e) \/ RunTool(e) \/ ToolFails(e) \/ FinishJob(e)
  \/ NormalizeRead(e) \/ NormalizeWrite(e) \/ Persist(e)
  \/ CompleteRead(e) \/ CompleteWrite(e) \/ Notify(e)
  \/ FailRead(e) \/ FailWrite(e)

FaultStep(e) ==
  \/ \E s \in Scans : LoadFails(e, s)
  \/ DatabaseError(e) \/ Crash(e) \/ Timeout(e)

Next ==
  \/ \E s \in Scans : ApiStep(s)
  \/ \E e \in Executors : LoadStep(e) \/ ExecutorStep(e) \/ FaultStep(e)

Spec == Init /\ [][Next]_vars

\* A request that returned commits; a queued delivery is taken while a worker
\* is free; a scheduled executor goes on (tools run under the runner's
\* timeout).  Faults, replays and new requests need not happen.
Fairness ==
  /\ \A s \in Scans : WF_vars(CommitRequest(s))
  /\ \A e \in Executors : WF_vars(LoadStep(e)) /\ WF_vars(ExecutorStep(e))

FairSpec == Spec /\ Fairness

-----------------------------------------------------------------------------
(* Properties, in every mode: replays, crashes, lost updates and all. *)

\* The scan is executed twice only if two deliveries of it were at once
\* between their first read and their first write (scheduler.py:47-58, the
\* only guard against a second execution).
ExclusiveUnlessRaced ==
  \A e1, e2 \in claimed :
    on[e1] = on[e2] /\ on[e1] \notin raced => e1 = e2

\* A scan has two findings with one fingerprint only after that same race:
\* dedup works on one executor's memory, the table has no unique key.
DuplicatesOnlyIfRaced ==
  \A r1, r2 \in rows :
    r1.scan = r2.scan /\ r1.fp = r2.fp /\ r1.scan \notin raced => r1 = r2

\* Every finding comes from a completed job of the executor that stored it,
\* whose raw output is in the object store (scheduler.py:162-182).
EvidenceTrail ==
  \A r \in rows :
    /\ on[r.by] = r.scan
    /\ \E i \in raw[r.by] : job[r.by][i] = "completed" /\ r.fp \in found[r.by][i]

\* e has run its whole plan and stored all it found, under embargo for RVD.
Published(e) ==
  /\ \A i \in 1..PlanSize[on[e]] : job[e][i] \in {"completed", "failed"}
  /\ FindingsOf(e) \subseteq rows
  /\ on[e] \in RvdScans => FindingsOf(e) \subseteq embargo

\* A scan that reads completed has all the findings of some whole execution,
\* even if other executors overwrote its status (scheduler.py:104-111).
CompletedImpliesPublished ==
  \A s \in Scans :
    status[s] = "completed" => \E e \in claimed : on[e] = s /\ Published(e)

-----------------------------------------------------------------------------
(* The strengthening that makes the properties above inductive. *)

\* Statements before the job rows of an executor exist.
Early == {"idle", "claim", "plan", "startRead", "startWrite"}

\* Statements from the end of the job loop on.
Late == {"normWrite", "persist", "doneRead", "doneWrite", "notify"}

\* An executor's program counter agrees with its scan, its claim and the
\* number of jobs it is done with.
ControlOK ==
  \A e \in Executors :
    /\ pc[e] = "idle" <=> on[e] = NoScan
    /\ pc[e] \in Claimed => e \in claimed
    /\ e \in claimed => pc[e] \notin {"idle", "claim"}
    /\ pc[e] \in Early => turn[e] = 0
    /\ pc[e] = "jobs" => turn[e] <= PlanSize[on[e]]
    /\ pc[e] \in {"tool", "parse"} => turn[e] < PlanSize[on[e]]
    /\ pc[e] \in Late => turn[e] = PlanSize[on[e]]

\* A scan's row exists exactly when its request committed, nobody has read
\* "queued" off a row that is not there, and _fail writes no such row.
RowOK ==
  /\ \A s \in Scans : status[s] = "absent" <=> request[s] # "committed"
  /\ \A e \in Executors : pc[e] \in {"claim", "failWrite"} => status[on[e]] # "absent"

\* While one executor of an unraced scan is undecided no other is, and until
\* it decides the scan stays queued; a claimed scan is never queued again.
ClaimOK ==
  /\ \A e \in claimed : status[on[e]] \notin {"absent", "queued"}
  /\ \A e \in Executors :
       pc[e] = "claim" /\ on[e] \notin raced => status[on[e]] = "queued"
  /\ \A s \in Scans \ raced : \A e1, e2 \in Undecided(s) : e1 = e2

\* Job rows, raw outputs and returned findings of an executor agree.
JobsOK ==
  \A e \in Executors :
    /\ \A i \in JobNo : found[e][i] # {} => job[e][i] = "completed" /\ i \in raw[e]
    /\ pc[e] \in Early => \A i \in JobNo : found[e][i] = {}
    /\ pc[e] \in {"jobs", "tool", "parse"} \cup Late =>
         \A i \in 1..turn[e] : job[e][i] \in {"completed", "failed"}
    /\ pc[e] \in {"tool", "parse"} => job[e][turn[e] + 1] = "running"
    /\ pc[e] = "parse" => turn[e] + 1 \in raw[e]

\* Every finding was stored by an executor of its scan that claimed it and
\* is past storing, out of what its jobs returned.
RowsOK ==
  \A r \in rows :
    /\ r.by \in claimed
    /\ pc[r.by] \notin Early \cup {"jobs", "tool", "parse", "normWrite", "persist"}
    /\ r \in FindingsOf(r.by)

\* Whoever is past _persist_findings has published, and so has, for good,
\* some executor of every completed scan.
PublishOK ==
  /\ \A e \in Executors : pc[e] \in {"doneRead", "doneWrite", "notify"} => Published(e)
  /\ \A s \in Scans : status[s] = "completed" =>
       \E e \in claimed : /\ on[e] = s
                          /\ pc[e] \notin Early \cup {"jobs", "tool", "parse"}
                          /\ Published(e)

-----------------------------------------------------------------------------
(* Properties when deliveries of a scan do not overlap: no replays. *)

\* A scan never has two findings with one fingerprint (lifecycle.py:7-8).
NoDuplicateFindings ==
  \A r1, r2 \in rows : r1.scan = r2.scan /\ r1.fp = r2.fp => r1 = r2

\* Every committed status change is one of lifecycle.py's table, those of
\* _fail included, which does not consult it (scheduler.py:225).
LegalTransitions ==
  [][\A s \in Scans : \/ status'[s] = status[s]
                      \/ status[s] = "absent" /\ status'[s] = "queued"
                      \/ ScanMayMove(status[s], status'[s])]_vars

\* Without a fault, a finished scan leaves no job open and a failed one has
\* no findings: nothing is half done.
CleanFinish ==
  \A s \in Scans :
    faults = 0 =>
      /\ status[s] \in {"completed", "failed"} =>
           \A e \in Executors, i \in JobNo :
             on[e] = s => job[e][i] \in {"none", "completed", "failed"}
      /\ status[s] = "failed" => \A r \in rows : r.scan # s

\* Who receives scan.completed finds the scan completed, from then on, with
\* the status the event carries (scheduler.py:107-122).
NotifiedScanIsCompleted ==
  \A n \in notified : n.status = "completed" /\ status[n.scan] = "completed"

PhaseOf(st) ==
  CASE st = "absent" -> "unknown"
    [] st = "queued" -> "accepted"
    [] st \in {"planning", "running", "normalizing"} -> "working"
    [] OTHER -> st

Copies(s, f) == {r \in rows : r.scan = s /\ r.fp = f}

CopyCount(s, f) ==
  IF Copies(s, f) = {} THEN 0
  ELSE IF \A r1, r2 \in Copies(s, f) : r1 = r2 THEN 1 ELSE 2

Promise == INSTANCE ScanPromise WITH
             phase   <- [s \in Scans |-> PhaseOf(status[s])],
             results <- [s \in Scans |-> [f \in Fingerprints |-> CopyCount(s, f)]]

\* The scheduler keeps ScanPromise: findings appear once and together, while
\* the scan is worked on, and completed and failed are final.
KeepsPromise == Promise!Spec

\* Without replays an unfinished scan has one delivery, queued or taken.
SerialQueue ==
  /\ \A s \in Scans :
       /\ queue[s] \in {0, 1}
       /\ request[s] = "none" => queue[s] = 0 /\ \A e \in Executors : on[e] # s
  /\ \A e \in Executors : pc[e] \notin Stopped =>
       /\ queue[on[e]] = 0
       /\ \A x \in Executors : pc[x] \notin Stopped /\ on[x] = on[e] => x = e
  /\ raced = {}

\* The status an executor at a statement expects of its scan.
Fits(label, st) ==
  /\ label = "claim" => st = "queued"
  /\ label \in {"plan", "startRead", "startWrite"} => st = "planning"
  /\ label \in {"jobs", "tool", "parse", "normWrite"} => st = "running"
  /\ label \in {"persist", "doneRead", "doneWrite"} => st = "normalizing"
  /\ label = "notify" => st = "completed"
  /\ label = "failWrite" => st \notin {"completed", "failed"}

\* What an executor read of its scan still holds when it writes.
SerialStatus ==
  /\ \A s \in Scans : status[s] # "cancelled"
  /\ \A e \in Executors : Fits(pc[e], status[on[e]])

\* Without a fault only a failing plan ends an execution early, before it has
\* job rows; one that has any ends them all and completes its scan.
Tidy(e) ==
  /\ pc[e] # "dead"
  /\ pc[e] \in Early \cup {"failRead", "failWrite"} => \A i \in JobNo : job[e][i] = "none"
  /\ pc[e] \in {"jobs", "tool", "parse"} \cup Late =>
       \A i \in JobNo : i > PlanSize[on[e]] => job[e][i] = "none"
  /\ pc[e] = "done" =>
       \A i \in JobNo : \/ job[e][i] = "none"
                        \/ /\ job[e][i] \in {"completed", "failed"}
                           /\ status[on[e]] = "completed"

CleanOK == faults = 0 => \A e \in Executors : Tidy(e)

-----------------------------------------------------------------------------
(* Liveness, and what the repository says of the program *)

\* A stored scan with a delivery outstanding ends completed or failed for
\* good (SKILLS.md:79-80 says so even of crashed workers).
QueuedScanFinishes ==
  \A s \in Scans :
    (status[s] = "queued" /\ queue[s] > 0) ~> [](status[s] \in {"completed", "failed"})

\* An accepted scan ends: its delivery is enqueued after the creating
\* transaction commits (api/routes/scans.py:65), so an executor finds the row.
AcceptedScanFinishes ==
  \A s \in Scans :
    request[s] = "committed" ~> status[s] \in {"completed", "failed"}
==============================================================================
