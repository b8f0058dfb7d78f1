# A TLA+ verification project for OmniScan

OmniScan orchestrates security scanners. A user asks the API for a scan; a scheduler plans it,
runs one adapter (tool) after the other, normalizes what they report to findings and stores them;
people triage the findings; a CI gate reads the result. A second way in is IAST: an agent inside a
running application streams events to a collector, which turns them into findings of one session.

This directory models the creation and the execution of scans, what jobs, adapters and the RVD engine make of a
request, the delivery of webhooks, the IAST session with its agent, triage, comments and the readers of
findings. TLC checks the models on small instances; TLAPS proves every safety property the passing runs check, the
refinement of the scheduler's promise included, for every instance. Paths below are relative to the source
tree (`engine/scheduler.py` is `src/engine/scheduler.py`).

## 1. Inventory

| Component | State | Operations | Hard part |
|---|---|---|---|
| Lifecycle (`engine/lifecycle.py`) | none: two transition tables | `assert_scan_transition`, `assert_job_transition`, `is_terminal_scan` | not consulted by `_fail` |
| Scheduler (`engine/scheduler.py`) | rows Scan, ScanJob, Finding, TriageRecord; raw outputs in the object store; locals of each call | `execute_scan`: claim, plan, create jobs, run each job, normalize, persist, complete, notify, fail | seven or more transactions per scan, each a read and an unversioned write; crashes between them |
| Queue and workers (`workers/`) | tasks of the event loop, or jobs in Redis | `enqueue_scan`, `run_scan` | enqueue is fire and forget; arq redelivers and times out |
| Scan creation (`api/routes/scans.py`, `api/services/scans.py`) | Scan row, unique idempotency key | `POST /scans`, dry run | enqueued before commit; replay of a key enqueues again; an empty key is stored and never looked up |
| Planner, workspace (`engine/planner.py`, `engine/workspace.py`) | temporary clones | `plan`, `prepare` | scope checked twice, from a stored copy |
| IAST collector (`api/services/iast.py`, `api/routes/iast.py`) | IastSession row, its Scan, Findings | create, get, ingest, finalize | lazy expiry against finalize; look up then insert |
| IAST agent (`omniscan_iast/`) | wrapped sinks, `_reporter`, buffer, lock | `instrument`, sink wrapper, `report`, `flush`, `uninstrument` | threads; a network call and imports under a lock; an import runs a wrapped sink |
| Findings and triage (`api/services/findings.py`) | TriageRecords, audit log | triage, override, assign, effective status | latest record wins, by a stamp taken before the commit |
| CI gate, reports (`api/routes/reports.py`) | none | gate, report formats | reads the status in effect |
| Webhooks (`api/services/webhooks.py`) | Webhook rows | create, delete, deliver, inbound trigger | posts inside the scan's transaction |
| Normalization (`normalize/`) | none | fingerprint, severity, `normalize_sarif`, `dedup` | one finding per issue: none lost, none split, whatever the order of the jobs |
| Scope guard, projects (`core/scope_guard.py`, `api/services/projects.py`) | Project, Target rows | `check`, `resolve_scope`, registrations | union of allowlists |
| Runner, registry, adapters (`adapters/`) | running containers | refusals, invocation, timeout, `parse_output` | eleven tools with exit codes, reports and severities of their own; a timeout kills the client only |
| RVD engine (`adapters/rvd/`) | none | choice of a backend, hypotheses, chainability, result | a server that is checked first and called later; errors that pass every except clause |
| Comments and audit (`api/services/comments.py`, `audit.py`) | Comment, AuditLog rows | add, edit, delete, record | history kept in the audit log only |
| Dashboard rollups (`api/services/dashboard.py`) | none | `build` | reads like the gate does, over a window and with a list cut at ten |
| Roles (`core/security.py`), CLI, browser dashboard, migrations, deployment | token table; none | role checks; reads | little state of their own |

How they interact: the API process and the workers share nothing but the database, the object
store and the queue. Every request and every step of the scheduler is a transaction of its own
(`core/db.py`, `session_scope`: commit at the end, rollback on an exception). The agent and the
collector share nothing but HTTP. Triage and the scheduler meet in the findings table: the
scheduler inserts findings and embargo records, triage adds records and never changes a finding. The scheduler runs an
adapter in a thread, which starts a container or works in the worker's process.

## 2. Modules

| Module | Models | Role |
|---|---|---|
| `Lifecycle` | `engine/lifecycle.py`, statuses of `core/enums.py` | operators |
| `ScanPromise` | nothing: what a user of `POST /scans` is promised | abstract specification |
| `Scheduler` | `engine/scheduler.py`, `workers/`, the transaction of `POST /scans` | one action per transaction or statement that can fail |
| `SchedulerProofs` | | theorems about `Scheduler`, whatever overlaps |
| `PromiseProofs` | | theorems about `Scheduler` without replays; it implements `ScanPromise` |
| `ScopeGuard` | `core/scope_guard.py`, `resolve_scope`, `planner.plan` | operators |
| `ScanRequests` | `POST /scans` with dry run and idempotency key, inbound webhooks, target registration, planning | one action per statement that reads or writes |
| `RequestsProofs` | | theorems about `ScanRequests` |
| `IastEvents` | events and fingerprints | constants shared by the next three |
| `IastSession` | `api/services/iast.py`, `api/routes/iast.py` | server side |
| `IastAgent` | `omniscan_iast/agent.py`, `reporter.py` | application side |
| `IastPipeline` | both, joined by HTTP requests | composition |
| `IastProofs` | | theorems about `IastPipeline` |
| `Normalize` | `normalize/` | operators: severity, fingerprint, dedup |
| `Adapters` | `adapters/base.py`, `registry.py`, the adapters under `sast/` and `dast/` | operators: what each asks for, declares and makes of its tool's report |
| `Rvd` | `adapters/rvd/`: engine, backends, chainability | operators |
| `ScanJobs` | `_run`, `_run_job`, `_persist_findings` with data, `adapters/runner.py`, `core/objectstore.py` | one execution, one action per step that can fail |
| `Webhooks` | `api/services/webhooks.py`, outbound | hooks, and the delivery of one completion |
| `ScanPipeline` | `ScanJobs` and `Webhooks` | composition |
| `SumProofs` | | lemmas: sums over finite sets, used by the next two and `ReviewProofs` |
| `NormalizeProofs` | | theorems about the operators of `Normalize`, `Adapters` and `Rvd` |
| `PipelineProofs` | | theorems about `ScanPipeline` |
| `Triage` | `api/services/findings.py`: triage, override, assignment, what is in effect | decisions, their records and audit entries |
| `Comments` | `api/services/comments.py` | comments and the entries of their edits |
| `Reports` | `list_findings`, `api/routes/reports.py`, `api/services/dashboard.py` | readers, query by query, and what they make of it |
| `Review` | the three above, roles of `core/security.py` | composition |
| `ReviewProofs` | | theorems about `Review` |
| `MCScheduler`, `MCRequests`, `MCPipeline`, `MCIast`, `MCReview` | | instances for TLC: values of function constants, symmetry |

Definitions named `X_Y` next to an action `X` are variants of it with a plausible bug; no
specification uses them. They show that the properties depend on the code being as it is.

### Scheduler

An *executor* is one call of `execute_scan`, that is one delivery of a scan id. Its program
counter `pc[e]` names its next statement, `turn[e]` counts the jobs it is done with, `found[e]` is
what its jobs returned. `status`, `job`, `raw`, `rows`, `embargo` are the database and the object
store as committed; `queue[s]` counts deliveries not yet taken.

A transaction that reads the status, checks it and assigns it is two actions (`StartRead`,
`StartWrite`; `NormalizeRead`, `NormalizeWrite`; `CompleteRead`, `CompleteWrite`; `FailRead`,
`FailWrite`; `LoadQueued`, `Claim`): the database runs at READ COMMITTED, rows carry no version, and
an assignment is an unconditional update at commit. A job row belongs to one executor, so its
transactions are one action each. A tool may return any set of fingerprints, or fail. `Persist`
stores one finding per fingerprint (`dedup`) and RVD's embargo records in one transaction.

Faults (`Fault(kind)`, bounded by `MaxFaults`): the creating transaction aborts, a delivery is lost, a
database error in any transaction, a crash of the worker (the queue delivers again if
`Redelivers`), arq's timeout. A timeout cancels the coroutine: `CancelledError` is no `Exception`, so no handler
runs. `claimed` and `raced` are history variables: who moved a scan to planning, and
which scans two executors were undecided about at the same time.

### Scan requests

`ScanRequests` looks closer at what `Scheduler` takes as `Submit`, and summarises what `Scheduler` details:
an executor either plans a stored scan or drops the delivery. `at[q]` names the next statement of a
request; the POST looks up its key, resolves and checks the scope, inserts, enqueues and commits. `Insert`
is the flush under the unique column `idempotency_key`: it waits while an open transaction holds
the same key, as PostgreSQL does, and ends in `"conflict"` if a committed row has it. The code tests a key by its truth, so `Existing` passes over
`EmptyKey`, which is stored and unique like any other (`services/scans.py:36`, `:83`). A dry run whose plan is made ends `"invalid"`: the dictionary the route returns
lacks the fields of its response model (`routes/scans.py:34`, `:57-61`), so the answer is a server error. `seen[q]` and `scope[q]` are the
targets read and the scope resolved from them; the scope is stored and planning uses that copy. A pattern of an
allowlist is the set of hosts it matches (`Covers`), a body one of a few records. `overtaken` is a history variable. Bearer tokens, roles and signatures are taken as verified, projects as registered.

### IAST

A request of `IastSession` runs through labels as its transaction runs through statements; writes
happen at its last one. `past` says whether the clock has passed `expires_at`. `late` is a history variable:
requests that arrived when the session was over. In `IastAgent` a thread is in
the application, recording, waiting for the lock, or inside `_flush_locked`; `Import` is what happens lazily there, `import httpx` and then
what its first `post` imports in turn (httpcore, certifi, ssl), each of which runs `builtins.exec`, a wrapped sink. `loaded` says how far this has got. `IastPipeline` lets a thread's POST arrive as a request
and the thread wait for its answer or give up, by httpx's timeout, while the server goes on.
`FirstStatement`, `Current` and the labels correspond to the route functions and to `get_session`.

### Jobs, adapters and webhooks

`Scheduler` has who executes a scan and how often, with a tool as a set of fingerprints; `ScanJobs` has one execution, and what
the set is made of. `step` names the next statement of `_run_job`: validate, run (a container, in-process, or RVD's
`construct` and `infer`), store, record. An exception anywhere fails the job (`FailJob`, the `except` block) and the
loop goes on; `Cancel` ends the execution anywhere. `containers` are the jobs whose container still runs:
`ToolTimesOut` leaves it there, since `subprocess.run` kills the docker client, and `StrayEnds` lets it end some time. A request
is a record of what there is to scan (`has`), a host says whether docker is there and the secret resolves, and a report is
well formed, empty or garbage.

`Adapters` declares each adapter as the contract of the base class with what it overrides, and `Parsed` maps an item of
a tool's report to a SARIF result: its rule, its place, its severity in the tool's own words. Lines and messages are left out, as no fingerprint
has them. `Normalize` does what `normalize/` does with such a result. A location key is a record of the file and the five properties it is put together from, and the hash over it is taken as
injective. nuclei, vigolium and ZAP redact a URL before it is fingerprinted: a URL is a page with what is masked in it (`token`), and `Redact` drops the latter. `Rvd` chooses a backend, cuts hypotheses at the cap and scores their chains. How the server check ends (ready, unavailable, or with an error `get_backend` does not
catch: `ConstructRaises`) and what the model answers, an answer that cannot be read included (`InferFails`), is chosen freely.

`Webhooks` lists the hooks as `deliver` does, once, and takes them one at a time; `HookChange` creates and deletes rows
meanwhile. `ScanPipeline` starts the delivery after the completing commit and cuts it short when the execution is cancelled.

### Triage, comments and readers

A triage request reads the status in effect, is stamped when it flushes, and becomes visible when it
commits, with its audit entry (`ReadEffective`, `Flush`, `Commit`, or `Abort`). A record carries two history fields, `explicit` (the request
named a status) and `saw` (the stamp of the record it copied from). Stamps are
distinct; ties of `created_at` are not modelled. An audit entry's `created_at` is filled in by the flush at the commit, so entries are in the
order of commits. Findings of a scan appear with `Publish`.

A comment is named for the request that added it, a body for the request that wrote it. Edit and delete are what the
service defines; only add has a route. A reader (`Reports`) lists the findings and reads the latest record of each in a
query of its own; gate, report and dashboard are operators on what was read, so one read stands for all of them. `Dashboard` counts what its
window has (`Counted`: engines of the query, `first_seen` not before the window), by severity, engine, decision and day, and lists the projects with the most findings, cut at `MaxTop` (10 in the code). In `Review` each request is of one kind,
and every kind may overlap every other.

## 3. Runs

| Run | Question | Result |
|---|---|---|
| `SchedulerExclusive` | Does the scheduler keep `ScanPromise` when deliveries of a scan never overlap? | yes, under any two faults |
| `SchedulerReplay` | What survives two executors of one scan? | evidence, publication, and duplicates only through the one race |
| `SchedulerLiveness` | Does every delivered scan end? | yes, without faults |
| `SchedulerDuplicates` | "re-running a job never duplicates findings" (`lifecycle.py:7-8`) | refuted by a replayed POST |
| `SchedulerCrash` | "a worker crash re-runs the job" (`SKILLS.md:79`) | refuted: the scan never ends |
| `SchedulerEnqueue` | "Enqueue after the creating transaction commits" (`scans.py:65`) | refuted: a delivery taken before the commit is dropped and the scan never starts |
| `ScanRequests` | Do keys, scope checks and dry runs agree, whatever overlaps? | all hold; the empty key and a request's own allowlist are exceptions the properties name |
| `IastPipeline` | Is the session closed for good, is an event sent once, where do duplicates come from? | all hold |
| `IastReturns` | Do sink calls return when all a POST imports is loaded beforehand and the server answers? | yes |
| `IastBlocks` | "it never blocks the app" (`agent.py:3-5`) | refuted when the reporter is the first to import httpx, or the first to POST with it |
| `ScanPipeline` | Is what is stored what the tools reported, whatever fails, and who is told? | all hold; three ways to merge two places and two to fail a valid RVD job at its backend are named |
| `Review` | Can overlapping requests undo a decision, an embargo, a failing gate or the history? | only overlapping requests undo a decision or a body's entry; the rest holds, and dashboards hide nothing that nobody decided about |

**Bounds.** `SchedulerExclusive`: two scans (one RVD, with two tools; one plain, with one), three
executors, two fingerprints, two faults. Two scans show that executors of different scans do not
touch each other; three executors allow an execution, a redelivery and another redelivery.
`SchedulerReplay`: one scan, since the race is per scan, three executors, one replay, two faults, so a race can be combined
with a crash and a redelivery. Plans have up to two jobs: a failed and a completed
one. `ScanRequests`: three requests, which allows a POST that conflicts
with another while a third replays; one aborted transaction; two targets, one that denies and owns
nothing and one that allows and is owned; five bodies: two with one key in two projects, one with the empty key, one of a dangerous class, one with an allowlist of its own. `IastPipeline`: three events of which two share a fingerprint, batches of two, two threads,
three requests: two batches and a finalize, or an ingest between two finalizes. The wrapped import
is chosen by `Preloads`: nothing of httpx loaded, the package, or all that a POST imports. `IastReturns` has two requests and two events: a flush by either thread while the other
reports or waits, and a request that is answered, refused or fails. `ScanPipeline`: thirteen requests, which between them run every adapter, with and without what it asks for; two jobs, since
merging is between two tools; reports of up to two items, from two or three per tool chosen so that two tools report one rule at one place, one tool
two places, and severities on both sides of a limit; three hypotheses and one answer longer than the cap (3 for 20, 2 for 50: the caps are only
compared with lengths); four hooks, one of each reason to be skipped, and one more that may be created. One creation or deletion falls before, during or after a delivery.
`Review`: three findings (a severe one and an RVD finding of one scan, one of another project's), three requests of any kind: an overlap takes two, and
the third reads, or edits the comment the first added. The windows of the dashboard hold all findings, those of one day, the later half of that day, and none; one project is listed, so that of two projects one
is cut, by count or by id. The severities and statuses asked for are those the gate and the embargo tell apart.

**Deadlock** is not checked where the system may stop: scans finished, requests answered. That nobody
waits for ever is stated by `SinkCallReturns` and `QueuedScanFinishes` instead.

**Fairness.** `Scheduler!FairSpec`: a request that returned commits (weak fairness of `CommitRequest`), a free worker
takes a queued delivery (`LoadStep`) and a scheduled executor goes on (`ExecutorStep`). The
event loop and arq give every ready task its turn, and tools run under the runner's timeout
(`adapters/runner.py:85-95`). No fault, replay or request is fair. `IastPipeline!FairSpec`: each thread of the application goes on unless it waits (`Proceeds`), and the server
answers what it has begun (`Handle`). Giving up is not fair: httpx's 10 s (`reporter.py:51`) are per connect, read or write, so a server that
trickles its answer keeps a thread, and everybody who waits for the lock, as long as it likes. `SinkCallReturns` is about a server that answers.

## 4. What is proved

TLAPS has checked the theorems below for every value of the constants that satisfies the named assumptions: any number of scans, executors,
requests, threads, findings and hooks, any report of a tool. Between them they state every safety and action property
of the passing runs, and that `Scheduler` implements `ScanPromise`. In each module the properties are not inductive; a conjunction `IInv` (`SInv` in `PromiseProofs`)
adds what they need, TLC has checked its parts as invariants of the run's instance, and each part is shown to be kept by every action in a lemma
of its own named after it (`ClaimNext`, `StampsNext`, `ListedKept`, ...), one step per action.

| Module | Assumptions on the constants |
|---|---|
| `SchedulerProofs`, `PromiseProofs` | `ScansAssumption`, `PlanAssumption`, `FaultAssumption` of `Scheduler` |
| `RequestsProofs` | those of `ScopeGuard` and `ScanRequests`; `KeysAssumption`: the empty key is a key |
| `IastProofs` | `EventsAssumption`; `BatchAssumption` (a batch has at least one event); `NobodyAssumption`, `NoRequestAssumption`: the names for "no thread", "no event", "no request" are none |
| `PipelineProofs` | `JobsAssumption`: requests name tools, a tool's report has the items its format allows, an answer is a finite list; `HooksAssumption`: the hooks at first are distinct and none of the new ones; `CapsAssumption` of `Rvd` |
| `ReviewProofs` | `FindingsAssumption`: findings are finitely many, with a scan, a class and a severity each; requests ask for what the schema allows. `ReportsAssumption`: projects have ids, findings a time, a day a length, a list a limit |

### Scheduler, whatever overlaps (`SchedulerProofs`)

| Theorem | States |
|---|---|
| `Typing` | `Spec => []TypeOK` |
| `Inductive` | `Spec => []IInv` |
| `Exclusive` | `Spec => []ExclusiveUnlessRaced` |
| `Duplicates` | `Spec => []DuplicatesOnlyIfRaced` |
| `Evidence` | `Spec => []EvidenceTrail` |
| `Publication` | `Spec => []CompletedImpliesPublished` |
| `NoDuplicates` | with `MaxReplays = 0`: `Spec => []NoDuplicateFindings` |
| `Transitions` | with `MaxReplays = 0`: `Spec => LegalTransitions` |

`DuplicatesOnlyIfRaced` does not say that a finding comes from an
executor that has claimed its scan, nor that a claimed scan never reads queued again. `IInv` adds this:

- `ControlOK`: program counter, claim and turn of an executor agree;
- `RowOK`: a scan's row exists exactly when its request committed, and nobody writes a row that is not there;
- `ClaimOK`: a claimed scan is never queued again, and an unraced scan has at most one undecided executor,
  for which it is still queued;
- `JobsOK`: job rows, raw outputs and returned findings agree;
- `RowsOK`: a stored finding was stored by a claimed executor out of what its jobs returned;
- `PublishOK`: whoever is past `_persist_findings` has published, and so has some executor of every
  completed scan.

`Duplicates` then follows: two findings of an unraced scan have claimed executors, by
`ExclusiveUnlessRaced` the same one, and an executor stores a fingerprint once. Without replays a
second invariant, `SerialQueue` and `SerialStatus`, says that an unfinished scan has one delivery, queued or taken,
and that what an executor read of its scan still holds when it writes (`Serial`). Then no scan is raced, and every write is
one of the table.

### What the scheduler promises (`PromiseProofs`)

| Theorem | States, with `MaxReplays = 0` |
|---|---|
| `Notifications` | `Spec => []NotifiedScanIsCompleted` |
| `NothingHalfDone` | `Spec => []CleanFinish` |
| `Implements` | `Spec => KeepsPromise` |

All rest on `SInv`, which is `IInv` with `SerialQueue` and `SerialStatus`; `MaxReplays = 0` says that no two deliveries of a scan overlap, and the
runs `SchedulerReplay` and `SchedulerDuplicates` show why it is needed. Crashes, redeliveries, timeouts, lost deliveries, aborted requests and database errors
are allowed. `NothingHalfDone` is about executions without a fault: `CleanOK` (`Tidy`) says which jobs an executor has ended at each statement,
so tools and plans that fail leave nothing half done. `Implements` is the refinement: initial states map to initial states (`PromiseInit`),
a step that stores findings is `Publish` of the promise (`PublishStep`), one that writes a status is a move of the promise
(`MoveStep`), and every other a stutter (`StutterStep`); `Phases` gives the promise's phase of each status, and `LegalStep`, of `Transitions`, which statuses a step may write.

### Scan requests (`RequestsProofs`)

| Theorem | States |
|---|---|
| `Inductive` | `Spec => [](TypeOK /\ IInv)` |
| `TypeCorrect` | `Spec => []TypeOK` |
| `KeysNameScans` | `Spec => []KeyNamesOneScan` |
| `ConflictsOverlap` | `Spec => []ConflictNeedsOverlap` |
| `AcceptedStaysInScope` | `Spec => []AcceptedScopeHolds` |
| `PlansStayInScope` | `Spec => []PlannedInScope` |
| `DryRunsForetell` | `Spec => []DryRunForetells` |

`IInv` adds what a request has done so far:

- `RouteOK`: route and next statement fit, and who has not inserted or found a scan has no answer;
- `AnswerOK`: an answer is the request's own scan or a stored one with its key;
- `UniqueOK`: no two rows share a key, those of open transactions included, which is what makes the
  unique key enough for `KeyNamesOneScan`;
- `LookedUpOK`: who looked up a key before it was taken has been overtaken, which gives `ConflictNeedsOverlap`
  at the insert;
- `ScopeOK` and `PlannedOK`: a scan's scope is that of targets of its project, checked if it was POSTed,
  and its outcome is what `Plannable` says of it. Targets are never removed, so both last;
- `VerdictOK`: what a dry run or a refusal says of the scope it resolved.

### IAST (`IastProofs`)

| Theorem | States |
|---|---|
| `IInvAlways` | `Spec => []IInv` |
| `TypeCorrect` | `Spec => []TypeOK` |
| `LateAddsNothing` | `Spec => []LateRequestsAddNothing` |
| `Closes` | `Spec => []FinalizeCloses` |
| `StaysClosed` | `Spec => NeverReopens` |
| `Bounded` | `Spec => []BufferBounded` |
| `SentOnce` | `Spec => []SentAtMostOnce` |
| `NoDuplicates` | `Spec => []DuplicatesOnlyIfGaveUp` |
| `NothingLost` | `Spec => []EveryEventAccountedFor` |

`IInv` adds, on the server, that a request is at a statement of its kind (`RequestsOK`), that a record that was over when it was read still is
(`RecordOK`, for `StaysClosed`), that a late request is refused or just reads (`LateOK`), and that what a request found recorded is there still (`StoredOK`). In the agent,
that who is past the swap in `_flush_locked` holds the lock and meanwhile the buffer is empty (`ThreadsOK`). Between them, that a thread waits for the request that
carries its batch (`WaitOK`), that an event is in one place only (`OncePlaced`), and, for `NoDuplicates`, `SerialIngest`: as the lock is held over the
POST, two ingests overlap only if the agent gave up on one.

### Tools' outputs, jobs and webhooks (`SumProofs`, `NormalizeProofs`, `PipelineProofs`)

| Theorem | Module | States |
|---|---|---|
| `DedupGroups`, `DedupFindings` | `NormalizeProofs` | for any sequence of findings: `Dedup(s) = Grouped(ToSet(s))` |
| `IInvAlways` | `PipelineProofs` | `Spec => []IInv` |
| `TypeCorrect` | | `Spec => []TypeOK` |
| `FindingsSound` | | `Spec => []FindingsMatchEvidence` |
| `PlacesSound` | | `Spec => []PlacesKeptApart` |
| `StraysOnlyTimedOut` | | `Spec => []StraysTimedOut` |
| `RvdFallsBack` | | `Spec => []RvdFailsOnlyAfterCheck` |
| `ScoresSound` | | `Spec => []ChainScores` |
| `HooksSound` | | `Spec => []HooksTold` |

`dedup` and the scoring of chains are loops: `Dedup` and `Scores` fold over a sequence. A fold is, by its definition, a recursive function
on a set of numbers or of finite sets; that there is such a function, and what its value is, is shown by induction on a set of
naturals (`SumProofs!Induction`, which takes the least number not in the set). So `Dedup` returns one finding per fingerprint, the worst
severity first, whatever the order (`DedupGroups`), a sum over a finite set may be taken in any order (`SumInsert`), the sizes of the classes
of a set add up to its size (`SumOfClasses`), and the loop over pairs, which caps after each, gives each hypothesis the capped sum of the weights of its chains
(`ScoresAddUp`). The remaining lemmas of `NormalizeProofs` say what a location key keeps of each tool's place (`KeyOfFile`, `KeyOfPackage`, `KeyOfPage`,
`KeyOfUrl`, `KeyOfHypothesis`; of a URL, what is left when it is redacted), which gives `PlacesSound`, and that a parsed result has a severity of the enumeration (`ResolveSeverity`).

`IInv` adds that jobs are tried in order and the one under way is running (`OrderOK`), that the scan is as far as its execution (`ScanOK`),
that the output of a completed job is stored and fits its tool (`ReportsOK`), that a report of RVD has its scores before it is stored (`ScoredOK`),
that what is collected is the evidence (`CollectedOK`), that Ollama is taken only if its server was ready, and that nothing but its check or its call fails a job at the backend (`BackendOK`), and, of a delivery, that
it follows the completion (`DeliveryOK`) and that hooks are listed once, each told or pending (`ListedOK`).

### Triage, comments and readers (`ReviewProofs`)

| Theorem | States |
|---|---|
| `IInvAlways` | `Spec => []IInv` |
| `TypeCorrect` | `Spec => []TypeOK` |
| `DecisionsStand` | `Spec => []DecisionHolds` |
| `EmbargoStands` | `Spec => []EmbargoNeedsDecision` |
| `GateStands` | `Spec => []GatePassNeedsDecision` |
| `AnswersCurrent` | `Spec => []AnswersAreCurrent` |
| `ReadersSame` | `Spec => []ReadersAgree` |
| `AuditLogTells` | `Spec => []AuditTells` |

`IInv` adds that nothing is decided about what is not stored, and an RVD finding is stored with its record (`PublishedOK`); that stamps
are distinct, in the past and later than what their requests saw (`StampsOK`), so that there is a latest record (`LatestOK`); that what a
request saw was in effect at some time (`SawOK`); that a comment has a body somebody wrote (`BodiesOK`); and what each reader has read (`ReadersOK`).
The core is `OvertakenOK`: every time up to a record's is bridged by a record that saw nothing later and is stamped later, and past the last
decision that record copies its status. At the time of the last decision this is `DecisionHolds`. `ReadersSame` has three parts: `ReportsAgree` and `DashboardsAdd` hold of any reading
(the sums by `SumOfClasses`, the cut list as at least `MaxTop` projects are ranked before one that is left out), while `DashboardsShow`, that no listed finding nobody closed or eased is missing from the counts,
rests on `ReadersOK`: what a reader has as resolved somebody has closed (`ShownResolved`).

The proofs changed the model twice. In `AuditTells`, `Overlapped` did not ask for two different records, and was true of every
record by itself, so that the part about statuses said nothing; now it asks for two, and the history's last status is compared with the one in effect. The sums of `ReadersAgree` and `ScoreOf` are
stated with `SumFunction`, which the induction is about.

### What is only model-checked

Liveness: `QueuedScanFinishes` (run `SchedulerLiveness`) and `SinkCallReturns` (run `IastReturns`). They rest on fairness, and so on `ENABLED`, which the
prover does not support. The refuted runs are counterexamples, found by TLC. What is proved is about the models: that they are faithful to the code is for a reader
to compare, at the lines the definitions name.

## 5. Findings

1. A replayed POST while a scan starts makes two executors run it and stores every finding twice
   (`engine/scheduler.py:51`).
2. A scan whose worker crashed, or was cancelled by arq's timeout, is never finished: the redelivery sees a status that is not queued (`engine/scheduler.py:51`).
3. The delivery of a scan precedes the commit of its row, against the comment beside it; taken too early it is dropped and the scan stays queued (`api/routes/scans.py:66`).
4. The first flush of the agent deadlocks with itself when httpx, or what its first POST imports, is not loaded yet (`omniscan_iast/reporter.py:45`, `:47`).

Met while modelling, without a run of their own:

- Triage does not carry over to re-scans, against `SKILLS.md:97`: records belong to a finding row, and a re-scan inserts new rows (`api/services/findings.py:22-29`).
- An empty idempotency key conflicts with itself: `services/scans.py:36` looks a key up only if it is true, `:83` stores it under the unique column all the same, so a second
  POST with the key `""`, long after the first, ends in an IntegrityError instead of returning the scan. `ConflictNeedsOverlap` says that this is the only key of the kind.
- A request can widen its scope. `projects.py:84` calls its override "narrowing", `scope_guard.py:4-5` asks for "verified ownership + an explicit scope
  allowlist. There is no bypass" and `SKILLS.md:175` asks to match every request against the allowlist; `resolve_scope` takes the union (`projects.py:95`), so a request is
  allowed any host that no registered target denies, by its own word. `PlannedInScope` says what is left: denylists and ownership bind, and without an override the registered allowlists do.
- A dry run never shows its plan: the route declares `response_model=ScanOut` (`routes/scans.py:34`) and returns a dictionary without that model's required fields (`:57-61`), so what could be planned is answered with a
  server error, against `SKILLS.md:66-67` ("prints the plan without running"). What is out of scope is refused properly. `DryRunForetells` is about both.
- A backend that cannot be used falls back "rather than failing the scan - the pipeline must always run" (`rvd/backends/__init__.py:11-13`). `get_backend` catches `BackendUnavailable` only (`:56`): a URL httpx does not parse,
  `"models": null` or tags that are no objects (`ollama.py:124-126`) fail the job, and so do, after the check, a failed call (`:200`), a body that is no JSON (`:199`) or hypotheses that are no list (`:210`).
  `RvdFailsOnlyAfterCheck` states exactly this.
- An unverified RVD hypothesis is called a note of low severity (`rvd/engine.py:112`); its level is, but its severity is the suspected one,
  as a word counts before a level.
- `PlacesKeptApart` has three exceptions that the code makes: URLs that differ only in what `redact` masks, a token or whatever follows `vault://` (`core/redact.py:24-31`, `nuclei/adapter.py:111`, `vigolium/adapter.py:106`, `zap/adapter.py:65`), packages of an image (`sast/clair/adapter.py` puts the package in a property no fingerprint
  has) and RVD hypotheses with one composition path, or none, in different files. Two findings become one there. Conversely, tools that name one issue
  by different rules never share a finding.
- `network="target"` and `"egress"` are both docker's bridge (`adapters/runner.py`): what the runner refuses is only what an adapter declares.
- A gate's answer can be one that was right at no single moment, when decisions are committed between its queries. `AnswersAreCurrent` and `GatePassNeedsDecision` state
  what it keeps to.
- An assignment drops a severity override in effect (`api/services/findings.py:130-135`), and a deletion's audit entry keeps no body (`api/services/comments.py:79-87`).
- The dashboard treats a list of unknown engines as all engines. It counts findings of its window only (30 days unless asked otherwise), so an older severe finding that still fails the gate is
  not in it, and its lists end after ten; its module comment (`dashboard.py:1-7`) names the ten and not the window.
- `audit.record` masks what looks like a secret in a comment's former body (`audit.py:28`); `AuditTells` takes bodies as having none.

## 6. Not modelled

Command lines, report layouts, redaction of anything but URLs, secret stores, configuration, migrations, the CLI's and the browser
dashboard's rendering and deployment convert or present data and keep no state that an order of
steps could damage. The patterns `demoscan` and the heuristic backend search for, the prompt of the Ollama backend and its repair of malformed items, and the PoC store, which no backend
reaches, are external: their outcomes are chosen from small sets. Lines and logical locations of a result are left out; of the dashboard, the list of applications, which is made as that of projects is, the names and the overview's counts. Bearer tokens, signatures, projects and applications are taken as
verified and registered. Taint matching of the agent fills fields of an event. `instrument` is taken as having run once. The two databases (SQLite in development) differ
in isolation; the model takes READ COMMITTED of PostgreSQL, the weaker of the two. `cancelled` is in both transition tables
and no code sets it.

## 7. Plan

Done: the scheduler with its queue; scan requests with the scope guard; jobs with
adapters, RVD, normalization and webhooks; the IAST session, agent and pipeline; triage, comments, gate, reports and dashboard; proofs of all their
safety properties and of the refinement of `ScanPromise`.

Next:

1. An abstract specification of triage (the last decision about a finding counts) that `Review` implements when requests do not overlap, as `ScanPromise` is for the scheduler.
2. That of IAST without a timeout: each event reported while the session is active becomes a finding, once.
3. The step from `Scheduler` to `ScanJobs`: that an execution of `ScanJobs` is one of an executor of `Scheduler`, with fingerprints for findings.

## 8. Running the checks

    tlc -workers 2 -config SchedulerExclusive.cfg MCScheduler
    tlapm SchedulerProofs.tla
    tlapm PromiseProofs.tla
    tlapm RequestsProofs.tla
    tlapm IastProofs.tla
    tlapm SumProofs.tla
    tlapm NormalizeProofs.tla
    tlapm PipelineProofs.tla
    tlapm ReviewProofs.tla

Scheduler runs take `MCScheduler`, the run `ScanRequests` `MCRequests`, `ScanPipeline` `MCPipeline`, IAST runs `MCIast`, `Review` `MCReview`. The runs listed as refuted end with a
counterexample; the others end without error. Each proof module takes a few minutes at most.
