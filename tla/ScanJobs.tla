-------------------------------- MODULE ScanJobs --------------------------------
(***************************************************************************)
(* What the jobs of one scan do: engine/scheduler.py (_run from the loop   *)
(* over the jobs on, _run_job, _persist_findings), adapters/runner.py and  *)
(* core/objectstore.py.  Module Scheduler has who runs a scan and how often; *)
(* here one execution runs it, with its data: the requests, containers,    *)
(* reports and findings.                                                   *)
(*                                                                         *)
(* The jobs run one after the other.  The execution may be cancelled or    *)
(* its worker die at any step.                                             *)
(***************************************************************************)
EXTENDS Adapters, Rvd, Lifecycle

CONSTANTS
  Wanted,        \* what may be asked for: see request below
  Hosts,         \* the machines it may run on: see host below
  ReportsOf,     \* ReportsOf[a]: the reports scanner a may write
  Answers        \* the answers of the Ollama server that can be read

\* What the reports of scanner a have in common; RVD's have scores.
ReportFits(a, r) ==
  /\ r.kind \in {"report", "garbage", "empty"} /\ r.items \in Seq(ToSet(r.items))
  /\ \A item \in ToSet(r.items) : a = "rvd" => item.score \in 0..10

ASSUME JobsAssumption ==
  /\ \A q \in Wanted : q.tools \in Seq(Tools) /\ IsFiniteSet(q.hits)
  /\ \A a \in Tools \ {"rvd"} : \A r \in ReportsOf[a] : ReportFits(a, r)
  /\ \A answer \in Answers : answer \in Seq(ToSet(answer))

VARIABLES
  request,     \* [class, tools, has, auth, backend, code, hits]: tools in the
               \* order of their jobs; code says whether the checkout has any
               \* text, hits is what the heuristic backend finds in it
  host,        \* [docker, secret]: is docker installed, does the secret resolve
  scan,        \* status of the scan
  jobs,        \* jobs[i]: [status, error, ref], ref: raw_output_ref is set
  step,        \* the next step of the execution
  job,         \* the job it is at
  backend,     \* backend[i]: the RVD backend of job i and what came of the
               \* check of the Ollama server
  report,      \* the raw output in hand
  raw,         \* raw[i]: the stored output of job i
  containers,  \* jobs whose container is running
  collected,   \* all_findings
  rows         \* the stored findings

jobVars == <<request, host, scan, jobs, step, job, backend, report, raw,
             containers, collected, rows>>

Tool(i) == request.tools[i]

JobIds == DOMAIN request.tools

NoReport == [kind |-> "none", items |-> <<>>]

JobErrors == {"none", "invalid", "docker", "network", "secret", "exit", "timeout",
              "check", "backend", "store", "parse"}

JobsTypeOK ==
  /\ request \in Wanted
  /\ host \in Hosts
  /\ scan \in ScanStatus
  /\ jobs \in [JobIds -> [status : JobStatus, error : JobErrors, ref : BOOLEAN]]
  /\ step \in {"next", "validate", "native", "construct", "infer", "wait", "store",
               "record", "persist", "complete", "notify", "over", "gone"}
  /\ job \in 0..Len(request.tools)
  /\ backend \in [JobIds -> [name : {"none", "ollama", "heuristic"},
                             check : {"none", "ready", "unavailable"}]]
  /\ report.kind \in {"none", "report", "garbage", "empty"}
  /\ DOMAIN raw \subseteq JobIds /\ containers \subseteq JobIds
  /\ \A i \in DOMAIN collected : collected[i].sources \subseteq Tools
  /\ \A f \in rows : f.severity \in Severities /\ f.score \in 0..10

JobsInit ==
  /\ request \in Wanted
  /\ host \in Hosts
  /\ scan = "running"
  /\ jobs = [i \in JobIds |-> [status |-> "queued", error |-> "none", ref |-> FALSE]]
  /\ step = "next" /\ job = 0
  /\ backend = [i \in JobIds |-> [name |-> "none", check |-> "none"]]
  /\ report = NoReport /\ raw = <<>> /\ containers = {}
  /\ collected = <<>> /\ rows = {}

-----------------------------------------------------------------------------
(* _run_job *)

StartJob ==
  /\ step = "next" /\ job < Len(request.tools)
  /\ JobMayMove(jobs[job + 1].status, "running")
  /\ jobs' = [jobs EXCEPT ![job + 1].status = "running"]
  /\ job' = job + 1 /\ step' = "validate"
  /\ UNCHANGED <<request, host, scan, backend, report, raw, containers, collected, rows>>

\* The except block: whatever is raised fails the job, never the scan.
FailJob(error) ==
  /\ jobs' = [jobs EXCEPT ![job] = [status |-> "failed", error |-> error, ref |-> @.ref]]
  /\ step' = "next" /\ report' = NoReport
  /\ UNCHANGED <<request, host, scan, job, backend, collected, rows>>

\* validate_inputs, and what the runner checks before it runs anything.
Refusal(a) ==
  IF ~Accepts(a, request) THEN "invalid"
  ELSE IF Adapter[a].native THEN "none"
  ELSE IF ~host.docker THEN "docker"
  ELSE IF request.class = "SAST" /\ Network(a, request) = "target" THEN "network"
  ELSE IF NeedsSecret(a, request) /\ ~host.secret THEN "secret"
  ELSE "none"

Refuse ==
  /\ step = "validate" /\ Refusal(Tool(job)) # "none"
  /\ FailJob(Refusal(Tool(job)))
  /\ UNCHANGED <<raw, containers>>

Dispatch ==
  /\ step = "validate" /\ Refusal(Tool(job)) = "none"
  /\ step' = CASE Tool(job) = "rvd" -> "construct"
               [] Tool(job) # "rvd" /\ Adapter[Tool(job)].native -> "native"
               [] OTHER -> "wait"
  /\ containers' = IF Adapter[Tool(job)].native THEN containers ELSE containers \cup {job}
  /\ UNCHANGED <<request, host, scan, jobs, job, backend, report, raw, collected, rows>>

Written(r) ==
  /\ report' = r /\ step' = "store"
  /\ UNCHANGED <<request, host, scan, jobs, job, raw, collected, rows>>

-----------------------------------------------------------------------------
(* DockerContainerRunner.run *)

\* Exit codes: the tools use up to 2 of their own, 3 stands for all others.
ExitCodes == 0..3

\* An exit code that counts as success: the output is the report.
ToolExits ==
  /\ step = "wait" /\ ExitCodes \cap Adapter[Tool(job)].okCodes # {}
  /\ \E r \in ReportsOf[Tool(job)] : Written(r)
  /\ containers' = containers \ {job}
  /\ UNCHANGED backend

\* Variant: without --init and --rm, the scanner's processes stay.
ToolFails_Stays ==
  /\ step = "wait"
  /\ FailJob("exit")
  /\ UNCHANGED <<raw, containers>>

ToolFails ==
  /\ step = "wait" /\ ExitCodes \ Adapter[Tool(job)].okCodes # {}
  /\ FailJob("exit")
  /\ containers' = containers \ {job}
  /\ UNCHANGED raw

\* subprocess.run kills the docker client; nobody stops the container.
ToolTimesOut ==
  /\ step = "wait"
  /\ FailJob("timeout")
  /\ UNCHANGED <<raw, containers>>

\* A container nobody waits for ends, some time.
StrayEnds(i) ==
  /\ i \in containers /\ ~(step = "wait" /\ i = job)
  /\ containers' = containers \ {i}
  /\ UNCHANGED <<request, host, scan, jobs, step, job, backend, report, raw, collected, rows>>

-----------------------------------------------------------------------------
(* NativeRunner.run *)

RunNative ==
  /\ step = "native"
  /\ \E r \in ReportsOf[Tool(job)] : Written(r)
  /\ UNCHANGED <<backend, containers>>

\* get_backend, after which the target is modelled ...
Construct ==
  /\ step = "construct"
  /\ \E check \in Checks(request.backend) \ {"raises"} :
       backend' = [backend EXCEPT ![job] =
                     [name |-> GetBackend(request.backend, check), check |-> check]]
  /\ step' = "infer"
  /\ UNCHANGED <<request, host, scan, jobs, job, report, raw, containers, collected, rows>>

\* ... unless the check raises what get_backend does not catch.
ConstructRaises ==
  /\ step = "construct" /\ "raises" \in Checks(request.backend)
  /\ FailJob("check")
  /\ UNCHANGED <<raw, containers>>

Concludes(hyps) ==
  /\ Written([kind |-> "report", items |-> Report(hyps)])
  /\ UNCHANGED <<backend, containers>>

InferHeuristic ==
  /\ step = "infer" /\ backend[job].name = "heuristic"
  /\ \E hyps \in HeuristicHypotheses(request.hits) : Concludes(hyps)

\* Without text there is no call; of a content that is no JSON object, no
\* hypotheses.
InferOllama ==
  /\ step = "infer" /\ backend[job].name = "ollama"
  /\ IF request.code THEN \E answer \in Answers \cup {<<>>} : Concludes(OllamaHypotheses(answer))
                     ELSE Concludes(<<>>)

\* The call fails (BackendUnavailable, which nobody catches any more), or its
\* answer cannot be read: a body that is no JSON, a null content, hypotheses or a
\* path that are no list.
InferFails ==
  /\ step = "infer" /\ backend[job].name = "ollama" /\ request.code
  /\ FailJob("backend")
  /\ UNCHANGED <<raw, containers>>

-----------------------------------------------------------------------------
(* What becomes of a report *)

Store ==
  /\ step = "store"
  /\ raw' = Put(raw, job, report)
  /\ step' = "record"
  /\ UNCHANGED <<request, host, scan, jobs, job, backend, report, containers, collected, rows>>

StoreFails ==
  /\ step = "store"
  /\ FailJob("store")
  /\ UNCHANGED <<raw, containers>>

Readable(a, r) ==
  \/ r.kind = "report"
  \/ r.kind = "empty" /\ Adapter[a].onEmpty
  \/ r.kind = "garbage" /\ Adapter[a].lines

\* parse_output and normalize_sarif.
FindingsIn(a, r) ==
  NormalizeSarif(request.class, a,
    [i \in DOMAIN r.items |-> IF a = "rvd" THEN OfRvd(r.items[i]) ELSE Parsed(a, r.items[i])])

Record ==
  /\ step = "record" /\ Readable(Tool(job), report)
  /\ JobMayMove(jobs[job].status, "normalizing") /\ JobMayMove("normalizing", "completed")
  /\ jobs' = [jobs EXCEPT ![job] = [status |-> "completed", error |-> @.error, ref |-> TRUE]]
  /\ collected' = collected \o FindingsIn(Tool(job), report)
  /\ step' = "next" /\ report' = NoReport
  /\ UNCHANGED <<request, host, scan, job, backend, raw, containers, rows>>

\* The output stays stored, and no job refers to it.
ParseFails ==
  /\ step = "record" /\ ~Readable(Tool(job), report)
  /\ FailJob("parse")
  /\ UNCHANGED <<raw, containers>>

-----------------------------------------------------------------------------
(* _run, after the jobs *)

StartNormalizing ==
  /\ step = "next" /\ job = Len(request.tools)
  /\ ScanMayMove(scan, "normalizing")
  /\ scan' = "normalizing" /\ step' = "persist"
  /\ UNCHANGED <<request, host, jobs, job, backend, report, raw, containers, collected, rows>>

Persist ==
  /\ step = "persist"
  /\ rows' = Dedup(collected) /\ step' = "complete"
  /\ UNCHANGED <<request, host, scan, jobs, job, backend, report, raw, containers, collected>>

Complete ==
  /\ step = "complete"
  /\ ScanMayMove(scan, "completed")
  /\ scan' = "completed" /\ step' = "notify"
  /\ UNCHANGED <<request, host, jobs, job, backend, report, raw, containers, collected, rows>>

\* The worker dies, or the queue cancels the execution.
Cancel ==
  /\ step \notin {"over", "gone"}
  /\ step' = "gone" /\ report' = NoReport
  /\ UNCHANGED <<request, host, scan, jobs, job, backend, raw, containers, collected, rows>>

JobStep ==
  \/ StartJob \/ Refuse \/ Dispatch
  \/ ToolExits \/ ToolFails \/ ToolTimesOut
  \/ RunNative \/ Construct \/ ConstructRaises \/ InferHeuristic \/ InferOllama \/ InferFails
  \/ Store \/ StoreFails \/ Record \/ ParseFails
  \/ StartNormalizing \/ Persist \/ Complete \/ Cancel
  \/ \E i \in JobIds : StrayEnds(i)
==============================================================================
