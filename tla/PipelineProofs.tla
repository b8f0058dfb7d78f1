---------------------------- MODULE PipelineProofs ----------------------------
(***************************************************************************)
(* TLAPS proofs about ScanPipeline, for every set of requests, machines,   *)
(* reports, answers and webhooks.  What a tool's output becomes is in      *)
(* NormalizeProofs.                                                        *)
(***************************************************************************)
EXTENDS ScanPipeline, NormalizeProofs

-----------------------------------------------------------------------------
(* Tools and jobs *)

\* The jobs are numbered, each of a tool.
LEMMA JobsOfTools ==
  ASSUME request \in Wanted
  PROVE  /\ Len(request.tools) \in Nat /\ JobIds = 1..Len(request.tools)
         /\ \A i \in JobIds : Tool(i) \in Tools
         /\ IsFiniteSet(request.hits)
  <1>1. request.tools \in Seq(Tools) /\ IsFiniteSet(request.hits)
    BY JobsAssumption
  <1>2. QED
    BY <1>1 DEF JobIds, Tool

\* The native adapters.
LEMMA RvdNative ==
  /\ "rvd" \in Tools /\ Adapter["rvd"].native
  /\ Tools \ {"rvd"} = FileTools \cup PageTools \cup {"clair", "zap"}
  <1>1. Adapter["rvd"] = RvdAdapter
    BY DEF Adapter
  <1>2. RvdAdapter.native
    BY DEF RvdAdapter, Contract
  <1>3. QED
    BY <1>1, <1>2 DEF Tools, Adapter, FileTools, PageTools

\* A sequence put after another.
LEMMA Concat ==
  ASSUME NEW Y, NEW u \in Seq(Y), NEW v \in Seq(Y)
  PROVE  /\ u \o v \in Seq(Y) /\ Len(u \o v) = Len(u) + Len(v)
         /\ \A i \in 1..Len(u) : (u \o v)[i] = u[i]
         /\ \A i \in 1..Len(v) : (u \o v)[Len(u) + i] = v[i]
         /\ \A i \in 1..(Len(u) + Len(v)) : i \in 1..Len(u) \/ i - Len(u) \in 1..Len(v)
  OBVIOUS

\* The elements of a sequence put after another.
LEMMA ConcatSet ==
  ASSUME NEW s, NEW t, s \in Seq(ToSet(s)), t \in Seq(ToSet(t))
  PROVE  s \o t \in Seq(ToSet(s \o t)) /\ ToSet(s \o t) = ToSet(s) \cup ToSet(t)
  <1> DEFINE X == ToSet(s) \cup ToSet(t)
  <1>1. s \in Seq(X) /\ t \in Seq(X)
    <2>1. ToSet(s) \subseteq X /\ ToSet(t) \subseteq X
      OBVIOUS
    <2> HIDE DEF X
    <2>2. QED
      BY <2>1
  <1> HIDE DEF X
  <1>3. /\ s \o t \in Seq(X) /\ Len(s \o t) = Len(s) + Len(t)
        /\ \A i \in 1..Len(s) : (s \o t)[i] = s[i]
        /\ \A i \in 1..Len(t) : (s \o t)[Len(s) + i] = t[i]
        /\ \A i \in 1..(Len(s) + Len(t)) : i \in 1..Len(s) \/ i - Len(s) \in 1..Len(t)
    BY <1>1, Concat
  <1>4. s \o t \in Seq(ToSet(s \o t))
    BY <1>3, SeqOfItself
  <1>5. ASSUME NEW i \in DOMAIN (s \o t) PROVE (s \o t)[i] \in X
    BY <1>3
  <1>6. ASSUME NEW i \in DOMAIN s PROVE \E j \in DOMAIN (s \o t) : (s \o t)[j] = s[i]
    BY <1>3
  <1>7. ASSUME NEW i \in DOMAIN t PROVE \E j \in DOMAIN (s \o t) : (s \o t)[j] = t[i]
    <2>1. Len(s) + i \in DOMAIN (s \o t) /\ i \in 1..Len(t)
      BY <1>3
    <2>2. QED
      BY <1>3, <2>1
  <1>8. ToSet(s \o t) \subseteq X
    BY <1>5 DEF ToSet
  <1>9. ToSet(s) \subseteq ToSet(s \o t) /\ ToSet(t) \subseteq ToSet(s \o t)
    <2> HIDE DEF X
    <2> DEFINE u == s \o t
    <2> HIDE DEF u
    <2>1. /\ \A i \in DOMAIN s : \E j \in DOMAIN u : u[j] = s[i]
          /\ \A i \in DOMAIN t : \E j \in DOMAIN u : u[j] = t[i]
      BY <1>6, <1>7 DEF u
    <2>2. ToSet(s) \subseteq ToSet(u) /\ ToSet(t) \subseteq ToSet(u)
      BY <2>1 DEF ToSet
    <2>3. QED
      BY <2>2 DEF u
  <1>10. QED
    BY <1>4, <1>8, <1>9 DEF X

\* What a report that fits its tool is read as.
LEMMA FindingsTyped ==
  ASSUME NEW a \in Tools, NEW r, ReportFits(a, r)
  PROVE  /\ FindingsIn(a, r) \in Seq(ToSet(FindingsIn(a, r)))
         /\ \A f \in ToSet(FindingsIn(a, r)) : IsFinding(f)
  <1> DEFINE items == r.items
             Result(i) == IF a = "rvd" THEN OfRvd(items[i]) ELSE Parsed(a, items[i])
  <1>1. items \in Seq(ToSet(items))
    BY DEF ReportFits
  <1>2. ASSUME NEW i \in DOMAIN items PROVE Result(i).score \in 0..10
    <2>1. CASE a = "rvd"
      <3>1. items[i].score \in 0..10
        BY <2>1 DEF ReportFits, ToSet
      <3>2. OfRvd(items[i]).score = items[i].score
        BY DEF OfRvd, PlainResult
      <3>3. QED
        BY <2>1, <3>1, <3>2
    <2>2. CASE a # "rvd"
      BY <2>2, ParsedScore
    <2>3. QED
      BY <2>1, <2>2
  <1>3. FindingsIn(a, r) = [i \in DOMAIN items |-> Normalized(request.class, a, Result(i))]
    BY DEF FindingsIn, NormalizeSarif
  <1> HIDE DEF Result
  <1>4. ASSUME NEW i \in DOMAIN items PROVE IsFinding(Normalized(request.class, a, Result(i)))
    BY <1>2, NormalizedFinding
  <1> DEFINE X == {Normalized(request.class, a, Result(i)) : i \in DOMAIN items}
  <1>5. FindingsIn(a, r) \in Seq(X)
    <2>1. Len(items) \in Nat /\ DOMAIN items = 1..Len(items)
      BY <1>1
    <2>2. FindingsIn(a, r) \in [1..Len(items) -> X]
      BY <1>3, <2>1
    <2> HIDE DEF X
    <2>3. QED
      BY <2>1, <2>2
  <1>6. FindingsIn(a, r) \in Seq(ToSet(FindingsIn(a, r)))
    <2> HIDE DEF X
    <2>1. QED
      BY <1>5, SeqOfItself
  <1>7. QED
    BY <1>3, <1>4, <1>6 DEF ToSet

-----------------------------------------------------------------------------
(* Kinds of steps *)

\* The job fails, with e.
Failing(e) ==
  /\ FailJob(e) /\ e \in JobErrors \ {"none"} /\ step \in AtJob
  /\ raw' = raw
  /\ containers' = containers \/ containers' = containers \ {job}
  /\ step = "wait" => e = "timeout" \/ containers' = containers \ {job}
  /\ Tool(job) = "rvd" => \/ e \in {"invalid", "store"}
                          \/ e = "backend" /\ backend[job].name = "ollama"
                          \/ e = "check" /\ request.backend \in {"none", "ollama"}

\* The job has the report r.
Writing(r) ==
  /\ Written(r) /\ ReportFits(Tool(job), r)
  /\ step \in {"wait", "native", "infer"}
  /\ Tool(job) = "rvd" => r.kind = "report" /\ Scored(r.items)
  /\ containers' = IF step = "wait" THEN containers \ {job} ELSE containers
  /\ backend' = backend

\* Whatever fails the job fails it in that way.
LEMMA FailingSteps ==
  ASSUME JobsTypeOK, OrderOK, ReportsOK,
         \/ Refuse \/ ToolFails \/ ToolTimesOut \/ ConstructRaises \/ InferFails
         \/ StoreFails \/ ParseFails
  PROVE  \E e : Failing(e)
  <1>1. CASE Refuse
    <2>1. Tool(job) = "rvd" => Refusal(Tool(job)) \in {"none", "invalid"}
      BY RvdNative DEF Refusal
    <2>2. Refusal(Tool(job)) \in JobErrors
      BY DEF Refusal, JobErrors
    <2>3. Failing(Refusal(Tool(job)))
      BY <1>1, <2>1, <2>2 DEF Refuse, Failing, AtJob
    <2>4. QED
      BY <2>3
  <1>2. CASE ToolFails
    <2>1. Failing("exit")
      BY <1>2, RvdNative DEF ToolFails, Failing, AtJob, JobErrors, OrderOK
    <2>2. QED
      BY <2>1
  <1>3. CASE ToolTimesOut
    <2>1. Failing("timeout")
      BY <1>3, RvdNative DEF ToolTimesOut, Failing, AtJob, JobErrors, OrderOK
    <2>2. QED
      BY <2>1
  <1>4. CASE InferFails
    <2>1. Failing("backend")
      BY <1>4 DEF InferFails, Failing, AtJob, JobErrors
    <2>2. QED
      BY <2>1
  <1>5. CASE StoreFails
    <2>1. Failing("store")
      BY <1>5 DEF StoreFails, Failing, AtJob, JobErrors
    <2>2. QED
      BY <2>1
  <1>6. CASE ParseFails
    <2>1. Tool(job) # "rvd"
      BY <1>6 DEF ParseFails, ReportsOK, Readable
    <2>2. Failing("parse")
      BY <1>6, <2>1 DEF ParseFails, Failing, AtJob, JobErrors
    <2>3. QED
      BY <2>2
  <1>7. CASE ConstructRaises
    <2>1. request.backend \in {"none", "ollama"}
      BY <1>7 DEF ConstructRaises, Checks
    <2>2. Failing("check")
      BY <1>7, <2>1 DEF ConstructRaises, Failing, AtJob, JobErrors
    <2>3. QED
      BY <2>2
  <1>8. QED
    BY <1>1, <1>2, <1>3, <1>4, <1>5, <1>6, <1>7

\* Whatever answers the job has such a report.
LEMMA WritingSteps ==
  ASSUME JobsTypeOK, OrderOK,
         ToolExits \/ RunNative \/ InferHeuristic \/ InferOllama
  PROVE  \E r : Writing(r)
  <1>1. ASSUME step \in {"wait", "native"}, NEW r \in ReportsOf[Tool(job)] PROVE
               ReportFits(Tool(job), r) /\ Tool(job) # "rvd"
    <2>1. job \in JobIds /\ Tool(job) # "rvd"
      BY <1>1, RvdNative DEF OrderOK, AtJob
    <2>2. Tool(job) \in Tools \ {"rvd"}
      BY <2>1, JobsOfTools DEF JobsTypeOK
    <2>3. QED
      BY <2>2, JobsAssumption
  <1>2. ASSUME NEW hyps, hyps \in Seq(ToSet(hyps)), step = "infer", Concludes(hyps)
        PROVE  \E r : Writing(r)
    <2> DEFINE r == [kind |-> "report", items |-> Report(hyps)]
    <2>1. Tool(job) = "rvd"
      BY <1>2 DEF OrderOK
    <2>2. ReportFits("rvd", r) /\ Scored(r.items)
      BY <1>2, ReportScores DEF ReportFits, Scored
    <2>3. Writing(r)
      BY <1>2, <2>1, <2>2 DEF Concludes, Writing
    <2>4. QED
      BY <2>3
  <1>3. CASE ToolExits
    <2>1. step = "wait" /\ containers' = containers \ {job} /\ backend' = backend
      BY <1>3 DEF ToolExits
    <2>2. PICK r \in ReportsOf[Tool(job)] : Written(r)
      BY <1>3 DEF ToolExits
    <2>3. Writing(r)
      BY <1>1, <2>1, <2>2 DEF Writing
    <2>4. QED
      BY <2>3
  <1>4. CASE RunNative
    <2>1. step = "native" /\ containers' = containers /\ backend' = backend
      BY <1>4 DEF RunNative
    <2>2. PICK r \in ReportsOf[Tool(job)] : Written(r)
      BY <1>4 DEF RunNative
    <2>3. Writing(r)
      BY <1>1, <2>1, <2>2 DEF Writing
    <2>4. QED
      BY <2>3
  <1>5. CASE InferHeuristic
    <2>1. PICK hyps \in HeuristicHypotheses(request.hits) : Concludes(hyps)
      BY <1>5 DEF InferHeuristic
    <2>2. hyps \in Seq(ToSet(hyps))
      BY HeuristicSeq, JobsOfTools DEF JobsTypeOK
    <2>3. QED
      BY <1>2, <1>5, <2>1, <2>2 DEF InferHeuristic
  <1>6. CASE InferOllama
    <2>1. <<>> \in Seq(ToSet(<<>>))
      BY DEF ToSet
    <2>2. CASE request.code
      <3>1. PICK answer \in Answers \cup {<<>>} : Concludes(OllamaHypotheses(answer))
        BY <1>6, <2>2 DEF InferOllama
      <3>2. answer \in Seq(ToSet(answer))
        BY <2>1, JobsAssumption
      <3>3. QED
        BY <1>2, <1>6, <3>1, <3>2, OllamaSeq DEF InferOllama
    <2>3. CASE ~request.code
      BY <1>2, <1>6, <2>1, <2>3 DEF InferOllama
    <2>4. QED
      BY <2>2, <2>3
  <1>7. QED
    BY <1>3, <1>4, <1>5, <1>6

-----------------------------------------------------------------------------
(* Jobs: the inductive invariant, part by part *)

\* Steps that change nothing but how far the execution is.
Going ==
  \/ Dispatch \/ StartNormalizing \/ Complete \/ Cancel
  \/ step = "notify" /\ step' \in {"notify", "over"}
       /\ UNCHANGED <<request, host, scan, jobs, job, backend, report, raw,
                      containers, collected, rows>>
  \/ UNCHANGED jobVars

\* The ways a step may change the jobs.
JobsChange ==
  \/ StartJob \/ Going \/ Construct \/ Store \/ Record \/ Persist
  \/ \E e : Failing(e)
  \/ \E r : Writing(r)
  \/ \E i \in JobIds : StrayEnds(i)

\* There is no other.
LEMMA JobsSteps ==
  ASSUME JobsTypeOK, OrderOK, ReportsOK, [Next]_vars
  PROVE  JobsChange
  <1>1. CASE JobStep
    <2>1. CASE \/ Refuse \/ ToolFails \/ ToolTimesOut \/ ConstructRaises \/ InferFails
               \/ StoreFails \/ ParseFails
      BY <2>1, FailingSteps DEF JobsChange
    <2>2. CASE ToolExits \/ RunNative \/ InferHeuristic \/ InferOllama
      BY <2>2, WritingSteps DEF JobsChange
    <2>3. QED
      BY <1>1, <2>1, <2>2 DEF JobStep, JobsChange, Going
  <1>2. CASE NotifyCompleted
    BY <1>2 DEF NotifyCompleted, JobsChange, Going
  <1>3. CASE UNCHANGED jobVars
    BY <1>3 DEF JobsChange, Going
  <1>4. QED
    BY <1>1, <1>2, <1>3 DEF Next, Execute, vars

\* What is failed, and what is started, is one job only.
LEMMA FailedJob ==
  ASSUME JobsTypeOK, OrderOK, NEW e, Failing(e)
  PROVE  /\ job \in JobIds /\ jobs' \in [JobIds -> [status : JobStatus, error : JobErrors, ref : BOOLEAN]]
         /\ jobs'[job] = [status |-> "failed", error |-> e, ref |-> FALSE]
         /\ jobs'[job].error = e /\ jobs'[job].status = "failed" /\ jobs[job].status = "running"
         /\ \A i \in JobIds : i # job => jobs'[i] = jobs[i]
         /\ jobs[job] = [status |-> "running", error |-> "none", ref |-> FALSE]
         /\ request' = request /\ host' = host /\ scan' = scan /\ job' = job /\ step' = "next"
         /\ report' = NoReport /\ raw' = raw /\ backend' = backend
         /\ collected' = collected /\ rows' = rows
  <1>1. job \in JobIds /\ jobs[job] = [status |-> "running", error |-> "none", ref |-> FALSE]
    BY DEF Failing, OrderOK, Untried
  <1>2. jobs \in [JobIds -> [status : JobStatus, error : JobErrors, ref : BOOLEAN]]
    BY DEF JobsTypeOK
  <1>3. jobs' = [jobs EXCEPT ![job] = [status |-> "failed", error |-> e, ref |-> @.ref]] /\ e \in JobErrors
    BY DEF Failing, FailJob
  <1>4. "failed" \in JobStatus
    BY DEF JobStatus
  <1> DEFINE failed == [status |-> "failed", error |-> e, ref |-> FALSE]
  <1>5. /\ jobs' \in [JobIds -> [status : JobStatus, error : JobErrors, ref : BOOLEAN]]
        /\ jobs'[job] = failed
        /\ \A i \in JobIds : i # job => jobs'[i] = jobs[i]
    <2>1. [status |-> "failed", error |-> e, ref |-> jobs[job].ref] = failed
      BY <1>1
    <2>2. jobs' = [jobs EXCEPT ![job] = failed]
      BY <1>3, <2>1
    <2>3. failed \in [status : JobStatus, error : JobErrors, ref : BOOLEAN]
      BY <1>3, <1>4
    <2> HIDE DEF failed
    <2>4. QED
      BY <1>1, <1>2, <2>2, <2>3
  <1>6. jobs'[job].error = e /\ jobs'[job].status = "failed" /\ jobs[job].status = "running"
    BY <1>1, <1>5
  <1>7. QED
    BY <1>1, <1>5, <1>6 DEF Failing, FailJob

\* The next job becomes running, and the other jobs stay as they are.
LEMMA StartedJob ==
  ASSUME JobsTypeOK, OrderOK, StartJob
  PROVE  /\ job + 1 \in JobIds /\ job' = job + 1
         /\ jobs' \in [JobIds -> [status : JobStatus, error : JobErrors, ref : BOOLEAN]]
         /\ jobs[job + 1] = Untried /\ jobs'[job + 1] = [Untried EXCEPT !.status = "running"]
         /\ \A i \in JobIds : i # job + 1 => jobs'[i] = jobs[i]
  <1>1. job + 1 \in JobIds /\ job \in Nat /\ job + 1 > job
    <2>1. Len(request.tools) \in Nat /\ JobIds = 1..Len(request.tools)
      BY JobsOfTools DEF JobsTypeOK
    <2>2. job \in 0..Len(request.tools) /\ job < Len(request.tools)
      BY DEF JobsTypeOK, StartJob
    <2>3. QED
      BY <2>1, <2>2
  <1>2. jobs[job + 1] = Untried
    BY <1>1 DEF OrderOK
  <1>3. jobs \in [JobIds -> [status : JobStatus, error : JobErrors, ref : BOOLEAN]]
    BY DEF JobsTypeOK
  <1>4. "running" \in JobStatus
    BY DEF JobStatus
  <1>5. QED
    BY <1>1, <1>2, <1>3, <1>4 DEF StartJob, Untried

\* The current job becomes completed with a reference to its output, and the others stay.
LEMMA RecordedJob ==
  ASSUME JobsTypeOK, OrderOK, Record
  PROVE  /\ job \in JobIds
         /\ jobs' \in [JobIds -> [status : JobStatus, error : JobErrors, ref : BOOLEAN]]
         /\ jobs[job] = [status |-> "running", error |-> "none", ref |-> FALSE]
         /\ jobs'[job] = [status |-> "completed", error |-> "none", ref |-> TRUE]
         /\ \A i \in JobIds : i # job => jobs'[i] = jobs[i]
  <1>1. job \in JobIds /\ jobs[job] = [status |-> "running", error |-> "none", ref |-> FALSE]
    BY DEF Record, OrderOK, Untried, AtJob
  <1>2. jobs \in [JobIds -> [status : JobStatus, error : JobErrors, ref : BOOLEAN]]
    BY DEF JobsTypeOK
  <1>3. "completed" \in JobStatus
    BY DEF JobStatus
  <1> DEFINE done == [status |-> "completed", error |-> "none", ref |-> TRUE]
  <1>4. [status |-> "completed", error |-> jobs[job].error, ref |-> TRUE] = done
    BY <1>1
  <1>5. jobs' = [jobs EXCEPT ![job] = done]
    BY <1>4 DEF Record
  <1>6. done \in [status : JobStatus, error : JobErrors, ref : BOOLEAN]
    BY <1>3 DEF JobErrors
  <1>7. jobs'[job] = done
    BY <1>1, <1>2, <1>5
  <1> HIDE DEF done
  <1>8. /\ jobs' \in [JobIds -> [status : JobStatus, error : JobErrors, ref : BOOLEAN]]
        /\ \A i \in JobIds : i # job => jobs'[i] = jobs[i]
    BY <1>1, <1>2, <1>5, <1>6
  <1>9. QED
    BY <1>1, <1>7, <1>8 DEF done

\* The jobs are of one request.
LEMMA JobsStay ==
  ASSUME JobsChange PROVE request' = request /\ host' = host /\ JobIds' = JobIds
  BY DEF JobsChange, Going, StartJob, Dispatch, StartNormalizing, Complete, Cancel, jobVars,
         Construct, Store, Record, Persist, Failing, FailJob, Writing, Written, StrayEnds, JobIds

\* The parts of the strengthening that speak of jobs hold initially.
LEMMA InitJobs ==
  JobsInit => JobsTypeOK /\ OrderOK /\ ScanOK /\ ReportsOK /\ CollectedOK /\ BackendOK
                /\ StraysTimedOut /\ RvdFailsOnlyAfterCheck /\ ScoredOK /\ ChainScores
  <1> SUFFICES ASSUME JobsInit
               PROVE  JobsTypeOK /\ OrderOK /\ ScanOK /\ ReportsOK /\ CollectedOK /\ BackendOK
                        /\ StraysTimedOut /\ RvdFailsOnlyAfterCheck /\ ScoredOK /\ ChainScores
    OBVIOUS
  <1>1. Len(request.tools) \in Nat /\ JobIds = 1..Len(request.tools)
    BY JobsOfTools DEF JobsInit
  <1>2. \A i \in JobIds : jobs[i] = Untried
    BY DEF JobsInit, Untried
  <1>3. JobsTypeOK
    <2>1. jobs \in [JobIds -> [status : JobStatus, error : JobErrors, ref : BOOLEAN]]
      BY DEF JobsInit, JobStatus, JobErrors
    <2>2. scan \in ScanStatus
      BY DEF JobsInit, ScanStatus
    <2>3. QED
      BY <1>1, <2>1, <2>2 DEF JobsInit, JobsTypeOK, NoReport
  <1>4. OrderOK /\ ScanOK
    BY <1>2 DEF JobsInit, OrderOK, ScanOK, AtJob
  <1>5. ReportsOK
    BY <1>2 DEF JobsInit, ReportsOK, Completed, Untried
  <1>6. CollectedOK
    <2>1. Completed = {}
      BY <1>2 DEF Completed, Untried
    <2>2. Evidence = {}
      BY <2>1 DEF Evidence
    <2>3. collected = <<>> /\ ToSet(collected) = {}
      BY DEF JobsInit, ToSet
    <2>4. QED
      BY <2>2, <2>3 DEF JobsInit, CollectedOK
  <1>7. BackendOK /\ StraysTimedOut /\ RvdFailsOnlyAfterCheck
    BY <1>2 DEF JobsInit, BackendOK, StraysTimedOut, RvdFailsOnlyAfterCheck, Untried
  <1>8. ScoredOK /\ ChainScores
    BY DEF JobsInit, ScoredOK, ChainScores
  <1>9. QED
    BY <1>3, <1>4, <1>5, <1>6, <1>7, <1>8

\* The tool of a job and what it refuses do not change.
LEMMA ToolStays ==
  ASSUME JobsChange
  PROVE  \A i : Tool(i)' = Tool(i)
  BY JobsStay DEF Tool

\* Every step keeps the types of the execution's variables.
LEMMA JobsTypeKept ==
  ASSUME JobsTypeOK, OrderOK, ReportsOK, CollectedOK, JobsChange
  PROVE  JobsTypeOK'
  <1>1. /\ Len(request.tools) \in Nat /\ JobIds = 1..Len(request.tools)
        /\ \A i \in JobIds : Tool(i) \in Tools
    BY JobsOfTools DEF JobsTypeOK
  <1>2. request' = request /\ host' = host /\ JobIds' = JobIds
    BY JobsStay
  <1> USE DEF JobsTypeOK
  <1>3. CASE StartJob
    <2>1. /\ job + 1 \in JobIds /\ job' = job + 1
          /\ jobs' \in [JobIds -> [status : JobStatus, error : JobErrors, ref : BOOLEAN]]
      <3> HIDE DEF JobsTypeOK
      <3>1. QED
        BY <1>3, StartedJob
    <2>2. job' \in 0..Len(request.tools)
      BY <1>1, <2>1
    <2>3. /\ step' = "validate"
          /\ UNCHANGED <<request, host, scan, backend, report, raw, containers, collected, rows>>
      BY <1>3 DEF StartJob
    <2>4. QED
      BY <1>2, <2>1, <2>2, <2>3
  <1>4. CASE Going
    <2>1. scan' \in ScanStatus
      BY <1>4 DEF Going, Dispatch, StartNormalizing, Complete, Cancel, jobVars, ScanStatus
    <2>2. step' \in {"next", "validate", "native", "construct", "infer", "wait", "store",
                     "record", "persist", "complete", "notify", "over", "gone"}
      BY <1>4 DEF Going, Dispatch, StartNormalizing, Complete, Cancel, jobVars
    <2>3. report'.kind \in {"none", "report", "garbage", "empty"}
      BY <1>4 DEF Going, Dispatch, StartNormalizing, Complete, Cancel, jobVars, NoReport
    <2>4. containers' \subseteq JobIds
      <3>1. CASE Dispatch
        BY <3>1 DEF Dispatch, OrderOK, AtJob
      <3>2. CASE ~Dispatch
        BY <1>4, <3>2 DEF Going, StartNormalizing, Complete, Cancel, jobVars
      <3>3. QED
        BY <3>1, <3>2
    <2>5. UNCHANGED <<jobs, job, backend, raw, collected, rows>>
      BY <1>4 DEF Going, Dispatch, StartNormalizing, Complete, Cancel, jobVars
    <2>6. QED
      BY <1>2, <2>1, <2>2, <2>3, <2>4, <2>5
  <1>5. CASE Construct
    <2>1. job \in JobIds
      BY <1>5 DEF Construct, OrderOK, AtJob
    <2>2. backend' \in [JobIds -> [name : {"none", "ollama", "heuristic"},
                                  check : {"none", "ready", "unavailable"}]]
      <3>1. PICK check \in Checks(request.backend) \ {"raises"} :
              backend' = [backend EXCEPT ![job] =
                            [name |-> GetBackend(request.backend, check), check |-> check]]
        BY <1>5 DEF Construct
      <3>2. GetBackend(request.backend, check) \in {"ollama", "heuristic"}
        BY Fallback
      <3>3. check \in {"none", "ready", "unavailable"}
        BY DEF Checks
      <3>4. QED
        BY <2>1, <3>1, <3>2, <3>3
    <2>3. /\ step' = "infer"
          /\ UNCHANGED <<request, host, scan, jobs, job, report, raw, containers, collected, rows>>
      BY <1>5 DEF Construct
    <2>4. QED
      BY <1>2, <2>2, <2>3
  <1>6. CASE Store
    <2>1. DOMAIN raw' \subseteq JobIds
      BY <1>6 DEF Store, OrderOK, AtJob, Put
    <2>2. /\ step' = "record"
          /\ UNCHANGED <<request, host, scan, jobs, job, backend, report, containers, collected, rows>>
      BY <1>6 DEF Store
    <2>3. QED
      BY <1>2, <2>1, <2>2
  <1>7. CASE Record
    <2>1. job \in JobIds /\ jobs' \in [JobIds -> [status : JobStatus, error : JobErrors, ref : BOOLEAN]]
      BY <1>7, RecordedJob
    <2>2. \A i \in DOMAIN collected' : collected'[i].sources \subseteq Tools
      <3> DEFINE new == FindingsIn(Tool(job), report)
      <3>1. ReportFits(Tool(job), report)
        BY <1>7 DEF Record, ReportsOK
      <3>2. new \in Seq(ToSet(new)) /\ \A f \in ToSet(new) : IsFinding(f)
        BY <1>1, <2>1, <3>1, FindingsTyped
      <3>3. collected' = collected \o new /\ collected \in Seq(ToSet(collected))
        BY <1>7 DEF Record, CollectedOK
      <3> HIDE DEF new
      <3>4. ToSet(collected') = ToSet(collected) \cup ToSet(new)
        BY <3>2, <3>3, ConcatSet
      <3>5. \A f \in ToSet(collected) \cup ToSet(new) : f.sources \subseteq Tools
        BY <3>2 DEF IsFinding, ToSet
      <3>6. \A i \in DOMAIN collected' : collected'[i] \in ToSet(collected')
        BY DEF ToSet
      <3>7. QED
        BY <3>4, <3>5, <3>6
    <2>3. /\ step' = "next" /\ report' = NoReport
          /\ UNCHANGED <<request, host, scan, job, backend, raw, containers, rows>>
      BY <1>7 DEF Record
    <2>4. QED
      BY <1>2, <2>1, <2>2, <2>3 DEF NoReport
  <1>8. CASE Persist
    <2>1. \A f \in ToSet(collected) : IsFinding(f)
      <3>1. ASSUME NEW i \in Completed, NEW f \in ToSet(FindingsIn(Tool(i), raw[i])) PROVE IsFinding(f)
        <4>1. i \in JobIds /\ ReportFits(Tool(i), raw[i])
          BY DEF ReportsOK, Completed
        <4>2. QED
          BY <1>1, <4>1, FindingsTyped
      <3>2. QED
        BY <3>1 DEF CollectedOK, Evidence
    <2>2. \A f \in rows' : f.severity \in Severities /\ f.score \in 0..10
      <3>1. rows' = Dedup(collected)
        BY <1>8 DEF Persist
      <3>2. \A f \in Dedup(collected) : IsFinding(f)
        BY <2>1, DedupFindings DEF CollectedOK
      <3>3. QED
        BY <3>1, <3>2 DEF IsFinding
    <2>3. /\ step' = "complete"
          /\ UNCHANGED <<request, host, scan, jobs, job, backend, report, raw, containers, collected>>
      BY <1>8 DEF Persist
    <2>4. QED
      BY <1>2, <2>2, <2>3
  <1>9. ASSUME NEW e, Failing(e) PROVE JobsTypeOK'
    <2>1. containers' \subseteq JobIds
      BY <1>9 DEF Failing
    <2>2. /\ jobs' \in [JobIds -> [status : JobStatus, error : JobErrors, ref : BOOLEAN]]
          /\ request' = request /\ host' = host /\ scan' = scan /\ job' = job /\ step' = "next"
          /\ report' = NoReport /\ raw' = raw /\ backend' = backend
          /\ collected' = collected /\ rows' = rows
      <3> HIDE DEF JobsTypeOK
      <3>1. QED
        BY <1>9, FailedJob
    <2>3. QED
      BY <1>2, <2>1, <2>2 DEF NoReport
  <1>10. ASSUME NEW r, Writing(r) PROVE JobsTypeOK'
    <2>1. containers' \subseteq JobIds
      BY <1>10 DEF Writing
    <2>2. report'.kind \in {"none", "report", "garbage", "empty"}
      BY <1>10 DEF Writing, Written, ReportFits
    <2>3. /\ step' = "store"
          /\ UNCHANGED <<request, host, scan, jobs, job, backend, raw, collected, rows>>
      BY <1>10 DEF Writing, Written
    <2>4. QED
      BY <1>2, <2>1, <2>2, <2>3
  <1>11. ASSUME NEW i \in JobIds, StrayEnds(i) PROVE JobsTypeOK'
    <2>1. /\ containers' = containers \ {i}
          /\ UNCHANGED <<request, host, scan, jobs, step, job, backend, report, raw, collected, rows>>
      BY <1>11 DEF StrayEnds
    <2>2. QED
      BY <1>2, <2>1
  <1>12. QED
    BY <1>3, <1>4, <1>5, <1>6, <1>7, <1>8, <1>9, <1>10, <1>11 DEF JobsChange

\* Every step keeps OrderOK, which says how far each job is when the execution is at a job.
LEMMA OrderKept ==
  ASSUME JobsTypeOK, OrderOK, JobsChange
  PROVE  OrderOK'
  <1>1. JobIds' = JobIds /\ (\A i : Tool(i)' = Tool(i)) /\ request' = request /\ host' = host
    BY JobsStay, ToolStays
  <1>2. JobIds = 1..Len(request.tools) /\ job \in Int /\ \A i \in JobIds : i \in Int
    BY JobsOfTools DEF JobsTypeOK
  <1>3. CASE StartJob
    <2>1. \A i \in JobIds : i > job + 1 => i > job /\ i # job + 1
      BY <1>2
    <2>2. job' = job + 1 /\ step' = "validate"
      BY <1>3 DEF StartJob
    <2>3. QED
      BY <1>1, <1>3, <2>1, <2>2, StartedJob DEF OrderOK
  <1>4. CASE Going
    <2>1. CASE Dispatch
      <3>1. /\ job \in JobIds /\ jobs[job] = [Untried EXCEPT !.status = "running"]
            /\ Refusal(Tool(job)) = "none"
            /\ UNCHANGED <<request, host, jobs, job>>
        BY <2>1 DEF Dispatch, OrderOK, AtJob
      <3>2. /\ step' \in {"construct", "native", "wait"}
            /\ step' = "wait" => ~Adapter[Tool(job)].native
            /\ step' = "native" => Tool(job) # "rvd"
            /\ step' = "construct" => Tool(job) = "rvd"
        BY <2>1, RvdNative DEF Dispatch
      <3>3. Refusal(Tool(job))' = Refusal(Tool(job))
        BY <3>1 DEF Refusal, Accepts, NeedsSecret, Network, Tool
      <3>4. QED
        BY <1>1, <3>1, <3>2, <3>3 DEF OrderOK, Tool
    <2>2. CASE UNCHANGED jobVars
      BY <1>1, <2>2 DEF OrderOK, jobVars, Refusal, Accepts, NeedsSecret, Network, Tool
    <2>3. CASE ~Dispatch /\ ~UNCHANGED jobVars
      <3>1. step' \notin AtJob /\ UNCHANGED <<jobs, job>>
        BY <1>4, <2>3 DEF Going, StartNormalizing, Complete, Cancel, AtJob
      <3>2. QED
        BY <1>1, <3>1 DEF OrderOK, AtJob
    <2>4. QED
      BY <2>1, <2>2, <2>3
  <1>5. CASE Construct \/ Store \/ (\E r : Writing(r))
    <2>1. /\ step \in AtJob \ {"validate"} /\ step' \in {"infer", "store", "record"}
          /\ step' = "infer" => step = "construct"
          /\ UNCHANGED <<request, host, jobs, job>>
      BY <1>5 DEF Construct, Store, Writing, Written, AtJob
    <2>2. Refusal(Tool(job))' = Refusal(Tool(job))
      BY <2>1 DEF Refusal, Accepts, NeedsSecret, Network, Tool
    <2>3. QED
      BY <1>1, <2>1, <2>2 DEF OrderOK, AtJob, Tool
  <1>6. CASE Record
    <2>1. step' \notin AtJob /\ job' = job
      BY <1>6 DEF Record, AtJob
    <2>2. QED
      BY <1>1, <1>2, <1>6, <2>1, RecordedJob DEF OrderOK, AtJob
  <1>7. CASE Persist
    <2>1. step' \notin AtJob /\ UNCHANGED <<jobs, job>>
      BY <1>7 DEF Persist, AtJob
    <2>2. QED
      BY <1>1, <2>1 DEF OrderOK, AtJob
  <1>8. ASSUME NEW e, Failing(e) PROVE OrderOK'
    <2>1. /\ step' = "next" /\ job' = job
          /\ \A i \in JobIds : i # job => jobs'[i] = jobs[i]
      BY <1>8, FailedJob
    <2>2. \A i \in JobIds : i > job => i # job
      BY <1>2
    <2>3. QED
      BY <1>1, <2>1, <2>2 DEF OrderOK, AtJob
  <1>9. ASSUME NEW i \in JobIds, StrayEnds(i) PROVE OrderOK'
    <2>1. UNCHANGED <<request, host, jobs, job, step>>
      BY <1>9 DEF StrayEnds
    <2>2. QED
      BY <1>1, <2>1 DEF OrderOK, Refusal, Accepts, NeedsSecret, Network, Tool
  <1>10. QED
    BY <1>3, <1>4, <1>5, <1>6, <1>7, <1>8, <1>9 DEF JobsChange

\* The status of the scan.
LEMMA ScanKept ==
  ASSUME JobsTypeOK, OrderOK, ScanOK, JobsChange
  PROVE  ScanOK'
  <1>1. CASE StartJob \/ Construct \/ Store \/ Record \/ Persist
    BY <1>1 DEF StartJob, Construct, Store, Record, Persist, ScanOK, AtJob
  <1>2. CASE Going
    BY <1>2 DEF Going, Dispatch, StartNormalizing, Complete, Cancel, jobVars, ScanOK, AtJob
  <1>3. ASSUME NEW e, Failing(e) PROVE ScanOK'
    BY <1>3, FailedJob DEF Failing, ScanOK, AtJob
  <1>4. ASSUME NEW r, Writing(r) PROVE ScanOK'
    BY <1>4 DEF Writing, Written, ScanOK, AtJob
  <1>5. ASSUME NEW i \in JobIds, StrayEnds(i) PROVE ScanOK'
    BY <1>5 DEF StrayEnds, ScanOK, AtJob
  <1>6. QED
    BY <1>1, <1>2, <1>3, <1>4, <1>5 DEF JobsChange

\* A job is completed by recording what it found, and stays completed.
LEMMA CompletedBy ==
  ASSUME JobsTypeOK, OrderOK, JobsChange
  PROVE  /\ step \in AtJob => job \in JobIds \ Completed
         /\ Record => Completed' = Completed \cup {job}
         /\ ~Record => Completed' = Completed
  <1>1. JobIds' = JobIds
    BY JobsStay
  <1>2. step \in AtJob => job \in JobIds \ Completed
    BY DEF OrderOK, Completed, Untried
  <1>3. Record => Completed' = Completed \cup {job}
    <2> SUFFICES ASSUME Record PROVE Completed' = Completed \cup {job}
      OBVIOUS
    <2>1. /\ job \in JobIds /\ jobs'[job].status = "completed"
          /\ \A i \in JobIds : i # job => jobs'[i] = jobs[i]
      BY RecordedJob
    <2>2. QED
      BY <1>1, <2>1 DEF Completed
  <1>4. ASSUME StartJob PROVE Completed' = Completed
    <2>1. /\ jobs'[job + 1].status # "completed" /\ jobs[job + 1].status # "completed"
          /\ \A i \in JobIds : i # job + 1 => jobs'[i] = jobs[i]
      BY <1>4, StartedJob DEF Untried
    <2>2. QED
      BY <1>1, <2>1 DEF Completed
  <1>5. ASSUME jobs' = jobs PROVE Completed' = Completed
    BY <1>1, <1>5 DEF Completed
  <1>6. ASSUME NEW e, Failing(e) PROVE Completed' = Completed
    <2>1. /\ jobs'[job].status # "completed" /\ jobs[job].status # "completed"
          /\ \A i \in JobIds : i # job => jobs'[i] = jobs[i]
      BY <1>6, FailedJob
    <2>2. QED
      BY <1>1, <2>1 DEF Completed
  <1>7. Going \/ Construct \/ Store \/ Persist \/ (\E r : Writing(r)) \/ (\E i \in JobIds : StrayEnds(i))
          => jobs' = jobs
    BY DEF Going, Dispatch, StartNormalizing, Complete, Cancel, jobVars, Construct, Store,
           Persist, Writing, Written, StrayEnds
  <1>8. QED
    BY <1>2, <1>3, <1>4, <1>5, <1>6, <1>7 DEF JobsChange

\* What is read of a stored report does not change.
LEMMA ReadAgain ==
  ASSUME JobsChange, NEW i, raw'[i] = raw[i]
  PROVE  FindingsIn(Tool(i), raw[i])' = FindingsIn(Tool(i), raw[i])
  BY JobsStay DEF FindingsIn, Tool

\* Every step keeps ReportsOK: a report held or stored is one its tool can write.
LEMMA ReportsKept ==
  ASSUME JobsTypeOK, OrderOK, ReportsOK, JobsChange
  PROVE  ReportsOK'
  <1>1. JobIds' = JobIds /\ \A i : Tool(i)' = Tool(i)
    BY JobsStay, ToolStays
  <1>2. CASE StartJob \/ Persist \/ Construct \/ (\E i \in JobIds : StrayEnds(i))
    <2>1. /\ UNCHANGED <<raw, report>>
          /\ step' \in {"store", "record"} => step' = step /\ job' = job
      BY <1>2 DEF StartJob, Persist, Construct, StrayEnds
    <2>2. ~Record
      BY <1>2 DEF StartJob, Persist, Construct, StrayEnds, Record
    <2>3. Completed' = Completed
      BY <2>2, CompletedBy
    <2>4. ASSUME NEW i \in Completed PROVE jobs'[i].ref
      <3>1. jobs[i].ref /\ i \in JobIds
        BY DEF ReportsOK, Completed
      <3>2. CASE StartJob
        <4>1. i # job + 1
          BY <3>2, StartedJob DEF Completed, Untried
        <4>2. QED
          BY <3>1, <3>2, <4>1, StartedJob
      <3>3. CASE ~StartJob
        BY <1>2, <3>1, <3>3 DEF Persist, Construct, StrayEnds
      <3>4. QED
        BY <3>2, <3>3
    <2>5. QED
      BY <1>1, <2>1, <2>3, <2>4 DEF ReportsOK
  <1>3. CASE Going
    <2>1. ~Record
      BY <1>3 DEF Going, Dispatch, StartNormalizing, Complete, Cancel, jobVars, Record
    <2>2. Completed' = Completed
      BY <2>1, CompletedBy
    <2>3. /\ UNCHANGED <<raw, jobs, job>>
          /\ step' \in {"store", "record"} => step' = step /\ report' = report
      BY <1>3 DEF Going, Dispatch, StartNormalizing, Complete, Cancel, jobVars
    <2>4. QED
      BY <1>1, <2>2, <2>3 DEF ReportsOK
  <1>4. CASE Store
    <2>1. job \in JobIds \ Completed /\ Completed' = Completed
      BY <1>4, CompletedBy DEF Store, Record, AtJob
    <2>2. ReportFits(Tool(job), report) /\ (Tool(job) = "rvd" => report.kind = "report")
      BY <1>4 DEF Store, ReportsOK
    <2>3. /\ UNCHANGED <<jobs, job, report>> /\ step' = "record"
          /\ DOMAIN raw' = DOMAIN raw \cup {job} /\ raw'[job] = report
          /\ \A i \in DOMAIN raw \ {job} : raw'[i] = raw[i]
      BY <1>4 DEF Store, Put
    <2>4. QED
      BY <1>1, <2>1, <2>2, <2>3 DEF ReportsOK
  <1>5. CASE Record
    <2>1. Completed' = Completed \cup {job} /\ job \in JobIds
      BY <1>5, CompletedBy, RecordedJob
    <2>2. job \in DOMAIN raw /\ jobs'[job].ref /\ job \notin Completed
      BY <1>5, RecordedJob DEF Record, ReportsOK, Completed
    <2>3. \A i \in Completed : jobs'[i] = jobs[i]
      BY <1>5, <2>2, RecordedJob DEF Completed
    <2>4. step' = "next" /\ raw' = raw
      BY <1>5 DEF Record
    <2>5. QED
      BY <1>1, <2>1, <2>2, <2>3, <2>4 DEF ReportsOK
  <1>6. ASSUME NEW e, Failing(e) PROVE ReportsOK'
    <2>1. /\ jobs'[job].status # "completed" /\ jobs[job].status # "completed"
          /\ \A i \in JobIds : i # job => jobs'[i] = jobs[i]
      BY <1>6, FailedJob
    <2>2. Completed' = Completed /\ job \notin Completed
      BY <1>1, <2>1 DEF Completed
    <2>3. step' = "next" /\ raw' = raw
      BY <1>6, FailedJob
    <2>4. \A i \in Completed : jobs'[i] = jobs[i]
      BY <2>1, <2>2 DEF Completed
    <2>5. QED
      BY <1>1, <2>2, <2>3, <2>4 DEF ReportsOK
  <1>7. ASSUME NEW r, Writing(r) PROVE ReportsOK'
    <2>1. /\ UNCHANGED <<raw, jobs, job>> /\ step' = "store" /\ report' = r
          /\ ReportFits(Tool(job), r) /\ (Tool(job) = "rvd" => r.kind = "report")
      BY <1>7 DEF Writing, Written
    <2>2. Completed' = Completed
      BY <1>1, <2>1 DEF Completed
    <2>3. QED
      BY <1>1, <2>1, <2>2 DEF ReportsOK
  <1>8. QED
    BY <1>2, <1>3, <1>4, <1>5, <1>6, <1>7 DEF JobsChange

\* Every step keeps the scores in RVD's reports, held and stored.
LEMMA ScoredKept ==
  ASSUME JobsTypeOK, OrderOK, ScoredOK, ChainScores, JobsChange
  PROVE  ScoredOK' /\ ChainScores'
  <1>1. \A i : Tool(i)' = Tool(i)
    BY ToolStays
  <1>2. ASSUME NEW r, Writing(r) PROVE ScoredOK' /\ ChainScores'
    <2>1. /\ UNCHANGED <<raw, job>> /\ report' = r
          /\ Tool(job) = "rvd" => Scored(r.items)
      BY <1>2 DEF Writing, Written
    <2>2. QED
      BY <1>1, <2>1 DEF ScoredOK, ChainScores, Scored
  <1>3. CASE Store
    <2>1. /\ UNCHANGED <<job, report>> /\ step = "store"
          /\ DOMAIN raw' = DOMAIN raw \cup {job} /\ raw'[job] = report
          /\ \A i \in DOMAIN raw \ {job} : raw'[i] = raw[i]
      BY <1>3 DEF Store, Put
    <2>2. QED
      BY <1>1, <2>1 DEF ScoredOK, ChainScores, Scored
  <1>4. ASSUME NEW e, Failing(e) PROVE ScoredOK' /\ ChainScores'
    <2>1. step' = "next" /\ raw' = raw
      BY <1>4, FailedJob
    <2>2. QED
      BY <1>1, <2>1 DEF ScoredOK, ChainScores, Scored
  <1>5. CASE StartJob \/ Record \/ Construct \/ Persist \/ Going \/ (\E i \in JobIds : StrayEnds(i))
    <2>1. /\ raw' = raw
          /\ step' \in {"store", "record"} => step' = step /\ job' = job /\ report' = report
      BY <1>5 DEF StartJob, Record, Construct, Persist, StrayEnds, Going, Dispatch,
                  StartNormalizing, Complete, Cancel, jobVars
    <2>2. QED
      BY <1>1, <2>1 DEF ScoredOK, ChainScores, Scored
  <1>6. QED
    BY <1>2, <1>3, <1>4, <1>5 DEF JobsChange

\* Every step keeps CollectedOK: what _run collected is read from the completed jobs' outputs.
LEMMA CollectedKept ==
  ASSUME JobsTypeOK, OrderOK, ScanOK, ReportsOK, CollectedOK, JobsChange
  PROVE  CollectedOK'
  <1>1. JobIds' = JobIds /\ (\A i : Tool(i)' = Tool(i)) /\ request' = request
    BY JobsStay, ToolStays
  <1>2. \A i \in Completed : raw'[i] = raw[i] => FindingsIn(Tool(i), raw[i])' = FindingsIn(Tool(i), raw[i])
    BY ReadAgain
  <1>3. CASE Record
    <2> DEFINE new == FindingsIn(Tool(job), report)
    <2>1. job \in JobIds /\ Completed' = Completed \cup {job} /\ raw' = raw /\ raw[job] = report
      BY <1>3, CompletedBy, RecordedJob DEF Record, ReportsOK
    <2>2. ASSUME NEW i, i = job PROVE FindingsIn(Tool(i), raw[i])' = new
      <3>1. FindingsIn(Tool(i), raw[i])' = FindingsIn(Tool(i), raw[i])
        BY <2>1, ReadAgain
      <3>2. Tool(i) = Tool(job) /\ raw[i] = report
        BY <2>1, <2>2
      <3>3. QED
        BY <3>1, <3>2
    <2>3. Evidence' = Evidence \cup ToSet(new)
      <3> HIDE DEF new
      <3> DEFINE Now(i) == ToSet(FindingsIn(Tool(i), raw[i]))
                 Then(i) == ToSet(FindingsIn(Tool(i), raw[i])')
      <3>1. Evidence' = UNION {Then(i) : i \in Completed'} /\ Evidence = UNION {Now(i) : i \in Completed}
        BY DEF Evidence
      <3>2. ASSUME NEW i \in Completed PROVE Then(i) = Now(i)
        BY <1>2, <2>1
      <3>3. ASSUME NEW i, i = job PROVE Then(i) = ToSet(new)
        BY <2>2, <3>3
      <3> HIDE DEF Now, Then
      <3>4. ASSUME NEW f PROVE f \in Evidence' <=> f \in Evidence \/ f \in ToSet(new)
        <4>1. f \in Evidence' <=> \E i \in Completed' : f \in Then(i)
          BY <3>1
        <4>2. f \in Evidence <=> \E i \in Completed : f \in Now(i)
          BY <3>1
        <4>3. (\E i \in Completed : f \in Then(i)) <=> \E i \in Completed : f \in Now(i)
          BY <3>2
        <4>4. (\E i \in {job} : f \in Then(i)) <=> f \in ToSet(new)
          BY <3>3
        <4>5. QED
          BY <2>1, <4>1, <4>2, <4>3, <4>4
      <3>5. QED
        BY <3>4
    <2>4. new \in Seq(ToSet(new))
      <3>1. Tool(job) \in Tools /\ ReportFits(Tool(job), report)
        BY <1>3, <2>1, JobsOfTools DEF Record, ReportsOK, JobsTypeOK
      <3>2. QED
        BY <3>1, FindingsTyped
    <2>5. collected' = collected \o new /\ collected \in Seq(ToSet(collected)) /\ ToSet(collected) = Evidence
      BY <1>3 DEF Record, CollectedOK
    <2>6. step' = "next" /\ scan' = "running"
      BY <1>3 DEF Record, ScanOK, AtJob
    <2> HIDE DEF new
    <2>7. collected' \in Seq(ToSet(collected')) /\ ToSet(collected') = Evidence'
      BY <2>3, <2>4, <2>5, ConcatSet
    <2>8. QED
      BY <2>6, <2>7 DEF CollectedOK
  <1>4. CASE ~Record
    <2>1. Completed' = Completed
      BY <1>4, CompletedBy
    <2>2. ASSUME NEW i \in Completed PROVE raw'[i] = raw[i]
      <3>1. CASE Store
        <4>1. i # job /\ i \in DOMAIN raw
          BY <3>1, CompletedBy DEF Store, AtJob, ReportsOK
        <4>2. QED
          BY <3>1, <4>1 DEF Store, Put
      <3>2. CASE ~Store
        BY <1>4, <3>2 DEF JobsChange, Going, StartJob, Dispatch, StartNormalizing, Complete, Cancel,
               jobVars, Construct, Persist, Failing, Writing, Written, StrayEnds
      <3>3. QED
        BY <3>1, <3>2
    <2>3. Evidence' = Evidence
      <3>1. Evidence' = UNION {ToSet(FindingsIn(Tool(i), raw[i])') : i \in Completed'}
        BY DEF Evidence
      <3>2. \A i \in Completed : FindingsIn(Tool(i), raw[i])' = FindingsIn(Tool(i), raw[i])
        BY <1>2, <2>2
      <3>3. QED
        BY <2>1, <3>1, <3>2 DEF Evidence
    <2>4. collected' = collected
      BY <1>4 DEF JobsChange, Going, StartJob, Dispatch, StartNormalizing, Complete, Cancel,
             jobVars, Construct, Persist, Failing, FailJob, Writing, Written, StrayEnds, Store
    <2>5. step' = "complete" \/ scan' = "completed" => rows' = Dedup(collected)
      <3>1. CASE Persist
        BY <3>1 DEF Persist
      <3>2. CASE ~Persist
        <4>1. rows' = rows
          BY <1>4, <3>2 DEF JobsChange, Going, StartJob, Dispatch, StartNormalizing, Complete, Cancel,
                 jobVars, Construct, Failing, FailJob, Writing, Written, StrayEnds, Store
        <4>2. step' = "complete" => step = "complete"
          BY <1>4, <3>2 DEF JobsChange, Going, StartJob, Dispatch, StartNormalizing, Complete, Cancel,
                 jobVars, Construct, Failing, FailJob, Writing, Written, StrayEnds, Store
        <4>3. scan' = "completed" => scan = "completed" \/ step = "complete"
          BY <1>4, <3>2 DEF JobsChange, Going, StartJob, Dispatch, StartNormalizing, Complete, Cancel,
                 jobVars, Construct, Failing, FailJob, Writing, Written, StrayEnds, Store
        <4>4. QED
          BY <4>1, <4>2, <4>3 DEF CollectedOK
      <3>3. QED
        BY <3>1, <3>2
    <2>6. QED
      BY <2>3, <2>4, <2>5 DEF CollectedOK
  <1>5. QED
    BY <1>3, <1>4

\* Every step keeps BackendOK: an Ollama backend is one whose server check succeeded.
LEMMA BackendKept ==
  ASSUME JobsTypeOK, BackendOK, JobsChange
  PROVE  BackendOK'
  <1>1. JobIds' = JobIds
    BY JobsStay
  <1>2. CASE Construct
    <2>1. PICK check \in Checks(request.backend) \ {"raises"} :
            backend' = [backend EXCEPT ![job] =
                          [name |-> GetBackend(request.backend, check), check |-> check]]
      BY <1>2 DEF Construct
    <2>2. GetBackend(request.backend, check) = "ollama" => check = "ready"
      BY Fallback
    <2>3. DOMAIN backend = JobIds
      BY DEF JobsTypeOK
    <2>4. ASSUME NEW i \in JobIds PROVE backend'[i].name = "ollama" => backend'[i].check = "ready"
      <3>1. CASE i = job
        BY <2>1, <2>2, <2>3, <3>1
      <3>2. CASE i # job
        BY <2>1, <2>3, <3>2 DEF BackendOK
      <3>3. QED
        BY <3>1, <3>2
    <2>5. QED
      BY <1>1, <2>4 DEF BackendOK
  <1>3. CASE ~Construct
    <2>1. backend' = backend
      BY <1>3 DEF JobsChange, Going, StartJob, Dispatch, StartNormalizing, Complete, Cancel,
             jobVars, Failing, FailJob, Writing, StrayEnds, Store, Record, Persist
    <2>2. QED
      BY <1>1, <2>1 DEF BackendOK
  <1>4. QED
    BY <1>2, <1>3

\* Containers of jobs that did not time out are those of the job at hand.
LEMMA StraysKept ==
  ASSUME JobsTypeOK, OrderOK, StraysTimedOut, JobsChange
  PROVE  StraysTimedOut'
  <1>1. containers \subseteq JobIds
    BY DEF JobsTypeOK
  <1>2. step \in AtJob \ {"wait"} => job \notin containers
    BY DEF StraysTimedOut, OrderOK, Untried, AtJob
  <1>3. CASE StartJob
    <2>1. \A i \in containers : jobs'[i].error = jobs[i].error
      BY <1>1, <1>3, StartedJob DEF Untried
    <2>2. containers' = containers /\ step = "next"
      BY <1>3 DEF StartJob
    <2>3. QED
      BY <2>1, <2>2 DEF StraysTimedOut
  <1>4. CASE Going
    <2>1. CASE Dispatch
      <3>1. UNCHANGED <<jobs, job>> /\ (Adapter[Tool(job)].native \/ step' = "wait") /\ step = "validate"
        BY <2>1, RvdNative DEF Dispatch
      <3>2. containers' = IF Adapter[Tool(job)].native THEN containers ELSE containers \cup {job}
        BY <2>1 DEF Dispatch
      <3>3. QED
        BY <1>2, <3>1, <3>2 DEF StraysTimedOut, AtJob
    <2>2. CASE ~Dispatch
      <3>1. /\ UNCHANGED <<jobs, job, containers>>
            /\ step \in {"wait", "gone"} => step' \in {"wait", "gone"}
        BY <1>4, <2>2 DEF Going, StartNormalizing, Complete, Cancel, jobVars
      <3>2. QED
        BY <3>1 DEF StraysTimedOut
    <2>3. QED
      BY <2>1, <2>2
  <1>5. CASE Construct \/ Store \/ Persist
    BY <1>5 DEF Construct, Store, Persist, StraysTimedOut
  <1>6. CASE Record
    <2>1. \A i \in containers : jobs'[i].error = jobs[i].error
      BY <1>1, <1>6, RecordedJob
    <2>2. containers' = containers /\ step = "record"
      BY <1>6 DEF Record
    <2>3. QED
      BY <2>1, <2>2 DEF StraysTimedOut
  <1>7. ASSUME NEW e, Failing(e) PROVE StraysTimedOut'
    <2>1. ASSUME NEW i \in containers' PROVE jobs'[i].error = "timeout"
      <3>1. i \in containers /\ step \in AtJob
        BY <1>7 DEF Failing
      <3>2. CASE i = job
        <4>1. step = "wait" /\ e = "timeout"
          BY <1>2, <1>7, <3>1, <3>2, <2>1 DEF Failing
        <4>2. QED
          BY <1>7, <3>2, <4>1, FailedJob
      <3>3. CASE i # job
        <4>1. jobs'[i] = jobs[i]
          BY <1>1, <1>7, <3>1, <3>3, FailedJob
        <4>2. QED
          BY <3>1, <3>3, <4>1 DEF StraysTimedOut, AtJob
      <3>4. QED
        BY <3>2, <3>3
    <2>2. QED
      BY <2>1 DEF StraysTimedOut
  <1>8. ASSUME NEW r, Writing(r) PROVE StraysTimedOut'
    <2>1. UNCHANGED jobs /\ containers' = IF step = "wait" THEN containers \ {job} ELSE containers
      BY <1>8 DEF Writing, Written
    <2>2. step \in AtJob
      BY <1>8 DEF Writing, AtJob
    <2>3. QED
      BY <1>2, <2>1, <2>2 DEF StraysTimedOut, AtJob
  <1>9. ASSUME NEW i \in JobIds, StrayEnds(i) PROVE StraysTimedOut'
    BY <1>9 DEF StrayEnds, StraysTimedOut
  <1>10. QED
    BY <1>3, <1>4, <1>5, <1>6, <1>7, <1>8, <1>9 DEF JobsChange

\* Every step keeps RvdFailsOnlyAfterCheck: what a job fails with fits the backend it has.
LEMMA RvdKept ==
  ASSUME JobsTypeOK, OrderOK, BackendOK, RvdFailsOnlyAfterCheck, JobsChange
  PROVE  RvdFailsOnlyAfterCheck'
  <1>1. JobIds' = JobIds /\ request' = request /\ \A i : Tool(i)' = Tool(i)
    BY JobsStay, ToolStays
  <1> DEFINE Fine(i) ==
        \/ jobs'[i].error \in {"invalid", "store"}
        \/ jobs'[i].error = "check" /\ request'.backend \in {"none", "ollama"}
        \/ jobs'[i].error = "backend" /\ backend'[i].check = "ready"
  <1>2. ASSUME NEW i \in JobIds, Tool(i) = "rvd", jobs[i].status = "failed",
               jobs'[i] = jobs[i], backend'[i] = backend[i]
        PROVE  Fine(i)
    BY <1>1, <1>2 DEF RvdFailsOnlyAfterCheck
  <1>3. SUFFICES ASSUME NEW i \in JobIds, Tool(i) = "rvd", jobs'[i].status = "failed" PROVE Fine(i)
    BY <1>1 DEF RvdFailsOnlyAfterCheck
  <1>4. CASE StartJob
    <2>1. i # job + 1
      BY <1>3, <1>4, StartedJob DEF Untried
    <2>2. jobs'[i] = jobs[i] /\ backend' = backend
      BY <1>4, <2>1, StartedJob DEF StartJob
    <2>3. QED
      BY <1>2, <1>3, <2>2
  <1>5. CASE Going \/ Store \/ Persist \/ (\E r : Writing(r)) \/ (\E k \in JobIds : StrayEnds(k))
    <2>1. jobs' = jobs /\ backend' = backend
      BY <1>5 DEF Going, Dispatch, StartNormalizing, Complete, Cancel, jobVars, Store, Persist,
             Writing, Written, StrayEnds
    <2>2. QED
      BY <1>2, <1>3, <2>1
  <1>6. CASE Construct
    <2>1. jobs' = jobs /\ jobs[job].status = "running"
      BY <1>6 DEF Construct, OrderOK, AtJob, Untried
    <2>2. i # job
      BY <1>3, <2>1
    <2>3. backend'[i] = backend[i]
      BY <1>6, <2>2 DEF Construct, JobsTypeOK
    <2>4. QED
      BY <1>2, <1>3, <2>1, <2>3
  <1>7. CASE Record
    <2>1. i # job
      BY <1>3, <1>7, RecordedJob
    <2>2. jobs'[i] = jobs[i] /\ backend' = backend
      BY <1>7, <2>1, RecordedJob DEF Record
    <2>3. QED
      BY <1>2, <1>3, <2>2
  <1>8. ASSUME NEW e, Failing(e) PROVE Fine(i)
    <2>1. backend' = backend
      BY <1>8, FailedJob
    <2>2. CASE i = job
      <3>1. jobs'[i].error = e
        BY <1>8, <2>2, FailedJob
      <3>2. \/ e \in {"invalid", "store"}
            \/ e = "backend" /\ backend[job].name = "ollama"
            \/ e = "check" /\ request.backend \in {"none", "ollama"}
        BY <1>3, <1>8, <2>2 DEF Failing
      <3>3. QED
        BY <1>1, <2>1, <2>2, <3>1, <3>2 DEF BackendOK
    <2>3. CASE i # job
      <3>1. jobs'[i] = jobs[i]
        BY <1>8, <2>3, FailedJob
      <3>2. QED
        BY <1>2, <1>3, <2>1, <3>1
    <2>4. QED
      BY <2>2, <2>3
  <1>9. QED
    BY <1>4, <1>5, <1>6, <1>7, <1>8 DEF JobsChange

-----------------------------------------------------------------------------
(* Sequences without repetition *)

\* A sequence without duplicates loses exactly its head with Tail.
LEMMA TailDistinct ==
  ASSUME NEW s, s \in Seq(ToSet(s)), s # <<>>, IsInjective(s)
  PROVE  /\ Tail(s) \in Seq(ToSet(Tail(s))) /\ IsInjective(Tail(s))
         /\ ToSet(s) = {Head(s)} \cup ToSet(Tail(s)) /\ Head(s) \notin ToSet(Tail(s))
  <1>1. /\ Len(s) \in Nat /\ Len(s) >= 1 /\ Head(s) = s[1] /\ DOMAIN s = 1..Len(s)
        /\ DOMAIN Tail(s) = 1..(Len(s) - 1)
        /\ \A i \in 1..(Len(s) - 1) : Tail(s)[i] = s[i + 1]
    OBVIOUS
  <1>2. Tail(s) \in Seq(ToSet(s))
    OBVIOUS
  <1>3. Tail(s) \in Seq(ToSet(Tail(s)))
    BY <1>2, SeqOfItself
  <1>4. IsInjective(Tail(s))
    BY <1>1 DEF IsInjective
  <1>5. \A i \in 1..Len(s) : i = 1 \/ i - 1 \in 1..(Len(s) - 1)
    BY <1>1
  <1>6. \A x \in ToSet(s) : x = Head(s) \/ x \in ToSet(Tail(s))
    <2>1. ASSUME NEW i \in 1..Len(s) PROVE s[i] = Head(s) \/ \E j \in DOMAIN Tail(s) : Tail(s)[j] = s[i]
      <3>1. CASE i = 1
        BY <1>1, <3>1
      <3>2. CASE i # 1
        <4>1. i - 1 \in 1..(Len(s) - 1) /\ (i - 1) + 1 = i
          BY <1>1, <3>2
        <4>2. Tail(s)[i - 1] = s[i] /\ i - 1 \in DOMAIN Tail(s)
          BY <1>1, <4>1
        <4>3. QED
          BY <4>2
      <3>3. QED
        BY <3>1, <3>2
    <2>2. QED
      BY <1>1, <2>1 DEF ToSet
  <1>7. Head(s) \in ToSet(s) /\ ToSet(Tail(s)) \subseteq ToSet(s)
    BY <1>1 DEF ToSet
  <1>8. Head(s) \notin ToSet(Tail(s))
    BY <1>1 DEF ToSet, IsInjective
  <1>9. QED
    BY <1>3, <1>4, <1>6, <1>7, <1>8

\* A new element put in front of a sequence without duplicates leaves none.
LEMMA ConsDistinct ==
  ASSUME NEW s, NEW h, s \in Seq(ToSet(s)), IsInjective(s), h \notin ToSet(s)
  PROVE  /\ <<h>> \o s \in Seq(ToSet(<<h>> \o s)) /\ IsInjective(<<h>> \o s)
         /\ ToSet(<<h>> \o s) = {h} \cup ToSet(s)
  <1>1. <<h>> \in Seq({h}) /\ ToSet(<<h>>) = {h}
    BY DEF ToSet
  <1>2. <<h>> \o s \in Seq(ToSet(<<h>> \o s)) /\ ToSet(<<h>> \o s) = {h} \cup ToSet(s)
    BY <1>1, ConcatSet
  <1>3. /\ Len(s) \in Nat /\ DOMAIN s = 1..Len(s) /\ DOMAIN (<<h>> \o s) = 1..(Len(s) + 1)
        /\ (<<h>> \o s)[1] = h
        /\ \A i \in 2..(Len(s) + 1) : (<<h>> \o s)[i] = s[i - 1] /\ i - 1 \in 1..Len(s)
    OBVIOUS
  <1>4. \A i \in 1..Len(s) : s[i] # h
    BY <1>3 DEF ToSet
  <1>5. IsInjective(<<h>> \o s)
    BY <1>3, <1>4 DEF IsInjective
  <1>6. QED
    BY <1>2, <1>5

\* A sequence without duplicates has none after RemoveAt, and nothing new.
LEMMA RemoveDistinct ==
  ASSUME NEW s, s \in Seq(ToSet(s)), IsInjective(s), NEW i \in DOMAIN s
  PROVE  /\ RemoveAt(s, i) \in Seq(ToSet(RemoveAt(s, i))) /\ IsInjective(RemoveAt(s, i))
         /\ ToSet(RemoveAt(s, i)) \subseteq ToSet(s)
  <1> DEFINE front == SubSeq(s, 1, i - 1)
             back == SubSeq(s, i + 1, Len(s))
             n == Len(s)
  <1>1. n \in Nat /\ i \in 1..n /\ DOMAIN s = 1..n
    OBVIOUS
  <1>2. /\ front \in Seq(ToSet(s)) /\ Len(front) = i - 1 /\ \A j \in 1..(i - 1) : front[j] = s[j]
    BY <1>1
  <1>3. /\ back \in Seq(ToSet(s)) /\ Len(back) = n - i /\ \A j \in 1..(n - i) : back[j] = s[i + j]
    BY <1>1
  <1>4. RemoveAt(s, i) = front \o back
    BY DEF RemoveAt
  <1> HIDE DEF front, back, n
  <1> DEFINE t == front \o back
             From(j) == IF j < i THEN j ELSE j + 1
  <1>5. /\ t \in Seq(ToSet(s)) /\ Len(t) = n - 1
        /\ \A j \in 1..(n - 1) : t[j] = s[From(j)]
    <2>1. /\ t \in Seq(ToSet(s)) /\ Len(t) = (i - 1) + (n - i)
          /\ \A j \in 1..(i - 1) : t[j] = front[j]
          /\ \A j \in 1..(n - i) : t[(i - 1) + j] = back[j]
      <3>1. front \in Seq(ToSet(s)) /\ back \in Seq(ToSet(s))
        BY <1>2, <1>3
      <3>2. /\ t \in Seq(ToSet(s)) /\ Len(t) = Len(front) + Len(back)
            /\ \A j \in 1..Len(front) : t[j] = front[j]
            /\ \A j \in 1..Len(back) : t[Len(front) + j] = back[j]
        BY <3>1, Concat
      <3> HIDE DEF t
      <3>3. QED
        BY <1>2, <1>3, <3>2
    <2>2. (i - 1) + (n - i) = n - 1
      BY <1>1
    <2>3. ASSUME NEW j \in 1..(n - 1) PROVE t[j] = s[From(j)]
      <3>1. CASE j < i
        <4>1. j \in 1..(i - 1) /\ From(j) = j
          BY <1>1, <3>1
        <4>2. QED
          BY <1>2, <2>1, <4>1
      <3>2. CASE ~(j < i)
        <4> DEFINE k == j - (i - 1)
        <4>1. k \in 1..(n - i) /\ (i - 1) + k = j /\ i + k = j + 1
          BY <1>1, <3>2
        <4>2. From(j) = j + 1
          BY <3>2
        <4> HIDE DEF k, From
        <4>3. t[(i - 1) + k] = back[k] /\ back[k] = s[i + k]
          BY <1>3, <2>1, <4>1
        <4>4. QED
          BY <4>1, <4>2, <4>3
      <3>3. QED
        BY <3>1, <3>2
    <2>4. QED
      BY <2>1, <2>2, <2>3
  <1>6. \A j \in 1..(n - 1) : From(j) \in 1..n
    BY <1>1
  <1>7. \A j, k \in 1..(n - 1) : From(j) = From(k) => j = k
    BY <1>1
  <1> HIDE DEF t, From
  <1>8. t \in Seq(ToSet(t))
    BY <1>5, SeqOfItself
  <1>9. IsInjective(t)
    BY <1>1, <1>5, <1>6, <1>7 DEF IsInjective
  <1>10. ToSet(t) \subseteq ToSet(s)
    BY <1>1, <1>5, <1>6 DEF ToSet
  <1>11. QED
    BY <1>4, <1>8, <1>9, <1>10 DEF t

-----------------------------------------------------------------------------
(* Webhooks: the inductive invariant, part by part *)

\* The ways a step may change the hooks and their delivery.
HooksSteps ==
  \/ \E h \in NewHooks : CreateHook(h)
  \/ \E h \in ToSet(hooks) : DeleteHook(h)
  \/ ListHooks \/ SkipHook \/ PostHook \/ EndDelivery \/ CutDelivery
  \/ UNCHANGED hookVars

\* What a step of the pipeline does to the hooks is one of HooksSteps.
LEMMA HooksStepsAll ==
  ASSUME [Next]_vars PROVE HooksSteps
  BY DEF Next, Execute, NotifyCompleted, HookChange, vars, HooksSteps

\* The parts of the strengthening that speak of hooks hold initially.
LEMMA InitHooks ==
  HooksInit => HooksTypeOK /\ ListedOK
  <1> SUFFICES ASSUME HooksInit PROVE HooksTypeOK /\ ListedOK
    OBVIOUS
  <1> USE DEF HooksInit
  <1>1. HooksTypeOK
    <2>1. changes \in 0..MaxHookChanges
      BY HooksAssumption
    <2>2. ToSet(hooks) \cup ToSet(pending) \subseteq ToSet(EarlyHooks) \cup NewHooks
      BY DEF ToSet
    <2>3. told \in Seq([hook : DOMAIN HookOf, answer : Answer])
      OBVIOUS
    <2>4. QED
      BY <2>1, <2>2, <2>3 DEF HooksTypeOK
  <1>2. Told = {} /\ ToSet(pending) = {} /\ Len(told) = 0
    BY DEF Told, ToSet
  <1>3. pending \in Seq(ToSet(pending)) /\ IsInjective(pending)
    BY DEF IsInjective
  <1>4. IsFiniteSet({}) /\ Cardinality({}) = 0
    BY FS_EmptySet
  <1>5. QED
    BY <1>1, <1>2, <1>3, <1>4, HooksAssumption DEF ListedOK

\* A hook is told by one request more.
LEMMA PostedHook ==
  ASSUME HooksTypeOK, ListedOK, PostHook
  PROVE  /\ Told' = Told \cup {Head(pending)} /\ Len(told') = Len(told) + 1
         /\ told' \in Seq([hook : DOMAIN HookOf, answer : Answer])
         /\ Head(pending) \notin Told /\ Matches(Head(pending))
         /\ pending' = Tail(pending) /\ pending # <<>>
         /\ UNCHANGED <<hooks, changes, delivery>>
  <1> DEFINE h == Head(pending)
             R == [hook : DOMAIN HookOf, answer : Answer]
  <1>1. PICK answer \in Answer : told' = Append(told, [hook |-> h, answer |-> answer])
    BY DEF PostHook
  <1>2. ToSet(pending) = {h} \cup ToSet(Tail(pending)) /\ pending # <<>>
    BY TailDistinct DEF ListedOK, PostHook
  <1>3. h \in DOMAIN HookOf /\ h \notin Told
    BY <1>2, HooksAssumption DEF HooksTypeOK, ListedOK
  <1> DEFINE r == [hook |-> h, answer |-> answer]
  <1>4. r \in R /\ told \in Seq(R) /\ r.hook = h
    BY <1>3 DEF HooksTypeOK
  <1> HIDE DEF r, R, h
  <1>5. /\ told' \in Seq(R) /\ Len(told') = Len(told) + 1 /\ Len(told) \in Nat
        /\ told'[Len(told) + 1] = r /\ \A i \in 1..Len(told) : told'[i] = told[i]
        /\ DOMAIN told = 1..Len(told) /\ DOMAIN told' = 1..(Len(told) + 1)
    BY <1>1, <1>4 DEF r
  <1>6. Told' = Told \cup {h}
    <2>1. Told' = {told'[n].hook : n \in 1..(Len(told) + 1)} /\ Told = {told[n].hook : n \in 1..Len(told)}
      BY <1>5 DEF Told
    <2>2. \A n \in 1..(Len(told) + 1) : n \in 1..Len(told) \/ n = Len(told) + 1
      BY <1>5
    <2>3. \A n \in 1..Len(told) : n \in 1..(Len(told) + 1) /\ told'[n].hook = told[n].hook
      BY <1>5
    <2>4. Len(told) + 1 \in 1..(Len(told) + 1) /\ told'[Len(told) + 1].hook = h
      BY <1>4, <1>5
    <2>5. QED
      BY <2>1, <2>2, <2>3, <2>4
  <1>7. QED
    BY <1>2, <1>3, <1>5, <1>6 DEF h, R, PostHook

\* Every step keeps the types of the hooks' variables.
LEMMA HooksTypeKept ==
  ASSUME HooksTypeOK, ListedOK, HooksSteps
  PROVE  HooksTypeOK'
  <1>1. ASSUME NEW h \in NewHooks, CreateHook(h) PROVE HooksTypeOK'
    <2>1. hooks' = <<h>> \o hooks /\ h \notin ToSet(hooks) /\ UNCHANGED <<delivery, pending, told>>
      BY <1>1 DEF CreateHook
    <2>2. changes' \in 0..MaxHookChanges
      BY <1>1, HooksAssumption DEF CreateHook, HooksTypeOK
    <2>3. ToSet(hooks') = {h} \cup ToSet(hooks)
      BY <2>1, ConsDistinct DEF ListedOK
    <2>4. QED
      BY <2>1, <2>2, <2>3 DEF HooksTypeOK
  <1>2. ASSUME NEW h \in ToSet(hooks), DeleteHook(h) PROVE HooksTypeOK'
    <2>1. PICK i \in DOMAIN hooks : hooks' = RemoveAt(hooks, i)
      BY <1>2 DEF DeleteHook
    <2>2. changes' \in 0..MaxHookChanges /\ UNCHANGED <<delivery, pending, told>>
      BY <1>2, HooksAssumption DEF DeleteHook, HooksTypeOK
    <2>3. ToSet(hooks') \subseteq ToSet(hooks)
      BY <2>1, RemoveDistinct DEF ListedOK
    <2>4. QED
      BY <2>2, <2>3 DEF HooksTypeOK
  <1>3. CASE ListHooks
    BY <1>3 DEF ListHooks, HooksTypeOK
  <1>4. CASE SkipHook
    <2>1. ToSet(pending') \subseteq ToSet(pending) /\ UNCHANGED <<hooks, changes, delivery, told>>
      BY <1>4, TailDistinct DEF SkipHook, ListedOK
    <2>2. QED
      BY <2>1 DEF HooksTypeOK
  <1>5. CASE PostHook
    <2>1. pending' = Tail(pending) /\ pending # <<>>
      BY <1>5 DEF PostHook
    <2>2. ToSet(pending') \subseteq ToSet(pending)
      BY <2>1, TailDistinct DEF ListedOK
    <2>3. UNCHANGED <<hooks, changes, delivery>> /\ told' \in Seq([hook : DOMAIN HookOf, answer : Answer])
      BY <1>5, PostedHook
    <2>4. QED
      BY <2>2, <2>3 DEF HooksTypeOK
  <1>6. CASE EndDelivery
    BY <1>6 DEF EndDelivery, HooksTypeOK
  <1>7. CASE CutDelivery
    <2>1. pending' = <<>> /\ delivery' \in {"done", "cut"} /\ UNCHANGED <<hooks, changes, told>>
      BY <1>7 DEF CutDelivery
    <2>2. ToSet(pending') = {}
      BY <2>1 DEF ToSet
    <2>3. QED
      BY <2>1, <2>2 DEF HooksTypeOK
  <1>8. CASE UNCHANGED hookVars
    BY <1>8 DEF hookVars, HooksTypeOK
  <1>9. QED
    BY <1>1, <1>2, <1>3, <1>4, <1>5, <1>6, <1>7, <1>8 DEF HooksSteps

\* Every step keeps ListedOK, about the hooks listed, pending and told.
LEMMA ListedKept ==
  ASSUME HooksTypeOK, DeliveryOK, ListedOK, HooksSteps
  PROVE  ListedOK'
  <1>1. ASSUME NEW h \in NewHooks, CreateHook(h) PROVE ListedOK'
    <2>1. hooks' = <<h>> \o hooks /\ h \notin ToSet(hooks) /\ UNCHANGED <<delivery, pending, told>>
      BY <1>1 DEF CreateHook
    <2>2. /\ hooks' \in Seq(ToSet(hooks')) /\ IsInjective(hooks')
          /\ ToSet(hooks') = {h} \cup ToSet(hooks)
      BY <2>1, ConsDistinct DEF ListedOK
    <2>3. h \notin ToSet(EarlyHooks)
      BY HooksAssumption
    <2>4. Told' = Told
      BY <2>1 DEF Told
    <2>5. QED
      BY <2>1, <2>2, <2>3, <2>4 DEF ListedOK
  <1>2. ASSUME NEW h \in ToSet(hooks), DeleteHook(h) PROVE ListedOK'
    <2>1. PICK i \in DOMAIN hooks : hooks' = RemoveAt(hooks, i)
      BY <1>2 DEF DeleteHook
    <2>2. UNCHANGED <<delivery, pending, told>>
      BY <1>2 DEF DeleteHook
    <2>3. /\ hooks' \in Seq(ToSet(hooks')) /\ IsInjective(hooks')
          /\ ToSet(hooks') \subseteq ToSet(hooks)
      BY <2>1, RemoveDistinct DEF ListedOK
    <2>4. Told' = Told
      BY <2>2 DEF Told
    <2>5. QED
      BY <2>2, <2>3, <2>4 DEF ListedOK
  <1>3. CASE ListHooks
    <2>1. /\ delivery = "none" /\ delivery' = "posting" /\ pending' = hooks
          /\ UNCHANGED <<hooks, told>> /\ told = <<>>
      BY <1>3 DEF ListHooks, DeliveryOK
    <2>2. Told = {} /\ Told' = {}
      BY <2>1 DEF Told
    <2>3. QED
      BY <2>1, <2>2 DEF ListedOK
  <1>4. CASE SkipHook
    <2>1. /\ delivery' = delivery /\ pending' = Tail(pending) /\ pending # <<>>
          /\ ~Matches(Head(pending)) /\ UNCHANGED <<hooks, told>>
      BY <1>4 DEF SkipHook
    <2>2. /\ pending' \in Seq(ToSet(pending')) /\ IsInjective(pending')
          /\ ToSet(pending) = {Head(pending)} \cup ToSet(pending')
      BY <2>1, TailDistinct DEF ListedOK
    <2>3. Told' = Told
      BY <2>1 DEF Told
    <2>4. QED
      BY <2>1, <2>2, <2>3 DEF ListedOK
  <1>5. CASE PostHook
    <2>1. /\ Told' = Told \cup {Head(pending)} /\ Len(told') = Len(told) + 1
          /\ Head(pending) \notin Told /\ Matches(Head(pending))
          /\ pending' = Tail(pending) /\ pending # <<>> /\ UNCHANGED <<hooks, delivery>>
      BY <1>5, PostedHook
    <2>2. /\ pending' \in Seq(ToSet(pending')) /\ IsInjective(pending')
          /\ ToSet(pending) = {Head(pending)} \cup ToSet(pending')
          /\ Head(pending) \notin ToSet(pending')
      BY <2>1, TailDistinct DEF ListedOK
    <2>3. IsFiniteSet(Told) /\ Cardinality(Told) = Len(told)
      BY DEF ListedOK
    <2>4. IsFiniteSet(Told') /\ Cardinality(Told') = Len(told')
      BY <2>1, <2>3, FS_AddElement
    <2>5. QED
      BY <2>1, <2>2, <2>4 DEF ListedOK
  <1>6. CASE EndDelivery
    <2>1. delivery = "posting" /\ UNCHANGED <<hooks, pending, told>> /\ Told' = Told
      BY <1>6 DEF EndDelivery, Told
    <2>2. QED
      BY <2>1 DEF ListedOK
  <1>7. CASE CutDelivery
    <2>1. /\ pending' = <<>> /\ UNCHANGED <<hooks, told>> /\ Told' = Told
          /\ delivery' \in {"posting", "done"} => delivery = "done" /\ pending = <<>>
      BY <1>7 DEF CutDelivery, Told, DeliveryOK
    <2>2. ToSet(<<>>) = {} /\ IsInjective(<<>>) /\ <<>> \in Seq(ToSet(<<>>))
      BY DEF ToSet, IsInjective
    <2>3. QED
      BY <2>1, <2>2 DEF ListedOK
  <1>8. CASE UNCHANGED hookVars
    <2>1. Told' = Told /\ UNCHANGED <<hooks, delivery, pending, told>>
      BY <1>8 DEF hookVars, Told
    <2>2. QED
      BY <2>1 DEF ListedOK
  <1>9. QED
    BY <1>1, <1>2, <1>3, <1>4, <1>5, <1>6, <1>7, <1>8 DEF HooksSteps

\* Hooks are told of a completed scan, at the end of its execution.
LEMMA DeliveryKept ==
  ASSUME ScanOK, DeliveryOK, [Next]_vars
  PROVE  DeliveryOK'
  <1>1. CASE Execute
    <2>1. CASE step' = "gone" /\ step # "gone"
      <3>1. /\ delivery' = (IF delivery = "done" THEN "done" ELSE "cut")
            /\ pending' = <<>> /\ told' = told
        BY <1>1, <2>1 DEF Execute, CutDelivery
      <3>2. scan' = scan
        BY <1>1, <2>1 DEF Execute, JobStep, StartJob, Refuse, Dispatch, ToolExits, ToolFails,
               ToolTimesOut, RunNative, Construct, ConstructRaises, InferHeuristic, InferOllama, InferFails, Store,
               StoreFails, Record, ParseFails, StartNormalizing, Persist, Complete, Cancel, StrayEnds,
               FailJob, Written, Concludes
      <3>3. QED
        BY <2>1, <3>1, <3>2 DEF DeliveryOK
    <2>2. CASE ~(step' = "gone" /\ step # "gone")
      <3>1. /\ UNCHANGED <<delivery, pending, told>>
            /\ step' = step \/ (step \notin {"notify", "over", "gone"} /\ step' \notin {"over", "gone"})
        BY <1>1, <2>2 DEF Execute, hookVars, JobStep, StartJob, Refuse, Dispatch, ToolExits, ToolFails,
               ToolTimesOut, RunNative, Construct, ConstructRaises, InferHeuristic, InferOllama, InferFails, Store,
               StoreFails, Record, ParseFails, StartNormalizing, Persist, Complete, Cancel, StrayEnds,
               FailJob, Written, Concludes
      <3>2. step \in {"notify", "over", "gone"} => scan' = scan
        BY <1>1, <2>2 DEF Execute, JobStep, StartJob, Refuse, Dispatch, ToolExits, ToolFails,
               ToolTimesOut, RunNative, Construct, ConstructRaises, InferHeuristic, InferOllama, InferFails, Store,
               StoreFails, Record, ParseFails, StartNormalizing, Persist, Complete, Cancel, StrayEnds,
               FailJob, Written, Concludes
      <3>3. step \notin {"notify", "over", "gone"} => delivery = "none" /\ told = <<>> /\ pending = <<>>
        BY DEF DeliveryOK
      <3>4. QED
        BY <3>1, <3>2, <3>3 DEF DeliveryOK
    <2>3. QED
      BY <2>1, <2>2
  <1>2. CASE NotifyCompleted
    BY <1>2 DEF NotifyCompleted, ListHooks, SkipHook, PostHook, EndDelivery, DeliveryOK, ScanOK
  <1>3. CASE HookChange /\ UNCHANGED jobVars
    BY <1>3 DEF HookChange, CreateHook, DeleteHook, jobVars, DeliveryOK
  <1>4. CASE UNCHANGED vars
    BY <1>4 DEF vars, jobVars, hookVars, DeliveryOK
  <1>5. QED
    BY <1>1, <1>2, <1>3, <1>4 DEF Next

-----------------------------------------------------------------------------
(* The inductive invariant *)

IInv ==
  /\ TypeOK /\ OrderOK /\ ScanOK /\ ReportsOK /\ CollectedOK /\ BackendOK
  /\ DeliveryOK /\ ListedOK
  /\ StraysTimedOut /\ RvdFailsOnlyAfterCheck /\ ScoredOK /\ ChainScores

\* The strengthening holds initially.
LEMMA InitIInv == Init => IInv
  <1>1. JobsInit /\ HooksInit => DeliveryOK
    BY DEF JobsInit, HooksInit, DeliveryOK
  <1>2. QED
    BY <1>1, InitJobs, InitHooks DEF Init, IInv, TypeOK

\* Every step of the pipeline, a stutter included, keeps the strengthening.
LEMMA NextIInv == IInv /\ [Next]_vars => IInv'
  <1> SUFFICES ASSUME IInv, [Next]_vars PROVE IInv'
    OBVIOUS
  <1>1. /\ JobsTypeOK /\ HooksTypeOK /\ OrderOK /\ ScanOK /\ ReportsOK /\ CollectedOK /\ BackendOK
        /\ DeliveryOK /\ ListedOK /\ StraysTimedOut /\ RvdFailsOnlyAfterCheck
        /\ ScoredOK /\ ChainScores
    BY DEF IInv, TypeOK
  <1>2. JobsChange /\ HooksSteps
    BY <1>1, JobsSteps, HooksStepsAll
  <1>3. JobsTypeOK' /\ OrderOK' /\ ScanOK' /\ ReportsOK'
    BY <1>1, <1>2, JobsTypeKept, OrderKept, ScanKept, ReportsKept
  <1>4. /\ CollectedOK' /\ BackendOK' /\ StraysTimedOut' /\ RvdFailsOnlyAfterCheck'
        /\ ScoredOK' /\ ChainScores'
    BY <1>1, <1>2, CollectedKept, BackendKept, StraysKept, RvdKept, ScoredKept
  <1>5. HooksTypeOK' /\ DeliveryOK' /\ ListedOK'
    BY <1>1, <1>2, HooksTypeKept, DeliveryKept, ListedKept
  <1>6. QED
    BY <1>3, <1>4, <1>5 DEF IInv, TypeOK

\* The inductive invariant holds in every reachable state.
THEOREM IInvAlways == Spec => []IInv
  BY InitIInv, NextIInv, PTL DEF Spec

-----------------------------------------------------------------------------
(* What holds of every behaviour *)

\* The variables keep their types.
THEOREM TypeCorrect == Spec => []TypeOK
  <1>1. IInv => TypeOK
    BY DEF IInv
  <1>2. QED
    BY <1>1, IInvAlways, PTL

\* Everything the completed jobs' outputs say is a finding.
LEMMA EvidenceFindings ==
  ASSUME JobsTypeOK, ReportsOK PROVE \A f \in Evidence : IsFinding(f)
  <1>1. ASSUME NEW i \in Completed, NEW f \in ToSet(FindingsIn(Tool(i), raw[i])) PROVE IsFinding(f)
    <2>1. i \in JobIds /\ ReportFits(Tool(i), raw[i])
      BY DEF ReportsOK, Completed
    <2>2. Tool(i) \in Tools
      BY <2>1, JobsOfTools DEF JobsTypeOK
    <2>3. QED
      BY <2>1, <2>2, FindingsTyped
  <1>2. QED
    BY <1>1 DEF Evidence

\* The strengthening gives FindingsMatchEvidence, by CollectedOK and DedupFindings.
LEMMA FindingsMatch == IInv => FindingsMatchEvidence
  <1> SUFFICES ASSUME IInv PROVE FindingsMatchEvidence
    OBVIOUS
  <1>1. JobsTypeOK /\ ReportsOK /\ CollectedOK
    BY DEF IInv, TypeOK
  <1>2. Dedup(collected) = Grouped(Evidence)
    <2>1. /\ collected \in Seq(ToSet(collected)) /\ ToSet(collected) = Evidence
          /\ \A f \in ToSet(collected) : IsFinding(f)
      BY <1>1, EvidenceFindings DEF CollectedOK
    <2>2. Dedup(collected) = Grouped(ToSet(collected))
      BY <2>1, DedupFindings
    <2>3. QED
      BY <2>1, <2>2
  <1>3. QED
    BY <1>1, <1>2 DEF FindingsMatchEvidence, ReportsOK, CollectedOK

\* The findings of a completed scan are what the outputs of its completed jobs
\* say, grouped by fingerprint.
THEOREM FindingsSound == Spec => []FindingsMatchEvidence
  BY FindingsMatch, IInvAlways, PTL

\* Results of one place are of items in one place, but for packages and
\* composition paths.
LEMMA KeysApart ==
  ASSUME NEW a \in Tools, NEW b \in Tools, NEW x, NEW y,
         LocationKey((IF a = "rvd" THEN OfRvd(x) ELSE Parsed(a, x)).loc)
           = LocationKey((IF b = "rvd" THEN OfRvd(y) ELSE Parsed(b, y)).loc)
  PROVE  \/ Place(a, x) = Place(b, y)
         \/ a = "clair" /\ b = "clair"
         \/ a = "rvd" /\ b = "rvd" /\ x.path = y.path
  <1> DEFINE Key(t, i) == LocationKey((IF t = "rvd" THEN OfRvd(i) ELSE Parsed(t, i)).loc)
  <1>1. Tools = FileTools \cup PageTools \cup {"clair", "zap", "rvd"}
    BY RvdNative
  <1>2. /\ "rvd" \notin FileTools \cup PageTools \cup {"clair", "zap"}
        /\ "clair" \notin FileTools \cup PageTools /\ "zap" \notin FileTools \cup PageTools
    BY DEF FileTools, PageTools
  <1>3. ASSUME NEW t \in FileTools, NEW i
        PROVE  Key(t, i).uri = {i.at} /\ DOMAIN Key(t, i).props = {} /\ Place(t, i) = i.at
    <2>1. t \notin {"rvd", "nuclei", "vigolium", "zap"}
      BY DEF FileTools
    <2>2. Place(t, i) = i.at
      BY <2>1 DEF Place
    <2>3. QED
      BY <2>1, <2>2, KeyOfFile
  <1>4. ASSUME NEW i PROVE Key("clair", i).uri = {} /\ DOMAIN Key("clair", i).props = {}
    BY KeyOfPackage
  <1>5. ASSUME NEW t \in PageTools, NEW i
        PROVE  /\ DOMAIN Key(t, i).props = {"url", "route", "param"}
               /\ Key(t, i).props["url"] = Redact(i.at.url) /\ Key(t, i).props["param"] = i.at.param
               /\ Place(t, i) = [url |-> Redact(i.at.url), param |-> i.at.param]
    <2>1. t \in {"nuclei", "vigolium"} /\ t # "rvd"
      BY DEF PageTools
    <2>2. Place(t, i) = [url |-> Redact(i.at.url), param |-> i.at.param]
      BY <2>1 DEF Place
    <2>3. QED
      BY <2>1, <2>2, KeyOfPage
  <1>6. ASSUME NEW i
        PROVE  /\ DOMAIN Key("zap", i).props = {"url"}
               /\ Key("zap", i).props["url"] = Redact(i.at) /\ Place("zap", i) = Redact(i.at)
    BY KeyOfUrl DEF Place
  <1>7. ASSUME NEW i
        PROVE  /\ DOMAIN Key("rvd", i).props = {"composition_path"}
               /\ Key("rvd", i).props["composition_path"] = i.path
    BY KeyOfHypothesis
  <1>8. Key(a, x) = Key(b, y)
    OBVIOUS
  <1> DEFINE page == {"url", "route", "param"}
             path == {"composition_path"}
             url == {"url"}
  <1>15. page # {} /\ url # {} /\ path # {} /\ page # url /\ page # path /\ url # path /\ {x.at} # {}
    <2>1. "url" \in page /\ "url" \in url /\ "url" \notin path /\ "param" \in page /\ "param" \notin url
            /\ "composition_path" \in path
      OBVIOUS
    <2> HIDE DEF page, path, url
    <2>2. QED
      BY <2>1
  <1>16. /\ \A t \in PageTools : DOMAIN Key(t, y).props = page
         /\ DOMAIN Key("zap", y).props = url /\ DOMAIN Key("rvd", y).props = path
    BY <1>5, <1>6, <1>7
  <1>17. {y.at} # {}
    OBVIOUS
  <1> HIDE DEF Key, page, path, url
  <1>9. CASE a \in FileTools
    <2>1. DOMAIN Key(b, y).props = {} /\ Key(b, y).uri = {x.at}
      BY <1>3, <1>8, <1>9
    <2>2. b \in FileTools
      BY <1>1, <1>4, <1>15, <1>16, <2>1
    <2>3. QED
      BY <1>3, <1>9, <2>1, <2>2
  <1>10. CASE a = "clair"
    <2>1. DOMAIN Key(b, y).props = {} /\ Key(b, y).uri = {}
      BY <1>4, <1>8, <1>10
    <2>2. b = "clair"
      BY <1>1, <1>3, <1>15, <1>16, <2>1, <1>17
    <2>3. QED
      BY <1>10, <2>2
  <1>11. CASE a \in PageTools
    <2>1. DOMAIN Key(b, y).props = page
      BY <1>5, <1>8, <1>11 DEF page
    <2>2. b \in PageTools
      BY <1>1, <1>3, <1>4, <1>15, <1>16, <2>1
    <2>3. Redact(x.at.url) = Redact(y.at.url) /\ x.at.param = y.at.param
      <3>1. Key(a, x).props["url"] = Redact(x.at.url) /\ Key(a, x).props["param"] = x.at.param
        BY <1>5, <1>11
      <3>2. Key(b, y).props["url"] = Redact(y.at.url) /\ Key(b, y).props["param"] = y.at.param
        BY <1>5, <2>2
      <3>3. QED
        BY <1>8, <3>1, <3>2
    <2>4. QED
      BY <1>5, <1>11, <2>2, <2>3
  <1>12. CASE a = "zap"
    <2>1. DOMAIN Key(b, y).props = url
      BY <1>6, <1>8, <1>12 DEF url
    <2>2. b = "zap"
      BY <1>1, <1>3, <1>4, <1>15, <1>16, <2>1
    <2>3. QED
      BY <1>6, <1>8, <1>12, <2>2
  <1>13. CASE a = "rvd"
    <2>1. DOMAIN Key(b, y).props = path
      BY <1>7, <1>8, <1>13 DEF path
    <2>2. b = "rvd"
      BY <1>1, <1>3, <1>4, <1>15, <1>16, <2>1
    <2>3. QED
      BY <1>7, <1>8, <1>13, <2>2
  <1>14. QED
    BY <1>1, <1>9, <1>10, <1>11, <1>12, <1>13

\* The strengthening gives PlacesKeptApart: location keys tell places apart, tool by tool.
LEMMA PlacesApart == IInv => PlacesKeptApart
  <1> SUFFICES ASSUME IInv PROVE PlacesKeptApart
    OBVIOUS
  <1> DEFINE Result(a, item) == IF a = "rvd" THEN OfRvd(item) ELSE Parsed(a, item)
  <1>1. JobsTypeOK /\ ReportsOK
    BY DEF IInv, TypeOK
  <1>2. ASSUME NEW i \in Completed PROVE Tool(i) \in Tools /\ ReportFits(Tool(i), raw[i])
    <2>1. i \in JobIds /\ i \in DOMAIN raw
      BY <1>1 DEF ReportsOK, Completed
    <2>2. QED
      BY <1>1, <2>1, JobsOfTools DEF ReportsOK, JobsTypeOK
  <1>3. ASSUME NEW i \in Completed, NEW m \in DOMAIN raw[i].items
        PROVE  FindingsIn(Tool(i), raw[i])[m].fp[3] = LocationKey(Result(Tool(i), raw[i].items[m]).loc)
    <2>1. FindingsIn(Tool(i), raw[i])[m] = Normalized(request.class, Tool(i), Result(Tool(i), raw[i].items[m]))
      BY DEF FindingsIn, NormalizeSarif
    <2> HIDE DEF Result
    <2>2. ASSUME NEW c, NEW a, NEW r PROVE Normalized(c, a, r).fp[3] = LocationKey(r.loc)
      BY DEF Normalized, Fingerprint
    <2>3. QED
      BY <2>1, <2>2
  <1>4. ASSUME NEW i \in Completed, NEW j \in Completed,
               NEW m \in DOMAIN raw[i].items, NEW n \in DOMAIN raw[j].items,
               FindingsIn(Tool(i), raw[i])[m].fp = FindingsIn(Tool(j), raw[j])[n].fp
        PROVE  \/ Place(Tool(i), raw[i].items[m]) = Place(Tool(j), raw[j].items[n])
               \/ Tool(i) = "clair" /\ Tool(j) = "clair"
               \/ Tool(i) = "rvd" /\ Tool(j) = "rvd" /\ raw[i].items[m].path = raw[j].items[n].path
    <2>1. LocationKey(Result(Tool(i), raw[i].items[m]).loc) = LocationKey(Result(Tool(j), raw[j].items[n]).loc)
      <3> HIDE DEF Result
      <3>1. QED
        BY <1>3, <1>4
    <2>2. Tool(i) \in Tools /\ Tool(j) \in Tools
      BY <1>2
    <2>3. QED
      BY <2>1, <2>2, KeysApart
  <1>5. QED
    BY <1>4 DEF PlacesKeptApart

\* One finding never stands for two places, but for URLs that redaction makes
\* equal, packages of an image and hypotheses with one composition path.
THEOREM PlacesSound == Spec => []PlacesKeptApart
  BY PlacesApart, IInvAlways, PTL

\* Only containers of jobs that timed out, and of an execution cut short,
\* outlive their jobs.
THEOREM StraysOnlyTimedOut == Spec => []StraysTimedOut
  <1>1. IInv => StraysTimedOut
    BY DEF IInv
  <1>2. QED
    BY <1>1, IInvAlways, PTL

\* RVD falls back: no job of it fails because there is no server or no model,
\* but only at the store, by another error of the check, or by the call to a
\* server that was ready.
THEOREM RvdFallsBack == Spec => []RvdFailsOnlyAfterCheck
  <1>1. IInv => RvdFailsOnlyAfterCheck
    BY DEF IInv
  <1>2. QED
    BY <1>1, IInvAlways, PTL

\* The strengthening gives HooksTold.
LEMMA HooksAreTold == IInv => HooksTold
  <1> SUFFICES ASSUME IInv PROVE HooksTold
    OBVIOUS
  <1>1. DeliveryOK /\ ListedOK /\ FindingsMatchEvidence
    BY FindingsMatch DEF IInv
  <1>2. Cardinality(Told) = Len(told)
    BY <1>1 DEF ListedOK
  <1>3. \A h \in Told : HookOf[h].active /\ HookOf[h].project \in {"all", ScanProject}
    BY <1>1 DEF ListedOK, Matches
  <1>4. told # <<>> => scan = "completed" /\ rows = Grouped(Evidence)
    BY <1>1 DEF DeliveryOK, FindingsMatchEvidence
  <1>5. delivery = "done" =>
          \A h \in ToSet(EarlyHooks) \cap ToSet(hooks) : Matches(h) => h \in Told
    <2>1. delivery = "done" => ToSet(pending) = {}
      BY <1>1 DEF DeliveryOK, ToSet
    <2>2. QED
      BY <1>1, <2>1 DEF ListedOK
  <1>6. QED
    BY <1>2, <1>3, <1>4, <1>5 DEF HooksTold

\* The score of a stored hypothesis is the sum of the weights of its chains,
\* never above 1.0, in whatever order score takes the pairs.
THEOREM ScoresSound == Spec => []ChainScores
  <1>1. IInv => ChainScores
    BY DEF IInv
  <1>2. QED
    BY <1>1, IInvAlways, PTL

\* Every hook that was there from the start and still is has been told once,
\* when the findings were stored.
THEOREM HooksSound == Spec => []HooksTold
  BY HooksAreTold, IInvAlways, PTL

=============================================================================
