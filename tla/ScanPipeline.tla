------------------------------ MODULE ScanPipeline ------------------------------
(***************************************************************************)
(* One execution of a scan from its first job to its last notification:    *)
(* ScanJobs and Webhooks.                                                  *)
(***************************************************************************)
EXTENDS ScanJobs, Webhooks

vars == <<jobVars, hookVars>>

Init == JobsInit /\ HooksInit

\* A cancelled execution delivers nothing any more.
Execute ==
  /\ JobStep
  /\ IF step' = "gone" /\ step # "gone" THEN CutDelivery ELSE UNCHANGED hookVars

\* _run notifies last, after the completing commit; then it is over.
NotifyCompleted ==
  /\ step = "notify"
  /\ \/ (ListHooks \/ SkipHook \/ PostHook) /\ UNCHANGED step
     \/ EndDelivery /\ step' = "over"
  /\ UNCHANGED <<request, host, scan, jobs, job, backend, report, raw,
                 containers, collected, rows>>

Next ==
  \/ Execute
  \/ NotifyCompleted
  \/ HookChange /\ UNCHANGED jobVars

Spec == Init /\ [][Next]_vars

Completed == {i \in JobIds : jobs[i].status = "completed"}

\* What the stored output of the completed jobs says.
Evidence == UNION {ToSet(FindingsIn(Tool(i), raw[i])) : i \in Completed}

Told == {told[n].hook : n \in DOMAIN told}

-----------------------------------------------------------------------------
(* The strengthening that makes the properties below inductive. *)

\* The steps at one job, once it is started.
AtJob == {"validate", "native", "construct", "infer", "wait", "store", "record"}

Untried == [status |-> "queued", error |-> "none", ref |-> FALSE]

\* Jobs are tried in order.  The one the execution is at is running, and
\* allowed to once it is validated.
OrderOK ==
  /\ \A i \in JobIds : i > job => jobs[i] = Untried
  /\ step \in AtJob => job \in JobIds /\ jobs[job] = [Untried EXCEPT !.status = "running"]
  /\ step \in AtJob \ {"validate"} => Refusal(Tool(job)) = "none"
  /\ step = "wait" => ~Adapter[Tool(job)].native
  /\ step = "native" => Tool(job) # "rvd"
  /\ step \in {"construct", "infer"} => Tool(job) = "rvd"

\* The scan is as far as its execution, as long as that lasts.
ScanOK ==
  /\ step \in AtJob \cup {"next"} => scan = "running"
  /\ step \in {"persist", "complete"} => scan = "normalizing"
  /\ step \in {"notify", "over"} => scan = "completed"

\* A report fits its tool; RVD's are readable.  The report in hand is stored
\* before it is read, and so is the output of every completed job.
ReportsOK ==
  /\ step \in {"store", "record"} =>
       ReportFits(Tool(job), report) /\ (Tool(job) = "rvd" => report.kind = "report")
  /\ step = "record" => job \in DOMAIN raw /\ raw[job] = report
  /\ \A i \in DOMAIN raw : ReportFits(Tool(i), raw[i])
  /\ \A i \in Completed : jobs[i].ref /\ i \in DOMAIN raw

\* A report of RVD has the score of each hypothesis right, before it is stored
\* as well.
Scored(items) == \A n \in DOMAIN items : items[n].score = ScoreOf(items, n)

ScoredOK == step \in {"store", "record"} /\ Tool(job) = "rvd" => Scored(report.items)

\* What is collected is the evidence, and what is stored comes of it.
CollectedOK ==
  /\ collected \in Seq(ToSet(collected)) /\ ToSet(collected) = Evidence
  /\ step = "complete" \/ scan = "completed" => rows = Dedup(collected)

\* The Ollama backend is taken only if its server is ready.
BackendOK == \A i \in JobIds : backend[i].name = "ollama" => backend[i].check = "ready"

\* A delivery is that of a completed scan.
DeliveryOK ==
  /\ delivery # "none" => step \in {"notify", "over", "gone"}
  /\ delivery = "posting" => step = "notify"
  /\ delivery = "done" => pending = <<>>
  /\ delivery = "none" => told = <<>> /\ pending = <<>>
  /\ told # <<>> => scan = "completed"

\* Hooks are listed once, and told or still pending.
ListedOK ==
  /\ hooks \in Seq(ToSet(hooks)) /\ IsInjective(hooks)
  /\ pending \in Seq(ToSet(pending)) /\ IsInjective(pending)
  /\ Told \cap ToSet(pending) = {} /\ \A h \in Told : Matches(h)
  /\ IsFiniteSet(Told) /\ Cardinality(Told) = Len(told)
  /\ delivery \in {"posting", "done"} =>
       \A h \in ToSet(EarlyHooks) \cap ToSet(hooks) : Matches(h) => h \in Told \cup ToSet(pending)

-----------------------------------------------------------------------------
(* Properties *)

TypeOK == JobsTypeOK /\ HooksTypeOK

\* The findings of a completed scan are what the stored outputs of its
\* completed jobs say, no more and no less: one finding per fingerprint, of
\* every tool that reported it, of the worst severity and best score any of
\* them gave it, in whatever order the jobs ran and whichever failed
\* (scheduler.py:91-105, finding.py:80-94).
FindingsMatchEvidence ==
  /\ \A i \in Completed : jobs[i].ref /\ i \in DOMAIN raw
  /\ scan = "completed" => rows = Grouped(Evidence)

\* The place of an item: where a person would look for it, as far as a
\* redacted URL still tells.
Place(a, item) ==
  CASE a = "rvd" -> <<item.path, item.file>>
    [] a \in {"nuclei", "vigolium"} -> [url |-> Redact(item.at.url), param |-> item.at.param]
    [] a = "zap" -> Redact(item.at)
    [] OTHER -> item.at

\* One finding never stands for two places, with three exceptions: URLs that
\* differ only in what redact masks, the packages of an image, which Clair's
\* locations do not identify, and hypotheses with the same composition path,
\* whatever their files (fingerprint.py:16-35, redact.py:24-31).
PlacesKeptApart ==
  \A i, j \in Completed : \A m \in DOMAIN raw[i].items, n \in DOMAIN raw[j].items :
    LET x == raw[i].items[m]
        y == raw[j].items[n]
    IN  FindingsIn(Tool(i), raw[i])[m].fp = FindingsIn(Tool(j), raw[j])[n].fp
          => \/ Place(Tool(i), x) = Place(Tool(j), y)
             \/ Tool(i) = "clair" /\ Tool(j) = "clair"
             \/ Tool(i) = "rvd" /\ Tool(j) = "rvd" /\ x.path = y.path

\* The containers of a scan run one at a time and are gone when it is, but
\* for those of jobs that timed out and of an execution that was cancelled:
\* nobody stops these (runner.py:85-95).
StraysTimedOut ==
  \A i \in containers :
    \/ jobs[i].error = "timeout"
    \/ i = job /\ step \in {"wait", "gone"}

\* A valid RVD job fails only if its output cannot be stored, if the check of
\* the model server raises something other than BackendUnavailable, or if the
\* server is ready and the call that follows fails or answers what cannot be
\* read.  A server that is not there or lacks the model never fails it, and
\* neither does the heuristic (backends/__init__.py:11-13, 40-59,
\* ollama.py:120-136, 180-210).
RvdFailsOnlyAfterCheck ==
  \A i \in JobIds : Tool(i) = "rvd" /\ jobs[i].status = "failed" =>
    \/ jobs[i].error \in {"invalid", "store"}
    \/ jobs[i].error = "check" /\ request.backend \in {"none", "ollama"}
    \/ jobs[i].error = "backend" /\ backend[i].check = "ready"

\* The chainability score of a hypothesis is the sum of the weights of its
\* chains, and never above 1.0, whatever the order they are added in
\* (chainability.py:32-44).
ChainScores ==
  \A i \in DOMAIN raw : Tool(i) = "rvd" => Scored(raw[i].items)

\* A hook is told of a scan once at most, only if it is a hook of the scan's
\* project or of all, and only when the scan is completed and its findings
\* are stored; and unless the execution is cut short, every hook that was
\* there before and still is has been told, whatever became of the requests
\* before its own (webhooks.py:94-119, scheduler.py:113-123).
HooksTold ==
  /\ Cardinality(Told) = Len(told)
  /\ \A h \in Told : HookOf[h].active /\ HookOf[h].project \in {"all", ScanProject}
  /\ told # <<>> => scan = "completed" /\ rows = Grouped(Evidence)
  /\ delivery = "done" =>
       \A h \in ToSet(EarlyHooks) \cap ToSet(hooks) : Matches(h) => h \in Told
==============================================================================
