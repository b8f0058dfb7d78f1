---------------------------- MODULE PromiseProofs ----------------------------
(***************************************************************************)
(* TLAPS proofs of what Scheduler promises when deliveries of a scan do    *)
(* not overlap: that it implements ScanPromise, that a notified scan is    *)
(* completed, and that without a fault nothing is left half done.  They    *)
(* rest on SchedulerProofs: IInv, SerialQueue, SerialStatus and LegalStep. *)
(***************************************************************************)
EXTENDS SchedulerProofs

USE DEF api, database, executor, history

\* What every state satisfies when no two deliveries of a scan overlap.
SInv == IInv /\ SerialQueue /\ SerialStatus

\* Without replays it is invariant.
LEMMA SInvAlways ==
  ASSUME MaxReplays = 0
  PROVE  Spec => []SInv
  <1>1. IInv /\ SerialQueue /\ SerialStatus => SInv
    BY DEF SInv
  <1>2. QED BY <1>1, Inductive, Serial, PTL

-----------------------------------------------------------------------------
(* Who writes what *)

\* Only Notify posts.
LEMMA NotifiedBy ==
  ASSUME [Next]_vars, notified' # notified
  PROVE  \E e \in Executors : Notify(e)
  BY DEF Next, ApiStep, LoadStep, ExecutorStep, FaultStep, vars, Submit,
         CommitRequest, AbortRequest, Replay, LoseDelivery, LoadQueued, LoadSkips,
         LoadFails, Take, Claim, Plan, PlanFails, StartRead, StartWrite, StartJob,
         RunTool, ToolFails, FinishJob, NormalizeRead, NormalizeWrite, Persist,
         CompleteRead, CompleteWrite, Notify, FailRead, FailWrite, DatabaseError,
         Crash, Timeout

\* Only Persist stores findings.
LEMMA StoredBy ==
  ASSUME [Next]_vars, rows' # rows
  PROVE  \E e \in Executors : Persist(e)
  BY DEF Next, ApiStep, LoadStep, ExecutorStep, FaultStep, vars, Submit,
         CommitRequest, AbortRequest, Replay, LoseDelivery, LoadQueued, LoadSkips,
         LoadFails, Take, Claim, Plan, PlanFails, StartRead, StartWrite, StartJob,
         RunTool, ToolFails, FinishJob, NormalizeRead, NormalizeWrite, Persist,
         CompleteRead, CompleteWrite, Notify, FailRead, FailWrite, DatabaseError,
         Crash, Timeout

\* A step writes the status of one scan at most.
LEMMA WritesOne ==
  ASSUME TypeOK, ControlOK, RowOK, SerialStatus, [Next]_vars, status' # status
  PROVE  \E s \in Scans, st \in ScanStatus :
           status' = [status EXCEPT ![s] = st]
  <1> USE ScansAssumption DEF SetStatus, ControlOK, TypeOK, ScanStatus
  <1> QED
    BY DEF Next, ApiStep, LoadStep, ExecutorStep, FaultStep, vars, Submit,
         CommitRequest, AbortRequest, Replay, LoseDelivery, LoadQueued, LoadSkips,
         LoadFails, Take, Claim, Plan, PlanFails, StartRead, StartWrite, StartJob,
         RunTool, ToolFails, FinishJob, NormalizeRead, NormalizeWrite, Persist,
         CompleteRead, CompleteWrite, Notify, FailRead, FailWrite, DatabaseError,
         Crash, Timeout

\* A completed scan stays completed: the table has no way out.
LEMMA CompletedStays ==
  ASSUME SInv, [Next]_vars, NEW s \in Scans, status[s] = "completed"
  PROVE  status'[s] = "completed"
  <1>1. Legal
    BY LegalStep DEF SInv, IInv
  <1>2. \A to : ~ScanMayMove("completed", to)
    BY DEF ScanMayMove, ScanTransitions
  <1>3. QED
    BY <1>1, <1>2 DEF Legal

-----------------------------------------------------------------------------
(* Notifications *)

\* Who posts has completed its scan, and it stays completed.
LEMMA NotifiedNext ==
  SInv /\ NotifiedScanIsCompleted /\ [Next]_vars => NotifiedScanIsCompleted'
  <1> SUFFICES ASSUME SInv, NotifiedScanIsCompleted, [Next]_vars, NEW n \in notified'
               PROVE  n.status = "completed" /\ status'[n.scan] = "completed"
    BY DEF NotifiedScanIsCompleted
  <1>1. CASE n \in notified
    <2>1. n.scan \in Scans
      BY <1>1 DEF SInv, IInv, TypeOK
    <2>2. QED
      BY <1>1, <2>1, CompletedStays DEF NotifiedScanIsCompleted
  <1>2. CASE n \notin notified
    <2>1. PICK e \in Executors : Notify(e)
      BY <1>2, NotifiedBy
    <2>2. /\ pc[e] = "notify" /\ status' = status
          /\ n = [scan |-> on[e], status |-> status[on[e]]]
      BY <1>2, <2>1 DEF Notify
    <2>3. status[on[e]] = "completed"
      BY <2>2 DEF SInv, SerialStatus, Fits
    <2>4. QED
      BY <2>2, <2>3
  <1>3. QED
    BY <1>1, <1>2

\* A scan.completed notification carries "completed", and whoever receives it
\* finds the scan completed from then on.
THEOREM Notifications ==
  ASSUME MaxReplays = 0
  PROVE  Spec => []NotifiedScanIsCompleted
  <1>1. Init => NotifiedScanIsCompleted
    BY DEF Init, NotifiedScanIsCompleted
  <1>2. QED BY <1>1, NotifiedNext, SInvAlways, PTL DEF Spec

-----------------------------------------------------------------------------
(* Executions without a fault *)

\* Faults are counted for good.
LEMMA NoFault ==
  ASSUME TypeOK, NEW kind, Fault(kind)
  PROVE  faults' # 0
  BY DEF TypeOK, Fault

\* Without a fault every step keeps CleanOK: the status e expects is there, so
\* no transition is refused, and e fails only from its plan.
LEMMA CleanNext == SInv /\ CleanOK /\ [Next]_vars => CleanOK'
  <1> SUFFICES ASSUME SInv, CleanOK, [Next]_vars, faults' = 0,
                      NEW x \in Executors
               PROVE  Tidy(x)'
    BY DEF CleanOK
  <1>a. TypeOK /\ ControlOK /\ RowOK /\ JobsOK /\ SerialStatus
    BY DEF SInv, IInv
  <1>b. faults = 0 => Tidy(x)
    BY DEF CleanOK
  <1>c. on[x] \in Scans /\ status[on[x]] = "completed" => status'[on[x]] = "completed"
    BY CompletedStays
  <1> USE <1>a, <1>b, <1>c, ScansAssumption
          DEF TypeOK, ControlOK, SerialStatus, Fits, Tidy, Goto, SetStatus, AssertScan,
              NoteRace, Early, Late, Claimed
  <1>1. ASSUME NEW s \in Scans, Submit(s) PROVE Tidy(x)'
    BY <1>1 DEF Submit
  <1>2. ASSUME NEW s \in Scans, CommitRequest(s) PROVE Tidy(x)'
    BY <1>2 DEF CommitRequest
  <1>3. ASSUME NEW s \in Scans, AbortRequest(s) PROVE Tidy(x)'
    BY <1>3, NoFault DEF AbortRequest
  <1>4. ASSUME NEW s \in Scans, Replay(s) PROVE Tidy(x)'
    BY <1>4 DEF Replay
  <1>5. ASSUME NEW s \in Scans, LoseDelivery(s) PROVE Tidy(x)'
    BY <1>5, NoFault DEF LoseDelivery
  <1>6. ASSUME NEW e \in Executors, NEW s \in Scans, LoadQueued(e, s) PROVE Tidy(x)'
    BY <1>6 DEF LoadQueued, Take
  <1>7. ASSUME NEW e \in Executors, NEW s \in Scans, LoadSkips(e, s) PROVE Tidy(x)'
    BY <1>7 DEF LoadSkips, Take
  <1>8. ASSUME NEW e \in Executors, NEW s \in Scans, LoadFails(e, s) PROVE Tidy(x)'
    BY <1>8, NoFault DEF LoadFails, Take
  <1>9. ASSUME NEW e \in Executors, Claim(e) PROVE Tidy(x)'
    BY <1>9 DEF Claim
  <1>10. ASSUME NEW e \in Executors, Plan(e) PROVE Tidy(x)'
    BY <1>10 DEF Plan
  <1>11. ASSUME NEW e \in Executors, PlanFails(e) PROVE Tidy(x)'
    BY <1>11 DEF PlanFails
  <1>12. ASSUME NEW e \in Executors, StartRead(e) PROVE Tidy(x)'
    BY <1>12 DEF StartRead, ScanMayMove, ScanTransitions
  <1>13. ASSUME NEW e \in Executors, StartWrite(e) PROVE Tidy(x)'
    <2>1. CASE x = e
      <3>1. pc'[e] = "jobs" /\ on' = on /\ pc[e] = "startWrite"
        BY <1>13 DEF StartWrite
      <3>2. PlanSize[on[e]] \in Nat
        BY <3>1, PlanAssumption
      <3>3. job'[e] = [i \in JobNo |-> IF i <= PlanSize[on[e]] THEN "queued" ELSE "none"]
        BY <1>13 DEF StartWrite
      <3>4. \A i \in JobNo : i > PlanSize[on[e]] => job'[e][i] = "none"
        BY <3>2, <3>3 DEF JobNo
      <3>5. QED
        BY <2>1, <3>1, <3>4
    <2>2. CASE x # e
      <3>1. /\ pc'[x] = pc[x] /\ on' = on /\ job'[x] = job[x] /\ faults = 0
            /\ pc[x] = "done" => on[x] \in Scans
        BY <1>13, <2>2 DEF StartWrite
      <3>2. QED
        BY <3>1
    <2>3. QED
      BY <2>1, <2>2
  <1>14. ASSUME NEW e \in Executors, StartJob(e) PROVE Tidy(x)'
    BY <1>14, PlanAssumption DEF StartJob, JobNo
  <1>15. ASSUME NEW e \in Executors, RunTool(e) PROVE Tidy(x)'
    BY <1>15 DEF RunTool
  <1>16. ASSUME NEW e \in Executors, ToolFails(e) PROVE Tidy(x)'
    BY <1>16, PlanAssumption DEF ToolFails, JobNo
  <1>17. ASSUME NEW e \in Executors, FinishJob(e) PROVE Tidy(x)'
    BY <1>17, PlanAssumption DEF FinishJob, JobNo
  <1>18. ASSUME NEW e \in Executors, NormalizeRead(e) PROVE Tidy(x)'
    BY <1>18 DEF NormalizeRead, ScanMayMove, ScanTransitions
  <1>19. ASSUME NEW e \in Executors, NormalizeWrite(e) PROVE Tidy(x)'
    BY <1>19 DEF NormalizeWrite
  <1>20. ASSUME NEW e \in Executors, Persist(e) PROVE Tidy(x)'
    BY <1>20 DEF Persist
  <1>21. ASSUME NEW e \in Executors, CompleteRead(e) PROVE Tidy(x)'
    BY <1>21 DEF CompleteRead, ScanMayMove, ScanTransitions
  <1>22. ASSUME NEW e \in Executors, CompleteWrite(e) PROVE Tidy(x)'
    BY <1>22 DEF CompleteWrite
  <1>23. ASSUME NEW e \in Executors, Notify(e) PROVE Tidy(x)'
    BY <1>23, PlanAssumption DEF Notify, JobsOK, JobNo
  <1>24. ASSUME NEW e \in Executors, FailRead(e) PROVE Tidy(x)'
    BY <1>24 DEF FailRead
  <1>25. ASSUME NEW e \in Executors, FailWrite(e) PROVE Tidy(x)'
    BY <1>25 DEF FailWrite
  <1>26. ASSUME NEW e \in Executors, DatabaseError(e) PROVE Tidy(x)'
    BY <1>26, NoFault DEF DatabaseError
  <1>27. ASSUME NEW e \in Executors, Crash(e) PROVE Tidy(x)'
    BY <1>27, NoFault DEF Crash
  <1>28. ASSUME NEW e \in Executors, Timeout(e) PROVE Tidy(x)'
    BY <1>28, NoFault DEF Timeout
  <1>29. CASE UNCHANGED vars
    BY <1>29 DEF vars
  <1> QED
    BY <1>1, <1>2, <1>3, <1>4, <1>5, <1>6, <1>7, <1>8, <1>9,
       <1>10, <1>11, <1>12, <1>13, <1>14, <1>15, <1>16, <1>17, <1>18,
       <1>19, <1>20, <1>21, <1>22, <1>23, <1>24, <1>25, <1>26, <1>27,
       <1>28, <1>29        DEF Next, ApiStep, LoadStep, ExecutorStep,
       FaultStep


\* What CleanOK says when a scan is over is what CleanFinish says: nobody is
\* at work on it, and executors that failed never had a job.
LEMMA CleanEnd == SInv /\ CleanOK => CleanFinish
  <1> SUFFICES ASSUME SInv, CleanOK, faults = 0, NEW s \in Scans
               PROVE  /\ status[s] \in {"completed", "failed"} =>
                           \A e \in Executors, i \in JobNo :
                             on[e] = s => job[e][i] \in {"none", "completed", "failed"}
                      /\ status[s] = "failed" => \A r \in rows : r.scan # s
    BY DEF CleanFinish
  <1> USE DEF SInv, IInv, SerialStatus
  <1>1. ASSUME status[s] \in {"completed", "failed"}, NEW e \in Executors, NEW i \in JobNo,
               on[e] = s
        PROVE  job[e][i] \in {"none", "completed", "failed"}
    <2>1. pc[e] \notin {"jobs", "tool", "parse"} /\ pc[e] # "dead"
      BY <1>1 DEF Fits, CleanOK, Tidy
    <2>2. CASE pc[e] \in Late
      <3>1. turn[e] = PlanSize[s] /\ PlanSize[s] \in Nat
        BY <1>1, <2>2, PlanAssumption DEF ControlOK
      <3>2. CASE i <= PlanSize[s]
        BY <2>2, <3>1, <3>2 DEF JobsOK, JobNo
      <3>3. CASE i > PlanSize[s]
        BY <1>1, <2>2, <3>3 DEF CleanOK, Tidy
      <3>4. QED
        BY <3>1, <3>2, <3>3 DEF JobNo
    <2>3. CASE pc[e] \in Early \cup {"failRead", "failWrite"}
      BY <2>3 DEF CleanOK, Tidy
    <2>4. CASE pc[e] = "done"
      BY <2>4 DEF CleanOK, Tidy
    <2>5. QED
      BY <2>1, <2>2, <2>3, <2>4 DEF TypeOK, PC, Early, Late
  <1>2. ASSUME status[s] = "failed", NEW r \in rows, r.scan = s
        PROVE  FALSE
    <2>1. /\ r.by \in Executors /\ r \in FindingsOf(r.by)
          /\ pc[r.by] \notin Early \cup {"jobs", "tool", "parse"}
      BY DEF RowsOK, TypeOK
    <2>2. on[r.by] = s /\ r.fp \in AllFound(r.by)
      BY <1>2, <2>1 DEF FindingsOf
    <2>3. PICK i \in JobNo : r.fp \in found[r.by][i]
      BY <2>2 DEF AllFound
    <2>4. job[r.by][i] = "completed"
      BY <2>1, <2>3 DEF JobsOK
    <2>5. Tidy(r.by) /\ Fits(pc[r.by], "failed")
      BY <1>2, <2>1, <2>2 DEF CleanOK
    <2>6. pc[r.by] \in {"normWrite", "persist"}
      BY <1>2, <2>1, <2>2, <2>4, <2>5 DEF Tidy, Fits, TypeOK, PC, Early
    <2>7. QED
      BY <2>5, <2>6 DEF Fits
  <1>3. QED
    BY <1>1, <1>2

\* Without a fault a finished scan leaves no job open, and a failed one has
\* no findings.
THEOREM NothingHalfDone ==
  ASSUME MaxReplays = 0
  PROVE  Spec => []CleanFinish
  <1>1. Init => CleanOK
    BY DEF Init, CleanOK, Tidy, Early, Late
  <1>2. SInv /\ CleanOK => CleanFinish
    BY CleanEnd
  <1>3. QED BY <1>1, <1>2, CleanNext, SInvAlways, PTL DEF Spec

-----------------------------------------------------------------------------
(* The promise *)

\* The phases of the statuses, one by one.
LEMMA Phases ==
  /\ PhaseOf("absent") = "unknown"
  /\ PhaseOf("queued") = "accepted"
  /\ \A st \in {"planning", "running", "normalizing"} : PhaseOf(st) = "working"
  /\ PhaseOf("completed") = "completed" /\ PhaseOf("failed") = "failed"
  BY DEF PhaseOf

\* Nothing is stored for a scan before its executor persists: whoever stored
\* something claimed the scan, and two claims need a race.
LEMMA NothingStored ==
  ASSUME SInv, NEW e \in Executors, pc[e] = "persist", NEW f \in Fingerprints
  PROVE  Copies(on[e], f) = {}
  <1> SUFFICES ASSUME NEW r \in rows, r.scan = on[e] PROVE FALSE
    BY DEF Copies
  <1> USE DEF SInv, IInv
  <1>1. e \in claimed
    BY DEF ControlOK, Claimed
  <1>2. r.by \in claimed /\ on[r.by] = on[e] /\ r.by \in Executors /\ on[e] \in Scans
    BY DEF RowsOK, FindingsOf, TypeOK, FindingRow
  <1>3. r.by = e
    BY <1>1, <1>2 DEF SerialQueue, ExclusiveUnlessRaced
  <1>4. QED
    BY <1>3 DEF RowsOK

\* Storing the findings of e is publishing them: one of each fingerprint, and
\* no other scan's are touched.
LEMMA PublishStep ==
  ASSUME SInv, NEW e \in Executors, Persist(e)
  PROVE  Promise!Publish(on[e])
  <1> USE DEF SInv, IInv
  <1>1. /\ pc[e] = "persist" /\ status' = status
        /\ rows' = rows \cup FindingsOf(e)
    BY DEF Persist
  <1>2. PICK s \in Scans : s = on[e]
    BY <1>1 DEF ControlOK, TypeOK
  <1>3. status[s] = "normalizing"
    BY <1>1, <1>2 DEF SerialStatus, Fits
  <1>4. AllFound(e) \subseteq Fingerprints
    BY DEF AllFound, TypeOK
  <1>5. \A f \in Fingerprints : CopyCount(s, f) = 0
    BY <1>1, <1>2, NothingStored DEF CopyCount
  <1>6. ASSUME NEW f \in Fingerprints
        PROVE  CopyCount(s, f)' = IF f \in AllFound(e) THEN 1 ELSE 0
    <2>1. Copies(s, f) = {}
      BY <1>1, <1>2, NothingStored
    <2>2. Copies(s, f)' = {r \in FindingsOf(e) : r.fp = f}
      <3>1. \A r \in rows : ~(r.scan = s /\ r.fp = f)
        BY <2>1 DEF Copies
      <3>2. \A r \in FindingsOf(e) : r.scan = s
        BY <1>2 DEF FindingsOf
      <3>3. Copies(s, f)' = {r \in rows \cup FindingsOf(e) : r.scan = s /\ r.fp = f}
        BY <1>1 DEF Copies, Persist
      <3>4. QED
        BY <3>1, <3>2, <3>3
    <2>3. CASE f \in AllFound(e)
      <3>1. Copies(s, f)' = {[scan |-> s, fp |-> f, by |-> e]}
        BY <1>2, <2>2, <2>3 DEF FindingsOf
      <3>2. QED
        BY <2>3, <3>1 DEF CopyCount
    <2>4. CASE f \notin AllFound(e)
      <3>1. Copies(s, f)' = {}
        BY <1>2, <2>2, <2>4 DEF FindingsOf
      <3>2. QED
        BY <2>4, <3>1 DEF CopyCount
    <2>5. QED
      BY <2>3, <2>4
  <1>7. ASSUME NEW t \in Scans, t # s, NEW f \in Fingerprints
        PROVE  CopyCount(t, f)' = CopyCount(t, f)
    <2>1. Copies(t, f)' = Copies(t, f)
      BY <1>1, <1>2, <1>7 DEF Copies, FindingsOf
    <2>2. QED
      BY <2>1 DEF CopyCount
  <1> DEFINE results == [t \in Scans |-> [f \in Fingerprints |-> CopyCount(t, f)]]
  <1>8. results[s] = [f \in Fingerprints |-> 0]
    BY <1>2, <1>5
  <1>9. results' = [results EXCEPT ![s] = [f \in Fingerprints |->
                                             IF f \in AllFound(e) THEN 1 ELSE 0]]
    <2> DEFINE one == [f \in Fingerprints |-> IF f \in AllFound(e) THEN 1 ELSE 0]
    <2>1. results'[s] = one
      <3>1. results'[s] = [f \in Fingerprints |-> CopyCount(s, f)']
        BY <1>2
      <3>2. QED
        BY <1>6, <3>1
    <2>2. ASSUME NEW t \in Scans, t # s PROVE results'[t] = results[t]
      <3>1. results'[t] = [f \in Fingerprints |-> CopyCount(t, f)']
        OBVIOUS
      <3>2. QED
        BY <1>7, <2>2, <3>1
    <2>4. \A t \in Scans : results'[t] = IF t = s THEN one ELSE results[t]
      BY <2>1, <2>2
    <2>5. results = [t \in Scans |-> results[t]] /\ results' = [t \in Scans |-> results'[t]]
      OBVIOUS
    <2> HIDE DEF results
    <2>6. QED
      BY <1>2, <2>4, <2>5
  <1>10. QED
    BY <1>1, <1>2, <1>3, <1>4, <1>8, <1>9, Phases
       DEF Promise!Publish, Promise!NoResults, Promise!OneOfEach

\* Writing a status moves the scan's phase and leaves the results alone.
LEMMA MoveStep ==
  ASSUME TypeOK, NEW s \in Scans, NEW st, status' = [status EXCEPT ![s] = st],
         rows' = rows, NEW from, PhaseOf(status[s]) \in from
  PROVE  Promise!Move(s, from, PhaseOf(st))
  <1>1. \A t \in Scans, f \in Fingerprints : CopyCount(t, f)' = CopyCount(t, f)
    BY DEF CopyCount, Copies
  <1>2. \A t \in Scans : status'[t] = IF t = s THEN st ELSE status[t]
    BY DEF TypeOK
  <1>3. \A t \in Scans :
          PhaseOf(status[t])' = IF t = s THEN PhaseOf(st) ELSE PhaseOf(status[t])
    BY <1>2 DEF PhaseOf
  <1> DEFINE bar == [t \in Scans |-> PhaseOf(status[t])]
  <1>4. bar' = [bar EXCEPT ![s] = PhaseOf(st)]
    <2>1. \A t \in Scans : bar'[t] = IF t = s THEN PhaseOf(st) ELSE bar[t]
      BY <1>3
    <2>2. DOMAIN bar = Scans /\ DOMAIN bar' = Scans
      OBVIOUS
    <2>3. bar = [t \in Scans |-> bar[t]] /\ bar' = [t \in Scans |-> bar'[t]]
      OBVIOUS
    <2> HIDE DEF bar
    <2>4. QED
      BY <2>1, <2>2, <2>3
  <1>5. [t \in Scans |-> [f \in Fingerprints |-> CopyCount(t, f)']]
          = [t \in Scans |-> [f \in Fingerprints |-> CopyCount(t, f)]]
    BY <1>1
  <1>6. QED
    BY <1>4, <1>5 DEF Promise!Move

\* A step between two statuses of one phase is none of the promise.
LEMMA StutterStep ==
  ASSUME \A s \in Scans : PhaseOf(status'[s]) = PhaseOf(status[s]), rows' = rows
  PROVE  UNCHANGED Promise!promiseVars
  <1>1. \A t \in Scans, f \in Fingerprints : CopyCount(t, f)' = CopyCount(t, f)
    BY DEF CopyCount, Copies
  <1>2. \A t \in Scans : PhaseOf(status[t])' = PhaseOf(status'[t])
    BY DEF PhaseOf
  <1>3. QED
    BY <1>1, <1>2 DEF Promise!promiseVars

\* Every step of the scheduler is a step of the promise or none.
LEMMA PromiseStep == SInv /\ SInv' /\ [Next]_vars => [Promise!Next]_(Promise!promiseVars)
  <1> SUFFICES ASSUME SInv, SInv', [Next]_vars
               PROVE  Promise!Next \/ UNCHANGED Promise!promiseVars
    OBVIOUS
  <1>1. CASE rows' # rows
    <2>1. PICK e \in Executors : Persist(e)
      BY <1>1, StoredBy
    <2>2. on[e] \in Scans
      BY <2>1 DEF SInv, IInv, ControlOK, TypeOK, Persist
    <2>3. QED
      BY <2>1, <2>2, PublishStep DEF Promise!Next
  <1>2. CASE rows' = rows /\ status' = status
    BY <1>2, StutterStep
  <1>3. CASE rows' = rows /\ status' # status
    <2>1. PICK s \in Scans, st \in ScanStatus : status' = [status EXCEPT ![s] = st]
      BY <1>3, WritesOne DEF SInv, IInv
    <2>2. status'[s] = st /\ st # "cancelled" /\ status[s] # st
      BY <1>3, <2>1 DEF SInv, IInv, TypeOK, SerialStatus
    <2>3. \/ status[s] = "absent" /\ st = "queued"
          \/ status[s] = "queued" /\ st \in {"planning", "failed"}
          \/ status[s] \in {"planning", "running"} /\ st \in {"running", "normalizing"}
          \/ /\ status[s] \in {"planning", "running", "normalizing"}
             /\ st \in {"completed", "failed"}
      BY <2>1, <2>2, LegalStep DEF SInv, IInv, Legal, ScanMayMove, ScanTransitions
    <2>4. CASE status[s] = "absent" /\ st = "queued"
      BY <1>3, <2>1, <2>4, MoveStep, Phases DEF SInv, IInv, Promise!Next
    <2>5. CASE status[s] = "queued" /\ st = "planning"
      BY <1>3, <2>1, <2>5, MoveStep, Phases DEF SInv, IInv, Promise!Next
    <2>6. CASE status[s] = "queued" /\ st = "failed"
      BY <1>3, <2>1, <2>6, MoveStep, Phases DEF SInv, IInv, Promise!Next
    <2>7. CASE status[s] \in {"planning", "running"} /\ st \in {"running", "normalizing"}
      <3>1. \A t \in Scans : PhaseOf(status'[t]) = PhaseOf(status[t])
        BY <2>1, <2>7, Phases DEF SInv, IInv, TypeOK
      <3>2. QED
        BY <1>3, <3>1, StutterStep
    <2>8. CASE status[s] \in {"planning", "running", "normalizing"} /\ st = "completed"
      BY <1>3, <2>1, <2>8, MoveStep, Phases DEF SInv, IInv, Promise!Next
    <2>9. CASE status[s] \in {"planning", "running", "normalizing"} /\ st = "failed"
      BY <1>3, <2>1, <2>9, MoveStep, Phases DEF SInv, IInv, Promise!Next
    <2>10. QED
      BY <2>3, <2>4, <2>5, <2>6, <2>7, <2>8, <2>9
  <1>4. QED
    BY <1>1, <1>2, <1>3

\* Nothing is known nor stored of any scan at first.
LEMMA PromiseInit == Init => Promise!Init
  <1> SUFFICES ASSUME Init PROVE Promise!Init
    OBVIOUS
  <1>1. \A s \in Scans : PhaseOf(status[s]) = "unknown"
    BY Phases DEF Init
  <1>2. \A s \in Scans, f \in Fingerprints : CopyCount(s, f) = 0
    BY DEF Init, CopyCount, Copies
  <1>3. QED
    BY <1>1, <1>2 DEF Promise!Init, Promise!NoResults

\* The scheduler implements its promise: whatever crashes, times out or is
\* delivered again, a scan's findings are published once and together, while
\* it is worked on, and it ends completed or failed for good.
THEOREM Implements ==
  ASSUME MaxReplays = 0
  PROVE  Spec => KeepsPromise
  <1>1. QED
    BY PromiseInit, PromiseStep, SInvAlways, PTL DEF Spec, KeepsPromise, Promise!Spec
==============================================================================
