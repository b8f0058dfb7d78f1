--------------------------- MODULE SchedulerProofs ---------------------------
(***************************************************************************)
(* TLAPS proofs about Scheduler, for every set of scans, executors and     *)
(* fingerprints, every plan and every number of replays and faults.        *)
(***************************************************************************)
EXTENDS Scheduler, TLAPS

USE DEF api, database, executor, history

\* The initial states are well typed and no executor is in the middle of anything.
LEMMA TypeInit == Init => TypeOK /\ ControlOK
BY ScansAssumption, PlanAssumption
   DEF Init, TypeOK, ControlOK, PC, JobRow, JobStatus, Early, Late, Claimed

\* Every step keeps the types.  That an executor at work has a scan, and that
\* its turn is within its plan, comes from ControlOK.
LEMMA TypeNext == TypeOK /\ ControlOK /\ [Next]_vars => TypeOK'
  <1> SUFFICES ASSUME TypeOK, ControlOK, [Next]_vars PROVE TypeOK'
    OBVIOUS
  <1> USE ScansAssumption, PlanAssumption
          DEF TypeOK, Goto, SetStatus, AssertScan, Fault, NoteRace, PC, JobRow, JobStatus,
              ScanStatus
  <1>1. ASSUME NEW s \in Scans, Submit(s) PROVE TypeOK'
    BY <1>1 DEF Submit
  <1>2. ASSUME NEW s \in Scans, CommitRequest(s) PROVE TypeOK'
    BY <1>2 DEF CommitRequest
  <1>3. ASSUME NEW s \in Scans, AbortRequest(s) PROVE TypeOK'
    BY <1>3 DEF AbortRequest
  <1>4. ASSUME NEW s \in Scans, Replay(s) PROVE TypeOK'
    BY <1>4 DEF Replay
  <1>5. ASSUME NEW s \in Scans, LoseDelivery(s) PROVE TypeOK'
    BY <1>5 DEF LoseDelivery
  <1>6. ASSUME NEW e \in Executors, NEW s \in Scans, LoadQueued(e, s) PROVE TypeOK'
    BY <1>6 DEF LoadQueued, Take
  <1>7. ASSUME NEW e \in Executors, NEW s \in Scans, LoadSkips(e, s) PROVE TypeOK'
    BY <1>7 DEF LoadSkips, Take
  <1>8. ASSUME NEW e \in Executors, NEW s \in Scans, LoadFails(e, s) PROVE TypeOK'
    BY <1>8 DEF LoadFails, Take
  <1>9. ASSUME NEW e \in Executors, Claim(e) PROVE TypeOK'
    BY <1>9 DEF Claim
  <1>10. ASSUME NEW e \in Executors, Plan(e) PROVE TypeOK'
    BY <1>10 DEF Plan
  <1>11. ASSUME NEW e \in Executors, PlanFails(e) PROVE TypeOK'
    BY <1>11 DEF PlanFails
  <1>12. ASSUME NEW e \in Executors, StartRead(e) PROVE TypeOK'
    BY <1>12 DEF StartRead
  <1>13. ASSUME NEW e \in Executors, StartWrite(e) PROVE TypeOK'
    BY <1>13 DEF StartWrite
  <1>14. ASSUME NEW e \in Executors, StartJob(e) PROVE TypeOK'
    BY <1>14 DEF StartJob, JobNo, ControlOK, Claimed, Early, Late
  <1>15. ASSUME NEW e \in Executors, RunTool(e) PROVE TypeOK'
    BY <1>15 DEF RunTool, JobNo, ControlOK, Claimed, Early, Late
  <1>16. ASSUME NEW e \in Executors, ToolFails(e) PROVE TypeOK'
    BY <1>16 DEF ToolFails, JobNo, ControlOK, Claimed, Early, Late
  <1>17. ASSUME NEW e \in Executors, FinishJob(e) PROVE TypeOK'
    BY <1>17 DEF FinishJob, JobNo, ControlOK, Claimed, Early, Late
  <1>18. ASSUME NEW e \in Executors, NormalizeRead(e) PROVE TypeOK'
    BY <1>18 DEF NormalizeRead
  <1>19. ASSUME NEW e \in Executors, NormalizeWrite(e) PROVE TypeOK'
    BY <1>19 DEF NormalizeWrite
  <1>20. ASSUME NEW e \in Executors, Persist(e) PROVE TypeOK'
    BY <1>20
       DEF Persist, FindingsOf, AllFound, FindingRow, JobNo, ControlOK, Claimed, Early,
           Late
  <1>21. ASSUME NEW e \in Executors, CompleteRead(e) PROVE TypeOK'
    BY <1>21 DEF CompleteRead
  <1>22. ASSUME NEW e \in Executors, CompleteWrite(e) PROVE TypeOK'
    BY <1>22 DEF CompleteWrite
  <1>23. ASSUME NEW e \in Executors, Notify(e) PROVE TypeOK'
    BY <1>23 DEF Notify, JobNo, ControlOK, Claimed, Early, Late
  <1>24. ASSUME NEW e \in Executors, FailRead(e) PROVE TypeOK'
    BY <1>24 DEF FailRead
  <1>25. ASSUME NEW e \in Executors, FailWrite(e) PROVE TypeOK'
    BY <1>25 DEF FailWrite
  <1>26. ASSUME NEW e \in Executors, DatabaseError(e) PROVE TypeOK'
    BY <1>26 DEF DatabaseError
  <1>27. ASSUME NEW e \in Executors, Crash(e) PROVE TypeOK'
    BY <1>27 DEF Crash, JobNo, ControlOK, Claimed, Early, Late, Stopped
  <1>28. ASSUME NEW e \in Executors, Timeout(e) PROVE TypeOK'
    BY <1>28 DEF Timeout
  <1>29. CASE UNCHANGED vars
    BY <1>29 DEF vars
  <1>. QED
    BY <1>1, <1>2, <1>3, <1>4, <1>5, <1>6, <1>7, <1>8, <1>9, <1>10, <1>11,
       <1>12, <1>13, <1>14, <1>15, <1>16, <1>17, <1>18, <1>19, <1>20, <1>21,
       <1>22, <1>23, <1>24, <1>25, <1>26, <1>27, <1>28, <1>29 DEF Next,
       ApiStep, LoadStep, ExecutorStep, FaultStep

\* Every step keeps an executor's program counter in agreement with its scan,
\* its claim and its turn.
LEMMA ControlNext == TypeOK /\ ControlOK /\ [Next]_vars => ControlOK'
  <1> SUFFICES ASSUME TypeOK, ControlOK, [Next]_vars PROVE ControlOK'
    OBVIOUS
  <1> USE ScansAssumption, PlanAssumption
          DEF TypeOK, ControlOK, Goto, AssertScan, Fault, NoteRace, PC, Claimed, Early,
              Late, Stopped
  <1>1. ASSUME NEW s \in Scans, Submit(s) PROVE ControlOK'
    BY <1>1 DEF Submit
  <1>2. ASSUME NEW s \in Scans, CommitRequest(s) PROVE ControlOK'
    BY <1>2 DEF CommitRequest
  <1>3. ASSUME NEW s \in Scans, AbortRequest(s) PROVE ControlOK'
    BY <1>3 DEF AbortRequest
  <1>4. ASSUME NEW s \in Scans, Replay(s) PROVE ControlOK'
    BY <1>4 DEF Replay
  <1>5. ASSUME NEW s \in Scans, LoseDelivery(s) PROVE ControlOK'
    BY <1>5 DEF LoseDelivery
  <1>6. ASSUME NEW e \in Executors, NEW s \in Scans, LoadQueued(e, s) PROVE ControlOK'
    BY <1>6 DEF LoadQueued, Take
  <1>7. ASSUME NEW e \in Executors, NEW s \in Scans, LoadSkips(e, s) PROVE ControlOK'
    BY <1>7 DEF LoadSkips, Take
  <1>8. ASSUME NEW e \in Executors, NEW s \in Scans, LoadFails(e, s) PROVE ControlOK'
    BY <1>8 DEF LoadFails, Take
  <1>9. ASSUME NEW e \in Executors, Claim(e) PROVE ControlOK'
    BY <1>9 DEF Claim
  <1>10. ASSUME NEW e \in Executors, Plan(e) PROVE ControlOK'
    BY <1>10 DEF Plan
  <1>11. ASSUME NEW e \in Executors, PlanFails(e) PROVE ControlOK'
    BY <1>11 DEF PlanFails
  <1>12. ASSUME NEW e \in Executors, StartRead(e) PROVE ControlOK'
    BY <1>12 DEF StartRead
  <1>13. ASSUME NEW e \in Executors, StartWrite(e) PROVE ControlOK'
    BY <1>13 DEF StartWrite
  <1>14. ASSUME NEW e \in Executors, StartJob(e) PROVE ControlOK'
    BY <1>14 DEF StartJob
  <1>15. ASSUME NEW e \in Executors, RunTool(e) PROVE ControlOK'
    BY <1>15 DEF RunTool
  <1>16. ASSUME NEW e \in Executors, ToolFails(e) PROVE ControlOK'
    BY <1>16 DEF ToolFails
  <1>17. ASSUME NEW e \in Executors, FinishJob(e) PROVE ControlOK'
    BY <1>17 DEF FinishJob
  <1>18. ASSUME NEW e \in Executors, NormalizeRead(e) PROVE ControlOK'
    BY <1>18 DEF NormalizeRead
  <1>19. ASSUME NEW e \in Executors, NormalizeWrite(e) PROVE ControlOK'
    BY <1>19 DEF NormalizeWrite
  <1>20. ASSUME NEW e \in Executors, Persist(e) PROVE ControlOK'
    BY <1>20 DEF Persist
  <1>21. ASSUME NEW e \in Executors, CompleteRead(e) PROVE ControlOK'
    BY <1>21 DEF CompleteRead
  <1>22. ASSUME NEW e \in Executors, CompleteWrite(e) PROVE ControlOK'
    BY <1>22 DEF CompleteWrite
  <1>23. ASSUME NEW e \in Executors, Notify(e) PROVE ControlOK'
    BY <1>23 DEF Notify
  <1>24. ASSUME NEW e \in Executors, FailRead(e) PROVE ControlOK'
    BY <1>24 DEF FailRead
  <1>25. ASSUME NEW e \in Executors, FailWrite(e) PROVE ControlOK'
    BY <1>25 DEF FailWrite
  <1>26. ASSUME NEW e \in Executors, DatabaseError(e) PROVE ControlOK'
    BY <1>26 DEF DatabaseError
  <1>27. ASSUME NEW e \in Executors, Crash(e) PROVE ControlOK'
    BY <1>27 DEF Crash
  <1>28. ASSUME NEW e \in Executors, Timeout(e) PROVE ControlOK'
    BY <1>28 DEF Timeout
  <1>29. CASE UNCHANGED vars
    BY <1>29 DEF vars
  <1>. QED
    BY <1>1, <1>2, <1>3, <1>4, <1>5, <1>6, <1>7, <1>8, <1>9, <1>10, <1>11,
       <1>12, <1>13, <1>14, <1>15, <1>16, <1>17, <1>18, <1>19, <1>20, <1>21,
       <1>22, <1>23, <1>24, <1>25, <1>26, <1>27, <1>28, <1>29 DEF Next,
       ApiStep, LoadStep, ExecutorStep, FaultStep

\* Every step keeps rows and requests in agreement: only the commit of the
\* request makes a row, and whoever writes a status read a row that was there.
LEMMA RowNext == TypeOK /\ ControlOK /\ RowOK /\ ClaimOK /\ [Next]_vars => RowOK'
  <1> SUFFICES ASSUME TypeOK, ControlOK, RowOK, ClaimOK, [Next]_vars PROVE RowOK'
    OBVIOUS
  <1> USE ScansAssumption
          DEF TypeOK, ControlOK, RowOK, Goto, SetStatus, AssertScan, Fault, NoteRace, PC,
              Claimed, Stopped
  <1>1. ASSUME NEW s \in Scans, Submit(s) PROVE RowOK'
    BY <1>1 DEF Submit
  <1>2. ASSUME NEW s \in Scans, CommitRequest(s) PROVE RowOK'
    BY <1>2 DEF CommitRequest
  <1>3. ASSUME NEW s \in Scans, AbortRequest(s) PROVE RowOK'
    BY <1>3 DEF AbortRequest
  <1>4. ASSUME NEW s \in Scans, Replay(s) PROVE RowOK'
    BY <1>4 DEF Replay
  <1>5. ASSUME NEW s \in Scans, LoseDelivery(s) PROVE RowOK'
    BY <1>5 DEF LoseDelivery
  <1>6. ASSUME NEW e \in Executors, NEW s \in Scans, LoadQueued(e, s) PROVE RowOK'
    BY <1>6 DEF LoadQueued, Take
  <1>7. ASSUME NEW e \in Executors, NEW s \in Scans, LoadSkips(e, s) PROVE RowOK'
    BY <1>7 DEF LoadSkips, Take
  <1>8. ASSUME NEW e \in Executors, NEW s \in Scans, LoadFails(e, s) PROVE RowOK'
    BY <1>8 DEF LoadFails, Take
  <1>9. ASSUME NEW e \in Executors, Claim(e) PROVE RowOK'
    BY <1>9 DEF Claim
  <1>10. ASSUME NEW e \in Executors, Plan(e) PROVE RowOK'
    BY <1>10 DEF Plan
  <1>11. ASSUME NEW e \in Executors, PlanFails(e) PROVE RowOK'
    BY <1>11 DEF PlanFails
  <1>12. ASSUME NEW e \in Executors, StartRead(e) PROVE RowOK'
    BY <1>12 DEF StartRead
  <1>13. ASSUME NEW e \in Executors, StartWrite(e) PROVE RowOK'
    BY <1>13 DEF StartWrite, ClaimOK
  <1>14. ASSUME NEW e \in Executors, StartJob(e) PROVE RowOK'
    BY <1>14 DEF StartJob
  <1>15. ASSUME NEW e \in Executors, RunTool(e) PROVE RowOK'
    BY <1>15 DEF RunTool
  <1>16. ASSUME NEW e \in Executors, ToolFails(e) PROVE RowOK'
    BY <1>16 DEF ToolFails
  <1>17. ASSUME NEW e \in Executors, FinishJob(e) PROVE RowOK'
    BY <1>17 DEF FinishJob
  <1>18. ASSUME NEW e \in Executors, NormalizeRead(e) PROVE RowOK'
    BY <1>18 DEF NormalizeRead
  <1>19. ASSUME NEW e \in Executors, NormalizeWrite(e) PROVE RowOK'
    BY <1>19 DEF NormalizeWrite, ClaimOK
  <1>20. ASSUME NEW e \in Executors, Persist(e) PROVE RowOK'
    BY <1>20 DEF Persist
  <1>21. ASSUME NEW e \in Executors, CompleteRead(e) PROVE RowOK'
    BY <1>21 DEF CompleteRead
  <1>22. ASSUME NEW e \in Executors, CompleteWrite(e) PROVE RowOK'
    BY <1>22 DEF CompleteWrite, ClaimOK
  <1>23. ASSUME NEW e \in Executors, Notify(e) PROVE RowOK'
    BY <1>23 DEF Notify
  <1>24. ASSUME NEW e \in Executors, FailRead(e) PROVE RowOK'
    BY <1>24 DEF FailRead
  <1>25. ASSUME NEW e \in Executors, FailWrite(e) PROVE RowOK'
    BY <1>25 DEF FailWrite
  <1>26. ASSUME NEW e \in Executors, DatabaseError(e) PROVE RowOK'
    BY <1>26 DEF DatabaseError
  <1>27. ASSUME NEW e \in Executors, Crash(e) PROVE RowOK'
    BY <1>27 DEF Crash
  <1>28. ASSUME NEW e \in Executors, Timeout(e) PROVE RowOK'
    BY <1>28 DEF Timeout
  <1>29. CASE UNCHANGED vars
    BY <1>29 DEF vars
  <1>. QED
    BY <1>1, <1>2, <1>3, <1>4, <1>5, <1>6, <1>7, <1>8, <1>9, <1>10, <1>11,
       <1>12, <1>13, <1>14, <1>15, <1>16, <1>17, <1>18, <1>19, <1>20, <1>21,
       <1>22, <1>23, <1>24, <1>25, <1>26, <1>27, <1>28, <1>29 DEF Next,
       ApiStep, LoadStep, ExecutorStep, FaultStep

\* Every step keeps the claim sound: a second executor that reads "queued"
\* while the first is undecided marks the race, and a claimed scan is never
\* queued again (scheduler.py:47-58).
LEMMA ClaimNext ==
  TypeOK /\ ControlOK /\ RowOK /\ ClaimOK /\ [Next]_vars => ClaimOK'
  <1> SUFFICES ASSUME TypeOK, ControlOK, RowOK, ClaimOK, [Next]_vars PROVE ClaimOK'
    OBVIOUS
  <1> USE ScansAssumption
          DEF TypeOK, ControlOK, RowOK, ClaimOK, Undecided, Goto, SetStatus, AssertScan,
              Fault, NoteRace, PC, Claimed, Stopped
  <1>1. ASSUME NEW s \in Scans, Submit(s) PROVE ClaimOK'
    BY <1>1 DEF Submit
  <1>2. ASSUME NEW s \in Scans, CommitRequest(s) PROVE ClaimOK'
    BY <1>2 DEF CommitRequest
  <1>3. ASSUME NEW s \in Scans, AbortRequest(s) PROVE ClaimOK'
    BY <1>3 DEF AbortRequest
  <1>4. ASSUME NEW s \in Scans, Replay(s) PROVE ClaimOK'
    BY <1>4 DEF Replay
  <1>5. ASSUME NEW s \in Scans, LoseDelivery(s) PROVE ClaimOK'
    BY <1>5 DEF LoseDelivery
  <1>6. ASSUME NEW e \in Executors, NEW s \in Scans, LoadQueued(e, s) PROVE ClaimOK'
    BY <1>6 DEF LoadQueued, Take
  <1>7. ASSUME NEW e \in Executors, NEW s \in Scans, LoadSkips(e, s) PROVE ClaimOK'
    BY <1>7 DEF LoadSkips, Take
  <1>8. ASSUME NEW e \in Executors, NEW s \in Scans, LoadFails(e, s) PROVE ClaimOK'
    BY <1>8 DEF LoadFails, Take
  <1>9. ASSUME NEW e \in Executors, Claim(e) PROVE ClaimOK'
    BY <1>9 DEF Claim
  <1>10. ASSUME NEW e \in Executors, Plan(e) PROVE ClaimOK'
    BY <1>10 DEF Plan
  <1>11. ASSUME NEW e \in Executors, PlanFails(e) PROVE ClaimOK'
    BY <1>11 DEF PlanFails
  <1>12. ASSUME NEW e \in Executors, StartRead(e) PROVE ClaimOK'
    BY <1>12 DEF StartRead
  <1>13. ASSUME NEW e \in Executors, StartWrite(e) PROVE ClaimOK'
    BY <1>13 DEF StartWrite
  <1>14. ASSUME NEW e \in Executors, StartJob(e) PROVE ClaimOK'
    BY <1>14 DEF StartJob
  <1>15. ASSUME NEW e \in Executors, RunTool(e) PROVE ClaimOK'
    BY <1>15 DEF RunTool
  <1>16. ASSUME NEW e \in Executors, ToolFails(e) PROVE ClaimOK'
    BY <1>16 DEF ToolFails
  <1>17. ASSUME NEW e \in Executors, FinishJob(e) PROVE ClaimOK'
    BY <1>17 DEF FinishJob
  <1>18. ASSUME NEW e \in Executors, NormalizeRead(e) PROVE ClaimOK'
    BY <1>18 DEF NormalizeRead
  <1>19. ASSUME NEW e \in Executors, NormalizeWrite(e) PROVE ClaimOK'
    BY <1>19 DEF NormalizeWrite
  <1>20. ASSUME NEW e \in Executors, Persist(e) PROVE ClaimOK'
    BY <1>20 DEF Persist
  <1>21. ASSUME NEW e \in Executors, CompleteRead(e) PROVE ClaimOK'
    BY <1>21 DEF CompleteRead
  <1>22. ASSUME NEW e \in Executors, CompleteWrite(e) PROVE ClaimOK'
    BY <1>22 DEF CompleteWrite
  <1>23. ASSUME NEW e \in Executors, Notify(e) PROVE ClaimOK'
    BY <1>23 DEF Notify
  <1>24. ASSUME NEW e \in Executors, FailRead(e) PROVE ClaimOK'
    BY <1>24 DEF FailRead
  <1>25. ASSUME NEW e \in Executors, FailWrite(e) PROVE ClaimOK'
    BY <1>25 DEF FailWrite
  <1>26. ASSUME NEW e \in Executors, DatabaseError(e) PROVE ClaimOK'
    BY <1>26 DEF DatabaseError
  <1>27. ASSUME NEW e \in Executors, Crash(e) PROVE ClaimOK'
    BY <1>27 DEF Crash
  <1>28. ASSUME NEW e \in Executors, Timeout(e) PROVE ClaimOK'
    BY <1>28 DEF Timeout
  <1>29. CASE UNCHANGED vars
    BY <1>29 DEF vars
  <1>. QED
    BY <1>1, <1>2, <1>3, <1>4, <1>5, <1>6, <1>7, <1>8, <1>9, <1>10, <1>11,
       <1>12, <1>13, <1>14, <1>15, <1>16, <1>17, <1>18, <1>19, <1>20, <1>21,
       <1>22, <1>23, <1>24, <1>25, <1>26, <1>27, <1>28, <1>29 DEF Next,
       ApiStep, LoadStep, ExecutorStep, FaultStep

\* So a second claim of a scan is preceded by a marked race.
LEMMA ExclusiveNext ==
  TypeOK /\ ControlOK /\ ClaimOK /\ ExclusiveUnlessRaced /\ [Next]_vars
    => ExclusiveUnlessRaced'
  <1> SUFFICES ASSUME TypeOK, ControlOK, ClaimOK, ExclusiveUnlessRaced, [Next]_vars
               PROVE  ExclusiveUnlessRaced'
    OBVIOUS
  <1> USE ScansAssumption
          DEF TypeOK, ControlOK, ClaimOK, ExclusiveUnlessRaced, Fault, NoteRace, Claimed,
              Stopped
  <1>1. ASSUME NEW s \in Scans, Submit(s) PROVE ExclusiveUnlessRaced'
    BY <1>1 DEF Submit
  <1>2. ASSUME NEW s \in Scans, CommitRequest(s) PROVE ExclusiveUnlessRaced'
    BY <1>2 DEF CommitRequest
  <1>3. ASSUME NEW s \in Scans, AbortRequest(s) PROVE ExclusiveUnlessRaced'
    BY <1>3 DEF AbortRequest
  <1>4. ASSUME NEW s \in Scans, Replay(s) PROVE ExclusiveUnlessRaced'
    BY <1>4 DEF Replay
  <1>5. ASSUME NEW s \in Scans, LoseDelivery(s) PROVE ExclusiveUnlessRaced'
    BY <1>5 DEF LoseDelivery
  <1>6. ASSUME NEW e \in Executors, NEW s \in Scans, LoadQueued(e, s) PROVE ExclusiveUnlessRaced'
    BY <1>6 DEF LoadQueued, Take
  <1>7. ASSUME NEW e \in Executors, NEW s \in Scans, LoadSkips(e, s) PROVE ExclusiveUnlessRaced'
    BY <1>7 DEF LoadSkips, Take
  <1>8. ASSUME NEW e \in Executors, NEW s \in Scans, LoadFails(e, s) PROVE ExclusiveUnlessRaced'
    BY <1>8 DEF LoadFails, Take
  <1>9. ASSUME NEW e \in Executors, Claim(e) PROVE ExclusiveUnlessRaced'
    BY <1>9 DEF Claim
  <1>10. ASSUME NEW e \in Executors, Plan(e) PROVE ExclusiveUnlessRaced'
    BY <1>10 DEF Plan
  <1>11. ASSUME NEW e \in Executors, PlanFails(e) PROVE ExclusiveUnlessRaced'
    BY <1>11 DEF PlanFails
  <1>12. ASSUME NEW e \in Executors, StartRead(e) PROVE ExclusiveUnlessRaced'
    BY <1>12 DEF StartRead
  <1>13. ASSUME NEW e \in Executors, StartWrite(e) PROVE ExclusiveUnlessRaced'
    BY <1>13 DEF StartWrite
  <1>14. ASSUME NEW e \in Executors, StartJob(e) PROVE ExclusiveUnlessRaced'
    BY <1>14 DEF StartJob
  <1>15. ASSUME NEW e \in Executors, RunTool(e) PROVE ExclusiveUnlessRaced'
    BY <1>15 DEF RunTool
  <1>16. ASSUME NEW e \in Executors, ToolFails(e) PROVE ExclusiveUnlessRaced'
    BY <1>16 DEF ToolFails
  <1>17. ASSUME NEW e \in Executors, FinishJob(e) PROVE ExclusiveUnlessRaced'
    BY <1>17 DEF FinishJob
  <1>18. ASSUME NEW e \in Executors, NormalizeRead(e) PROVE ExclusiveUnlessRaced'
    BY <1>18 DEF NormalizeRead
  <1>19. ASSUME NEW e \in Executors, NormalizeWrite(e) PROVE ExclusiveUnlessRaced'
    BY <1>19 DEF NormalizeWrite
  <1>20. ASSUME NEW e \in Executors, Persist(e) PROVE ExclusiveUnlessRaced'
    BY <1>20 DEF Persist
  <1>21. ASSUME NEW e \in Executors, CompleteRead(e) PROVE ExclusiveUnlessRaced'
    BY <1>21 DEF CompleteRead
  <1>22. ASSUME NEW e \in Executors, CompleteWrite(e) PROVE ExclusiveUnlessRaced'
    BY <1>22 DEF CompleteWrite
  <1>23. ASSUME NEW e \in Executors, Notify(e) PROVE ExclusiveUnlessRaced'
    BY <1>23 DEF Notify
  <1>24. ASSUME NEW e \in Executors, FailRead(e) PROVE ExclusiveUnlessRaced'
    BY <1>24 DEF FailRead
  <1>25. ASSUME NEW e \in Executors, FailWrite(e) PROVE ExclusiveUnlessRaced'
    BY <1>25 DEF FailWrite
  <1>26. ASSUME NEW e \in Executors, DatabaseError(e) PROVE ExclusiveUnlessRaced'
    BY <1>26 DEF DatabaseError
  <1>27. ASSUME NEW e \in Executors, Crash(e) PROVE ExclusiveUnlessRaced'
    BY <1>27 DEF Crash
  <1>28. ASSUME NEW e \in Executors, Timeout(e) PROVE ExclusiveUnlessRaced'
    BY <1>28 DEF Timeout
  <1>29. CASE UNCHANGED vars
    BY <1>29 DEF vars
  <1>. QED
    BY <1>1, <1>2, <1>3, <1>4, <1>5, <1>6, <1>7, <1>8, <1>9, <1>10, <1>11,
       <1>12, <1>13, <1>14, <1>15, <1>16, <1>17, <1>18, <1>19, <1>20, <1>21,
       <1>22, <1>23, <1>24, <1>25, <1>26, <1>27, <1>28, <1>29 DEF Next,
       ApiStep, LoadStep, ExecutorStep, FaultStep

\* Every step keeps job rows, raw outputs and returned findings in agreement
\* (scheduler.py:125-183).
LEMMA JobsNext ==
  TypeOK /\ ControlOK /\ JobsOK /\ [Next]_vars => JobsOK'
  <1> SUFFICES ASSUME TypeOK, ControlOK, JobsOK, [Next]_vars PROVE JobsOK'
    OBVIOUS
  <1> USE ScansAssumption, PlanAssumption
          DEF TypeOK, ControlOK, JobsOK, JobNo, Goto, AssertScan, Fault, PC, Claimed, Early,
              Late, Stopped
  <1>1. ASSUME NEW s \in Scans, Submit(s) PROVE JobsOK'
    BY <1>1 DEF Submit
  <1>2. ASSUME NEW s \in Scans, CommitRequest(s) PROVE JobsOK'
    BY <1>2 DEF CommitRequest
  <1>3. ASSUME NEW s \in Scans, AbortRequest(s) PROVE JobsOK'
    BY <1>3 DEF AbortRequest
  <1>4. ASSUME NEW s \in Scans, Replay(s) PROVE JobsOK'
    BY <1>4 DEF Replay
  <1>5. ASSUME NEW s \in Scans, LoseDelivery(s) PROVE JobsOK'
    BY <1>5 DEF LoseDelivery
  <1>6. ASSUME NEW e \in Executors, NEW s \in Scans, LoadQueued(e, s) PROVE JobsOK'
    BY <1>6 DEF LoadQueued, Take
  <1>7. ASSUME NEW e \in Executors, NEW s \in Scans, LoadSkips(e, s) PROVE JobsOK'
    BY <1>7 DEF LoadSkips, Take
  <1>8. ASSUME NEW e \in Executors, NEW s \in Scans, LoadFails(e, s) PROVE JobsOK'
    BY <1>8 DEF LoadFails, Take
  <1>9. ASSUME NEW e \in Executors, Claim(e) PROVE JobsOK'
    BY <1>9 DEF Claim
  <1>10. ASSUME NEW e \in Executors, Plan(e) PROVE JobsOK'
    BY <1>10 DEF Plan
  <1>11. ASSUME NEW e \in Executors, PlanFails(e) PROVE JobsOK'
    BY <1>11 DEF PlanFails
  <1>12. ASSUME NEW e \in Executors, StartRead(e) PROVE JobsOK'
    BY <1>12 DEF StartRead
  <1>13. ASSUME NEW e \in Executors, StartWrite(e) PROVE JobsOK'
    BY <1>13 DEF StartWrite
  <1>14. ASSUME NEW e \in Executors, StartJob(e) PROVE JobsOK'
    BY <1>14 DEF StartJob, JobMayMove, JobTransitions
  <1>15. ASSUME NEW e \in Executors, RunTool(e) PROVE JobsOK'
    BY <1>15 DEF RunTool
  <1>16. ASSUME NEW e \in Executors, ToolFails(e) PROVE JobsOK'
    BY <1>16 DEF ToolFails
  <1>17. ASSUME NEW e \in Executors, FinishJob(e) PROVE JobsOK'
    BY <1>17 DEF FinishJob, JobMayMove, JobTransitions
  <1>18. ASSUME NEW e \in Executors, NormalizeRead(e) PROVE JobsOK'
    BY <1>18 DEF NormalizeRead
  <1>19. ASSUME NEW e \in Executors, NormalizeWrite(e) PROVE JobsOK'
    BY <1>19 DEF NormalizeWrite
  <1>20. ASSUME NEW e \in Executors, Persist(e) PROVE JobsOK'
    BY <1>20 DEF Persist
  <1>21. ASSUME NEW e \in Executors, CompleteRead(e) PROVE JobsOK'
    BY <1>21 DEF CompleteRead
  <1>22. ASSUME NEW e \in Executors, CompleteWrite(e) PROVE JobsOK'
    BY <1>22 DEF CompleteWrite
  <1>23. ASSUME NEW e \in Executors, Notify(e) PROVE JobsOK'
    BY <1>23 DEF Notify
  <1>24. ASSUME NEW e \in Executors, FailRead(e) PROVE JobsOK'
    BY <1>24 DEF FailRead
  <1>25. ASSUME NEW e \in Executors, FailWrite(e) PROVE JobsOK'
    BY <1>25 DEF FailWrite
  <1>26. ASSUME NEW e \in Executors, DatabaseError(e) PROVE JobsOK'
    BY <1>26 DEF DatabaseError
  <1>27. ASSUME NEW e \in Executors, Crash(e) PROVE JobsOK'
    BY <1>27 DEF Crash
  <1>28. ASSUME NEW e \in Executors, Timeout(e) PROVE JobsOK'
    BY <1>28 DEF Timeout
  <1>29. CASE UNCHANGED vars
    BY <1>29 DEF vars
  <1>. QED
    BY <1>1, <1>2, <1>3, <1>4, <1>5, <1>6, <1>7, <1>8, <1>9, <1>10, <1>11,
       <1>12, <1>13, <1>14, <1>15, <1>16, <1>17, <1>18, <1>19, <1>20, <1>21,
       <1>22, <1>23, <1>24, <1>25, <1>26, <1>27, <1>28, <1>29 DEF Next,
       ApiStep, LoadStep, ExecutorStep, FaultStep

\* Every step keeps each finding traceable to the executor that stored it.
LEMMA RowsNext ==
  TypeOK /\ ControlOK /\ RowsOK /\ [Next]_vars => RowsOK'
  <1> SUFFICES ASSUME TypeOK, ControlOK, RowsOK, [Next]_vars PROVE RowsOK'
    OBVIOUS
  <1> USE ScansAssumption
          DEF TypeOK, ControlOK, RowsOK, FindingRow, FindingsOf, AllFound, Goto,
              AssertScan, Fault, PC, Claimed, Early, Late, Stopped
  <1>1. ASSUME NEW s \in Scans, Submit(s) PROVE RowsOK'
    BY <1>1 DEF Submit
  <1>2. ASSUME NEW s \in Scans, CommitRequest(s) PROVE RowsOK'
    BY <1>2 DEF CommitRequest
  <1>3. ASSUME NEW s \in Scans, AbortRequest(s) PROVE RowsOK'
    BY <1>3 DEF AbortRequest
  <1>4. ASSUME NEW s \in Scans, Replay(s) PROVE RowsOK'
    BY <1>4 DEF Replay
  <1>5. ASSUME NEW s \in Scans, LoseDelivery(s) PROVE RowsOK'
    BY <1>5 DEF LoseDelivery
  <1>6. ASSUME NEW e \in Executors, NEW s \in Scans, LoadQueued(e, s) PROVE RowsOK'
    BY <1>6 DEF LoadQueued, Take
  <1>7. ASSUME NEW e \in Executors, NEW s \in Scans, LoadSkips(e, s) PROVE RowsOK'
    BY <1>7 DEF LoadSkips, Take
  <1>8. ASSUME NEW e \in Executors, NEW s \in Scans, LoadFails(e, s) PROVE RowsOK'
    BY <1>8 DEF LoadFails, Take
  <1>9. ASSUME NEW e \in Executors, Claim(e) PROVE RowsOK'
    BY <1>9 DEF Claim
  <1>10. ASSUME NEW e \in Executors, Plan(e) PROVE RowsOK'
    BY <1>10 DEF Plan
  <1>11. ASSUME NEW e \in Executors, PlanFails(e) PROVE RowsOK'
    BY <1>11 DEF PlanFails
  <1>12. ASSUME NEW e \in Executors, StartRead(e) PROVE RowsOK'
    BY <1>12 DEF StartRead
  <1>13. ASSUME NEW e \in Executors, StartWrite(e) PROVE RowsOK'
    BY <1>13 DEF StartWrite
  <1>14. ASSUME NEW e \in Executors, StartJob(e) PROVE RowsOK'
    BY <1>14 DEF StartJob
  <1>15. ASSUME NEW e \in Executors, RunTool(e) PROVE RowsOK'
    BY <1>15 DEF RunTool
  <1>16. ASSUME NEW e \in Executors, ToolFails(e) PROVE RowsOK'
    BY <1>16 DEF ToolFails
  <1>17. ASSUME NEW e \in Executors, FinishJob(e) PROVE RowsOK'
    BY <1>17 DEF FinishJob
  <1>18. ASSUME NEW e \in Executors, NormalizeRead(e) PROVE RowsOK'
    BY <1>18 DEF NormalizeRead
  <1>19. ASSUME NEW e \in Executors, NormalizeWrite(e) PROVE RowsOK'
    BY <1>19 DEF NormalizeWrite
  <1>20. ASSUME NEW e \in Executors, Persist(e) PROVE RowsOK'
    BY <1>20 DEF Persist
  <1>21. ASSUME NEW e \in Executors, CompleteRead(e) PROVE RowsOK'
    BY <1>21 DEF CompleteRead
  <1>22. ASSUME NEW e \in Executors, CompleteWrite(e) PROVE RowsOK'
    BY <1>22 DEF CompleteWrite
  <1>23. ASSUME NEW e \in Executors, Notify(e) PROVE RowsOK'
    BY <1>23 DEF Notify
  <1>24. ASSUME NEW e \in Executors, FailRead(e) PROVE RowsOK'
    BY <1>24 DEF FailRead
  <1>25. ASSUME NEW e \in Executors, FailWrite(e) PROVE RowsOK'
    BY <1>25 DEF FailWrite
  <1>26. ASSUME NEW e \in Executors, DatabaseError(e) PROVE RowsOK'
    BY <1>26 DEF DatabaseError
  <1>27. ASSUME NEW e \in Executors, Crash(e) PROVE RowsOK'
    BY <1>27 DEF Crash
  <1>28. ASSUME NEW e \in Executors, Timeout(e) PROVE RowsOK'
    BY <1>28 DEF Timeout
  <1>29. CASE UNCHANGED vars
    BY <1>29 DEF vars
  <1>. QED
    BY <1>1, <1>2, <1>3, <1>4, <1>5, <1>6, <1>7, <1>8, <1>9, <1>10, <1>11,
       <1>12, <1>13, <1>14, <1>15, <1>16, <1>17, <1>18, <1>19, <1>20, <1>21,
       <1>22, <1>23, <1>24, <1>25, <1>26, <1>27, <1>28, <1>29 DEF Next,
       ApiStep, LoadStep, ExecutorStep, FaultStep

\* What a step leaves alone of an executor that is through with its jobs.
LEMMA PastFrame ==
  ASSUME TypeOK, ControlOK, [Next]_vars,
         NEW x \in Executors, pc[x] \notin Early \cup {"jobs", "tool", "parse"}
  PROVE  /\ pc'[x] \notin Early \cup {"jobs", "tool", "parse"}
         /\ on'[x] = on[x] /\ job'[x] = job[x] /\ found'[x] = found[x]
         /\ rows \subseteq rows' /\ embargo \subseteq embargo'
         /\ claimed \subseteq claimed'
  <1> USE DEF TypeOK, Goto, AssertScan, Early
  <1> QED
    BY DEF Next, ApiStep, LoadStep, ExecutorStep, FaultStep, vars, Submit,
           CommitRequest, AbortRequest, Replay, LoseDelivery, LoadQueued, LoadSkips,
           LoadFails, Take, Claim, Plan, PlanFails, StartRead, StartWrite, StartJob,
           RunTool, ToolFails, FinishJob, NormalizeRead, NormalizeWrite, Persist,
           CompleteRead, CompleteWrite, Notify, FailRead, FailWrite, DatabaseError,
           Crash, Timeout

\* Published is stable: findings are never changed nor deleted.
LEMMA PublishedStable ==
  ASSUME TypeOK, ControlOK, [Next]_vars, NEW x \in Executors, Published(x),
         pc[x] \notin Early \cup {"jobs", "tool", "parse"}
  PROVE  Published(x)'
  <1>1. FindingsOf(x)' = FindingsOf(x)
    BY PastFrame DEF FindingsOf, AllFound
  <1>2. QED
    BY <1>1, PastFrame DEF Published

\* Only Persist takes an executor past _persist_findings.
LEMMA PersistFirst ==
  ASSUME TypeOK, ControlOK, [Next]_vars, NEW x \in Executors,
         pc[x] \notin {"doneRead", "doneWrite", "notify"},
         pc'[x] \in {"doneRead", "doneWrite", "notify"}
  PROVE  Persist(x)
  <1> USE DEF TypeOK, Goto, AssertScan
  <1> QED
    BY DEF Next, ApiStep, LoadStep, ExecutorStep, FaultStep, vars, Submit,
           CommitRequest, AbortRequest, Replay, LoseDelivery, LoadQueued, LoadSkips,
           LoadFails, Take, Claim, Plan, PlanFails, StartRead, StartWrite, StartJob,
           RunTool, ToolFails, FinishJob, NormalizeRead, NormalizeWrite, Persist,
           CompleteRead, CompleteWrite, Notify, FailRead, FailWrite, DatabaseError,
           Crash, Timeout

\* Only CompleteWrite makes a scan completed.
LEMMA CompletedBy ==
  ASSUME TypeOK, ControlOK, [Next]_vars, NEW t \in Scans,
         status[t] # "completed", status'[t] = "completed"
  PROVE  \E x \in Executors : on[x] = t /\ CompleteWrite(x)
  <1> USE DEF TypeOK, SetStatus
  <1> QED
    BY DEF Next, ApiStep, LoadStep, ExecutorStep, FaultStep, vars, Submit,
           CommitRequest, AbortRequest, Replay, LoseDelivery, LoadQueued, LoadSkips,
           LoadFails, Take, Claim, Plan, PlanFails, StartRead, StartWrite, StartJob,
           RunTool, ToolFails, FinishJob, NormalizeRead, NormalizeWrite, Persist,
           CompleteRead, CompleteWrite, Notify, FailRead, FailWrite, DatabaseError,
           Crash, Timeout

\* Persist publishes: the plan is done and what it found is stored.
LEMMA PersistPublishes ==
  ASSUME TypeOK, ControlOK, JobsOK, NEW x \in Executors, Persist(x)
  PROVE  Published(x)'
  <1>1. /\ on' = on /\ job' = job /\ found' = found
        /\ rows' = rows \cup FindingsOf(x)
        /\ on[x] \in RvdScans => embargo' = embargo \cup FindingsOf(x)
    BY DEF Persist
  <1>2. FindingsOf(x)' = FindingsOf(x)
    BY <1>1 DEF FindingsOf, AllFound
  <1>3. \A i \in 1..PlanSize[on[x]] : job[x][i] \in {"completed", "failed"}
    BY DEF Persist, ControlOK, JobsOK, Late
  <1>4. QED
    BY <1>1, <1>2, <1>3 DEF Published

\* Every step keeps PublishOK: the execution that published a completed scan
\* stays its witness whoever overwrites the status afterwards.
LEMMA PublishNext ==
  TypeOK /\ ControlOK /\ JobsOK /\ PublishOK /\ [Next]_vars => PublishOK'
  <1> SUFFICES ASSUME TypeOK, ControlOK, JobsOK, PublishOK, [Next]_vars
               PROVE  PublishOK'
    OBVIOUS
  <1>1. ASSUME NEW x \in Executors, pc'[x] \in {"doneRead", "doneWrite", "notify"}
        PROVE  Published(x)'
    <2>1. CASE pc[x] \in {"doneRead", "doneWrite", "notify"}
      BY <2>1, PublishedStable DEF PublishOK, Early
    <2>2. CASE pc[x] \notin {"doneRead", "doneWrite", "notify"}
      BY <1>1, <2>2, PersistFirst, PersistPublishes
    <2>3. QED
      BY <2>1, <2>2
  <1>2. ASSUME NEW s \in Scans, status'[s] = "completed"
        PROVE  \E x \in claimed' : /\ on'[x] = s
                                   /\ pc'[x] \notin Early \cup {"jobs", "tool", "parse"}
                                   /\ Published(x)'
    <2>1. \E x \in claimed : /\ on[x] = s
                             /\ pc[x] \notin Early \cup {"jobs", "tool", "parse"}
                             /\ Published(x)
      <3>1. CASE status[s] = "completed"
        BY <3>1 DEF PublishOK
      <3>2. CASE status[s] # "completed"
        <4>1. PICK x \in Executors : on[x] = s /\ CompleteWrite(x)
          BY <1>2, <3>2, CompletedBy
        <4>2. x \in claimed /\ pc[x] = "doneWrite"
          BY <4>1 DEF CompleteWrite, ControlOK, Claimed
        <4>3. QED
          BY <4>1, <4>2 DEF PublishOK, Early
      <3>3. QED
        BY <3>1, <3>2
    <2>2. PICK x \in claimed : /\ on[x] = s
                               /\ pc[x] \notin Early \cup {"jobs", "tool", "parse"}
                               /\ Published(x)
      BY <2>1
    <2>3. x \in Executors
      BY DEF TypeOK
    <2>4. QED
      BY <2>2, <2>3, PastFrame, PublishedStable
  <1>3. QED
    BY <1>1, <1>2 DEF PublishOK

-----------------------------------------------------------------------------

\* The strengthening of all of them together.
IInv == /\ TypeOK /\ ControlOK /\ RowOK /\ ClaimOK /\ ExclusiveUnlessRaced
        /\ JobsOK /\ RowsOK /\ PublishOK

\* The inductive invariant holds initially.
LEMMA IInvInit == Init => IInv
  <1> SUFFICES ASSUME Init PROVE IInv
    OBVIOUS
  <1>1. TypeOK /\ ControlOK
    BY TypeInit
  <1>2. RowOK /\ ClaimOK /\ ExclusiveUnlessRaced
    BY DEF Init, RowOK, ClaimOK, ExclusiveUnlessRaced, Undecided
  <1>3. JobsOK /\ RowsOK
    BY DEF Init, JobsOK, RowsOK, Late
  <1>4. PublishOK
    BY DEF Init, PublishOK
  <1>5. QED
    BY <1>1, <1>2, <1>3, <1>4 DEF IInv

\* The inductive invariant is kept by every step.
LEMMA IInvNext == IInv /\ [Next]_vars => IInv'
  BY TypeNext, ControlNext, RowNext, ClaimNext, ExclusiveNext, JobsNext, RowsNext,
     PublishNext DEF IInv

\* Typing, together with the inductive strengthening: IInv holds throughout.
THEOREM Inductive == Spec => []IInv
  <1>1. QED BY IInvInit, IInvNext, PTL DEF Spec

\* The module's type invariant holds of every instance.
THEOREM Typing == Spec => []TypeOK
  <1>1. IInv => TypeOK
    BY DEF IInv
  <1>2. QED BY <1>1, Inductive, PTL

\* A scan is executed twice only after a race for it, however many
\* deliveries, crashes and database errors there are.
THEOREM Exclusive == Spec => []ExclusiveUnlessRaced
  <1>1. IInv => ExclusiveUnlessRaced
    BY DEF IInv
  <1>2. QED BY <1>1, Inductive, PTL

\* Duplicate fingerprints of a scan come from that race alone.
THEOREM Duplicates == Spec => []DuplicatesOnlyIfRaced
  <1>1. ASSUME IInv PROVE DuplicatesOnlyIfRaced
    <2> SUFFICES ASSUME NEW r1 \in rows, NEW r2 \in rows,
                        r1.scan = r2.scan, r1.fp = r2.fp, r1.scan \notin raced
                 PROVE  r1 = r2
      BY DEF DuplicatesOnlyIfRaced
    <2>1. /\ r1.by \in claimed /\ r1 \in FindingsOf(r1.by)
          /\ r2.by \in claimed /\ r2 \in FindingsOf(r2.by)
      BY <1>1 DEF IInv, RowsOK
    <2>2. on[r1.by] = r1.scan /\ on[r2.by] = r2.scan
      BY <2>1 DEF FindingsOf
    <2>3. r1.by = r2.by
      BY <1>1, <2>1, <2>2 DEF IInv, ExclusiveUnlessRaced
    <2>4. QED
      BY <2>1, <2>3 DEF FindingsOf
  <1>2. QED BY <1>1, Inductive, PTL

\* Every stored finding can be traced to a completed job and its raw output.
THEOREM Evidence == Spec => []EvidenceTrail
  <1>1. ASSUME IInv PROVE EvidenceTrail
    <2> SUFFICES ASSUME NEW r \in rows
                 PROVE  /\ on[r.by] = r.scan
                        /\ \E i \in raw[r.by] : job[r.by][i] = "completed" /\ r.fp \in found[r.by][i]
      BY DEF EvidenceTrail
    <2>1. r \in FindingsOf(r.by) /\ r.by \in Executors
      BY <1>1 DEF IInv, RowsOK, TypeOK, FindingRow
    <2>2. on[r.by] = r.scan /\ r.fp \in AllFound(r.by)
      BY <2>1 DEF FindingsOf
    <2>3. PICK i \in JobNo : r.fp \in found[r.by][i]
      BY <2>2 DEF AllFound
    <2>4. i \in raw[r.by] /\ job[r.by][i] = "completed"
      BY <1>1, <2>1, <2>3 DEF IInv, JobsOK
    <2>5. QED
      BY <2>2, <2>3, <2>4
  <1>2. QED BY <1>1, Inductive, PTL

\* A scan that reads completed has the findings of a whole execution.
THEOREM Publication == Spec => []CompletedImpliesPublished
  <1>1. IInv => CompletedImpliesPublished
    BY DEF IInv, PublishOK, CompletedImpliesPublished
  <1>2. QED BY <1>1, Inductive, PTL

-----------------------------------------------------------------------------
(* Without replays *)

\* What is_terminal_scan computes from the transition table.
LEMMA TerminalScans ==
  \A st : IsTerminalScan(st) <=> st \in {"completed", "failed", "cancelled"}
  BY DEF IsTerminalScan, ScanMayMove, ScanTransitions, ScanStatus

\* A scan with a queued delivery has no executor at work.
LEMMA SerialQuiet ==
  ASSUME SerialQueue, NEW s \in Scans, queue[s] > 0
  PROVE  Undecided(s) = {}
  BY DEF SerialQueue, Undecided, Stopped

\* Without replays a step never adds a second delivery of an unfinished scan:
\* the queue gets one back only from the executor that just crashed.
LEMMA SerialQueueNext ==
  ASSUME MaxReplays = 0
  PROVE  TypeOK /\ ControlOK /\ SerialQueue /\ [Next]_vars => SerialQueue'
  <1> SUFFICES ASSUME TypeOK, ControlOK, SerialQueue, [Next]_vars PROVE SerialQueue'
    OBVIOUS
  <1> USE ScansAssumption
          DEF TypeOK, ControlOK, SerialQueue, Goto, AssertScan, Fault, NoteRace, Stopped
  <1>1. ASSUME NEW s \in Scans, Submit(s) PROVE SerialQueue'
    BY <1>1 DEF Submit
  <1>2. ASSUME NEW s \in Scans, CommitRequest(s) PROVE SerialQueue'
    BY <1>2 DEF CommitRequest
  <1>3. ASSUME NEW s \in Scans, AbortRequest(s) PROVE SerialQueue'
    BY <1>3 DEF AbortRequest
  <1>4. ASSUME NEW s \in Scans, Replay(s) PROVE SerialQueue'
    BY <1>4 DEF Replay
  <1>5. ASSUME NEW s \in Scans, LoseDelivery(s) PROVE SerialQueue'
    BY <1>5 DEF LoseDelivery
  <1>6. ASSUME NEW e \in Executors, NEW s \in Scans, LoadQueued(e, s) PROVE SerialQueue'
    BY <1>6, SerialQuiet DEF LoadQueued, Take
  <1>7. ASSUME NEW e \in Executors, NEW s \in Scans, LoadSkips(e, s) PROVE SerialQueue'
    BY <1>7 DEF LoadSkips, Take
  <1>8. ASSUME NEW e \in Executors, NEW s \in Scans, LoadFails(e, s) PROVE SerialQueue'
    BY <1>8, SerialQuiet DEF LoadFails, Take
  <1>9. ASSUME NEW e \in Executors, Claim(e) PROVE SerialQueue'
    BY <1>9 DEF Claim
  <1>10. ASSUME NEW e \in Executors, Plan(e) PROVE SerialQueue'
    BY <1>10 DEF Plan
  <1>11. ASSUME NEW e \in Executors, PlanFails(e) PROVE SerialQueue'
    BY <1>11 DEF PlanFails
  <1>12. ASSUME NEW e \in Executors, StartRead(e) PROVE SerialQueue'
    BY <1>12 DEF StartRead
  <1>13. ASSUME NEW e \in Executors, StartWrite(e) PROVE SerialQueue'
    BY <1>13 DEF StartWrite
  <1>14. ASSUME NEW e \in Executors, StartJob(e) PROVE SerialQueue'
    BY <1>14 DEF StartJob
  <1>15. ASSUME NEW e \in Executors, RunTool(e) PROVE SerialQueue'
    BY <1>15 DEF RunTool
  <1>16. ASSUME NEW e \in Executors, ToolFails(e) PROVE SerialQueue'
    BY <1>16 DEF ToolFails
  <1>17. ASSUME NEW e \in Executors, FinishJob(e) PROVE SerialQueue'
    BY <1>17 DEF FinishJob
  <1>18. ASSUME NEW e \in Executors, NormalizeRead(e) PROVE SerialQueue'
    BY <1>18 DEF NormalizeRead
  <1>19. ASSUME NEW e \in Executors, NormalizeWrite(e) PROVE SerialQueue'
    BY <1>19 DEF NormalizeWrite
  <1>20. ASSUME NEW e \in Executors, Persist(e) PROVE SerialQueue'
    BY <1>20 DEF Persist
  <1>21. ASSUME NEW e \in Executors, CompleteRead(e) PROVE SerialQueue'
    BY <1>21 DEF CompleteRead
  <1>22. ASSUME NEW e \in Executors, CompleteWrite(e) PROVE SerialQueue'
    BY <1>22 DEF CompleteWrite
  <1>23. ASSUME NEW e \in Executors, Notify(e) PROVE SerialQueue'
    BY <1>23 DEF Notify
  <1>24. ASSUME NEW e \in Executors, FailRead(e) PROVE SerialQueue'
    BY <1>24 DEF FailRead
  <1>25. ASSUME NEW e \in Executors, FailWrite(e) PROVE SerialQueue'
    BY <1>25 DEF FailWrite
  <1>26. ASSUME NEW e \in Executors, DatabaseError(e) PROVE SerialQueue'
    BY <1>26 DEF DatabaseError
  <1>27. ASSUME NEW e \in Executors, Crash(e) PROVE SerialQueue'
    BY <1>27 DEF Crash
  <1>28. ASSUME NEW e \in Executors, Timeout(e) PROVE SerialQueue'
    BY <1>28 DEF Timeout
  <1>29. CASE UNCHANGED vars
    BY <1>29 DEF vars
  <1>. QED
    BY <1>1, <1>2, <1>3, <1>4, <1>5, <1>6, <1>7, <1>8, <1>9, <1>10, <1>11,
       <1>12, <1>13, <1>14, <1>15, <1>16, <1>17, <1>18, <1>19, <1>20, <1>21,
       <1>22, <1>23, <1>24, <1>25, <1>26, <1>27, <1>28, <1>29 DEF Next,
       ApiStep, LoadStep, ExecutorStep, FaultStep

\* An executor at work is the only one on its scan.
LEMMA SerialAlone ==
  ASSUME SerialQueue, NEW e \in Executors, pc[e] \notin Stopped,
         NEW x \in Executors, x # e, pc[x] \notin Stopped
  PROVE  on[x] # on[e]
  BY DEF SerialQueue

\* So what one executor writes no other is looking at.
LEMMA SerialWrite ==
  ASSUME TypeOK, ControlOK, SerialQueue, SerialStatus,
         NEW e \in Executors, pc[e] \notin Stopped,
         NEW st, st # "cancelled", NEW label, Fits(label, st),
         status' = [status EXCEPT ![on[e]] = st],
         pc' = [pc EXCEPT ![e] = label], on' = on
  PROVE  SerialStatus'
  <1>1. \A s \in Scans : status'[s] # "cancelled"
    BY DEF TypeOK, SerialStatus
  <1>2. ASSUME NEW x \in Executors PROVE Fits(pc'[x], status'[on'[x]])
    <2>1. CASE x = e
      <3>1. on[e] \in Scans
        BY DEF TypeOK, ControlOK, Stopped
      <3>2. pc'[x] = label /\ status'[on'[x]] = st
        BY <2>1, <3>1 DEF TypeOK
      <3>3. QED
        BY <3>2
    <2>2. CASE x # e /\ pc[x] \in Stopped
      <3>1. pc'[x] \in Stopped
        BY <2>2 DEF TypeOK
      <3>2. QED
        BY <3>1 DEF Fits, Stopped
    <2>3. CASE x # e /\ pc[x] \notin Stopped
      <3>1. on[x] # on[e] /\ on[x] \in Scans /\ on[e] \in Scans
        BY <2>3, SerialAlone DEF TypeOK, ControlOK, Stopped
      <3>2. pc'[x] = pc[x] /\ status'[on'[x]] = status[on[x]]
        BY <2>3, <3>1 DEF TypeOK
      <3>3. QED
        BY <3>2 DEF SerialStatus
    <2>4. QED
      BY <2>1, <2>2, <2>3
  <1>3. QED
    BY <1>1, <1>2 DEF SerialStatus

\* Without replays the status an executor read is still there when it writes.
LEMMA SerialStatusNext ==
  TypeOK /\ ControlOK /\ RowOK /\ SerialQueue /\ SerialStatus /\ [Next]_vars => SerialStatus'
  <1> SUFFICES ASSUME TypeOK, ControlOK, RowOK, SerialQueue, SerialStatus, [Next]_vars
               PROVE  SerialStatus'
    OBVIOUS
  <1> USE ScansAssumption, SerialAlone
          DEF TypeOK, ControlOK, SerialStatus, Fits, Goto, SetStatus, AssertScan, Fault,
              Stopped
  <1>1. ASSUME NEW s \in Scans, Submit(s) PROVE SerialStatus'
    BY <1>1 DEF Submit
  <1>2. ASSUME NEW s \in Scans, CommitRequest(s) PROVE SerialStatus'
    BY <1>2 DEF CommitRequest, RowOK
  <1>3. ASSUME NEW s \in Scans, AbortRequest(s) PROVE SerialStatus'
    BY <1>3 DEF AbortRequest
  <1>4. ASSUME NEW s \in Scans, Replay(s) PROVE SerialStatus'
    BY <1>4 DEF Replay
  <1>5. ASSUME NEW s \in Scans, LoseDelivery(s) PROVE SerialStatus'
    BY <1>5 DEF LoseDelivery
  <1>6. ASSUME NEW e \in Executors, NEW s \in Scans, LoadQueued(e, s) PROVE SerialStatus'
    BY <1>6 DEF LoadQueued, Take
  <1>7. ASSUME NEW e \in Executors, NEW s \in Scans, LoadSkips(e, s) PROVE SerialStatus'
    BY <1>7 DEF LoadSkips, Take
  <1>8. ASSUME NEW e \in Executors, NEW s \in Scans, LoadFails(e, s) PROVE SerialStatus'
    BY <1>8 DEF LoadFails, Take
  <1>9. ASSUME NEW e \in Executors, Claim(e) PROVE SerialStatus'
    <2>1. /\ pc[e] = "claim" /\ pc' = [pc EXCEPT ![e] = "plan"]
          /\ status' = [status EXCEPT ![on[e]] = "planning"] /\ on' = on
      BY <1>9 DEF Claim
    <2>2. pc[e] \notin Stopped /\ Fits("plan", "planning")
      BY <2>1
    <2>3. QED
      BY <2>1, <2>2, SerialWrite
  <1>10. ASSUME NEW e \in Executors, Plan(e) PROVE SerialStatus'
    BY <1>10 DEF Plan
  <1>11. ASSUME NEW e \in Executors, PlanFails(e) PROVE SerialStatus'
    BY <1>11 DEF PlanFails
  <1>12. ASSUME NEW e \in Executors, StartRead(e) PROVE SerialStatus'
    BY <1>12 DEF StartRead, ScanMayMove, ScanTransitions
  <1>13. ASSUME NEW e \in Executors, StartWrite(e) PROVE SerialStatus'
    <2>1. /\ pc[e] = "startWrite" /\ pc' = [pc EXCEPT ![e] = "jobs"]
          /\ status' = [status EXCEPT ![on[e]] = "running"] /\ on' = on
      BY <1>13 DEF StartWrite
    <2>2. pc[e] \notin Stopped /\ Fits("jobs", "running")
      BY <2>1
    <2>3. QED
      BY <2>1, <2>2, SerialWrite
  <1>14. ASSUME NEW e \in Executors, StartJob(e) PROVE SerialStatus'
    BY <1>14 DEF StartJob
  <1>15. ASSUME NEW e \in Executors, RunTool(e) PROVE SerialStatus'
    BY <1>15 DEF RunTool
  <1>16. ASSUME NEW e \in Executors, ToolFails(e) PROVE SerialStatus'
    BY <1>16 DEF ToolFails
  <1>17. ASSUME NEW e \in Executors, FinishJob(e) PROVE SerialStatus'
    BY <1>17 DEF FinishJob
  <1>18. ASSUME NEW e \in Executors, NormalizeRead(e) PROVE SerialStatus'
    BY <1>18 DEF NormalizeRead, ScanMayMove, ScanTransitions
  <1>19. ASSUME NEW e \in Executors, NormalizeWrite(e) PROVE SerialStatus'
    <2>1. /\ pc[e] = "normWrite" /\ pc' = [pc EXCEPT ![e] = "persist"]
          /\ status' = [status EXCEPT ![on[e]] = "normalizing"] /\ on' = on
      BY <1>19 DEF NormalizeWrite
    <2>2. pc[e] \notin Stopped /\ Fits("persist", "normalizing")
      BY <2>1
    <2>3. QED
      BY <2>1, <2>2, SerialWrite
  <1>20. ASSUME NEW e \in Executors, Persist(e) PROVE SerialStatus'
    BY <1>20 DEF Persist
  <1>21. ASSUME NEW e \in Executors, CompleteRead(e) PROVE SerialStatus'
    BY <1>21 DEF CompleteRead, ScanMayMove, ScanTransitions
  <1>22. ASSUME NEW e \in Executors, CompleteWrite(e) PROVE SerialStatus'
    <2>1. /\ pc[e] = "doneWrite" /\ pc' = [pc EXCEPT ![e] = "notify"]
          /\ status' = [status EXCEPT ![on[e]] = "completed"] /\ on' = on
      BY <1>22 DEF CompleteWrite
    <2>2. pc[e] \notin Stopped /\ Fits("notify", "completed")
      BY <2>1
    <2>3. QED
      BY <2>1, <2>2, SerialWrite
  <1>23. ASSUME NEW e \in Executors, Notify(e) PROVE SerialStatus'
    BY <1>23 DEF Notify
  <1>24. ASSUME NEW e \in Executors, FailRead(e) PROVE SerialStatus'
    BY <1>24, TerminalScans DEF FailRead
  <1>25. ASSUME NEW e \in Executors, FailWrite(e) PROVE SerialStatus'
    <2>1. /\ pc[e] = "failWrite" /\ pc' = [pc EXCEPT ![e] = "done"]
          /\ status' = [status EXCEPT ![on[e]] = "failed"] /\ on' = on
      BY <1>25 DEF FailWrite
    <2>2. pc[e] \notin Stopped /\ Fits("done", "failed")
      BY <2>1
    <2>3. QED
      BY <2>1, <2>2, SerialWrite
  <1>26. ASSUME NEW e \in Executors, DatabaseError(e) PROVE SerialStatus'
    BY <1>26 DEF DatabaseError
  <1>27. ASSUME NEW e \in Executors, Crash(e) PROVE SerialStatus'
    BY <1>27 DEF Crash
  <1>28. ASSUME NEW e \in Executors, Timeout(e) PROVE SerialStatus'
    BY <1>28 DEF Timeout
  <1>29. CASE UNCHANGED vars
    BY <1>29 DEF vars
  <1>. QED
    BY <1>1, <1>2, <1>3, <1>4, <1>5, <1>6, <1>7, <1>8, <1>9, <1>10, <1>11,
       <1>12, <1>13, <1>14, <1>15, <1>16, <1>17, <1>18, <1>19, <1>20, <1>21,
       <1>22, <1>23, <1>24, <1>25, <1>26, <1>27, <1>28, <1>29 DEF Next,
       ApiStep, LoadStep, ExecutorStep, FaultStep

\* Initially nothing is queued and nobody is at work.
LEMMA SerialInit == Init => SerialQueue /\ SerialStatus
  BY ScansAssumption DEF Init, SerialQueue, SerialStatus, Stopped, Fits

\* Without replays every delivery runs alone.
LEMMA Serial ==
  ASSUME MaxReplays = 0
  PROVE  Spec => [](SerialQueue /\ SerialStatus)
  <1>1. IInv /\ SerialQueue /\ SerialStatus /\ [Next]_vars => (SerialQueue /\ SerialStatus)'
    BY SerialQueueNext, SerialStatusNext DEF IInv
  <1>2. QED BY SerialInit, <1>1, Inductive, PTL DEF Spec

\* Without replays a scan never has two findings with one fingerprint,
\* whatever crashes and is delivered again.
THEOREM NoDuplicates ==
  ASSUME MaxReplays = 0
  PROVE  Spec => []NoDuplicateFindings
  <1>1. DuplicatesOnlyIfRaced /\ SerialQueue => NoDuplicateFindings
    BY DEF DuplicatesOnlyIfRaced, SerialQueue, NoDuplicateFindings
  <1>2. QED BY <1>1, Duplicates, Serial, PTL

\* What LegalTransitions says of a single step.
Legal ==
  \A s \in Scans : \/ status'[s] = status[s]
                   \/ status[s] = "absent" /\ status'[s] = "queued"
                   \/ ScanMayMove(status[s], status'[s])

\* Writing one status the table allows is a legal step.
LEMMA LegalMove ==
  ASSUME TypeOK, NEW s \in Scans, NEW st,
         status' = [status EXCEPT ![s] = st], ScanMayMove(status[s], st)
  PROVE  Legal
  BY DEF TypeOK, Legal

\* Every step whose writers still see what they read is legal.
LEMMA LegalStep ==
  TypeOK /\ ControlOK /\ RowOK /\ SerialStatus /\ [Next]_vars => Legal
  <1> SUFFICES ASSUME TypeOK, ControlOK, RowOK, SerialStatus, [Next]_vars PROVE Legal
    OBVIOUS
  <1>1. ASSUME NEW s \in Scans, Submit(s) PROVE Legal
    BY <1>1 DEF Submit, Legal
  <1>2. ASSUME NEW s \in Scans, CommitRequest(s) PROVE Legal
    BY <1>2 DEF CommitRequest, Legal, TypeOK, RowOK, SetStatus
  <1>3. ASSUME NEW s \in Scans, AbortRequest(s) PROVE Legal
    BY <1>3 DEF AbortRequest, Legal
  <1>4. ASSUME NEW s \in Scans, Replay(s) PROVE Legal
    BY <1>4 DEF Replay, Legal
  <1>5. ASSUME NEW s \in Scans, LoseDelivery(s) PROVE Legal
    BY <1>5 DEF LoseDelivery, Legal
  <1>6. ASSUME NEW e \in Executors, NEW s \in Scans, LoadQueued(e, s) PROVE Legal
    BY <1>6 DEF LoadQueued, Take, Legal
  <1>7. ASSUME NEW e \in Executors, NEW s \in Scans, LoadSkips(e, s) PROVE Legal
    BY <1>7 DEF LoadSkips, Take, Legal
  <1>8. ASSUME NEW e \in Executors, NEW s \in Scans, LoadFails(e, s) PROVE Legal
    BY <1>8 DEF LoadFails, Take, Legal
  <1>9. ASSUME NEW e \in Executors, Claim(e) PROVE Legal
    <2>1. pc[e] = "claim" /\ status' = [status EXCEPT ![on[e]] = "planning"]
      BY <1>9 DEF Claim, SetStatus
    <2>2. on[e] \in Scans /\ status[on[e]] = "queued"
      BY <2>1, ScansAssumption DEF TypeOK, ControlOK, SerialStatus, Fits
    <2>3. ScanMayMove(status[on[e]], "planning")
      BY <2>2 DEF ScanMayMove, ScanTransitions
    <2>4. QED
      BY <2>1, <2>2, <2>3, LegalMove
  <1>10. ASSUME NEW e \in Executors, Plan(e) PROVE Legal
    BY <1>10 DEF Plan, Legal
  <1>11. ASSUME NEW e \in Executors, PlanFails(e) PROVE Legal
    BY <1>11 DEF PlanFails, Legal
  <1>12. ASSUME NEW e \in Executors, StartRead(e) PROVE Legal
    BY <1>12 DEF StartRead, Legal
  <1>13. ASSUME NEW e \in Executors, StartWrite(e) PROVE Legal
    <2>1. pc[e] = "startWrite" /\ status' = [status EXCEPT ![on[e]] = "running"]
      BY <1>13 DEF StartWrite, SetStatus
    <2>2. on[e] \in Scans /\ status[on[e]] = "planning"
      BY <2>1, ScansAssumption DEF TypeOK, ControlOK, SerialStatus, Fits
    <2>3. ScanMayMove(status[on[e]], "running")
      BY <2>2 DEF ScanMayMove, ScanTransitions
    <2>4. QED
      BY <2>1, <2>2, <2>3, LegalMove
  <1>14. ASSUME NEW e \in Executors, StartJob(e) PROVE Legal
    BY <1>14 DEF StartJob, Legal
  <1>15. ASSUME NEW e \in Executors, RunTool(e) PROVE Legal
    BY <1>15 DEF RunTool, Legal
  <1>16. ASSUME NEW e \in Executors, ToolFails(e) PROVE Legal
    BY <1>16 DEF ToolFails, Legal
  <1>17. ASSUME NEW e \in Executors, FinishJob(e) PROVE Legal
    BY <1>17 DEF FinishJob, Legal
  <1>18. ASSUME NEW e \in Executors, NormalizeRead(e) PROVE Legal
    BY <1>18 DEF NormalizeRead, Legal
  <1>19. ASSUME NEW e \in Executors, NormalizeWrite(e) PROVE Legal
    <2>1. pc[e] = "normWrite" /\ status' = [status EXCEPT ![on[e]] = "normalizing"]
      BY <1>19 DEF NormalizeWrite, SetStatus
    <2>2. on[e] \in Scans /\ status[on[e]] = "running"
      BY <2>1, ScansAssumption DEF TypeOK, ControlOK, SerialStatus, Fits
    <2>3. ScanMayMove(status[on[e]], "normalizing")
      BY <2>2 DEF ScanMayMove, ScanTransitions
    <2>4. QED
      BY <2>1, <2>2, <2>3, LegalMove
  <1>20. ASSUME NEW e \in Executors, Persist(e) PROVE Legal
    BY <1>20 DEF Persist, Legal
  <1>21. ASSUME NEW e \in Executors, CompleteRead(e) PROVE Legal
    BY <1>21 DEF CompleteRead, Legal
  <1>22. ASSUME NEW e \in Executors, CompleteWrite(e) PROVE Legal
    <2>1. pc[e] = "doneWrite" /\ status' = [status EXCEPT ![on[e]] = "completed"]
      BY <1>22 DEF CompleteWrite, SetStatus
    <2>2. on[e] \in Scans /\ status[on[e]] = "normalizing"
      BY <2>1, ScansAssumption DEF TypeOK, ControlOK, SerialStatus, Fits
    <2>3. ScanMayMove(status[on[e]], "completed")
      BY <2>2 DEF ScanMayMove, ScanTransitions
    <2>4. QED
      BY <2>1, <2>2, <2>3, LegalMove
  <1>23. ASSUME NEW e \in Executors, Notify(e) PROVE Legal
    BY <1>23 DEF Notify, Legal
  <1>24. ASSUME NEW e \in Executors, FailRead(e) PROVE Legal
    BY <1>24 DEF FailRead, Legal
  <1>25. ASSUME NEW e \in Executors, FailWrite(e) PROVE Legal
    <2>1. pc[e] = "failWrite" /\ status' = [status EXCEPT ![on[e]] = "failed"]
      BY <1>25 DEF FailWrite, SetStatus
    <2>2. on[e] \in Scans /\ status[on[e]] \in {"queued", "planning", "running", "normalizing"}
      BY <2>1, ScansAssumption
         DEF TypeOK, ControlOK, SerialStatus, Fits, RowOK, ScanStatus
    <2>3. ScanMayMove(status[on[e]], "failed")
      BY <2>2 DEF ScanMayMove, ScanTransitions
    <2>4. QED
      BY <2>1, <2>2, <2>3, LegalMove
  <1>26. ASSUME NEW e \in Executors, DatabaseError(e) PROVE Legal
    BY <1>26 DEF DatabaseError, Legal
  <1>27. ASSUME NEW e \in Executors, Crash(e) PROVE Legal
    BY <1>27 DEF Crash, Legal
  <1>28. ASSUME NEW e \in Executors, Timeout(e) PROVE Legal
    BY <1>28 DEF Timeout, Legal
  <1>29. CASE UNCHANGED vars
    BY <1>29 DEF vars, Legal
  <1>. QED
    BY <1>1, <1>2, <1>3, <1>4, <1>5, <1>6, <1>7, <1>8, <1>9, <1>10, <1>11,
       <1>12, <1>13, <1>14, <1>15, <1>16, <1>17, <1>18, <1>19, <1>20, <1>21,
       <1>22, <1>23, <1>24, <1>25, <1>26, <1>27, <1>28, <1>29 DEF Next,
       ApiStep, LoadStep, ExecutorStep, FaultStep

\* Without replays the status column only ever moves along lifecycle.py's
\* table, although its writes are unconditional and _fail consults no table.
THEOREM Transitions ==
  ASSUME MaxReplays = 0
  PROVE  Spec => LegalTransitions
  <1>1. IInv /\ SerialStatus /\ [Next]_vars
          => [\A s \in Scans : \/ status'[s] = status[s]
                               \/ status[s] = "absent" /\ status'[s] = "queued"
                               \/ ScanMayMove(status[s], status'[s])]_vars
    BY LegalStep DEF IInv, Legal
  <1>2. QED BY <1>1, Inductive, Serial, PTL DEF Spec, LegalTransitions

==============================================================================
