------------------------- MODULE AnalysisTasksProofs -------------------------
(***************************************************************************)
(* Proofs about AnalysisTasks, for any sets of identifiers, processes and  *)
(* requests and any bounds on attempts and retries.                        *)
(***************************************************************************)
EXTENDS AnalysisTasks, TLAPS

(***************************************************************************)
(* The records the processes build are records.                            *)
(***************************************************************************)
LEMMA AbsentIsRecord == Absent \in Record
BY SomeRequest DEF Absent, Record, Statuses

\* submit() builds a record.
LEMMA QueuedIsRecord ==
    ASSUME NEW r \in Requests
    PROVE  Queued(r) \in Record
BY DEF Queued, Record, Statuses

\* So do the transitions that model_copy(update=...) makes of a record.
LEMMA CopiesAreRecords ==
    ASSUME NEW rec \in Record
    PROVE  /\ Running(rec) \in Record
           /\ FailedCopy(rec) \in Record
           /\ SucceededCopy(rec) \in Record
           /\ \A b \in BOOLEAN : [rec EXCEPT !.answer = b] \in Record
           /\ \A b \in BOOLEAN : [rec EXCEPT !.recent = b] \in Record
           /\ rec.answer \in BOOLEAN
BY DEF Record, Statuses, Running, FailedCopy, SucceededCopy

\* A task is an analysis or a discovery.
LEMMA TasksOfBothKinds ==
    /\ AnalysisIds \subseteq Tasks
    /\ DiscoveryIds \subseteq Tasks
    /\ \A t \in Tasks : t \in AnalysisIds <=> t \notin DiscoveryIds
BY DisjointIds DEF Tasks

(***************************************************************************)
(* Replacing the state of one process.                                     *)
(***************************************************************************)
LEMMA ExecutionReplaced ==
    ASSUME TypeOK, NEW e \in Executions, NEW st \in ExecutionState
    PROVE  [execution EXCEPT ![e] = st] \in [Executions -> ExecutionState]
BY DEF TypeOK

\* An execution that ends forgets its copy and keeps its type.
LEMMA ExecutionEnded ==
    ASSUME TypeOK, NEW e \in Executions, NEW how \in {"exiting", "exited", "dead"}
    PROVE  ExecutionEnds(e, how) \in [Executions -> ExecutionState]
<1>1. [execution[e] EXCEPT !.pc = how, !.copy = Absent] \in ExecutionState
    BY AbsentIsRecord DEF TypeOK, ExecutionState
<1>2. QED
    BY <1>1, ExecutionReplaced DEF ExecutionEnds

\* The platform starts an idle execution for a task.
LEMMA ExecutionStarted ==
    ASSUME TypeOK, NEW t \in Tasks, StartExecution(t)
    PROVE  execution' \in [Executions -> ExecutionState]
<1>1. PICK e \in Executions :
         execution' = [execution EXCEPT ![e] = [@ EXCEPT !.pc = "starting", !.task = t]]
    BY DEF StartExecution
<1>2. [execution[e] EXCEPT !.pc = "starting", !.task = t] \in ExecutionState
    BY DEF TypeOK, ExecutionState
<1>3. QED
    BY <1>1, <1>2, ExecutionReplaced

\* A submission that ends forgets its copy and keeps its type.
LEMMA SubmitterEnded ==
    ASSUME TypeOK, NEW s \in Submitters, NEW how \in {"accepted", "raised", "crashed"}
    PROVE  SubmitterEnds(s, how) \in [Submitters -> SubmitterState]
BY AbsentIsRecord, AttemptsPositive DEF TypeOK, SubmitterEnds, SubmitterState

\* The dispatch loop counts up to MaxAttempts and no further.
LEMMA AttemptMade ==
    ASSUME TypeOK, NEW s \in Submitters, submitter[s].pc = "dispatching",
           submitter[s].attempts < MaxAttempts, NextAttempt(s)
    PROVE  submitter' \in [Submitters -> SubmitterState]
<1>1. submitter[s].attempts + 1 \in 0..MaxAttempts
    BY AttemptsPositive DEF TypeOK, SubmitterState
<1>2. [submitter[s] EXCEPT
          !.attempts = submitter[s].attempts + 1,
          !.pc = IF submitter[s].attempts + 1 = MaxAttempts THEN "failing" ELSE "dispatching"]
         \in SubmitterState
    BY <1>1 DEF TypeOK, SubmitterState
<1>3. QED
    BY <1>2 DEF TypeOK, NextAttempt

(***************************************************************************)
(* TypeOK, one step per action.                                            *)
(***************************************************************************)
LEMMA TypeStep == TypeOK /\ CopiesCoherent /\ [Next]_vars => TypeOK'
<1> SUFFICES ASSUME TypeOK, CopiesCoherent, [Next]_vars
             PROVE  TypeOK'
    OBVIOUS
<1> USE DEF TypeOK
<1>a. /\ \A s \in Submitters : submitter[s].pc \in {"creating", "dispatching", "failing"} =>
            /\ submitter[s].task \in Tasks
            /\ submitter[s].pc # "failing" => submitter[s].attempts < MaxAttempts
      /\ \A e \in Executions : execution[e].pc # "idle" => execution[e].task \in Tasks
      /\ \A p \in Pollers : poller[p].pc = "failing" => poller[p].task \in Tasks
    BY TasksOfBothKinds DEF CopiesCoherent
<1>1. ASSUME NEW s \in Submitters, NEW t \in AnalysisIds, NEW r \in Requests, SubmitAnalysis(s, t, r)
      PROVE  TypeOK'
    <2>1. t \in Tasks /\ Queued(r) \in Record
        BY QueuedIsRecord, TasksOfBothKinds
    <2>2. QED
        BY <1>1, <2>1, AbsentIsRecord, AttemptsPositive DEF SubmitAnalysis, SubmitterState
<1>2. ASSUME NEW s \in Submitters, NEW t \in DiscoveryIds, NEW r \in Requests, SubmitDiscovery(s, t, r)
      PROVE  TypeOK'
    <2>1. t \in Tasks /\ Queued(r) \in Record
        BY QueuedIsRecord, TasksOfBothKinds
    <2>2. QED
        BY <1>2, <2>1, AttemptsPositive DEF SubmitDiscovery, SubmitterState
<1>3. ASSUME NEW s \in Submitters, SubmitCreate(s)
      PROVE  TypeOK'
    BY <1>3, <1>a DEF SubmitCreate, SubmitterState
<1>4. ASSUME NEW s \in Submitters, SubmitFail(s)
      PROVE  TypeOK'
    <2>1. FailedCopy(submitter[s].copy) \in Record
        BY CopiesAreRecords DEF SubmitterState
    <2>2. QED
        BY <1>4, <1>a, <2>1, SubmitterEnded DEF SubmitFail
<1>5. ASSUME NEW s \in Submitters, SubmitCrash(s)
      PROVE  TypeOK'
    BY <1>5, <1>a, SubmitterEnded DEF SubmitCrash
<1>6. ASSUME NEW s \in Submitters, DispatchAccepted(s)
      PROVE  TypeOK'
    <2>1. submitter[s].task \in Tasks /\ submitter[s].attempts < MaxAttempts
        BY <1>6, <1>a DEF DispatchAccepted
    <2>2. execution' \in [Executions -> ExecutionState]
        BY <1>6, <2>1, ExecutionStarted DEF DispatchAccepted
    <2>3. submitter' \in [Submitters -> SubmitterState]
        BY <1>6, <2>1, SubmitterEnded DEF DispatchAccepted
    <2>4. QED
        BY <1>6, <2>1, <2>2, <2>3 DEF DispatchAccepted
<1>7. ASSUME NEW s \in Submitters, DispatchLost(s)
      PROVE  TypeOK'
    <2>1. submitter[s].task \in Tasks /\ submitter[s].attempts < MaxAttempts
        BY <1>7, <1>a DEF DispatchLost
    <2>2. execution' \in [Executions -> ExecutionState]
        BY <1>7, <2>1, ExecutionStarted DEF DispatchLost
    <2>3. submitter' \in [Submitters -> SubmitterState]
        BY <1>7, <2>1, AttemptMade DEF DispatchLost
    <2>4. QED
        BY <1>7, <2>1, <2>2, <2>3 DEF DispatchLost
<1>8. ASSUME NEW s \in Submitters, DispatchTransient(s)
      PROVE  TypeOK'
    <2>1. submitter[s].attempts < MaxAttempts
        BY <1>8, <1>a DEF DispatchTransient
    <2>2. QED
        BY <1>8, <2>1, AttemptMade DEF DispatchTransient
<1>9. ASSUME NEW s \in Submitters, DispatchRejected(s)
      PROVE  TypeOK'
    BY <1>9 DEF DispatchRejected, SubmitterState
<1>10. ASSUME NEW e \in Executions, RunAnalysisBegin(e)
      PROVE  TypeOK'
    <2>1. Running(store[execution[e].task]) \in Record
        BY <1>10, <1>a, CopiesAreRecords DEF RunAnalysisBegin
    <2>2. [execution[e] EXCEPT !.pc = "claiming", !.copy = Running(store[execution[e].task])]
             \in ExecutionState
        BY <2>1 DEF ExecutionState
    <2>3. execution' \in [Executions -> ExecutionState]
        BY <1>10, <2>2, ExecutionReplaced, ExecutionEnded DEF RunAnalysisBegin
    <2>4. QED
        BY <1>10, <2>3 DEF RunAnalysisBegin
<1>11. ASSUME NEW e \in Executions, RunDiscoveryBegin(e)
      PROVE  TypeOK'
    <2>1. Running(store[execution[e].task]) \in Record
        BY <1>11, <1>a, CopiesAreRecords DEF RunDiscoveryBegin
    <2>2. [execution[e] EXCEPT !.pc = "claiming", !.copy = Running(store[execution[e].task])]
             \in ExecutionState
        BY <2>1 DEF ExecutionState
    <2>3. execution' \in [Executions -> ExecutionState]
        BY <1>11, <2>2, ExecutionReplaced DEF RunDiscoveryBegin
    <2>4. QED
        BY <1>11, <2>3 DEF RunDiscoveryBegin
<1>12. ASSUME NEW e \in Executions, RunClaim(e)
      PROVE  TypeOK'
    BY <1>12, <1>a DEF RunClaim, ExecutionState
<1>13. ASSUME NEW e \in Executions, RunProgress(e)
      PROVE  TypeOK'
    BY <1>13, <1>a DEF RunProgress, ExecutionState
<1>14. ASSUME NEW e \in Executions, RunSucceed(e)
      PROVE  TypeOK'
    <2>1. SucceededCopy(execution[e].copy) \in Record
        BY CopiesAreRecords DEF ExecutionState
    <2>2. QED
        BY <1>14, <1>a, <2>1, ExecutionEnded DEF RunSucceed
<1>15. ASSUME NEW e \in Executions, RunFail(e)
      PROVE  TypeOK'
    <2>1. \A kept \in {execution[e].copy.answer, FALSE} :
             [FailedCopy(execution[e].copy) EXCEPT !.answer = kept] \in Record
        BY CopiesAreRecords DEF ExecutionState
    <2>2. store' \in [Tasks -> Record]
        BY <1>15, <1>a, <2>1 DEF RunFail
    <2>3. QED
        BY <1>15, <2>2, ExecutionEnded DEF RunFail
<1>16. ASSUME NEW e \in Executions, RunExit(e)
      PROVE  TypeOK'
    BY <1>16, <1>a DEF RunExit, ExecutionState
<1>17. ASSUME NEW e \in Executions, RunKilled(e)
      PROVE  TypeOK'
    <2>1. CASE execution[e].restarts < MaxRetries
        <3>1. execution[e].restarts + 1 \in 0..MaxRetries
            BY <2>1, RetriesNatural DEF ExecutionState
        <3>2. [execution[e] EXCEPT !.pc = "starting",
                                   !.restarts = execution[e].restarts + 1,
                                   !.copy = Absent]
                 \in ExecutionState
            BY <3>1, AbsentIsRecord DEF ExecutionState
        <3>3. execution' \in [Executions -> ExecutionState]
            BY <1>17, <2>1, <3>2, ExecutionReplaced DEF RunKilled
        <3>4. QED
            BY <1>17, <1>a, <3>3 DEF RunKilled
    <2>2. CASE ~(execution[e].restarts < MaxRetries)
        BY <1>17, <1>a, <2>2, ExecutionEnded DEF RunKilled
    <2>3. QED
        BY <2>1, <2>2
<1>18. ASSUME NEW p \in Pollers, PollFail(p)
      PROVE  TypeOK'
    BY <1>18, <1>a, AbsentIsRecord DEF PollFail, PollerState
<1>19. ASSUME NEW p \in Pollers, NEW t \in Tasks, PollStale(p, t)
      PROVE  TypeOK'
    <2>1. FailedCopy(store[t]) \in Record
        BY CopiesAreRecords
    <2>2. QED
        BY <1>19, <2>1 DEF PollStale, PollerState
<1>20. ASSUME NEW t \in Tasks, TimePasses(t)
      PROVE  TypeOK'
    BY <1>20, CopiesAreRecords DEF TimePasses
<1>21. CASE UNCHANGED vars
    BY <1>21 DEF vars
<1>22. QED
    BY <1>1, <1>2, <1>3, <1>4, <1>5, <1>6, <1>7, <1>8, <1>9, <1>10, <1>11, <1>12, <1>13, <1>14,
       <1>15, <1>16, <1>17, <1>18, <1>19, <1>20, <1>21
       DEF Next, SubmitStep, RunStep, PollStep

(***************************************************************************)
(* The copies in the hands of the processes stay coherent.                 *)
(***************************************************************************)
LEMMA CopiesStep == TypeOK /\ RecordsCoherent /\ CopiesCoherent /\ [Next]_vars => CopiesCoherent'
<1> SUFFICES ASSUME TypeOK, RecordsCoherent, CopiesCoherent, [Next]_vars
             PROVE  CopiesCoherent'
    OBVIOUS
<1>1. ASSUME NEW s \in Submitters, NEW t \in AnalysisIds, NEW r \in Requests, SubmitAnalysis(s, t, r)
      PROVE  CopiesCoherent'
    BY <1>1, TasksOfBothKinds, AttemptsPositive
       DEF SubmitAnalysis, CopiesCoherent, RecordsCoherent, CoherentRecord, Queued
<1>2. ASSUME NEW s \in Submitters, NEW t \in DiscoveryIds, NEW r \in Requests, SubmitDiscovery(s, t, r)
      PROVE  CopiesCoherent'
    BY <1>2, TasksOfBothKinds, AttemptsPositive DEF SubmitDiscovery, CopiesCoherent, Queued
<1>3. ASSUME NEW s \in Submitters, SubmitCreate(s)
      PROVE  CopiesCoherent'
    BY <1>3 DEF SubmitCreate, CopiesCoherent
<1>4. ASSUME NEW s \in Submitters, SubmitFail(s)
      PROVE  CopiesCoherent'
    BY <1>4 DEF SubmitFail, SubmitterEnds, CopiesCoherent
<1>5. ASSUME NEW s \in Submitters, SubmitCrash(s)
      PROVE  CopiesCoherent'
    BY <1>5 DEF SubmitCrash, SubmitterEnds, CopiesCoherent
<1>6. ASSUME NEW s \in Submitters, DispatchAccepted(s)
      PROVE  CopiesCoherent'
    BY <1>6 DEF DispatchAccepted, SubmitterEnds, StartExecution, CopiesCoherent
<1>7. ASSUME NEW s \in Submitters, DispatchLost(s)
      PROVE  CopiesCoherent'
    BY <1>7, AttemptsPositive
       DEF DispatchLost, NextAttempt, StartExecution, TypeOK, CopiesCoherent, SubmitterState
<1>8. ASSUME NEW s \in Submitters, DispatchTransient(s)
      PROVE  CopiesCoherent'
    BY <1>8, AttemptsPositive
       DEF DispatchTransient, NextAttempt, TypeOK, CopiesCoherent, SubmitterState
<1>9. ASSUME NEW s \in Submitters, DispatchRejected(s)
      PROVE  CopiesCoherent'
    BY <1>9 DEF DispatchRejected, CopiesCoherent
<1>10. ASSUME NEW e \in Executions, RunAnalysisBegin(e)
      PROVE  CopiesCoherent'
    BY <1>10
       DEF RunAnalysisBegin, ExecutionEnds, CopiesCoherent, RecordsCoherent, CoherentRecord,
           Running
<1>11. ASSUME NEW e \in Executions, RunDiscoveryBegin(e)
      PROVE  CopiesCoherent'
    BY <1>11, TasksOfBothKinds DEF RunDiscoveryBegin, CopiesCoherent, Running
<1>12. ASSUME NEW e \in Executions, RunClaim(e)
      PROVE  CopiesCoherent'
    BY <1>12 DEF RunClaim, CopiesCoherent
<1>13. ASSUME NEW e \in Executions, RunProgress(e)
      PROVE  CopiesCoherent'
    BY <1>13 DEF RunProgress, CopiesCoherent
<1>14. ASSUME NEW e \in Executions, RunSucceed(e)
      PROVE  CopiesCoherent'
    BY <1>14 DEF RunSucceed, ExecutionEnds, CopiesCoherent
<1>15. ASSUME NEW e \in Executions, RunFail(e)
      PROVE  CopiesCoherent'
    BY <1>15 DEF RunFail, ExecutionEnds, CopiesCoherent
<1>16. ASSUME NEW e \in Executions, RunExit(e)
      PROVE  CopiesCoherent'
    BY <1>16 DEF RunExit, CopiesCoherent
<1>17. ASSUME NEW e \in Executions, RunKilled(e)
      PROVE  CopiesCoherent'
    BY <1>17 DEF RunKilled, ExecutionEnds, CopiesCoherent
<1>18. ASSUME NEW p \in Pollers, PollFail(p)
      PROVE  CopiesCoherent'
    BY <1>18 DEF PollFail, CopiesCoherent
<1>19. ASSUME NEW p \in Pollers, NEW t \in Tasks, PollStale(p, t)
      PROVE  CopiesCoherent'
    BY <1>19 DEF PollStale, CopiesCoherent, FailedCopy
<1>20. ASSUME NEW t \in Tasks, TimePasses(t)
      PROVE  CopiesCoherent'
    BY <1>20 DEF TimePasses, CopiesCoherent
<1>21. CASE UNCHANGED vars
    BY <1>21 DEF vars, CopiesCoherent
<1>22. QED
    BY <1>1, <1>2, <1>3, <1>4, <1>5, <1>6, <1>7, <1>8, <1>9, <1>10, <1>11, <1>12, <1>13, <1>14,
       <1>15, <1>16, <1>17, <1>18, <1>19, <1>20, <1>21
       DEF Next, SubmitStep, RunStep, PollStep

(***************************************************************************)
(* So do the stored records, since every write stores a coherent copy.     *)
(***************************************************************************)
LEMMA RecordsStep == TypeOK /\ RecordsCoherent /\ CopiesCoherent /\ [Next]_vars => RecordsCoherent'
<1> SUFFICES ASSUME TypeOK, RecordsCoherent, CopiesCoherent, [Next]_vars
             PROVE  RecordsCoherent'
    OBVIOUS
<1>1. ASSUME NEW s \in Submitters, NEW t \in AnalysisIds, NEW r \in Requests, SubmitAnalysis(s, t, r)
      PROVE  RecordsCoherent'
    BY <1>1 DEF SubmitAnalysis, RecordsCoherent, CoherentRecord
<1>2. ASSUME NEW s \in Submitters, NEW t \in DiscoveryIds, NEW r \in Requests, SubmitDiscovery(s, t, r)
      PROVE  RecordsCoherent'
    BY <1>2 DEF SubmitDiscovery, RecordsCoherent, CoherentRecord
<1>3. ASSUME NEW s \in Submitters, SubmitCreate(s)
      PROVE  RecordsCoherent'
    BY <1>3 DEF SubmitCreate, CopiesCoherent, RecordsCoherent, CoherentRecord
<1>4. ASSUME NEW s \in Submitters, SubmitFail(s)
      PROVE  RecordsCoherent'
    BY <1>4 DEF SubmitFail, CopiesCoherent, RecordsCoherent, CoherentRecord, FailedCopy
<1>5. ASSUME NEW s \in Submitters, SubmitCrash(s)
      PROVE  RecordsCoherent'
    BY <1>5 DEF SubmitCrash, RecordsCoherent, CoherentRecord
<1>6. ASSUME NEW s \in Submitters, DispatchAccepted(s)
      PROVE  RecordsCoherent'
    BY <1>6 DEF DispatchAccepted, RecordsCoherent, CoherentRecord
<1>7. ASSUME NEW s \in Submitters, DispatchLost(s)
      PROVE  RecordsCoherent'
    BY <1>7 DEF DispatchLost, RecordsCoherent, CoherentRecord
<1>8. ASSUME NEW s \in Submitters, DispatchTransient(s)
      PROVE  RecordsCoherent'
    BY <1>8 DEF DispatchTransient, RecordsCoherent, CoherentRecord
<1>9. ASSUME NEW s \in Submitters, DispatchRejected(s)
      PROVE  RecordsCoherent'
    BY <1>9 DEF DispatchRejected, RecordsCoherent, CoherentRecord
<1>10. ASSUME NEW e \in Executions, RunAnalysisBegin(e)
      PROVE  RecordsCoherent'
    BY <1>10 DEF RunAnalysisBegin, RecordsCoherent, CoherentRecord
<1>11. ASSUME NEW e \in Executions, RunDiscoveryBegin(e)
      PROVE  RecordsCoherent'
    BY <1>11 DEF RunDiscoveryBegin, RecordsCoherent, CoherentRecord
<1>12. ASSUME NEW e \in Executions, RunClaim(e)
      PROVE  RecordsCoherent'
    BY <1>12 DEF RunClaim, CopiesCoherent, RecordsCoherent, CoherentRecord
<1>13. ASSUME NEW e \in Executions, RunProgress(e)
      PROVE  RecordsCoherent'
    BY <1>13 DEF RunProgress, CopiesCoherent, RecordsCoherent, CoherentRecord
<1>14. ASSUME NEW e \in Executions, RunSucceed(e)
      PROVE  RecordsCoherent'
    BY <1>14 DEF RunSucceed, CopiesCoherent, RecordsCoherent, CoherentRecord, SucceededCopy
<1>15. ASSUME NEW e \in Executions, RunFail(e)
      PROVE  RecordsCoherent'
    BY <1>15 DEF RunFail, CopiesCoherent, RecordsCoherent, CoherentRecord, FailedCopy
<1>16. ASSUME NEW e \in Executions, RunExit(e)
      PROVE  RecordsCoherent'
    BY <1>16 DEF RunExit, RecordsCoherent, CoherentRecord
<1>17. ASSUME NEW e \in Executions, RunKilled(e)
      PROVE  RecordsCoherent'
    BY <1>17 DEF RunKilled, RecordsCoherent, CoherentRecord
<1>18. ASSUME NEW p \in Pollers, PollFail(p)
      PROVE  RecordsCoherent'
    BY <1>18, TasksOfBothKinds DEF PollFail, CopiesCoherent, RecordsCoherent, CoherentRecord
<1>19. ASSUME NEW p \in Pollers, NEW t \in Tasks, PollStale(p, t)
      PROVE  RecordsCoherent'
    BY <1>19 DEF PollStale, RecordsCoherent, CoherentRecord
<1>20. ASSUME NEW t \in Tasks, TimePasses(t)
      PROVE  RecordsCoherent'
    BY <1>20 DEF TimePasses, RecordsCoherent, CoherentRecord
<1>21. CASE UNCHANGED vars
    BY <1>21 DEF vars, RecordsCoherent, CoherentRecord
<1>22. QED
    BY <1>1, <1>2, <1>3, <1>4, <1>5, <1>6, <1>7, <1>8, <1>9, <1>10, <1>11, <1>12, <1>13, <1>14,
       <1>15, <1>16, <1>17, <1>18, <1>19, <1>20, <1>21
       DEF Next, SubmitStep, RunStep, PollStep

(***************************************************************************)
(* A task keeps its owner, or one of its processes is killed.              *)
(***************************************************************************)
LEMMA OwnedStep == TypeOK /\ CopiesCoherent /\ UnfinishedTasksOwned /\ [Next]_vars => UnfinishedTasksOwned'
<1> SUFFICES ASSUME TypeOK, CopiesCoherent, UnfinishedTasksOwned, [Next]_vars
             PROVE  UnfinishedTasksOwned'
    OBVIOUS
<1>1. ASSUME NEW s \in Submitters, NEW t \in AnalysisIds, NEW r \in Requests, SubmitAnalysis(s, t, r)
      PROVE  UnfinishedTasksOwned'
    BY <1>1 DEF SubmitAnalysis, UnfinishedTasksOwned, Owned
<1>2. ASSUME NEW s \in Submitters, NEW t \in DiscoveryIds, NEW r \in Requests, SubmitDiscovery(s, t, r)
      PROVE  UnfinishedTasksOwned'
    BY <1>2 DEF SubmitDiscovery, UnfinishedTasksOwned, Owned
<1>3. ASSUME NEW s \in Submitters, SubmitCreate(s)
      PROVE  UnfinishedTasksOwned'
    BY <1>3 DEF SubmitCreate, TypeOK, CopiesCoherent, UnfinishedTasksOwned, Owned
<1>4. ASSUME NEW s \in Submitters, SubmitFail(s)
      PROVE  UnfinishedTasksOwned'
    BY <1>4 DEF SubmitFail, SubmitterEnds, TypeOK, UnfinishedTasksOwned, Owned, FailedCopy
<1>5. ASSUME NEW s \in Submitters, SubmitCrash(s)
      PROVE  UnfinishedTasksOwned'
    BY <1>5 DEF SubmitCrash, SubmitterEnds, UnfinishedTasksOwned, Owned
<1>6. ASSUME NEW s \in Submitters, DispatchAccepted(s)
      PROVE  UnfinishedTasksOwned'
    BY <1>6
       DEF DispatchAccepted, SubmitterEnds, StartExecution, TypeOK, UnfinishedTasksOwned,
           Owned
<1>7. ASSUME NEW s \in Submitters, DispatchLost(s)
      PROVE  UnfinishedTasksOwned'
    BY <1>7 DEF DispatchLost, NextAttempt, StartExecution, UnfinishedTasksOwned, Owned
<1>8. ASSUME NEW s \in Submitters, DispatchTransient(s)
      PROVE  UnfinishedTasksOwned'
    BY <1>8 DEF DispatchTransient, NextAttempt, UnfinishedTasksOwned, Owned
<1>9. ASSUME NEW s \in Submitters, DispatchRejected(s)
      PROVE  UnfinishedTasksOwned'
    BY <1>9 DEF DispatchRejected, UnfinishedTasksOwned, Owned
<1>10. ASSUME NEW e \in Executions, RunAnalysisBegin(e)
      PROVE  UnfinishedTasksOwned'
    <2> SUFFICES ASSUME NEW t \in Tasks, t \notin killed
                 PROVE  Owned(t)'
        BY <1>10 DEF UnfinishedTasksOwned, RunAnalysisBegin
    <2>1. Owned(t)
        BY DEF UnfinishedTasksOwned
    <2>2. CASE store[execution[e].task].status \in {"running", "succeeded"}
        BY <1>10, <2>1, <2>2 DEF RunAnalysisBegin, ExecutionEnds, Owned
    <2>3. CASE store[execution[e].task].status \notin {"running", "succeeded"}
        BY <1>10, <2>1, <2>3 DEF RunAnalysisBegin, Owned
    <2>4. QED
        BY <2>2, <2>3
<1>11. ASSUME NEW e \in Executions, RunDiscoveryBegin(e)
      PROVE  UnfinishedTasksOwned'
    BY <1>11 DEF RunDiscoveryBegin, UnfinishedTasksOwned, Owned
<1>12. ASSUME NEW e \in Executions, RunClaim(e)
      PROVE  UnfinishedTasksOwned'
    BY <1>12 DEF RunClaim, TypeOK, CopiesCoherent, UnfinishedTasksOwned, Owned
<1>13. ASSUME NEW e \in Executions, RunProgress(e)
      PROVE  UnfinishedTasksOwned'
    BY <1>13 DEF RunProgress, CopiesCoherent, UnfinishedTasksOwned, Owned
<1>14. ASSUME NEW e \in Executions, RunSucceed(e)
      PROVE  UnfinishedTasksOwned'
    BY <1>14 DEF RunSucceed, ExecutionEnds, TypeOK, UnfinishedTasksOwned, Owned, SucceededCopy
<1>15. ASSUME NEW e \in Executions, RunFail(e)
      PROVE  UnfinishedTasksOwned'
    BY <1>15 DEF RunFail, ExecutionEnds, TypeOK, UnfinishedTasksOwned, Owned, FailedCopy
<1>16. ASSUME NEW e \in Executions, RunExit(e)
      PROVE  UnfinishedTasksOwned'
    BY <1>16 DEF RunExit, UnfinishedTasksOwned, Owned
<1>17. ASSUME NEW e \in Executions, RunKilled(e)
      PROVE  UnfinishedTasksOwned'
    <2> SUFFICES ASSUME NEW t \in Tasks, t \notin killed, t # execution[e].task
                 PROVE  Owned(t)'
        BY <1>17 DEF UnfinishedTasksOwned, RunKilled
    <2>1. Owned(t)
        BY DEF UnfinishedTasksOwned
    <2>2. \A other \in Executions : execution[other].task = t => execution'[other] = execution[other]
        BY <1>17 DEF RunKilled, ExecutionEnds, TypeOK, ExecutionState
    <2>3. QED
        BY <1>17, <2>1, <2>2 DEF RunKilled, Owned
<1>18. ASSUME NEW p \in Pollers, PollFail(p)
      PROVE  UnfinishedTasksOwned'
    BY <1>18 DEF PollFail, CopiesCoherent, UnfinishedTasksOwned, Owned
<1>19. ASSUME NEW p \in Pollers, NEW t \in Tasks, PollStale(p, t)
      PROVE  UnfinishedTasksOwned'
    BY <1>19 DEF PollStale, UnfinishedTasksOwned, Owned
<1>20. ASSUME NEW t \in Tasks, TimePasses(t)
      PROVE  UnfinishedTasksOwned'
    BY <1>20 DEF TimePasses, UnfinishedTasksOwned, Owned
<1>21. CASE UNCHANGED vars
    BY <1>21 DEF vars, UnfinishedTasksOwned, Owned
<1>22. QED
    BY <1>1, <1>2, <1>3, <1>4, <1>5, <1>6, <1>7, <1>8, <1>9, <1>10, <1>11, <1>12, <1>13, <1>14,
       <1>15, <1>16, <1>17, <1>18, <1>19, <1>20, <1>21
       DEF Next, SubmitStep, RunStep, PollStep

(***************************************************************************)
(* No process works on a task that no submission has chosen.               *)
(***************************************************************************)
LEMMA SubmittedStep == TypeOK /\ CopiesCoherent /\ TasksAreSubmitted /\ [Next]_vars => TasksAreSubmitted'
<1> SUFFICES ASSUME TypeOK, CopiesCoherent, TasksAreSubmitted, [Next]_vars
             PROVE  TasksAreSubmitted'
    OBVIOUS
<1>1. ASSUME NEW s \in Submitters, NEW t \in AnalysisIds, NEW r \in Requests, SubmitAnalysis(s, t, r)
      PROVE  TasksAreSubmitted'
    BY <1>1, TasksOfBothKinds, NoTaskIsNoId
       DEF SubmitAnalysis, CopiesCoherent, TasksAreSubmitted
<1>2. ASSUME NEW s \in Submitters, NEW t \in DiscoveryIds, NEW r \in Requests, SubmitDiscovery(s, t, r)
      PROVE  TasksAreSubmitted'
    BY <1>2, TasksOfBothKinds, NoTaskIsNoId
       DEF SubmitDiscovery, CopiesCoherent, TasksAreSubmitted
<1>3. ASSUME NEW s \in Submitters, SubmitCreate(s)
      PROVE  TasksAreSubmitted'
    BY <1>3 DEF SubmitCreate, TasksAreSubmitted
<1>4. ASSUME NEW s \in Submitters, SubmitFail(s)
      PROVE  TasksAreSubmitted'
    BY <1>4 DEF SubmitFail, SubmitterEnds, TasksAreSubmitted
<1>5. ASSUME NEW s \in Submitters, SubmitCrash(s)
      PROVE  TasksAreSubmitted'
    BY <1>5 DEF SubmitCrash, SubmitterEnds, TasksAreSubmitted
<1>6. ASSUME NEW s \in Submitters, DispatchAccepted(s)
      PROVE  TasksAreSubmitted'
    <2>1. \A other \in Submitters : submitter'[other].task = submitter[other].task
        BY <1>6 DEF DispatchAccepted, SubmitterEnds, TypeOK, SubmitterState
    <2>2. \A e \in Executions : execution'[e].task \in {execution[e].task, submitter[s].task}
        BY <1>6 DEF DispatchAccepted, StartExecution, TypeOK, ExecutionState
    <2> SUFFICES ASSUME NEW t \in Tasks,
                        \/ store[t].status # "absent"
                        \/ \E e \in Executions : execution'[e].task = t
                        \/ \E p \in Pollers : poller[p].task = t
                 PROVE  \E other \in Submitters : submitter'[other].task = t
        BY <1>6 DEF DispatchAccepted, TasksAreSubmitted
    <2>3. \E other \in Submitters : submitter[other].task = t
        BY <2>2 DEF TasksAreSubmitted
    <2>4. QED
        BY <2>1, <2>3
<1>7. ASSUME NEW s \in Submitters, DispatchLost(s)
      PROVE  TasksAreSubmitted'
    <2>1. \A other \in Submitters : submitter'[other].task = submitter[other].task
        BY <1>7 DEF DispatchLost, NextAttempt, TypeOK, SubmitterState
    <2>2. \A e \in Executions : execution'[e].task \in {execution[e].task, submitter[s].task}
        BY <1>7 DEF DispatchLost, StartExecution, TypeOK, ExecutionState
    <2> SUFFICES ASSUME NEW t \in Tasks,
                        \/ store[t].status # "absent"
                        \/ \E e \in Executions : execution'[e].task = t
                        \/ \E p \in Pollers : poller[p].task = t
                 PROVE  \E other \in Submitters : submitter'[other].task = t
        BY <1>7 DEF DispatchLost, TasksAreSubmitted
    <2>3. \E other \in Submitters : submitter[other].task = t
        BY <2>2 DEF TasksAreSubmitted
    <2>4. QED
        BY <2>1, <2>3
<1>8. ASSUME NEW s \in Submitters, DispatchTransient(s)
      PROVE  TasksAreSubmitted'
    BY <1>8 DEF DispatchTransient, NextAttempt, TasksAreSubmitted
<1>9. ASSUME NEW s \in Submitters, DispatchRejected(s)
      PROVE  TasksAreSubmitted'
    BY <1>9 DEF DispatchRejected, TasksAreSubmitted
<1>10. ASSUME NEW e \in Executions, RunAnalysisBegin(e)
      PROVE  TasksAreSubmitted'
    BY <1>10 DEF RunAnalysisBegin, ExecutionEnds, TasksAreSubmitted
<1>11. ASSUME NEW e \in Executions, RunDiscoveryBegin(e)
      PROVE  TasksAreSubmitted'
    BY <1>11 DEF RunDiscoveryBegin, TasksAreSubmitted
<1>12. ASSUME NEW e \in Executions, RunClaim(e)
      PROVE  TasksAreSubmitted'
    BY <1>12 DEF RunClaim, TasksAreSubmitted
<1>13. ASSUME NEW e \in Executions, RunProgress(e)
      PROVE  TasksAreSubmitted'
    BY <1>13 DEF RunProgress, TasksAreSubmitted
<1>14. ASSUME NEW e \in Executions, RunSucceed(e)
      PROVE  TasksAreSubmitted'
    BY <1>14 DEF RunSucceed, ExecutionEnds, TasksAreSubmitted
<1>15. ASSUME NEW e \in Executions, RunFail(e)
      PROVE  TasksAreSubmitted'
    BY <1>15 DEF RunFail, ExecutionEnds, TasksAreSubmitted
<1>16. ASSUME NEW e \in Executions, RunExit(e)
      PROVE  TasksAreSubmitted'
    BY <1>16 DEF RunExit, TasksAreSubmitted
<1>17. ASSUME NEW e \in Executions, RunKilled(e)
      PROVE  TasksAreSubmitted'
    BY <1>17 DEF RunKilled, ExecutionEnds, TasksAreSubmitted
<1>18. ASSUME NEW p \in Pollers, PollFail(p)
      PROVE  TasksAreSubmitted'
    BY <1>18, TasksOfBothKinds, NoTaskIsNoId DEF PollFail, TasksAreSubmitted
<1>19. ASSUME NEW p \in Pollers, NEW t \in Tasks, PollStale(p, t)
      PROVE  TasksAreSubmitted'
    BY <1>19 DEF PollStale, TasksAreSubmitted
<1>20. ASSUME NEW t \in Tasks, TimePasses(t)
      PROVE  TasksAreSubmitted'
    BY <1>20 DEF TimePasses, TasksAreSubmitted
<1>21. CASE UNCHANGED vars
    BY <1>21 DEF vars, TasksAreSubmitted
<1>22. QED
    BY <1>1, <1>2, <1>3, <1>4, <1>5, <1>6, <1>7, <1>8, <1>9, <1>10, <1>11, <1>12, <1>13, <1>14,
       <1>15, <1>16, <1>17, <1>18, <1>19, <1>20, <1>21
       DEF Next, SubmitStep, RunStep, PollStep

(***************************************************************************)
(* An undisturbed task is written by one process at a time.                *)
(***************************************************************************)
LEMMA SingleWriterStep ==
    TypeOK /\ CopiesCoherent /\ UnfinishedTasksOwned /\ TasksAreSubmitted
    /\ UndisturbedTasksHaveOneWriter /\ [Next]_vars
    => UndisturbedTasksHaveOneWriter'
<1> SUFFICES ASSUME TypeOK, CopiesCoherent, UnfinishedTasksOwned, TasksAreSubmitted,
                    UndisturbedTasksHaveOneWriter, [Next]_vars
             PROVE  UndisturbedTasksHaveOneWriter'
    OBVIOUS
<1>1. ASSUME NEW s \in Submitters, NEW t \in AnalysisIds, NEW r \in Requests, SubmitAnalysis(s, t, r)
      PROVE  UndisturbedTasksHaveOneWriter'
    BY <1>1
       DEF SubmitAnalysis, UndisturbedTasksHaveOneWriter, SingleWriter, Submitting, Executing,
           Settled
<1>2. ASSUME NEW s \in Submitters, NEW t \in DiscoveryIds, NEW r \in Requests, SubmitDiscovery(s, t, r)
      PROVE  UndisturbedTasksHaveOneWriter'
    <2>1. /\ store[t].status = "absent"
          /\ \A e \in Executions : execution[e].task # t
          /\ \A p \in Pollers : poller[p].task # t
        BY <1>2, TasksOfBothKinds DEF SubmitDiscovery, TasksAreSubmitted
    <2> SUFFICES ASSUME NEW u \in Tasks, u \notin killed \cup overlapped
                 PROVE  SingleWriter(u)'
        BY <1>2 DEF SubmitDiscovery, UndisturbedTasksHaveOneWriter
    <2>2. CASE u = t
        BY <1>2, <2>1, <2>2 DEF SubmitDiscovery, SingleWriter, Submitting, Executing
    <2>3. CASE u # t
        <3>1. SingleWriter(u)
            BY DEF UndisturbedTasksHaveOneWriter
        <3>2. Submitting(u)' = Submitting(u) /\ Executing(u)' = Executing(u)
            BY <1>2, <2>3 DEF SubmitDiscovery, Submitting, Executing
        <3>3. \A other \in Submitting(u) : submitter'[other].pc = submitter[other].pc
            BY <1>2, <2>3 DEF SubmitDiscovery, Submitting, TypeOK, SubmitterState
        <3>4. QED
            BY <1>2, <3>1, <3>2, <3>3 DEF SubmitDiscovery, SingleWriter
    <2>4. QED
        BY <2>2, <2>3
<1>3. ASSUME NEW s \in Submitters, SubmitCreate(s)
      PROVE  UndisturbedTasksHaveOneWriter'
    BY <1>3
       DEF SubmitCreate, TypeOK, CopiesCoherent, UndisturbedTasksHaveOneWriter, SingleWriter,
           Submitting, Executing
<1>4. ASSUME NEW s \in Submitters, SubmitFail(s)
      PROVE  UndisturbedTasksHaveOneWriter'
    BY <1>4
       DEF SubmitFail, SubmitterEnds, TypeOK, UndisturbedTasksHaveOneWriter, SingleWriter,
           Submitting, Executing
<1>5. ASSUME NEW s \in Submitters, SubmitCrash(s)
      PROVE  UndisturbedTasksHaveOneWriter'
    BY <1>5
       DEF SubmitCrash, SubmitterEnds, UndisturbedTasksHaveOneWriter, SingleWriter, Submitting,
           Executing
<1>6. ASSUME NEW s \in Submitters, DispatchAccepted(s)
      PROVE  UndisturbedTasksHaveOneWriter'
    BY <1>6
       DEF DispatchAccepted, SubmitterEnds, StartExecution, TypeOK,
           UndisturbedTasksHaveOneWriter, SingleWriter, Submitting, Executing
<1>7. ASSUME NEW s \in Submitters, DispatchLost(s)
      PROVE  UndisturbedTasksHaveOneWriter'
    BY <1>7
       DEF DispatchLost, NextAttempt, StartExecution, UndisturbedTasksHaveOneWriter,
           SingleWriter, Submitting, Executing
<1>8. ASSUME NEW s \in Submitters, DispatchTransient(s)
      PROVE  UndisturbedTasksHaveOneWriter'
    BY <1>8
       DEF DispatchTransient, NextAttempt, UndisturbedTasksHaveOneWriter, SingleWriter,
           Submitting, Executing
<1>9. ASSUME NEW s \in Submitters, DispatchRejected(s)
      PROVE  UndisturbedTasksHaveOneWriter'
    BY <1>9
       DEF DispatchRejected, UndisturbedTasksHaveOneWriter, SingleWriter, Submitting,
           Executing
<1>10. ASSUME NEW e \in Executions, RunAnalysisBegin(e)
      PROVE  UndisturbedTasksHaveOneWriter'
    BY <1>10
       DEF RunAnalysisBegin, ExecutionEnds, UndisturbedTasksHaveOneWriter, SingleWriter,
           Submitting, Executing
<1>11. ASSUME NEW e \in Executions, RunDiscoveryBegin(e)
      PROVE  UndisturbedTasksHaveOneWriter'
    BY <1>11
       DEF RunDiscoveryBegin, UndisturbedTasksHaveOneWriter, SingleWriter, Submitting,
           Executing
<1>12. ASSUME NEW e \in Executions, RunClaim(e)
      PROVE  UndisturbedTasksHaveOneWriter'
    BY <1>12
       DEF RunClaim, TypeOK, CopiesCoherent, UndisturbedTasksHaveOneWriter, SingleWriter,
           Submitting, Executing
<1>13. ASSUME NEW e \in Executions, RunProgress(e)
      PROVE  UndisturbedTasksHaveOneWriter'
    BY <1>13
       DEF RunProgress, CopiesCoherent, UndisturbedTasksHaveOneWriter, SingleWriter,
           Submitting, Executing
<1>14. ASSUME NEW e \in Executions, RunSucceed(e)
      PROVE  UndisturbedTasksHaveOneWriter'
    BY <1>14
       DEF RunSucceed, ExecutionEnds, TypeOK, UndisturbedTasksHaveOneWriter, SingleWriter,
           Submitting, Executing, Settled, SucceededCopy
<1>15. ASSUME NEW e \in Executions, RunFail(e)
      PROVE  UndisturbedTasksHaveOneWriter'
    BY <1>15
       DEF RunFail, ExecutionEnds, TypeOK, UndisturbedTasksHaveOneWriter, SingleWriter,
           Submitting, Executing, Settled, FailedCopy
<1>16. ASSUME NEW e \in Executions, RunExit(e)
      PROVE  UndisturbedTasksHaveOneWriter'
    BY <1>16 DEF RunExit, UndisturbedTasksHaveOneWriter, SingleWriter, Submitting, Executing
<1>17. ASSUME NEW e \in Executions, RunKilled(e)
      PROVE  UndisturbedTasksHaveOneWriter'
    BY <1>17
       DEF RunKilled, ExecutionEnds, UndisturbedTasksHaveOneWriter, SingleWriter, Submitting,
           Executing
<1>18. ASSUME NEW p \in Pollers, PollFail(p)
      PROVE  UndisturbedTasksHaveOneWriter'
    BY <1>18 DEF PollFail, UndisturbedTasksHaveOneWriter, SingleWriter, Submitting, Executing
<1>19. ASSUME NEW p \in Pollers, NEW t \in Tasks, PollStale(p, t)
      PROVE  UndisturbedTasksHaveOneWriter'
    BY <1>19
       DEF PollStale, UnfinishedTasksOwned, Owned, UndisturbedTasksHaveOneWriter, SingleWriter,
           Submitting, Executing
<1>20. ASSUME NEW t \in Tasks, TimePasses(t)
      PROVE  UndisturbedTasksHaveOneWriter'
    BY <1>20 DEF TimePasses, UndisturbedTasksHaveOneWriter, SingleWriter, Submitting, Executing
<1>21. CASE UNCHANGED vars
    BY <1>21 DEF vars, UndisturbedTasksHaveOneWriter, SingleWriter, Submitting, Executing
<1>22. QED
    BY <1>1, <1>2, <1>3, <1>4, <1>5, <1>6, <1>7, <1>8, <1>9, <1>10, <1>11, <1>12, <1>13, <1>14,
       <1>15, <1>16, <1>17, <1>18, <1>19, <1>20, <1>21
       DEF Next, SubmitStep, RunStep, PollStep

(***************************************************************************)
(* The inductive invariant.                                                *)
(***************************************************************************)
LEMMA InitInvariant == Init => IInv
<1> SUFFICES ASSUME Init
             PROVE  IInv
    OBVIOUS
<1>1. TypeOK
    BY AbsentIsRecord, AttemptsPositive, RetriesNatural
       DEF Init, TypeOK, SubmitterState, ExecutionState, PollerState
<1>2. RecordsCoherent /\ UnfinishedTasksOwned
    BY DEF Init, RecordsCoherent, CoherentRecord, UnfinishedTasksOwned, Owned, Absent
<1>3. CopiesCoherent
    BY DEF Init, CopiesCoherent
<1>4. UndisturbedTasksHaveOneWriter
    BY DEF Init, UndisturbedTasksHaveOneWriter, SingleWriter, Submitting, Executing
<1>5. TasksAreSubmitted
    BY NoTaskIsNoId DEF Init, TasksAreSubmitted, Absent, Tasks
<1>6. QED
    BY <1>1, <1>2, <1>3, <1>4, <1>5 DEF IInv

\* Every step of every process preserves it.
LEMMA StepInvariant == IInv /\ [Next]_vars => IInv'
BY TypeStep, CopiesStep, RecordsStep, OwnedStep, SubmittedStep, SingleWriterStep DEF IInv

\* Whatever the identifiers, requests, processes and retry budgets are, every state
\* the task system reaches satisfies the inductive invariant.
THEOREM Invariant == Spec => []IInv
BY InitInvariant, StepInvariant, PTL DEF Spec

\* Every record, copy and program counter stays in its type: no dispatch loop passes
\* DISPATCH_MAX_ATTEMPTS and no execution is restarted more than MaxRetries times.
THEOREM TypeCorrect == Spec => []TypeOK
<1>1. IInv => TypeOK
    BY DEF IInv
<1>2. QED
    BY Invariant, <1>1, PTL

\* Whichever of the concurrent writers of AnalysisTaskStore.put wrote last, status,
\* response and error of a stored task agree.
THEOREM RecordsAlwaysCoherent == Spec => []RecordsCoherent
<1>1. IInv => RecordsCoherent
    BY DEF IInv
<1>2. QED
    BY Invariant, <1>1, PTL

\* A QUEUED or RUNNING task has a process that is going to write it again, unless a
\* process that worked on it was killed.
THEOREM NoTaskAbandoned == Spec => []UnfinishedTasksOwned
<1>1. IInv => UnfinishedTasksOwned
    BY DEF IInv
<1>2. QED
    BY Invariant, <1>1, PTL

(***************************************************************************)
(* A settled task that nothing disturbed is never written again.           *)
(***************************************************************************)
LEMMA SettledStep ==
    ASSUME TypeOK, CopiesCoherent, UndisturbedTasksHaveOneWriter, [Next]_vars,
           NEW u \in Tasks, store[u].status \in Settled, u \notin killed' \cup overlapped'
    PROVE  store'[u] = store[u]
<1>0. ASSUME u \notin killed \cup overlapped
      PROVE  SingleWriter(u)
    BY <1>0 DEF UndisturbedTasksHaveOneWriter
<1>1. ASSUME NEW s \in Submitters, NEW t \in AnalysisIds, NEW r \in Requests, SubmitAnalysis(s, t, r)
      PROVE  store'[u] = store[u]
    BY <1>1 DEF SubmitAnalysis
<1>2. ASSUME NEW s \in Submitters, NEW t \in DiscoveryIds, NEW r \in Requests, SubmitDiscovery(s, t, r)
      PROVE  store'[u] = store[u]
    BY <1>2 DEF SubmitDiscovery
<1>3. ASSUME NEW s \in Submitters, SubmitCreate(s)
      PROVE  store'[u] = store[u]
    <2>1. submitter[s].task # u
        BY <1>3, <1>0 DEF SubmitCreate, SingleWriter, Submitting, Settled
    <2>2. QED
        BY <1>3, <2>1 DEF SubmitCreate, TypeOK
<1>4. ASSUME NEW s \in Submitters, SubmitFail(s)
      PROVE  store'[u] = store[u]
    <2>1. submitter[s].task # u
        BY <1>4, <1>0 DEF SubmitFail, SingleWriter, Submitting, Settled
    <2>2. QED
        BY <1>4, <2>1 DEF SubmitFail, TypeOK
<1>5. ASSUME NEW s \in Submitters, SubmitCrash(s)
      PROVE  store'[u] = store[u]
    BY <1>5 DEF SubmitCrash
<1>6. ASSUME NEW s \in Submitters, DispatchAccepted(s)
      PROVE  store'[u] = store[u]
    BY <1>6 DEF DispatchAccepted
<1>7. ASSUME NEW s \in Submitters, DispatchLost(s)
      PROVE  store'[u] = store[u]
    BY <1>7 DEF DispatchLost
<1>8. ASSUME NEW s \in Submitters, DispatchTransient(s)
      PROVE  store'[u] = store[u]
    BY <1>8 DEF DispatchTransient
<1>9. ASSUME NEW s \in Submitters, DispatchRejected(s)
      PROVE  store'[u] = store[u]
    BY <1>9 DEF DispatchRejected
<1>10. ASSUME NEW e \in Executions, RunAnalysisBegin(e)
      PROVE  store'[u] = store[u]
    BY <1>10 DEF RunAnalysisBegin
<1>11. ASSUME NEW e \in Executions, RunDiscoveryBegin(e)
      PROVE  store'[u] = store[u]
    BY <1>11 DEF RunDiscoveryBegin
<1>12. ASSUME NEW e \in Executions, RunClaim(e)
      PROVE  store'[u] = store[u]
    <2>1. execution[e].task # u
        BY <1>12, <1>0 DEF RunClaim, SingleWriter, Executing, Settled
    <2>2. QED
        BY <1>12, <2>1 DEF RunClaim, TypeOK
<1>13. ASSUME NEW e \in Executions, RunProgress(e)
      PROVE  store'[u] = store[u]
    <2>1. execution[e].task # u
        BY <1>13, <1>0 DEF RunProgress, SingleWriter, Executing, Settled
    <2>2. QED
        BY <1>13, <2>1 DEF RunProgress, TypeOK
<1>14. ASSUME NEW e \in Executions, RunSucceed(e)
      PROVE  store'[u] = store[u]
    <2>1. execution[e].task # u
        BY <1>14, <1>0 DEF RunSucceed, SingleWriter, Executing, Settled
    <2>2. QED
        BY <1>14, <2>1 DEF RunSucceed, TypeOK
<1>15. ASSUME NEW e \in Executions, RunFail(e)
      PROVE  store'[u] = store[u]
    <2>1. execution[e].task # u
        BY <1>15, <1>0 DEF RunFail, SingleWriter, Executing, Settled
    <2>2. QED
        BY <1>15, <2>1 DEF RunFail, TypeOK
<1>16. ASSUME NEW e \in Executions, RunExit(e)
      PROVE  store'[u] = store[u]
    BY <1>16 DEF RunExit
<1>17. ASSUME NEW e \in Executions, RunKilled(e)
      PROVE  store'[u] = store[u]
    BY <1>17 DEF RunKilled
<1>18. ASSUME NEW p \in Pollers, PollFail(p)
      PROVE  store'[u] = store[u]
    <2>1. poller[p].task # u
        BY <1>18, <1>0 DEF PollFail, SingleWriter
    <2>2. QED
        BY <1>18, <2>1 DEF PollFail, TypeOK
<1>19. ASSUME NEW p \in Pollers, NEW t \in Tasks, PollStale(p, t)
      PROVE  store'[u] = store[u]
    BY <1>19 DEF PollStale
<1>20. ASSUME NEW t \in Tasks, TimePasses(t)
      PROVE  store'[u] = store[u]
    BY <1>20 DEF TimePasses, TypeOK, Settled
<1>21. CASE UNCHANGED vars
    BY <1>21 DEF vars
<1>22. QED
    BY <1>1, <1>2, <1>3, <1>4, <1>5, <1>6, <1>7, <1>8, <1>9, <1>10, <1>11, <1>12, <1>13, <1>14,
       <1>15, <1>16, <1>17, <1>18, <1>19, <1>20, <1>21
       DEF Next, SubmitStep, RunStep, PollStep

\* What a client has read of a settled task is what every later poll returns, as long
\* as no process was killed, no platform response was lost and no two writers overlapped.
THEOREM SettledTasksStay == Spec => SettledForGood
<1>1. IInv /\ [Next]_vars =>
         [\A t \in Tasks : store[t].status \in Settled /\ t \notin killed' \cup overlapped'
            => store'[t] = store[t]]_vars
    BY SettledStep DEF IInv
<1>2. QED
    BY Invariant, <1>1, PTL DEF Spec, SettledForGood
=============================================================================
