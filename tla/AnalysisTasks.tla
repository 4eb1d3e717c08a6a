---------------------------- MODULE AnalysisTasks ----------------------------
(***************************************************************************)
(* Durable asynchronous tasks (tasks.py, worker.py, evolution_loop.py).    *)
(*                                                                         *)
(* A task is one JSON object in a bucket.  An API request ("submitter")    *)
(* creates it and asks Cloud Run to start a job; the job ("execution")     *)
(* reads the object, does the research and writes the object back; status  *)
(* polls read it and may declare a silent discovery worker dead.  Every    *)
(* write replaces the whole object without a precondition, so each process *)
(* carries its own copy and the last writer wins.  A storage call is one   *)
(* step; everything between two storage calls is part of the earlier one.  *)
(***************************************************************************)
EXTENDS Naturals, FiniteSets

CONSTANTS
    AnalysisIds,    \* identifiers of analysis tasks (chosen by the caller)
    DiscoveryIds,   \* identifiers of discovery tasks (fresh for each submission)
    Requests,       \* request bodies
    Submitters,     \* API requests that submit a task, one submission each
    Executions,     \* Cloud Run job executions the platform may start
    Pollers,        \* API requests that poll a task's status
    MaxAttempts,    \* DISPATCH_MAX_ATTEMPTS
    MaxRetries,     \* --max-retries of the Cloud Run job
    NoTask          \* stands for "no task chosen yet"

ASSUME DisjointIds == AnalysisIds \cap DiscoveryIds = {}
ASSUME NoTaskIsNoId == NoTask \notin AnalysisIds \cup DiscoveryIds
ASSUME AttemptsPositive == MaxAttempts \in Nat \ {0}
ASSUME RetriesNatural == MaxRetries \in Nat
ASSUME SomeRequest == Requests # {}

Tasks == AnalysisIds \cup DiscoveryIds

VARIABLES
    store,      \* the bucket: one record per task identifier
    submitter,  \* AnalysisTaskCoordinator.submit and submit_discovery calls
    execution,  \* worker.main runs
    poller,     \* AnalysisTaskCoordinator.get calls
    killed,     \* history: tasks one of whose processes was killed half way
    overlapped  \* history: tasks whose writers may have overlapped

vars == <<store, submitter, execution, poller, killed, overlapped>>

Statuses == {"absent", "queued", "running", "succeeded", "failed"}
Settled  == {"succeeded", "failed"}

\* "answer" is AnalysisTask.response or a non-empty discovery leaderboard, "error"
\* is task.error, and "recent" says that updated_at lies within
\* DISCOVERY_TASK_STALE_AFTER.
Record == [status : Statuses, request : Requests, answer : BOOLEAN,
           error : BOOLEAN, recent : BOOLEAN]

Absent == [status |-> "absent", request |-> CHOOSE r \in Requests : TRUE,
           answer |-> FALSE, error |-> FALSE, recent |-> FALSE]

Queued(r) == [status |-> "queued", request |-> r, answer |-> FALSE,
              error |-> FALSE, recent |-> TRUE]

\* Mutant: a rerun keeps the error of the run before it.
RunningKeepsError(rec) == [rec EXCEPT !.status = "running", !.recent = TRUE]

Running(rec) == [rec EXCEPT !.status = "running", !.error = FALSE, !.recent = TRUE]

FailedCopy(rec) == [rec EXCEPT !.status = "failed", !.error = TRUE, !.recent = TRUE]

SucceededCopy(rec) == [rec EXCEPT !.status = "succeeded", !.answer = TRUE, !.recent = TRUE]

SubmitterState ==
    [pc : {"idle", "creating", "dispatching", "failing",
           "accepted", "conflict", "raised", "crashed"},
     task : Tasks \cup {NoTask}, copy : Record, attempts : 0..MaxAttempts]
ExecutionState ==
    [pc : {"idle", "starting", "claiming", "working", "exiting", "exited", "dead"},
     task : Tasks \cup {NoTask}, copy : Record, restarts : 0..MaxRetries]
PollerState ==
    [pc : {"idle", "failing"}, task : Tasks \cup {NoTask}, copy : Record]

TypeOK ==
    /\ store \in [Tasks -> Record]
    /\ submitter \in [Submitters -> SubmitterState]
    /\ execution \in [Executions -> ExecutionState]
    /\ poller \in [Pollers -> PollerState]
    /\ killed \subseteq Tasks
    /\ overlapped \subseteq Tasks

Init ==
    /\ store = [t \in Tasks |-> Absent]
    /\ submitter = [s \in Submitters |->
          [pc |-> "idle", task |-> NoTask, copy |-> Absent, attempts |-> 0]]
    /\ execution = [e \in Executions |->
          [pc |-> "idle", task |-> NoTask, copy |-> Absent, restarts |-> 0]]
    /\ poller = [p \in Pollers |-> [pc |-> "idle", task |-> NoTask, copy |-> Absent]]
    /\ killed = {}
    /\ overlapped = {}

-----------------------------------------------------------------------------
(***************************************************************************)
(* Who may still write task t.                                             *)
(***************************************************************************)
Submitting(t) == {s \in Submitters : /\ submitter[s].task = t
                                     /\ submitter[s].pc \in {"creating", "dispatching", "failing"}}
Executing(t)  == {e \in Executions : /\ execution[e].task = t
                                     /\ execution[e].pc \in {"starting", "claiming", "working", "exiting"}}

\* A process that is over forgets its copy.
SubmitterEnds(s, how) ==
    [submitter EXCEPT ![s] = [pc |-> how, task |-> submitter[s].task,
                              copy |-> Absent, attempts |-> 0]]
ExecutionEnds(e, how) ==
    [execution EXCEPT ![e] = [@ EXCEPT !.pc = how, !.copy = Absent]]

-----------------------------------------------------------------------------
(***************************************************************************)
(* Submission.                                                             *)
(***************************************************************************)

\* Mutant: submit() creates the record without looking for an existing one.
SubmitBlindly(s, t, r) ==
    /\ submitter[s].pc = "idle"
    /\ submitter' = [submitter EXCEPT ![s] =
          [pc |-> "creating", task |-> t, attempts |-> 0, copy |-> Queued(r)]]
    /\ overlapped' = IF Submitting(t) # {} THEN overlapped \cup {t} ELSE overlapped
    /\ UNCHANGED <<store, execution, poller, killed>>

\* submit(): read the record; reject another request under the same identifier,
\* dispatch a queued task again, report any other existing task, or create one.
SubmitAnalysis(s, t, r) ==
    LET found == store[t]
        next  == CASE found.status = "absent" -> "creating"
                   [] found.status # "absent" /\ found.request # r -> "conflict"
                   [] found.status = "queued" /\ found.request = r -> "dispatching"
                   [] OTHER -> "accepted"
        copy  == CASE next = "creating" -> Queued(r)
                   [] next = "dispatching" -> found
                   [] OTHER -> Absent
    IN  /\ submitter[s].pc = "idle"
        /\ submitter' = [submitter EXCEPT ![s] =
              [pc |-> next, task |-> t, attempts |-> 0, copy |-> copy]]
        /\ overlapped' = IF \/ next = "dispatching"
                            \/ next = "creating" /\ Submitting(t) # {}
                         THEN overlapped \cup {t} ELSE overlapped
        /\ UNCHANGED <<store, execution, poller, killed>>

\* submit_discovery(): a fresh identifier for every submission.
SubmitDiscovery(s, t, r) ==
    /\ submitter[s].pc = "idle"
    /\ \A other \in Submitters : submitter[other].task # t
    /\ submitter' = [submitter EXCEPT ![s] =
          [pc |-> "creating", task |-> t, attempts |-> 0, copy |-> Queued(r)]]
    /\ UNCHANGED <<store, execution, poller, killed, overlapped>>

\* self._store.put(task) before the first dispatch.
SubmitCreate(s) ==
    /\ submitter[s].pc = "creating"
    /\ store' = [store EXCEPT ![submitter[s].task] = submitter[s].copy]
    /\ submitter' = [submitter EXCEPT ![s].pc = "dispatching"]
    /\ UNCHANGED <<execution, poller, killed, overlapped>>

\* The platform accepts a run of the job for task t.
StartExecution(t) ==
    \E e \in Executions :
        /\ execution[e].pc = "idle"
        /\ execution' = [execution EXCEPT ![e] = [@ EXCEPT !.pc = "starting", !.task = t]]

\* dispatch(): a response below 400 ends the loop.
DispatchAccepted(s) ==
    /\ submitter[s].pc = "dispatching"
    /\ StartExecution(submitter[s].task)
    /\ submitter' = SubmitterEnds(s, "accepted")
    /\ UNCHANGED <<store, poller, killed, overlapped>>

\* Mutant: the retry loop has no bound.
NextAttemptUnbounded(s) == submitter' = [submitter EXCEPT ![s].attempts = @ + 1]

\* A lost response or a retryable status: try again until the attempts run out.
NextAttempt(s) ==
    LET tried == submitter[s].attempts + 1
    IN  submitter' = [submitter EXCEPT ![s] =
           [@ EXCEPT !.attempts = tried,
                     !.pc = IF tried = MaxAttempts THEN "failing" ELSE "dispatching"]]

\* The platform started the job, but the caller sees a lost connection, a timeout
\* or a 5xx status.
DispatchLost(s) ==
    /\ submitter[s].pc = "dispatching"
    /\ StartExecution(submitter[s].task)
    /\ NextAttempt(s)
    /\ overlapped' = overlapped \cup {submitter[s].task}
    /\ UNCHANGED <<store, poller, killed>>

\* The request never started anything.
DispatchTransient(s) ==
    /\ submitter[s].pc = "dispatching"
    /\ NextAttempt(s)
    /\ UNCHANGED <<store, execution, poller, killed, overlapped>>

\* A status outside DISPATCH_RETRYABLE_STATUS_CODES raises at once.
DispatchRejected(s) ==
    /\ submitter[s].pc = "dispatching"
    /\ submitter' = [submitter EXCEPT ![s].pc = "failing"]
    /\ UNCHANGED <<store, execution, poller, killed, overlapped>>

\* Mutant: the dispatch error is raised but not recorded.
SubmitFailUnrecorded(s) ==
    /\ submitter[s].pc = "failing"
    /\ submitter' = SubmitterEnds(s, "raised")
    /\ UNCHANGED <<store, execution, poller, killed, overlapped>>

\* _dispatch_analysis_task: the exception becomes a visible FAILED record.
SubmitFail(s) ==
    /\ submitter[s].pc = "failing"
    /\ store' = [store EXCEPT ![submitter[s].task] = FailedCopy(submitter[s].copy)]
    /\ submitter' = SubmitterEnds(s, "raised")
    /\ UNCHANGED <<execution, poller, killed, overlapped>>

\* The API instance is replaced in the middle of the request.
SubmitCrash(s) ==
    /\ submitter[s].pc \in {"creating", "dispatching", "failing"}
    /\ submitter' = SubmitterEnds(s, "crashed")
    /\ killed' = killed \cup {submitter[s].task}
    /\ UNCHANGED <<store, execution, poller, overlapped>>

-----------------------------------------------------------------------------
(***************************************************************************)
(* Execution: worker.main, then AnalysisTaskCoordinator.run or             *)
(* EvolutionLoop.run.                                                      *)
(***************************************************************************)

\* run(): a RUNNING or SUCCEEDED analysis is returned as it is.
RunAnalysisBegin(e) ==
    LET t == execution[e].task
    IN  /\ execution[e].pc = "starting"
        /\ t \in AnalysisIds
        /\ execution' = IF store[t].status \in {"running", "succeeded"}
                        THEN ExecutionEnds(e, "exiting")
                        ELSE [execution EXCEPT ![e] = [@ EXCEPT !.pc = "claiming",
                                                                !.copy = Running(store[t])]]
        /\ UNCHANGED <<store, submitter, poller, killed, overlapped>>

\* EvolutionLoop.run(): starts over whatever the status is.
RunDiscoveryBegin(e) ==
    LET t == execution[e].task
    IN  /\ execution[e].pc = "starting"
        /\ t \in DiscoveryIds
        /\ execution' = [execution EXCEPT ![e] = [@ EXCEPT !.pc = "claiming",
                                                           !.copy = Running(store[t])]]
        /\ UNCHANGED <<store, submitter, poller, killed, overlapped>>

\* The put that makes RUNNING visible.
RunClaim(e) ==
    /\ execution[e].pc = "claiming"
    /\ store' = [store EXCEPT ![execution[e].task] = execution[e].copy]
    /\ execution' = [execution EXCEPT ![e].pc = "working"]
    /\ UNCHANGED <<submitter, poller, killed, overlapped>>

\* report_progress and _update_progress: the worker's own copy, with a new
\* updated_at, replaces whatever is stored.
RunProgress(e) ==
    /\ execution[e].pc = "working"
    /\ store' = [store EXCEPT ![execution[e].task] = execution[e].copy]
    /\ UNCHANGED <<submitter, execution, poller, killed, overlapped>>

RunSucceed(e) ==
    LET done == SucceededCopy(execution[e].copy)
    IN  /\ execution[e].pc = "working"
        /\ store' = [store EXCEPT ![execution[e].task] = done]
        /\ execution' = ExecutionEnds(e, "exiting")
        /\ UNCHANGED <<submitter, poller, killed, overlapped>>

\* Mutant: an exception of the research leaves no terminal record.
RunFailUnrecorded(e) ==
    /\ execution[e].pc = "working"
    /\ execution' = ExecutionEnds(e, "exiting")
    /\ UNCHANGED <<store, submitter, poller, killed, overlapped>>

\* The research raised.  A discovery rerun that fails before its search keeps the
\* leaderboard of an earlier run; one that fails after it has an empty one.
RunFail(e) ==
    /\ execution[e].pc = "working"
    /\ \E kept \in {execution[e].copy.answer, FALSE} :
          LET done == [FailedCopy(execution[e].copy) EXCEPT !.answer = kept]
          IN  /\ execution[e].task \in AnalysisIds => kept = execution[e].copy.answer
              /\ store' = [store EXCEPT ![execution[e].task] = done]
    /\ execution' = ExecutionEnds(e, "exiting")
    /\ UNCHANGED <<submitter, poller, killed, overlapped>>

RunExit(e) ==
    /\ execution[e].pc = "exiting"
    /\ execution' = [execution EXCEPT ![e].pc = "exited"]
    /\ UNCHANGED <<store, submitter, poller, killed, overlapped>>

\* SIGKILL after an out-of-memory condition, or an exception no handler catches:
\* the platform restarts the container until the retries run out.
RunKilled(e) ==
    /\ execution[e].pc \in {"starting", "claiming", "working", "exiting"}
    /\ LET restarts == execution[e].restarts
       IN  execution' = IF restarts < MaxRetries
                        THEN [execution EXCEPT ![e] = [@ EXCEPT !.pc = "starting",
                                                                !.restarts = restarts + 1,
                                                                !.copy = Absent]]
                        ELSE ExecutionEnds(e, "dead")
    /\ killed' = killed \cup {execution[e].task}
    /\ UNCHANGED <<store, submitter, poller, overlapped>>

-----------------------------------------------------------------------------
(***************************************************************************)
(* Status polls and time.                                                  *)
(***************************************************************************)

\* DISCOVERY_TASK_STALE_AFTER passes without a write to t.
TimePasses(t) ==
    /\ t \in DiscoveryIds
    /\ store[t].status = "running" /\ store[t].recent
    /\ store' = [store EXCEPT ![t].recent = FALSE]
    /\ UNCHANGED <<submitter, execution, poller, killed, overlapped>>

\* Mutant: get() looks for silent QUEUED tasks in place of RUNNING ones.
PollStaleQueued(p, t) ==
    /\ poller[p].pc = "idle"
    /\ t \in DiscoveryIds
    /\ store[t].status = "queued" /\ ~store[t].recent
    /\ poller' = [poller EXCEPT ![p] =
          [pc |-> "failing", task |-> t, copy |-> FailedCopy(store[t])]]
    /\ UNCHANGED <<store, submitter, execution, killed, overlapped>>

\* get(): a discovery task that has been silent too long is held to be dead.
PollStale(p, t) ==
    /\ poller[p].pc = "idle"
    /\ t \in DiscoveryIds
    /\ store[t].status = "running" /\ ~store[t].recent
    /\ poller' = [poller EXCEPT ![p] =
          [pc |-> "failing", task |-> t, copy |-> FailedCopy(store[t])]]
    /\ overlapped' = IF Executing(t) # {} THEN overlapped \cup {t} ELSE overlapped
    /\ UNCHANGED <<store, submitter, execution, killed>>

PollFail(p) ==
    /\ poller[p].pc = "failing"
    /\ store' = [store EXCEPT ![poller[p].task] = poller[p].copy]
    /\ poller' = [poller EXCEPT ![p] = [pc |-> "idle", task |-> NoTask, copy |-> Absent]]
    /\ UNCHANGED <<submitter, execution, killed, overlapped>>

-----------------------------------------------------------------------------
SubmitStep(s) ==
    \/ \E t \in AnalysisIds, r \in Requests : SubmitAnalysis(s, t, r)
    \/ \E t \in DiscoveryIds, r \in Requests : SubmitDiscovery(s, t, r)
    \/ SubmitCreate(s) \/ SubmitFail(s) \/ SubmitCrash(s)
    \/ DispatchAccepted(s) \/ DispatchLost(s)
    \/ DispatchTransient(s) \/ DispatchRejected(s)

RunStep(e) ==
    \/ RunAnalysisBegin(e) \/ RunDiscoveryBegin(e)
    \/ RunClaim(e) \/ RunProgress(e) \/ RunSucceed(e) \/ RunFail(e)
    \/ RunExit(e) \/ RunKilled(e)

PollStep(p) == PollFail(p) \/ \E t \in Tasks : PollStale(p, t)

Next ==
    \/ \E s \in Submitters : SubmitStep(s)
    \/ \E e \in Executions : RunStep(e)
    \/ \E p \in Pollers : PollStep(p)
    \/ \E t \in Tasks : TimePasses(t)

\* A submission that has begun runs to its end, the platform starts what it
\* accepted and lets it run, the research ends, and clients go on polling.  Nothing
\* has to be submitted and nothing has to be killed.
Fairness ==
    /\ \A s \in Submitters : WF_vars(SubmitCreate(s) \/ SubmitFail(s) \/ DispatchAccepted(s)
                                     \/ DispatchTransient(s) \/ DispatchRejected(s))
    /\ \A e \in Executions : /\ WF_vars(RunAnalysisBegin(e) \/ RunDiscoveryBegin(e) \/ RunClaim(e))
                             /\ WF_vars(RunSucceed(e) \/ RunFail(e))
    /\ \A p \in Pollers : WF_vars(PollStep(p))
    /\ \A t \in Tasks : WF_vars(TimePasses(t))

Spec == Init /\ [][Next]_vars /\ Fairness

-----------------------------------------------------------------------------
(***************************************************************************)
(* Properties.                                                             *)
(***************************************************************************)

\* What a poll returns is coherent, whichever of the concurrent writers wrote last:
\* a finished analysis has its response and no error, a failed one has an error and
\* no response, an unfinished one has neither.  Each writer replaces the whole
\* object from its own copy, so a copy taken from an earlier run must be cleaned.
CoherentRecord(t) ==
    /\ store[t].status = "failed" <=> store[t].error
    /\ store[t].status = "succeeded" => store[t].answer
    /\ t \in AnalysisIds /\ store[t].answer => store[t].status = "succeeded"

RecordsCoherent == \A t \in Tasks : CoherentRecord(t)

\* No path of the code abandons a task: while a task is QUEUED or RUNNING there is a
\* process that is going to write it again, unless a process working on it was killed.
Owned(t) ==
    /\ store[t].status = "queued" =>
          \/ \E s \in Submitters : /\ submitter[s].task = t
                                   /\ submitter[s].pc \in {"dispatching", "failing"}
          \/ \E e \in Executions : /\ execution[e].task = t
                                   /\ execution[e].pc \in {"starting", "claiming"}
    /\ store[t].status = "running" =>
          \E e \in Executions : /\ execution[e].task = t
                                /\ execution[e].pc = "working"

UnfinishedTasksOwned == \A t \in Tasks \ killed : Owned(t)

\* A task that settled stays exactly as it is, for every poll to come, as long as no
\* process was killed, no response of the platform was lost, no two writers of the
\* task overlapped and no live worker was declared dead.
SettledForGood ==
    [][\A t \in Tasks : store[t].status \in Settled /\ t \notin killed' \cup overlapped'
          => store'[t] = store[t]]_vars

\* tasks.py:365-367 of two runs of one identifier: "the task store treats concurrent
\* runs of one task id as duplicated replies rather than corruption".  Then no step of
\* a worker erases the response that another run of the task has stored.
DuplicateRunsOnlyDuplicate ==
    [][\A t \in AnalysisIds \ killed' :
          store[t].answer /\ execution' # execution => store'[t].answer]_vars

\* Every accepted task settles unless one of its processes was killed.
TasksSettle ==
    \A t \in Tasks : store[t].status = "queued" ~> (store[t].status \in Settled \/ t \in killed)

\* The poll of a discovery task ends what its worker left RUNNING, killed or not.
DiscoverySettles ==
    \A t \in DiscoveryIds : store[t].status = "running" ~> store[t].status \in Settled

-----------------------------------------------------------------------------
(***************************************************************************)
(* The inductive invariant behind the safety properties.                   *)
(***************************************************************************)

\* What the copy in the hands of a process says.
CopiesCoherent ==
    /\ \A s \in Submitters :
          /\ submitter[s].pc = "idle" => submitter[s].task = NoTask
          /\ submitter[s].pc \in {"creating", "dispatching", "failing"} =>
             /\ submitter[s].task \in Tasks
             /\ submitter[s].copy.status = "queued"
             /\ ~submitter[s].copy.error
             /\ submitter[s].pc # "failing" => submitter[s].attempts < MaxAttempts
             /\ submitter[s].task \in AnalysisIds => ~submitter[s].copy.answer
    /\ \A e \in Executions :
          /\ execution[e].pc # "idle" => execution[e].task \in Tasks
          /\ execution[e].pc \in {"claiming", "working"} =>
                /\ execution[e].copy.status = "running"
                /\ ~execution[e].copy.error
                /\ execution[e].task \in AnalysisIds => ~execution[e].copy.answer
    /\ \A p \in Pollers :
          poller[p].pc = "failing" =>
             /\ poller[p].task \in DiscoveryIds
             /\ poller[p].copy.status = "failed"
             /\ poller[p].copy.error

\* While nothing has disturbed task t it has one writer at a time, and the stored
\* status says how far that writer has got.
SingleWriter(t) ==
    /\ \A s \in Submitting(t) :
          /\ \A other \in Submitting(t) : other = s
          /\ Executing(t) = {}
          /\ store[t].status = IF submitter[s].pc = "creating" THEN "absent" ELSE "queued"
    /\ \A e \in Executing(t) :
          /\ \A other \in Executing(t) : other = e
          /\ execution[e].pc \in {"starting", "claiming"} => store[t].status = "queued"
          /\ execution[e].pc = "working" => store[t].status = "running"
          /\ execution[e].pc = "exiting" => store[t].status \in Settled
    /\ \A p \in Pollers : ~(poller[p].pc = "failing" /\ poller[p].task = t)

UndisturbedTasksHaveOneWriter == \A t \in Tasks \ (killed \cup overlapped) : SingleWriter(t)

\* Only a submission brings a task into being.
TasksAreSubmitted ==
    \A t \in Tasks :
       (\/ store[t].status # "absent"
        \/ \E e \in Executions : execution[e].task = t
        \/ \E p \in Pollers : poller[p].task = t)
       => \E s \in Submitters : submitter[s].task = t

IInv ==
    /\ TypeOK
    /\ RecordsCoherent
    /\ CopiesCoherent
    /\ UnfinishedTasksOwned
    /\ UndisturbedTasksHaveOneWriter
    /\ TasksAreSubmitted

=============================================================================
