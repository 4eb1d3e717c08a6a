------------------------------ MODULE ResearchRun ------------------------------
(***************************************************************************)
(* One Feishu research task from its worker's start to its end             *)
(* (feishu_agent.py FeishuAgentCoordinator.run, glm_agent.py,              *)
(* codex_agent.py, codex_mcp.py, the toolbox and the task store).          *)
(*                                                                         *)
(* The worker is a Cloud Run job: the platform starts it again when it     *)
(* dies or exits with an error.  Its run keeps one progress message in the *)
(* chat and one task record in the bucket.  The model either calls the     *)
(* tools in the worker's own loop (GLM), or in a child process while a     *)
(* collector thread of the worker reports progress (Codex).  Datasets are  *)
(* numbered by the run and archived with two pointers, the latest and the  *)
(* exported one; the session workspace is set from them at the end.        *)
(* A dataset's content is a number that is new for each result.            *)
(***************************************************************************)
EXTENDS Naturals, Sequences, FiniteSets

CONSTANTS
    Runtimes,        \* the agent runtimes in use: "glm", "codex"
    MaxProgress,     \* MAX_AGENT_PROGRESS_UPDATES
    EditLimit,       \* how often Feishu lets one message be edited
    MaxRounds,       \* GLM_RUNTIME_MAX_ROUNDS, and the Codex tool calls
    StagnationLimit, \* GLM_RUNTIME_STAGNATION_LIMIT
    MaxCalls,        \* tool calls of one model answer
    MaxAttempts,     \* job executions: 1 + max-retries
    MaxFaults,       \* failing calls, crashes and a withdrawal, all together
    Labels,          \* progress texts
    PublicUrl,       \* whether PUBLIC_APP_URL is configured
    None

ASSUME ProgressLeavesOneEdit == MaxProgress \in Nat /\ EditLimit = MaxProgress + 1
ASSUME LoopBounds == /\ {MaxRounds, StagnationLimit, MaxCalls, MaxAttempts} \subseteq Nat \ {0}
                     /\ MaxFaults \in Nat
ASSUME RuntimeNames == Runtimes \subseteq {"glm", "codex"}
ASSUME ProgressLabels == Labels \cap {"queued", "planning", "answer", "notice", "failure"} = {}
ASSUME NoneIsNew == None \notin Nat /\ None \notin BOOLEAN \X Nat

Contents   == 0..(MaxAttempts * MaxRounds * MaxCalls)
DatasetIds == 0..(MaxRounds * MaxCalls + 1)   \* 0 is "session_dataset"
Texts      == Labels \cup {"planning", "answer", "notice", "failure"}
Statuses   == {"queued", "running", "succeeded", "failed"}
Stages     == {"queued", "planning", "working", "completed", "failed", "cancelled"}
Faults     == {"init", "store", "publish", "archive", "model", "attach", "overrun",
               "crash", "withdrawn"}

Task == [status : Statuses, stage : Stages, answer : BOOLEAN, file : BOOLEAN, page : BOOLEAN]

VARIABLES
    runtime,    \* LLM preference: which runtime the job builds
    stored,     \* the task record in the bucket
    task,       \* the worker's copy of it
    pc,         \* where FeishuAgentCoordinator.run is
    attempt,    \* executions of the job so far
    due,        \* whether the platform is to start (another) one
    run,        \* the run's nonlocal variables: message, edits, withdrawn, last text
    chat,       \* the progress messages: shown text and number of edits
    collector,  \* the Codex collector thread: where it is, and its text
    loop,       \* rounds, stagnation, tool calls left; contents made; identifiers reused
    datasets,   \* the toolbox's retained datasets: identifier -> content
    book,       \* content of the workbook's last written sheet, or None
    archive,    \* datasets archived for the task: identifier -> content
    latest, final,  \* the task's dataset pointers
    workspace,  \* the session workspace: <<whether of this task, identifier>>, or None
    present,    \* whether the message that asked still exists
    faults,     \* how many faults happened
    seen        \* which ones (history)

toolVars == <<datasets, book, archive, latest, final>>
vars == <<runtime, stored, task, pc, attempt, due, run, chat, collector, loop, toolVars,
          workspace, present, faults, seen>>

NoDatasets == [i \in {} |-> 0]
\* A table with one entry written, as a dictionary or the bucket does.
With(t, id, content) == [i \in DOMAIN t \cup {id} |-> IF i = id THEN content ELSE t[i]]

NewRun     == [msg |-> 0, edits |-> 0, withdrawn |-> FALSE, last |-> "queued"]
NewLoop(c) == [rounds |-> 0, idle |-> 0, left |-> 0, made |-> c, reused |-> FALSE]
Idle       == [pc |-> "idle", text |-> "planning"]

\* A call fails: the fault is counted.
Fault(k) == faults < MaxFaults /\ faults' = faults + 1 /\ seen' = seen \cup {k}
NoFault  == UNCHANGED <<faults, seen>>

-----------------------------------------------------------------------------
\* The bucket and the chat.

\* CloudStorageAnalysisTaskStore.put: the whole record is written, or nothing is.
Put(t)      == stored' = t /\ NoFault
PutFails    == Fault("store") /\ UNCHANGED stored

\* Progress stops one edit early: the last one is for the outcome.  (The first two are mutants.)
WithheldAlways(r, terminal) == r.edits >= MaxProgress
WithheldLate(r, terminal)   == ~terminal /\ r.edits > MaxProgress
Withheld(r, terminal)       == ~terminal /\ r.edits >= MaxProgress

\* What publish can do with text: the next run variables and messages, and whether it
\* raises.  A withdrawn source ends every later delivery; Feishu refuses an edit beyond
\* its limit.
Show(r, text) == [chat EXCEPT ![r.msg] = [text |-> text, edits |-> chat[r.msg].edits + 1]]
Published(r, text, terminal) ==
    IF r.withdrawn THEN {[run |-> r, chat |-> chat, ok |-> TRUE]}
    ELSE IF ~present THEN {[run |-> [r EXCEPT !.withdrawn = TRUE], chat |-> chat, ok |-> TRUE]}
    ELSE IF r.msg = 0
         THEN {[run |-> [r EXCEPT !.msg = Len(chat) + 1],
                chat |-> Append(chat, [text |-> text, edits |-> 0]), ok |-> TRUE]}
    ELSE IF Withheld(r, terminal)
         THEN {[run |-> r, chat |-> chat, ok |-> TRUE]}
    ELSE IF chat[r.msg].edits >= EditLimit THEN {[run |-> run, chat |-> chat, ok |-> FALSE]}
    ELSE {[run |-> [r EXCEPT !.edits = @ + 1], chat |-> Show(r, text), ok |-> TRUE]}

\* publish, or its failure for a reason of the network; ok says whether it returns.
Publish(r, text, terminal, ok) ==
    \/ \E p \in Published(r, text, terminal) :
         run' = p.run /\ chat' = p.chat /\ NoFault /\ ok = p.ok
    \/ ~r.withdrawn /\ Fault("publish") /\ UNCHANGED <<run, chat>> /\ ok = FALSE

\* report: the record first, then the message unless it shows the text already.
Working == [task EXCEPT !.stage = "working"]
Report(label, ok) ==
    /\ task' = Working
    /\ \/ /\ stored' = Working
          /\ \/ run.last = label /\ NoFault /\ UNCHANGED <<run, chat>> /\ ok = TRUE
             \/ run.last # label /\ Publish([run EXCEPT !.last = label], label, FALSE, ok)
       \/ PutFails /\ UNCHANGED <<run, chat>> /\ ok = FALSE

-----------------------------------------------------------------------------
\* The worker's process.

\* The process ends; after an error the platform starts the job again.
Exit(ok) == pc' = "off" /\ due' = (~ok /\ attempt < MaxAttempts)

\* What the toolbox is given of the session's previous result.
SessionDatasets ==
    IF workspace = None THEN NoDatasets
    ELSE [i \in {0} |-> IF workspace[1] THEN archive[workspace[2]] ELSE 0]

\* worker.main: load the task, build the runtime.
WorkerStart ==
    /\ pc = "off" /\ due /\ collector = Idle /\ attempt < MaxAttempts
    /\ attempt' = attempt + 1
    /\ task' = stored
    /\ run' = NewRun /\ loop' = NewLoop(loop.made)
    /\ datasets' = SessionDatasets /\ book' = None
    /\ due' = FALSE /\ NoFault
    /\ pc' = IF stored.status \in {"running", "succeeded"} THEN "off" ELSE "planning"
    /\ UNCHANGED <<runtime, stored, chat, collector, archive, latest, final, workspace, present>>

\* The runtime cannot be built: the record becomes failed and the worker raises.
WorkerInitFails ==
    /\ pc = "off" /\ due /\ collector = Idle /\ attempt < MaxAttempts
    /\ Fault("init")
    /\ attempt' = attempt + 1
    /\ stored' = [stored EXCEPT !.status = "failed", !.stage = "failed"]
    /\ task' = stored'
    /\ due' = (attempt' < MaxAttempts)
    /\ UNCHANGED <<runtime, pc, run, chat, collector, loop, toolVars, workspace, present>>

\* RUNNING is written and announced outside the try block.
Planning ==
    /\ pc = "planning"
    /\ LET claimed == [task EXCEPT !.status = "running", !.stage = "planning"]
       IN  /\ task' = claimed
           /\ \/ /\ stored' = claimed
                 /\ \E ok \in BOOLEAN :
                      /\ Publish(run, "planning", FALSE, ok)
                      /\ IF ~ok THEN Exit(FALSE)
                         ELSE /\ pc' = IF run'.withdrawn THEN "cancel" ELSE "turn"
                              /\ UNCHANGED due
              \/ PutFails /\ Exit(FALSE) /\ UNCHANGED <<run, chat>>
    /\ UNCHANGED <<runtime, attempt, collector, loop, toolVars, workspace, present>>

\* The question was withdrawn before any research: nothing is spent on it.
Cancel ==
    /\ pc = "cancel"
    /\ task' = [task EXCEPT !.status = "failed", !.stage = "cancelled"]
    /\ \/ Put(task') /\ Exit(TRUE)
       \/ PutFails /\ Exit(FALSE)
    /\ UNCHANGED <<runtime, attempt, run, chat, collector, loop, toolVars, workspace, present>>

-----------------------------------------------------------------------------
\* The GLM loop.

\* One chat request.  A timed-out request is repeated once; a second timeout, another
\* exception or an error answer ends the run.
UncountedRound == loop                                    \* a mutant
NextRound      == [loop EXCEPT !.rounds = @ + 1]
RoundsUsedLate == loop.rounds > MaxRounds                 \* a mutant
RoundsUsed     == loop.rounds = MaxRounds
GlmRound ==
    /\ pc = "turn" /\ runtime = "glm"
    /\ UNCHANGED <<runtime, stored, task, attempt, due, run, chat, collector, toolVars,
                   workspace, present>>
    /\ IF RoundsUsed THEN pc' = "finalize" /\ NoFault /\ UNCHANGED loop
       ELSE LET round == NextRound
            IN  \/ /\ Fault("model") /\ pc' = "fail" /\ loop' = round
                \/ /\ NoFault /\ loop' = round /\ pc' \in {"conclude", "finalize"}
                \/ /\ NoFault                        \* only catalogue and clarification calls
                   /\ loop' = [round EXCEPT !.idle = @ + 1]
                   /\ pc' = IF loop'.idle >= StagnationLimit THEN "fail" ELSE "turn"
                \/ /\ NoFault /\ pc' = "tools"
                   /\ \E n \in 1..MaxCalls : loop' = [round EXCEPT !.idle = 0, !.left = n]

\* _final_answer_without_tools; an empty answer has a fallback text.
GlmFinalize ==
    /\ pc = "finalize"
    /\ \/ pc' = "conclude" /\ NoFault
       \/ pc' = "fail" /\ Fault("model")
    /\ UNCHANGED <<runtime, stored, task, attempt, due, run, chat, collector, loop, toolVars,
                   workspace, present>>

-----------------------------------------------------------------------------
\* The toolbox.

\* archive_dataset writes the object and then the pointer; either write can fail.
Archived(id, content) ==
    \/ archive' = With(archive, id, content) /\ latest' = id /\ NoFault
    \/ Fault("archive") /\ UNCHANGED <<archive, latest>>
    \/ Fault("archive") /\ archive' = With(archive, id, content) /\ UNCHANGED latest

\* query, rank, join and Python results take the next number; a pipeline names its own
\* output, which may be an identifier in use.  The dataset is retained before it is archived.
NextId == Cardinality(DOMAIN datasets) + 1
Names  == IF loop.made + 1 \in Contents THEN {NextId} \cup (1..(MaxRounds * MaxCalls)) ELSE {}
RetainDataset(id) ==
    /\ datasets' = With(datasets, id, loop.made + 1)
    /\ Archived(id, loop.made + 1)
    /\ UNCHANGED <<book, final>>
Retained(l, id) == [l EXCEPT !.made = @ + 1, !.reused = @ \/ id \in DOMAIN datasets]

\* export_excel: the workbook is written first; the session's dataset is archived under the
\* task; an identifier the task has not archived cannot be marked final.
ExportExcel(id) ==
    /\ id \in DOMAIN datasets
    /\ book' = datasets[id]
    /\ IF id = 0
       THEN /\ archive' = With(archive, 0, datasets[0]) /\ latest' = 0
       ELSE UNCHANGED <<archive, latest>>
    /\ \/ final' = (IF id \in DOMAIN archive' THEN id ELSE final) /\ NoFault
       \/ Fault("archive") /\ UNCHANGED final
    /\ UNCHANGED datasets

\* One tool: a dataset, the workbook, or nothing (a tool that only reads or is rejected).
Tool(counted) ==
    \/ loop' = counted /\ NoFault /\ UNCHANGED toolVars
    \/ \E id \in Names : loop' = Retained(counted, id) /\ RetainDataset(id)
    \/ \E id \in DatasetIds : loop' = counted /\ ExportExcel(id)

\* ResearchToolbox.call in the worker: progress first; every exception becomes the tool's
\* result and the next call follows.
Called(l) == [l EXCEPT !.left = @ - 1]
AfterCall == IF loop'.left = 0 THEN "turn" ELSE "tools"
GlmProgress ==
    /\ pc = "tools"
    /\ \E label \in Labels, ok \in BOOLEAN :
         /\ Report(label, ok)
         /\ IF ok THEN pc' = "tool" /\ UNCHANGED loop
            ELSE loop' = Called(loop) /\ pc' = AfterCall
    /\ UNCHANGED <<runtime, attempt, due, collector, toolVars, workspace, present>>
GlmTool ==
    /\ pc = "tool" /\ Tool(Called(loop)) /\ pc' = AfterCall
    /\ UNCHANGED <<runtime, stored, task, attempt, due, run, chat, collector, workspace, present>>

-----------------------------------------------------------------------------
\* The Codex turn: the child process, its MCP toolbox and the collector thread.

\* ResearchMcpServer._call_tool: no progress, exceptions become error results.
CodexToolCall ==
    /\ pc = "turn" /\ runtime = "codex" /\ loop.rounds < MaxRounds * MaxCalls
    /\ Tool([loop EXCEPT !.rounds = @ + 1])
    /\ UNCHANGED <<runtime, stored, task, pc, attempt, due, run, chat, collector, workspace, present>>

\* _collect_turn reads an item/started event and reports it; report changes the shared
\* task object, waits for its write slot and the upload, and then edits the message.
CollectorEvent ==
    /\ pc = "turn" /\ runtime = "codex" /\ collector = Idle
    /\ \E label \in Labels :
         /\ task' = Working
         /\ collector' = [pc |-> "put", text |-> label]
    /\ UNCHANGED <<runtime, stored, pc, attempt, due, run, chat, loop, toolVars, workspace,
                   present, faults, seen>>

\* The collector's exception ends the turn; after the turn nobody reads it.
CollectorEnds(ok) ==
    /\ collector' = Idle
    /\ pc' = IF ~ok /\ pc = "turn" THEN "fail" ELSE pc

CollectorPut ==
    /\ collector.pc = "put"
    /\ \/ /\ Put(task)
          /\ IF run.last = collector.text THEN CollectorEnds(TRUE)
             ELSE collector' = [collector EXCEPT !.pc = "publish"] /\ UNCHANGED pc
       \/ PutFails /\ CollectorEnds(FALSE)
    /\ UNCHANGED <<runtime, task, attempt, due, run, chat, loop, toolVars, workspace, present>>

CollectorPublish ==
    /\ collector.pc = "publish"
    /\ \E ok \in BOOLEAN :
         Publish([run EXCEPT !.last = collector.text], collector.text, FALSE, ok) /\ CollectorEnds(ok)
    /\ UNCHANGED <<runtime, stored, task, attempt, due, loop, toolVars, workspace, present>>

\* turn/completed, or an error of the turn; the artifact may be ambiguous.
CodexTurnEnds ==
    /\ pc = "turn" /\ runtime = "codex" /\ collector = Idle
    /\ \/ pc' = "conclude" /\ NoFault
       \/ pc' = "fail" /\ Fault("model")
    /\ UNCHANGED <<runtime, stored, task, attempt, due, run, chat, collector, loop, toolVars,
                   workspace, present>>

\* The turn takes too long: it is interrupted, and the collector is given a grace period
\* and then left behind.
CodexTimeout ==
    /\ pc = "turn" /\ runtime = "codex"
    /\ Fault(IF collector = Idle THEN "model" ELSE "overrun")
    /\ pc' = "fail"
    /\ UNCHANGED <<runtime, stored, task, attempt, due, run, chat, collector, loop, toolVars,
                   workspace, present>>

-----------------------------------------------------------------------------
\* The outcome.

\* task.answer, the artifact, and the viewer page, which needs the archived artifact.
Conclude ==
    /\ pc = "conclude"
    /\ LET file == book # None
           told == [task EXCEPT !.answer = TRUE, !.file = file]
       IN  \/ NoFault /\ task' = [told EXCEPT !.page = @ \/ (file /\ PublicUrl)]
           \/ file /\ Fault("archive") /\ task' = told
    /\ pc' = "promote"
    /\ UNCHANGED <<runtime, stored, attempt, due, run, chat, collector, loop, toolVars,
                   workspace, present>>

\* promote_session_workspace: the exported dataset, else the latest, else nothing.
PromotedLatest == IF latest # None THEN <<TRUE, latest>> ELSE workspace   \* a mutant
Promoted == IF final # None THEN <<TRUE, final>>
            ELSE IF latest # None THEN <<TRUE, latest>> ELSE workspace
AfterPromotionAnswered == "answer"                        \* a mutant
AfterPromotion == "success"
Promote ==
    /\ pc = "promote"
    /\ \/ workspace' = Promoted /\ pc' = AfterPromotion /\ NoFault
       \/ pc' = "fail" /\ Fault("archive") /\ UNCHANGED workspace
    /\ UNCHANGED <<runtime, stored, task, attempt, due, run, chat, collector, loop, toolVars, present>>

Succeed ==
    /\ pc = "success"
    /\ task' = [task EXCEPT !.status = "succeeded", !.stage = "completed"]
    /\ \/ Put(task') /\ pc' = "answer"
       \/ PutFails /\ pc' = "fail"
    /\ UNCHANGED <<runtime, attempt, due, run, chat, collector, loop, toolVars, workspace, present>>

\* The answer is the message's last edit; an exception after it is handled as any other.
Answer ==
    /\ pc = "answer"
    /\ \E ok \in BOOLEAN :
         /\ Publish(run, "answer", TRUE, ok)
         /\ IF ~ok THEN pc' = "fail" /\ UNCHANGED due
            ELSE IF task.file THEN pc' = "attach" /\ UNCHANGED due ELSE Exit(TRUE)
    /\ UNCHANGED <<runtime, stored, task, attempt, collector, loop, toolVars, workspace, present>>

\* reply_file: delivered or withdrawn, or refused.
Attach ==
    /\ pc = "attach"
    /\ \/ Exit(TRUE) /\ NoFault
       \/ present /\ Fault("attach") /\ pc' = "undelivered" /\ UNCHANGED due
    /\ UNCHANGED <<runtime, stored, task, attempt, run, chat, collector, loop, toolVars,
                   workspace, present>>

\* "Preserve success and keep the textual answer visible": one more write, one more edit.
Undelivered ==
    /\ pc = "undelivered"
    /\ \/ /\ stored' = task
          /\ \E ok \in BOOLEAN :
               /\ Publish(run, "notice", TRUE, ok)
               /\ IF ok THEN Exit(TRUE) ELSE pc' = "fail" /\ UNCHANGED due
       \/ PutFails /\ pc' = "fail" /\ UNCHANGED <<due, run, chat>>
    /\ UNCHANGED <<runtime, task, attempt, collector, loop, toolVars, workspace, present>>

\* The outer exception handler; it is not guarded itself.
FailedStage == [task EXCEPT !.stage = "failed"]           \* a mutant
Failed == [task EXCEPT !.status = "failed", !.stage = "failed"]
Fail ==
    /\ pc = "fail"
    /\ task' = Failed
    /\ \/ stored' = task' /\ \E ok \in BOOLEAN : Publish(run, "failure", TRUE, ok) /\ Exit(ok)
       \/ PutFails /\ Exit(FALSE) /\ UNCHANGED <<run, chat>>
    /\ UNCHANGED <<runtime, attempt, collector, loop, toolVars, workspace, present>>

-----------------------------------------------------------------------------
\* The environment.

\* The instance dies at any point of the run.
Crash ==
    /\ pc # "off" \/ collector # Idle
    /\ Fault("crash")
    /\ Exit(FALSE) /\ collector' = Idle
    /\ UNCHANGED <<runtime, stored, task, attempt, run, chat, loop, toolVars, workspace, present>>

\* The user withdraws the question.
Withdraw ==
    /\ present /\ present' = FALSE
    /\ Fault("withdrawn")
    /\ UNCHANGED <<runtime, stored, task, pc, attempt, due, run, chat, collector, loop, toolVars,
                   workspace>>

-----------------------------------------------------------------------------

Init ==
    /\ runtime \in Runtimes
    /\ stored = [status |-> "queued", stage |-> "queued", answer |-> FALSE, file |-> FALSE,
                 page |-> FALSE]
    /\ task = stored
    /\ pc = "off" /\ attempt = 0 /\ due = TRUE
    /\ run = NewRun /\ chat = <<>> /\ collector = Idle /\ loop = NewLoop(0)
    /\ datasets = NoDatasets /\ book = None /\ archive = NoDatasets
    /\ latest = None /\ final = None
    /\ workspace \in {None, <<FALSE, 1>>}
    /\ present = TRUE /\ faults = 0 /\ seen = {}

\* The worker's own steps, and the collector's.
WorkerStep ==
    \/ WorkerStart \/ Planning \/ Cancel
    \/ GlmRound \/ GlmFinalize \/ GlmProgress \/ GlmTool \/ CodexTurnEnds
    \/ Conclude \/ Promote \/ Succeed \/ Answer \/ Attach \/ Undelivered \/ Fail
CollectorStep == CollectorPut \/ CollectorPublish

Next ==
    \/ WorkerStep \/ CollectorStep
    \/ WorkerInitFails \/ CodexToolCall \/ CollectorEvent \/ CodexTimeout \/ Crash \/ Withdraw

\* The worker and its collector run; the Codex turn ends or times out
\* (CODEX_TURN_TIMEOUT_SECONDS) whatever the child process does.
Fairness == WF_vars(WorkerStep) /\ WF_vars(CollectorStep) /\ SF_vars(CodexTurnEnds)

Spec == Init /\ [][Next]_vars /\ Fairness

-----------------------------------------------------------------------------
\* Properties.

\* Every variable stays in its type.
Places    == {"off", "planning", "cancel", "turn", "tools", "tool", "finalize", "conclude",
              "promote", "success", "answer", "attach", "undelivered", "fail"}
RunState  == [msg : Nat, edits : Nat, withdrawn : BOOLEAN, last : Texts \cup {"queued"}]
Message   == [text : Texts, edits : 0..EditLimit]
Collector == [pc : {"idle", "put", "publish"}, text : Labels \cup {"planning"}]
Loop      == [rounds : Nat, idle : Nat, left : Nat, made : Nat, reused : BOOLEAN]
Table(f)  == f \in [DOMAIN f -> Nat] /\ DOMAIN f \subseteq Nat /\ IsFiniteSet(DOMAIN f)
TypeOK ==
    /\ runtime \in Runtimes /\ stored \in Task /\ task \in Task
    /\ pc \in Places /\ attempt \in 0..MaxAttempts /\ due \in BOOLEAN
    /\ run \in RunState /\ chat \in Seq(Message) /\ run.msg <= Len(chat)
    /\ collector \in Collector /\ (collector.pc = "idle" => collector = Idle)
    /\ loop \in Loop /\ (pc \in {"tools", "tool"} => loop.left > 0)
    /\ Table(datasets) /\ Table(archive)
    /\ {book, latest, final} \subseteq Nat \cup {None}
    /\ latest # None => latest \in DOMAIN archive
    /\ final # None => final \in DOMAIN archive
    /\ workspace \in {None} \cup (BOOLEAN \X Nat)
    /\ workspace # None /\ workspace[1] => workspace[2] \in DOMAIN archive
    /\ present \in BOOLEAN /\ faults \in 0..MaxFaults /\ seen \subseteq Faults

\* The chat never announces a result the record does not hold: a message that shows an
\* answer has a stored answer behind it, and the stored viewer page has its workbook
\* (feishu_agent.py: the page is published only with an archived artifact, the answer only
\* after the record).
AnswersAreRecorded ==
    /\ \A m \in DOMAIN chat : chat[m].text \in {"answer", "notice"} => stored.answer
    /\ stored.page => stored.answer

\* What the chat shows at the end is what the record says, unless a call to the store or
\* to Feishu failed, the job died or never started, the question was withdrawn, or the
\* Codex collector outlived its turn: no late progress text replaces an outcome.
OutcomeShown ==
    /\ pc = "off" /\ ~due /\ collector = Idle /\ attempt > 0
    /\ seen \cap {"init", "store", "publish", "crash", "withdrawn", "overrun", "attach"} = {}
    => /\ chat # <<>>
       /\ chat[Len(chat)].text = IF stored.status = "succeeded" THEN "answer" ELSE "failure"
       /\ stored.status \in {"succeeded", "failed"}

\* A message keeps its last edit for the outcome: progress alone never uses it up, so
\* Feishu refuses the answer or the failure only after an attachment notice.
LastEditIsForTheOutcome ==
    \A m \in DOMAIN chat : chat[m].edits = EditLimit => chat[m].text \notin Labels \cup {"planning"}

\* After a run that exported a workbook and whose archive calls succeeded, the session
\* continues from the exported dataset, not from a later intermediate one, if no pipeline
\* wrote to an identifier in use.
WorkspaceShowsTheWorkbook ==
    /\ pc = "answer" /\ book # None /\ "archive" \notin seen /\ ~loop.reused
    => workspace # None /\ workspace[1] /\ archive[workspace[2]] = book

\* A task is left running for good only by a crash of the job or by a store or Feishu call
\* that failed: no order of the run's own steps strands it.
OnlyFaultsStrand ==
    /\ pc = "off" /\ ~due /\ collector = Idle /\ stored.status \notin {"succeeded", "failed"}
    => seen \cap {"crash", "store", "publish"} # {}

\* Every execution ends: the loop is bounded whatever the model answers.
RunsEnd == (pc # "off") ~> (pc = "off")

\* feishu_agent.py:466-470: when only the attachment fails, "Preserve success and keep the
\* textual answer visible instead of rewriting it as a model or analysis failure".
AttachmentFailureKeepsSuccess ==
    "attach" \in seen /\ seen \subseteq {"attach"} => stored.status = "succeeded"

-----------------------------------------------------------------------------
\* The inductive invariant behind them.

\* The run counts the edits of its message.
EditsCounted == run.edits = IF run.msg = 0 THEN 0 ELSE chat[run.msg].edits

\* An answer is never lost again: the worker's copy has it before the record, and the record
\* before the chat.
AnswersKept ==
    /\ stored.answer => task.answer
    /\ task.page => task.answer
    /\ pc \in {"promote", "success", "answer", "attach", "undelivered"} => task.answer
    /\ pc \in {"answer", "attach", "undelivered"} => stored.answer

\* While every archive call succeeds and no identifier is used twice, the task's archive has the
\* datasets of the run, the exported one is marked final, and it is promoted.
WorkbookArchived ==
    "archive" \notin seen /\ ~loop.reused =>
       /\ \A id \in DOMAIN datasets \ {0} : id \in DOMAIN archive /\ archive[id] = datasets[id]
       /\ book # None =>
             /\ final # None /\ final \in DOMAIN datasets /\ final \in DOMAIN archive
             /\ archive[final] = book
             /\ pc \in {"success", "answer"} => workspace = <<TRUE, final>>

\* Without the faults that OutcomeShown names there is one execution, whose message has an
\* edit left and tells what the record says.
Calm == seen \cap {"init", "store", "publish", "crash", "withdrawn", "overrun", "attach"} = {}
CalmRun ==
    Calm =>
       /\ present /\ ~run.withdrawn
       /\ pc \notin {"cancel", "undelivered"}
       /\ attempt = 0 => pc = "off" /\ stored.status = "queued"
       /\ attempt > 0 => attempt = 1 /\ ~due
       /\ attempt = 0 \/ pc = "planning" => chat = <<>> /\ collector = Idle
       /\ collector # Idle => pc = "turn" /\ runtime = "codex"
       /\ pc \notin {"off", "planning"} => Len(chat) = 1 /\ run.msg = 1
       /\ pc \notin {"off", "planning", "attach"} => run.edits <= MaxProgress
       /\ pc \notin {"off", "planning", "answer", "attach", "fail"} => task.status = "running"
       /\ pc \in {"answer", "attach"} => stored.status = "succeeded"
       /\ pc = "attach" => chat[1].text = "answer"

IInv ==
    /\ TypeOK /\ EditsCounted
    /\ AnswersKept /\ AnswersAreRecorded
    /\ LastEditIsForTheOutcome
    /\ WorkbookArchived
    /\ CalmRun /\ OutcomeShown

=============================================================================
