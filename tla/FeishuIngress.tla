---------------------------- MODULE FeishuIngress ----------------------------
(***************************************************************************)
(* Feishu events (api.py, feishu.py) and the submission of agent tasks     *)
(* (FeishuAgentCoordinator.submit in feishu_agent.py).                     *)
(*                                                                         *)
(* The endpoint acknowledges an event and processes it in the background.  *)
(* Feishu sends an event again until an acknowledgement arrives, so an     *)
(* event may be in the hands of several handlers: the first one claims it, *)
(* later ones take it over once its lease has expired.  Event claims are   *)
(* written under a generation precondition; tasks, task records, pointers, *)
(* sessions and conversations are read and replaced without one.           *)
(*                                                                         *)
(* The identifiers of the task and of the session that an event creates    *)
(* are hashes of the event's, so the event itself stands for them here.    *)
(***************************************************************************)
EXTENDS Naturals, Sequences, FiniteSets, SequencesExt

CONSTANTS
    Events,      \* source events
    KindOf,      \* what the text of an event asks for
    Handlers,    \* background runs of FeishuResearchBot.process, one delivery each
    Default,     \* the session every chat starts with
    MaxTurns,    \* MAX_FEISHU_CONTEXT_TURNS
    MaxCuts,     \* bound: handlers cut short by an exception or a replaced instance
    None

SessionKinds == {"session", "session_ask", "switch"}
Kinds == {"ask", "status", "retry"} \cup SessionKinds
Sessions == {Default} \cup {e \in Events : KindOf[e] \in {"session", "session_ask"}}

ASSUME KindOfType == KindOf \in [Events -> Kinds]
ASSUME NoneIsNew == None \notin Events /\ Default \notin Events /\ None # Default
ASSUME BoundsAreNaturals == MaxTurns \in Nat \ {0} /\ MaxCuts \in Nat

VARIABLES
    acked,       \* events whose acknowledgement has reached Feishu
    claim,       \* feishu/events/
    session,     \* feishu/agent-sessions/ of the one chat scope
    task,        \* tasks/: the agent task an event has created
    record,      \* feishu/tasks/
    latest,      \* feishu/conversation-tasks/
    eventTask,   \* feishu/event-tasks/: the events that have a task pointer
    turns,       \* feishu/conversations/: completed exchanges, named by their event
    handler,
    job,         \* the worker of the task of an event
    cuts,        \* history: handlers cut short
    dispatches,  \* history: job runs started for the task of an event, up to two
    crashed,     \* history: events a handler of which was killed
    stolen,      \* history: events whose lease was taken from a live handler
    torn         \* history: conversations that were recorded by two handlers at once or
                 \* by one that was cut short, or a record of which was written anew

vars == <<acked, claim, session, task, record, latest, eventTask, turns, handler, job, cuts,
          dispatches, crashed, stolen, torn>>
store == <<claim, session, task, record, latest, eventTask, turns>>
work == <<job, dispatches>>
history == <<job, cuts, dispatches, crashed, stolen, torn>>

Turns == SeqOf(Events, MaxTurns)
NoRequest == [conv |-> Default, context |-> <<>>, answers |-> None]
Request == [conv : Sessions, context : Turns, answers : Events \cup {None}]

IdleHandler == [pc |-> "idle", event |-> None, gen |-> 0, request |-> NoRequest,
                recording |-> None, copy |-> <<>>, view |-> [known |-> {Default}, active |-> Default]]

\* The steps at which a handler holds the claim of its event.
Holding == {"begin", "naming", "asking", "noting", "appending", "marking", "composing", "submitting",
            "dispatching", "failing", "linking", "completing"}
Recording == {"noting", "appending", "marking"}

HandlerState == [pc : Holding \cup {"idle", "claiming", "taking", "done"},
                 event : Events \cup {None}, gen : Nat, request : Request,
                 recording : Events \cup {None}, copy : Turns,
                 view : [known : SUBSET Sessions, active : Sessions]]
ClaimState == [state : {"none", "processing", "completed"}, gen : Nat, stale : BOOLEAN]
TaskState == [status : {"absent", "queued", "running", "succeeded", "failed"}, request : Request]

\* Every variable has its type.
TypeOK ==
    /\ acked \subseteq Events
    /\ claim \in [Events -> ClaimState]
    /\ session \in [known : SUBSET Sessions, active : Sessions]
    /\ session.active \in session.known
    /\ task \in [Events -> TaskState]
    /\ record \in [Events -> [conv : Sessions \cup {None}, recorded : BOOLEAN]]
    /\ latest \in [Sessions -> Events \cup {None}]
    /\ eventTask \subseteq Events
    /\ turns \in [Sessions -> Turns]
    /\ handler \in [Handlers -> HandlerState]
    /\ cuts \in 0..MaxCuts
    /\ job \in [Events -> {"none", "waiting", "working", "over"}]
    /\ dispatches \in [Events -> 0..2]
    /\ crashed \subseteq Events /\ stolen \subseteq Events /\ torn \subseteq Sessions

\* The start, with some events acknowledged long ago, some cuts used up, and one question (or
\* None) that has been asked and answered.
InitWith(old, used, asked) ==
    /\ acked = old
    /\ claim = [e \in Events |-> IF e = asked THEN [state |-> "completed", gen |-> 2, stale |-> FALSE]
                                ELSE [state |-> "none", gen |-> 0, stale |-> FALSE]]
    /\ session = [known |-> {Default}, active |-> Default]
    /\ task = [e \in Events |-> IF e = asked THEN [status |-> "succeeded", request |-> [NoRequest EXCEPT !.answers = e]]
                               ELSE [status |-> "absent", request |-> NoRequest]]
    /\ record = [e \in Events |-> [conv |-> IF e = asked THEN Default ELSE None, recorded |-> FALSE]]
    /\ latest = [c \in Sessions |-> IF c = Default THEN asked ELSE None]
    /\ eventTask = {asked} \ {None}
    /\ turns = [c \in Sessions |-> <<>>]
    /\ handler = [h \in Handlers |-> IdleHandler]
    /\ job = [e \in Events |-> IF e = asked THEN "over" ELSE "none"]
    /\ cuts = used
    /\ dispatches = [e \in Events |-> IF e = asked THEN 1 ELSE 0]
    /\ crashed = {} /\ stolen = {} /\ torn = {}
Init == InitWith({}, 0, None)

-----------------------------------------------------------------------------
(***************************************************************************)
(* Delivery and the event lease.                                           *)
(***************************************************************************)
At(h, pc) == handler[h].pc = pc
Goto(h, pc) == handler' = [handler EXCEPT ![h].pc = pc]
Done == [IdleHandler EXCEPT !.pc = "done"]
Leave(h) == handler' = [handler EXCEPT ![h] = Done]
Working(e) == {h \in Handlers : handler[h].event = e /\ handler[h].pc \in Holding}

\* receive_feishu_event: the event goes to a background task; the acknowledgement may
\* be lost or too late, and then the event comes again.
Deliver(h, e) ==
    /\ At(h, "idle") /\ e \notin acked
    /\ handler' = [handler EXCEPT ![h] = [IdleHandler EXCEPT !.pc = "claiming", !.event = e]]
    /\ acked' \in {acked, acked \cup {e}}
    /\ UNCHANGED <<store, history>>

\* claim_event: create the claim, or look at the one that is there.  A completed event
\* and a fresh lease end the handler.
ClaimEvent(h) ==
    LET e == handler[h].event
        fresh == claim[e].state = "none"
    IN  /\ At(h, "claiming")
        /\ claim' = IF fresh THEN [claim EXCEPT ![e] = [state |-> "processing", gen |-> 1, stale |-> FALSE]]
                             ELSE claim
        /\ handler' = [handler EXCEPT ![h] =
              IF fresh THEN [handler[h] EXCEPT !.gen = 1, !.pc = "begin"]
              ELSE IF claim[e].state = "processing" /\ claim[e].stale
                   THEN [handler[h] EXCEPT !.gen = claim[e].gen, !.pc = "taking"]
                   ELSE Done]
        /\ UNCHANGED <<acked, session, task, record, latest, eventTask, turns, history>>

\* Mutant: the lease is taken over without the generation precondition.
TakeLeaseBlindly(h) ==
    LET e == handler[h].event
    IN  /\ At(h, "taking")
        /\ claim' = [claim EXCEPT ![e] = [state |-> "processing", gen |-> claim[e].gen + 1, stale |-> FALSE]]
        /\ handler' = [handler EXCEPT ![h].pc = "begin", ![h].gen = claim[e].gen + 1]
        /\ stolen' = IF Working(e) # {} THEN stolen \cup {e} ELSE stolen
        /\ UNCHANGED <<acked, session, task, record, latest, eventTask, turns, work, cuts, crashed, torn>>

\* The second half of claim_event: take over the lease, if nobody has written the claim
\* since.
TakeLease(h) ==
    LET e == handler[h].event
        mine == claim[e].gen = handler[h].gen
    IN  /\ At(h, "taking")
        /\ claim' = IF mine THEN [claim EXCEPT ![e] = [state |-> "processing",
                                                       gen |-> claim[e].gen + 1, stale |-> FALSE]]
                            ELSE claim
        /\ handler' = [handler EXCEPT ![h] =
              IF mine THEN [handler[h] EXCEPT !.gen = claim[e].gen + 1, !.pc = "begin"] ELSE Done]
        /\ stolen' = IF mine /\ Working(e) # {} THEN stolen \cup {e} ELSE stolen
        /\ UNCHANGED <<acked, session, task, record, latest, eventTask, turns, work, cuts, crashed, torn>>

\* complete_event: a blind write after the reply.
Complete(h) ==
    LET e == handler[h].event
    IN  /\ At(h, "completing")
        /\ claim' = [claim EXCEPT ![e] = [state |-> "completed", gen |-> claim[e].gen + 1, stale |-> FALSE]]
        /\ Leave(h)
        /\ UNCHANGED <<acked, session, task, record, latest, eventTask, turns, history>>

\* FEISHU_EVENT_LEASE passes.
LeaseExpires(e) ==
    /\ claim[e].state = "processing" /\ ~claim[e].stale
    /\ claim' = [claim EXCEPT ![e].stale = TRUE]
    /\ UNCHANGED <<acked, session, task, record, latest, eventTask, turns, handler, history>>

-----------------------------------------------------------------------------
(***************************************************************************)
(* What the event asks for.                                                *)
(***************************************************************************)

\* A question or a retry that already has its task is only acknowledged.
Begin(h) ==
    LET e == handler[h].event
    IN  /\ At(h, "begin")
        /\ handler' = [handler EXCEPT ![h].pc =
              CASE KindOf[e] \in SessionKinds -> "naming"
                [] KindOf[e] \in {"ask", "retry"} /\ e \in eventTask -> "completing"
                [] OTHER -> "asking",
                                      ![h].view = IF KindOf[e] \in SessionKinds THEN session ELSE @]
        /\ UNCHANGED <<acked, store, history>>

\* Mutant: the new session is not put into the catalog.
NameSessionUncatalogued(h) ==
    LET e == handler[h].event
        view == handler[h].view
    IN  /\ At(h, "naming")
        /\ \E s \in IF KindOf[e] = "switch" THEN view.known ELSE {e} :
              session' = [known |-> view.known, active |-> s]
        /\ handler' = [handler EXCEPT
              ![h].pc = IF KindOf[e] = "session_ask" /\ e \notin eventTask THEN "asking" ELSE "completing",
              ![h].view = IdleHandler.view]
        /\ UNCHANGED <<acked, claim, task, record, latest, eventTask, turns, history>>

\* _create_agent_session and the switch command write back the catalog they have read.
NameSession(h) ==
    LET e == handler[h].event
        view == handler[h].view
    IN  /\ At(h, "naming")
        /\ \E s \in IF KindOf[e] = "switch" THEN view.known ELSE {e} :
              session' = [known |-> view.known \cup {s}, active |-> s]
        /\ handler' = [handler EXCEPT
              ![h].pc = IF KindOf[e] = "session_ask" /\ e \notin eventTask THEN "asking" ELSE "completing",
              ![h].view = IdleHandler.view]
        /\ UNCHANGED <<acked, claim, task, record, latest, eventTask, turns, history>>

\* The record an event is about: that of the active session's latest task, or for a
\* status or retry command the one whose identifier the text names.
Subject(e, conv) ==
    {r \in Events : record[r].conv = conv /\ (r = latest[conv] \/ KindOf[e] \in {"status", "retry"})}

\* _completed_agent_conversation, _status_reply and _retry_reply look at the subject.  A
\* successful answer that is not yet part of the conversation is recorded first.
LookUp(h) ==
    LET e == handler[h].event
        conv == session.active
        asks == KindOf[e] \in {"ask", "session_ask"}
    IN  /\ At(h, "asking")
        /\ \E subject \in Subject(e, conv) \cup {None} :
              LET found == subject # None
                  records == /\ found /\ KindOf[e] # "retry"
                             /\ task[subject].status = "succeeded" /\ ~record[subject].recorded
              IN  /\ asks /\ latest[conv] # None /\ record[latest[conv]].conv = conv => found
                  /\ handler' = [handler EXCEPT
                           ![h].request = CASE asks -> [conv |-> conv, context |-> <<>>, answers |-> e]
                                         [] found /\ KindOf[e] = "retry" ->
                                               [task[subject].request EXCEPT !.answers = e]
                                         [] OTHER -> NoRequest,
                           ![h].recording = IF records THEN subject ELSE None,
                           ![h].pc = CASE records -> "noting"
                                    [] ~records /\ asks -> "composing"
                                    [] found /\ KindOf[e] = "retry" /\ task[subject].status = "failed"
                                         -> "submitting"
                                    [] OTHER -> "completing"]
                  /\ torn' = IF records /\ \E other \in Handlers \ {h} :
                                  /\ handler[other].pc \in Recording
                                  /\ record[handler[other].recording].conv = conv
                             THEN torn \cup {conv} ELSE torn
        /\ UNCHANGED <<acked, store, work, cuts, crashed, stolen>>

\* _record_completed_agent_context: read the turns, write them back with the exchange.
Note(h) ==
    /\ At(h, "noting")
    /\ handler' = [handler EXCEPT ![h].pc = "appending",
                                  ![h].copy = turns[record[handler[h].recording].conv]]
    /\ UNCHANGED <<acked, store, history>>

AppendBounded(s, e) == LET t == Append(s, e)
                  IN  SubSeq(t, Len(t) - (IF Len(t) > MaxTurns THEN MaxTurns ELSE Len(t)) + 1, Len(t))

\* Mutant: the exchange goes to the session that is active.
AppendToActive(h) ==
    LET r == handler[h].recording
    IN  /\ At(h, "appending")
        /\ turns' = [turns EXCEPT ![session.active] = AppendBounded(handler[h].copy, r)]
        /\ handler' = [handler EXCEPT ![h].pc = "marking", ![h].copy = <<>>]
        /\ UNCHANGED <<acked, claim, session, task, record, latest, eventTask, history>>

\* The exchange is stored in the conversation of its record.
AppendTurn(h) ==
    LET r == handler[h].recording
    IN  /\ At(h, "appending")
        /\ turns' = [turns EXCEPT ![record[r].conv] = AppendBounded(handler[h].copy, r)]
        /\ handler' = [handler EXCEPT ![h].pc = "marking", ![h].copy = <<>>]
        /\ UNCHANGED <<acked, claim, session, task, record, latest, eventTask, history>>

\* Mutant: the record is written last.
PutPointersFirst(e, rec, written) ==
    /\ latest' = IF written >= 1 THEN [latest EXCEPT ![rec.conv] = e] ELSE latest
    /\ eventTask' = IF written >= 2 THEN eventTask \cup {e} ELSE eventTask
    /\ record' = IF written >= 3 THEN [record EXCEPT ![e] = rec] ELSE record

\* put_task replaces the record and both pointers, in this order; "written" says how far
\* it gets.
PutTask(e, rec, written) ==
    /\ record' = IF written >= 1 THEN [record EXCEPT ![e] = rec] ELSE record
    /\ latest' = IF written >= 2 THEN [latest EXCEPT ![rec.conv] = e] ELSE latest
    /\ eventTask' = IF written >= 3 THEN eventTask \cup {e} ELSE eventTask

MarkedGoto(h) ==
    handler' = [handler EXCEPT
        ![h].pc = IF KindOf[handler[h].event] = "status" THEN "completing" ELSE "composing",
        ![h].recording = None]

\* Mutant: the record is not marked.
MarkNothing(h) ==
    /\ At(h, "marking")
    /\ MarkedGoto(h)
    /\ UNCHANGED <<acked, store, history>>

MarkRecorded(h) ==
    LET r == handler[h].recording
    IN  /\ At(h, "marking")
        /\ PutTask(r, [record[r] EXCEPT !.recorded = TRUE], 3)
        /\ MarkedGoto(h)
        /\ UNCHANGED <<acked, claim, session, task, turns, history>>

-----------------------------------------------------------------------------
(***************************************************************************)
(* Submission.                                                             *)
(***************************************************************************)

\* The conversation is read for the request.
Compose(h) ==
    /\ At(h, "composing")
    /\ handler' = [handler EXCEPT ![h].pc = "submitting",
                                  ![h].request.context = turns[handler[h].request.conv]]
    /\ UNCHANGED <<acked, store, history>>

\* Mutant: submit() does not look for an existing task.
SubmitAnew(h) ==
    LET e == handler[h].event
    IN  /\ At(h, "submitting")
        /\ task' = [task EXCEPT ![e] = [status |-> "queued", request |-> handler[h].request]]
        /\ Goto(h, "dispatching")
        /\ UNCHANGED <<acked, claim, session, record, latest, eventTask, turns, history>>

\* submit(): an existing task of the same request is returned, one of another request
\* is an error, otherwise the QUEUED task is stored.
Submit(h) ==
    LET e == handler[h].event
        found == task[e].status # "absent"
    IN  /\ At(h, "submitting")
        /\ task' = IF found THEN task
                   ELSE [task EXCEPT ![e] = [status |-> "queued", request |-> handler[h].request]]
        /\ CASE ~found -> Goto(h, "dispatching")
             [] found /\ task[e].request = handler[h].request -> Goto(h, "linking")
             [] OTHER -> Leave(h)
        /\ UNCHANGED <<acked, claim, session, record, latest, eventTask, turns, history>>

\* dispatch() starts a job run, or raises: the run was refused, or the answer was lost.
Dispatch(h) ==
    LET e == handler[h].event
    IN  /\ At(h, "dispatching")
        /\ \/ Goto(h, "failing") /\ UNCHANGED work
           \/ /\ Goto(h, "linking") \/ Goto(h, "failing")
              /\ dispatches' = [dispatches EXCEPT ![e] = IF @ < 2 THEN @ + 1 ELSE @]
              /\ job' = [job EXCEPT ![e] = IF @ = "working" THEN @ ELSE "waiting"]
        /\ UNCHANGED <<acked, store, cuts, crashed, stolen, torn>>

\* Mutant: a dispatch error leaves the task as it is, and the handler goes on.
DispatchFailIgnored(h) ==
    /\ At(h, "failing")
    /\ Goto(h, "linking")
    /\ UNCHANGED <<acked, store, history>>

\* The dispatch has raised: the task is FAILED and the user gets an error reply.
DispatchFail(h) ==
    /\ At(h, "failing")
    /\ task' = [task EXCEPT ![handler[h].event].status = "failed"]
    /\ Leave(h)
    /\ UNCHANGED <<acked, claim, session, record, latest, eventTask, turns, history>>

\* put_task of the handler, as far as it gets.
Put(h, written) ==
    LET e == handler[h].event
        r == handler[h].recording
    IN  CASE At(h, "linking") ->
                PutTask(e, [conv |-> handler[h].request.conv, recorded |-> FALSE], written)
          [] At(h, "marking") -> PutTask(r, [record[r] EXCEPT !.recorded = TRUE], written)
          [] OTHER -> UNCHANGED <<record, latest, eventTask>>

\* A record that is written anew may have been marked in the meantime.
Tears(h) == IF At(h, "linking") THEN record[handler[h].event].conv ELSE None

LinkTask(h) ==
    /\ At(h, "linking")
    /\ Put(h, 3)
    /\ torn' = torn \cup ({Tears(h)} \ {None})
    /\ Goto(h, "completing")
    /\ UNCHANGED <<acked, claim, session, task, turns, work, cuts, crashed, stolen>>

\* A step is cut short; a put_task may have come half way.
Cut(h) ==
    /\ cuts < MaxCuts /\ cuts' = cuts + 1
    /\ \E written \in 0..2 : Put(h, written)
    /\ torn' = torn \cup (({Tears(h)} \cup
                 (IF handler[h].pc \in Recording THEN {record[handler[h].recording].conv} ELSE {}))
                 \ {None})
    /\ UNCHANGED <<acked, claim, session, task, turns, work, stolen>>

\* Storage or Feishu raises: an error reply, and the event is left to its lease.
Raise(h) ==
    /\ handler[h].pc \in Holding \ {"submitting", "dispatching", "failing"}
    /\ Cut(h)
    /\ Leave(h)
    /\ UNCHANGED crashed

\* The instance is replaced.
Crash(h) ==
    /\ handler[h].pc \in Holding
    /\ Cut(h)
    /\ Leave(h)
    /\ crashed' = crashed \cup {handler[h].event}

\* FeishuAgentCoordinator.run: a job leaves a RUNNING or SUCCEEDED task alone.
Work(e) ==
    /\ \/ /\ job[e] = "waiting"
          /\ IF task[e].status \in {"queued", "failed"}
             THEN task' = [task EXCEPT ![e].status = "running"] /\ job' = [job EXCEPT ![e] = "working"]
             ELSE job' = [job EXCEPT ![e] = "over"] /\ UNCHANGED task
       \/ /\ job[e] = "working"
          /\ \E how \in {"succeeded", "failed"} : task' = [task EXCEPT ![e].status = how]
          /\ job' = [job EXCEPT ![e] = "over"]
    /\ UNCHANGED <<acked, claim, session, record, latest, eventTask, turns, handler,
                   cuts, dispatches, crashed, stolen, torn>>

-----------------------------------------------------------------------------
HandlerStep(h) ==
    \/ \E e \in Events : Deliver(h, e)
    \/ ClaimEvent(h) \/ TakeLease(h) \/ Begin(h) \/ NameSession(h) \/ LookUp(h)
    \/ Note(h) \/ AppendTurn(h) \/ MarkRecorded(h) \/ Compose(h) \/ Submit(h)
    \/ Dispatch(h) \/ DispatchFail(h) \/ LinkTask(h) \/ Complete(h)
    \/ Raise(h) \/ Crash(h)

Next ==
    \/ \E h \in Handlers : HandlerStep(h)
    \/ \E e \in Events : LeaseExpires(e) \/ Work(e)

Spec == Init /\ [][Next]_vars

-----------------------------------------------------------------------------
(***************************************************************************)
(* Properties.                                                             *)
(***************************************************************************)

\* However often an event is delivered, its lease is only taken over once it has expired,
\* by one handler for each time it does, and a completed event is never claimed again.
LeaseExclusive ==
    [][\A e \in Events :
          claim'[e].state = "processing" /\ claim'[e].gen # claim[e].gen =>
             claim[e].state = "none" \/ (claim[e].state = "processing" /\ claim[e].stale)]_vars

\* README.md:230: "callback retries do not create duplicate tasks".  The job of a
\* question is started once, unless its lease was taken from a handler that still lives.
DispatchedOnce == \A e \in Events : dispatches[e] > 1 => e \in stolen

\* README.md:231: "instance replacement cannot silently lose an accepted request".  A
\* completed question has a job that runs for it or a failure the user can see.
Lost(e) == /\ claim[e].state = "completed" /\ KindOf[e] \in {"ask", "session_ask"}
           /\ dispatches[e] = 0 /\ task[e].status # "failed"
           /\ Working(e) = {}

AcceptedRequestsSurvive == \A e \in Events : ~Lost(e)

\* AcceptedRequestsSurvive as far as the code keeps it.
UncrashedRequestsSurvive == \A e \in Events \ crashed : ~Lost(e)

Times(e, s) == Cardinality({i \in DOMAIN s : s[i] = e})

\* README.md:206: "Completed turns are isolated by tenant, chat, thread, user, and named
\* session".  Whatever is redelivered and whichever session is active by then, the
\* exchanges of a conversation are those of tasks that were asked in it.
ContextIsolated ==
    \A c \in Sessions, e \in Events :
       Times(e, turns[c]) > 0 => record[e].conv = c /\ task[e].request.conv = c

\* Wherever put_task is cut short, the pointers it leaves behind lead to a record of the
\* right conversation, and the record to a task.
PointersResolve ==
    /\ \A c \in Sessions : latest[c] # None => record[latest[c]].conv = c
    /\ \A e \in eventTask : record[e].conv # None
    /\ \A e \in Events : record[e].conv # None => task[e].status # "absent"

\* README.md:202: "A session can also be created and used immediately".  The question that
\* opens a session is asked in that session.
OpeningQuestionInItsSession ==
    \A e \in Events : KindOf[e] = "session_ask" /\ task[e].status # "absent" => task[e].request.conv = e

\* The records and the conversation agree: as long as nothing has torn a conversation, an
\* exchange that is marked as recorded is part of it once, and one that is not is absent
\* but for the moment before the mark.  (A full conversation forgets its oldest turns.)
ContextAgrees ==
    \A c \in Sessions \ torn, e \in Events :
       record[e].conv = c =>
          IF record[e].recorded
          THEN \/ Times(e, turns[c]) = 1
               \/ Times(e, turns[c]) = 0 /\ Len(turns[c]) = MaxTurns
          ELSE \/ Times(e, turns[c]) = 0
               \/ \E h \in Handlers : At(h, "marking") /\ handler[h].recording = e

-----------------------------------------------------------------------------
(***************************************************************************)
(* The inductive invariant behind them.                                    *)
(***************************************************************************)
Asks(e) == KindOf[e] \in {"ask", "session_ask"}
Holds(h, e) == handler[h].pc \in Holding /\ handler[h].event = e
Starting(h, e) == handler[h].pc \in {"dispatching", "failing"} /\ handler[h].event = e
RecordsIn(h, c) == handler[h].pc \in Recording /\ record[handler[h].recording].conv = c

\* What the place of a handler says of its own variables.
Coherent(st) ==
    /\ st.pc \notin {"idle", "done"} => st.event \in Events
    /\ st.pc = "naming" => KindOf[st.event] \in SessionKinds
    /\ st.pc \in Recording => st.recording \in Events
    /\ st.view.active \in st.view.known
HandlersCoherent == \A h \in Handlers : Coherent(handler[h])

\* A handler that is about to take a lease over has seen it expired, and still sees what it
\* has read if nobody has written the claim since.
LeaseWasRead ==
    /\ \A e \in Events : claim[e].state = "none" => claim[e].gen = 0
    /\ \A h \in Handlers : At(h, "taking") =>
          LET e == handler[h].event
          IN  /\ handler[h].gen <= claim[e].gen
              /\ handler[h].gen = claim[e].gen => claim[e].state = "processing" /\ claim[e].stale

\* Whoever works on an event has claimed it, and works alone unless the lease was stolen.
LeaseHeld ==
    /\ \A h \in Handlers : handler[h].pc \in Holding => claim[handler[h].event].state # "none"
    /\ \A g, h \in Handlers, e \in Events \ stolen : Holds(g, e) /\ Holds(h, e) => g = h

\* Only stored tasks are dispatched, and a second time only after a theft.
DispatchesCounted ==
    /\ \A e \in Events : task[e].status = "absent" => dispatches[e] = 0
    /\ \A e \in Events : job[e] # "none" => dispatches[e] > 0
    /\ \A e \in Events \ stolen : dispatches[e] <= 1
    /\ \A h \in Handlers, e \in Events \ stolen : At(h, "dispatching") /\ handler[h].event = e => dispatches[e] = 0

\* From the submission on the stored task is the handler's.
Submitted ==
    \A h \in Handlers : handler[h].pc \in {"dispatching", "failing", "linking"} =>
       /\ task[handler[h].event].status # "absent"
       /\ task[handler[h].event].request.conv = handler[h].request.conv

\* A stored task that was neither dispatched nor failed is in the hands of the handler that
\* is about to do so, or of one that was killed.
TasksAccounted ==
    \A e \in Events \ crashed :
       task[e].status # "absent" /\ task[e].status # "failed" /\ dispatches[e] = 0 => \E h \in Handlers : Starting(h, e)

\* A question is only completed once it has a task.
QuestionsHaveTasks ==
    /\ \A e \in Events : Asks(e) /\ claim[e].state = "completed" => task[e].status # "absent"
    /\ \A h \in Handlers : At(h, "completing") /\ Asks(handler[h].event) => task[handler[h].event].status # "absent"

\* The records name the conversation of their task, and the handlers record known ones.
RecordsAgree ==
    /\ \A e \in Events : record[e].conv # None => record[e].conv = task[e].request.conv
    /\ \A h \in Handlers : handler[h].pc \in Recording => record[handler[h].recording].conv # None

\* A conversation, and the copy a handler is about to write back, hold its own exchanges.
TurnsIsolated ==
    /\ \A c \in Sessions : \A i \in DOMAIN turns[c] : record[turns[c][i]].conv = c
    /\ \A h \in Handlers : At(h, "appending") =>
          \A i \in DOMAIN handler[h].copy :
             record[handler[h].copy[i]].conv = record[handler[h].recording].conv

\* A conversation that was not torn is recorded by one handler at a time, whose copy is the
\* conversation, and whose exchange is not marked yet.
RecordedAlone ==
    /\ \A c \in Sessions \ torn, g, h \in Handlers : RecordsIn(g, c) /\ RecordsIn(h, c) => g = h
    /\ \A c \in Sessions \ torn, h \in Handlers : RecordsIn(h, c) =>
          /\ ~record[handler[h].recording].recorded
          /\ At(h, "appending") => handler[h].copy = turns[c]
          /\ At(h, "marking") => Times(handler[h].recording, turns[c]) = 1

IInv ==
    /\ TypeOK /\ HandlersCoherent
    /\ LeaseWasRead /\ LeaseHeld
    /\ DispatchesCounted /\ Submitted /\ TasksAccounted /\ QuestionsHaveTasks
    /\ PointersResolve /\ RecordsAgree
    /\ TurnsIsolated /\ RecordedAlone /\ ContextAgrees

=============================================================================
