-------------------------- MODULE ResearchRunProofs --------------------------
(***************************************************************************)
(* What ResearchRun promises, proved for any runtimes, progress texts and  *)
(* bounds: the record is ahead of the chat, the last edit of a message is  *)
(* kept for the outcome, a calm run shows its outcome, and the session     *)
(* continues from the exported workbook.                                   *)
(***************************************************************************)
EXTENDS ResearchRun, FiniteSetTheorems, TLAPS

-----------------------------------------------------------------------------
(***************************************************************************)
(* Tables.                                                                 *)
(***************************************************************************)

\* Writing one entry of a table changes that entry only.
LEMMA WithEntry ==
    ASSUME NEW t, NEW id, NEW content
    PROVE  /\ DOMAIN With(t, id, content) = DOMAIN t \cup {id}
           /\ With(t, id, content)[id] = content
           /\ \A i \in DOMAIN t \ {id} : With(t, id, content)[i] = t[i]
BY DEF With

LEMMA WithTable ==
    ASSUME NEW t, Table(t), NEW id \in Nat, NEW content \in Nat
    PROVE  Table(With(t, id, content))
<1>1. IsFiniteSet(DOMAIN t \cup {id})  BY FS_AddElement DEF Table
<1>2. With(t, id, content) \in [DOMAIN t \cup {id} -> Nat]  BY DEF With, Table
<1>. QED  BY <1>1, <1>2, WithEntry DEF Table

LEMMA NoTable == Table(NoDatasets) /\ DOMAIN NoDatasets = {}
<1>1. DOMAIN NoDatasets = {} /\ NoDatasets \in [{} -> Nat]  BY DEF NoDatasets
<1>. QED  BY <1>1, FS_EmptySet DEF Table

\* The session's dataset is the only one a run starts with.
LEMMA SessionTable ==
    ASSUME TypeOK
    PROVE  Table(SessionDatasets) /\ DOMAIN SessionDatasets \subseteq {0}
<1>1. CASE workspace = None  BY <1>1, NoTable DEF SessionDatasets
<1>2. CASE workspace # None
  <2>1. workspace \in BOOLEAN \X Nat /\ (workspace[1] => workspace[2] \in DOMAIN archive)
    BY <1>2 DEF TypeOK
  <2>2. (IF workspace[1] THEN archive[workspace[2]] ELSE 0) \in Nat
    BY <2>1 DEF TypeOK, Table
  <2>3. SessionDatasets = [i \in {0} |-> IF workspace[1] THEN archive[workspace[2]] ELSE 0]
    BY <1>2 DEF SessionDatasets
  <2>4. SessionDatasets \in [{0} -> Nat] /\ DOMAIN SessionDatasets = {0}  BY <2>2, <2>3
  <2>. QED  BY <2>4, FS_Singleton DEF Table
<1>. QED  BY <1>1, <1>2

-----------------------------------------------------------------------------
(***************************************************************************)
(* Deliveries.                                                             *)
(***************************************************************************)

\* The ways publish can end.
LEMMA PublishCases ==
    ASSUME NEW r, NEW text, NEW terminal, NEW ok \in BOOLEAN, Publish(r, text, terminal, ok)
    PROVE  \/ NoFault /\ ok /\ run' = r /\ chat' = chat /\ (r.withdrawn \/ (r.msg # 0 /\ Withheld(r, terminal)))
           \/ NoFault /\ ok /\ run' = [r EXCEPT !.withdrawn = TRUE] /\ chat' = chat /\ ~present
           \/ /\ NoFault /\ ok /\ r.msg = 0 /\ run' = [r EXCEPT !.msg = Len(chat) + 1]
              /\ chat' = Append(chat, [text |-> text, edits |-> 0])
           \/ NoFault /\ ~ok /\ r.msg # 0 /\ chat[r.msg].edits >= EditLimit /\ run' = run /\ chat' = chat
           \/ /\ NoFault /\ ok /\ r.msg # 0 /\ ~Withheld(r, terminal) /\ ~(chat[r.msg].edits >= EditLimit)
              /\ run' = [r EXCEPT !.edits = r.edits + 1] /\ chat' = Show(r, text)
           \/ Fault("publish") /\ ~ok /\ run' = run /\ chat' = chat
<1>1. CASE \E p \in Published(r, text, terminal) : run' = p.run /\ chat' = p.chat /\ NoFault /\ ok = p.ok
  <2>1. PICK p \in Published(r, text, terminal) : run' = p.run /\ chat' = p.chat /\ NoFault /\ ok = p.ok
    BY <1>1
  <2>2. CASE r.withdrawn  BY <2>1, <2>2 DEF Published
  <2>3. CASE ~r.withdrawn /\ ~present  BY <2>1, <2>3 DEF Published
  <2>4. CASE ~r.withdrawn /\ present /\ r.msg = 0  BY <2>1, <2>4 DEF Published
  <2>5. CASE ~r.withdrawn /\ present /\ r.msg # 0 /\ Withheld(r, terminal)  BY <2>1, <2>5 DEF Published
  <2>6. CASE ~r.withdrawn /\ present /\ r.msg # 0 /\ ~Withheld(r, terminal) /\ chat[r.msg].edits >= EditLimit
    BY <2>1, <2>6 DEF Published
  <2>7. CASE ~r.withdrawn /\ present /\ r.msg # 0 /\ ~Withheld(r, terminal) /\ ~(chat[r.msg].edits >= EditLimit)
    BY <2>1, <2>7 DEF Published
  <2>. QED  BY <2>2, <2>3, <2>4, <2>5, <2>6, <2>7
<1>2. CASE ~r.withdrawn /\ Fault("publish") /\ UNCHANGED <<run, chat>> /\ ok = FALSE
  BY <1>2
<1>. QED  BY <1>1, <1>2 DEF Publish

\* The run variables that publish may be given: those of the run, with another last text.
Successor(r) == r \in RunState /\ r.msg = run.msg /\ r.edits = run.edits /\ r.withdrawn = run.withdrawn

\* publish keeps the types, and the run keeps counting the edits of its message.
LEMMA PublishTypes ==
    ASSUME TypeOK, EditsCounted, NEW r, Successor(r), NEW text \in Texts, NEW terminal,
           NEW ok \in BOOLEAN, Publish(r, text, terminal, ok)
    PROVE  /\ run' \in RunState /\ chat' \in Seq(Message) /\ run'.msg <= Len(chat')
           /\ EditsCounted'
           /\ NoFault \/ Fault("publish")
<1>. USE DEF Successor
<1>0. /\ run \in RunState /\ chat \in Seq(Message) /\ run.msg \in 0..Len(chat) /\ Len(chat) \in Nat
      /\ \A m \in 1..Len(chat) : chat[m] \in Message
  BY DEF TypeOK, RunState
<1>1. CASE NoFault /\ ok /\ run' = r /\ chat' = chat
  BY <1>1, <1>0 DEF EditsCounted
<1>2. CASE NoFault /\ ok /\ run' = [r EXCEPT !.withdrawn = TRUE] /\ chat' = chat /\ ~present
  <2>1. run' \in RunState /\ run'.msg = run.msg /\ run'.edits = run.edits  BY <1>2 DEF RunState
  <2>. QED  BY <1>2, <2>1, <1>0 DEF EditsCounted
<1>3. CASE /\ NoFault /\ ok /\ r.msg = 0 /\ run' = [r EXCEPT !.msg = Len(chat) + 1]
           /\ chat' = Append(chat, [text |-> text, edits |-> 0])
  <2>1. run' \in RunState /\ run'.msg = Len(chat) + 1 /\ run'.edits = run.edits  BY <1>3, <1>0 DEF RunState
  <2>2. [text |-> text, edits |-> 0] \in Message  BY ProgressLeavesOneEdit DEF Message
  <2>3. chat' \in Seq(Message) /\ Len(chat') = Len(chat) + 1 /\ chat'[Len(chat) + 1] = [text |-> text, edits |-> 0]
    BY <1>3, <1>0, <2>2
  <2>4. run.edits = 0  BY <1>3 DEF EditsCounted
  <2>. QED  BY <1>3, <1>0, <2>1, <2>3, <2>4 DEF EditsCounted
<1>4. CASE NoFault /\ ~ok /\ run' = run /\ chat' = chat
  BY <1>4, <1>0 DEF EditsCounted
<1>5. CASE /\ NoFault /\ ok /\ r.msg # 0 /\ ~(chat[r.msg].edits >= EditLimit)
           /\ run' = [r EXCEPT !.edits = r.edits + 1] /\ chat' = Show(r, text)
  <2>1. run' \in RunState /\ run'.msg = run.msg /\ run'.edits = run.edits + 1  BY <1>5, <1>0 DEF RunState
  <2>2. run.msg \in 1..Len(chat)  BY <1>5, <1>0
  <2>3. chat[run.msg] \in Message /\ chat[run.msg].edits \in 0..EditLimit  BY <1>0, <2>2 DEF Message
  <2>4. [text |-> text, edits |-> chat[run.msg].edits + 1] \in Message
    BY <1>5, <2>3, ProgressLeavesOneEdit DEF Message
  <2>5. chat' = [chat EXCEPT ![run.msg] = [text |-> text, edits |-> chat[run.msg].edits + 1]]
    BY <1>5 DEF Show
  <2>6. chat' \in Seq(Message) /\ Len(chat') = Len(chat)  BY <1>0, <2>2, <2>4, <2>5
  <2>7. chat'[run.msg].edits = chat[run.msg].edits + 1  BY <1>0, <2>2, <2>5
  <2>8. run.edits = chat[run.msg].edits  BY <1>5 DEF EditsCounted
  <2>9. run'.msg <= Len(chat')  BY <1>0, <2>1, <2>6
  <2>10. EditsCounted'  BY <1>5, <2>1, <2>7, <2>8 DEF EditsCounted
  <2>. QED  BY <1>5, <2>1, <2>6, <2>9, <2>10
<1>6. CASE Fault("publish") /\ ~ok /\ run' = run /\ chat' = chat
  BY <1>6, <1>0 DEF EditsCounted
<1>. QED  BY <1>1, <1>2, <1>3, <1>4, <1>5, <1>6, PublishCases

\* A message that publish touches shows the text; progress leaves it one edit.
LEMMA PublishTexts ==
    ASSUME TypeOK, EditsCounted, NEW r, Successor(r), NEW text \in Texts, NEW terminal \in BOOLEAN,
           NEW ok \in BOOLEAN, Publish(r, text, terminal, ok), NEW m \in DOMAIN chat'
    PROVE  \/ m \in DOMAIN chat /\ chat'[m] = chat[m]
           \/ chat'[m].text = text /\ (terminal \/ chat'[m].edits < EditLimit)
<1>. USE DEF Successor
<1>0. /\ run \in RunState /\ chat \in Seq(Message) /\ run.msg \in 0..Len(chat) /\ Len(chat) \in Nat
      /\ DOMAIN chat = 1..Len(chat) /\ MaxProgress \in Nat /\ EditLimit = MaxProgress + 1
      /\ run.edits \in Nat
  BY ProgressLeavesOneEdit DEF TypeOK, RunState
<1>1. CASE chat' = chat  BY <1>1
<1>2. CASE chat' = Append(chat, [text |-> text, edits |-> 0])
  <2>1. DOMAIN chat' = 1..(Len(chat) + 1) /\ chat'[Len(chat) + 1] = [text |-> text, edits |-> 0]
        /\ \A i \in 1..Len(chat) : chat'[i] = chat[i]
    BY <1>2, <1>0
  <2>2. m \in 1..Len(chat) \/ m = Len(chat) + 1  BY <2>1, <1>0
  <2>3. CASE m \in 1..Len(chat)  BY <2>1, <2>3, <1>0
  <2>4. CASE m = Len(chat) + 1
    <3>1. chat'[m].text = text /\ chat'[m].edits = 0  BY <2>1, <2>4
    <3>. QED  BY <3>1, <1>0
  <2>. QED  BY <2>2, <2>3, <2>4
<1>3. CASE /\ r.msg # 0 /\ ~Withheld(r, terminal) /\ ~(chat[r.msg].edits >= EditLimit)
           /\ run' = [r EXCEPT !.edits = r.edits + 1] /\ chat' = Show(r, text)
  <2>1. run.msg \in 1..Len(chat)  BY <1>3, <1>0
  <2>2. chat' = [chat EXCEPT ![run.msg] = [text |-> text, edits |-> chat[run.msg].edits + 1]]
    BY <1>3 DEF Show
  <2>3. DOMAIN chat' = DOMAIN chat  BY <2>2
  <2>4. CASE m # run.msg  BY <2>2, <2>3, <2>4
  <2>5. CASE m = run.msg
    <3>1. chat'[m].text = text /\ chat'[m].edits = chat[run.msg].edits + 1  BY <2>1, <2>2, <2>5, <1>0
    <3>2. run.edits = chat[run.msg].edits  BY <1>3 DEF EditsCounted
    <3>3. terminal \/ run.edits < MaxProgress  BY <1>3, <1>0 DEF Withheld
    <3>. QED  BY <3>1, <3>2, <3>3, <1>0
  <2>. QED  BY <2>4, <2>5
<1>. QED  BY <1>1, <1>2, <1>3, PublishCases

\* With the question there, publish starts the message or edits it; an outcome is shown while an
\* edit is left, and progress leaves one.
LEMMA PublishShows ==
    ASSUME TypeOK, EditsCounted, NEW r, Successor(r), NEW text \in Texts, NEW terminal \in BOOLEAN,
           NEW ok \in BOOLEAN, Publish(r, text, terminal, ok),
           present, ~run.withdrawn, "publish" \notin seen', run.edits <= MaxProgress
    PROVE  /\ ok /\ NoFault /\ ~run'.withdrawn
           /\ run.msg = 0 => Len(chat') = Len(chat) + 1 /\ run'.msg = Len(chat')
           /\ run.msg # 0 => Len(chat') = Len(chat) /\ run'.msg = run.msg
           /\ ~terminal => run'.edits <= MaxProgress
           /\ terminal => chat'[run'.msg].text = text
<1>. USE DEF Successor
<1>0. /\ run \in RunState /\ chat \in Seq(Message) /\ run.msg \in 0..Len(chat) /\ Len(chat) \in Nat
      /\ MaxProgress \in Nat /\ EditLimit = MaxProgress + 1 /\ run.edits \in Nat
      /\ run.msg # 0 => run.edits = chat[run.msg].edits
      /\ run.msg = 0 => run.edits = 0
  BY ProgressLeavesOneEdit DEF TypeOK, RunState, EditsCounted
<1>1. CASE NoFault /\ ok /\ run' = r /\ chat' = chat /\ (r.withdrawn \/ (r.msg # 0 /\ Withheld(r, terminal)))
  BY <1>1, <1>0 DEF Withheld
<1>2. CASE /\ NoFault /\ ok /\ r.msg = 0 /\ run' = [r EXCEPT !.msg = Len(chat) + 1]
           /\ chat' = Append(chat, [text |-> text, edits |-> 0])
  <2>1. /\ Len(chat') = Len(chat) + 1 /\ chat'[Len(chat) + 1] = [text |-> text, edits |-> 0]
        /\ run'.msg = Len(chat) + 1 /\ run'.edits = 0 /\ run'.withdrawn = run.withdrawn
    BY <1>2, <1>0 DEF RunState
  <2>. QED  BY <1>2, <2>1, <1>0
<1>3. CASE NoFault /\ ~ok /\ r.msg # 0 /\ chat[r.msg].edits >= EditLimit
  BY <1>3, <1>0
<1>4. CASE /\ NoFault /\ ok /\ r.msg # 0 /\ ~Withheld(r, terminal) /\ ~(chat[r.msg].edits >= EditLimit)
           /\ run' = [r EXCEPT !.edits = r.edits + 1] /\ chat' = Show(r, text)
  <2>1. run.msg \in 1..Len(chat)  BY <1>4, <1>0
  <2>2. chat' = [chat EXCEPT ![run.msg] = [text |-> text, edits |-> chat[run.msg].edits + 1]]
    BY <1>4 DEF Show
  <2>3. Len(chat') = Len(chat) /\ chat'[run.msg].text = text  BY <2>1, <2>2, <1>0
  <2>4. run'.msg = run.msg /\ run'.edits = run.edits + 1 /\ run'.withdrawn = run.withdrawn
    BY <1>4, <1>0 DEF RunState
  <2>5. terminal \/ run.edits < MaxProgress  BY <1>4, <1>0 DEF Withheld
  <2>. QED  BY <1>4, <2>3, <2>4, <2>5, <1>0
<1>5. CASE Fault("publish")  BY <1>5 DEF Fault
<1>. QED  BY <1>1, <1>2, <1>3, <1>4, <1>5, PublishCases

-----------------------------------------------------------------------------
(***************************************************************************)
(* Which actions change what.                                              *)
(***************************************************************************)

LEMMA Frames ==
    ASSUME Next
    PROVE  /\ runtime' = runtime
           /\ \/ stored' = stored
              \/ WorkerInitFails \/ Planning \/ Cancel \/ GlmProgress \/ CollectorPut \/ Succeed
              \/ Undelivered \/ Fail
           /\ \/ task' = task
              \/ WorkerStart \/ WorkerInitFails \/ Planning \/ Cancel \/ GlmProgress \/ CollectorEvent
              \/ Conclude \/ Succeed \/ Fail
           /\ \/ run' = run /\ chat' = chat
              \/ WorkerStart \/ Planning \/ GlmProgress \/ CollectorPublish \/ Answer \/ Undelivered \/ Fail
           /\ attempt' = attempt \/ WorkerStart \/ WorkerInitFails
           /\ \/ collector' = collector
              \/ CollectorEvent \/ CollectorPut \/ CollectorPublish \/ Crash
           /\ \/ loop' = loop
              \/ WorkerStart \/ GlmRound \/ GlmProgress \/ GlmTool \/ CodexToolCall
           /\ UNCHANGED toolVars \/ WorkerStart \/ GlmTool \/ CodexToolCall
           /\ workspace' = workspace \/ Promote
           /\ present' = present \/ Withdraw
<1>1. CASE WorkerStart  BY <1>1 DEF WorkerStart
<1>2. CASE Planning  BY <1>2 DEF Planning, toolVars
<1>3. CASE Cancel  BY <1>3 DEF Cancel, toolVars
<1>4. CASE GlmRound  BY <1>4 DEF GlmRound, toolVars
<1>5. CASE GlmFinalize  BY <1>5 DEF GlmFinalize, toolVars
<1>6. CASE GlmProgress  BY <1>6 DEF GlmProgress, toolVars
<1>7. CASE GlmTool  BY <1>7 DEF GlmTool
<1>8. CASE CodexTurnEnds  BY <1>8 DEF CodexTurnEnds, toolVars
<1>9. CASE Conclude  BY <1>9 DEF Conclude, toolVars
<1>10. CASE Promote  BY <1>10 DEF Promote, toolVars
<1>11. CASE Succeed  BY <1>11 DEF Succeed, toolVars
<1>12. CASE Answer  BY <1>12 DEF Answer, toolVars
<1>13. CASE Attach  BY <1>13 DEF Attach, toolVars
<1>14. CASE Undelivered  BY <1>14 DEF Undelivered, toolVars
<1>15. CASE Fail  BY <1>15 DEF Fail, toolVars
<1>16. CASE CollectorPut  BY <1>16 DEF CollectorPut, toolVars
<1>17. CASE CollectorPublish  BY <1>17 DEF CollectorPublish, toolVars
<1>18. CASE WorkerInitFails  BY <1>18 DEF WorkerInitFails, toolVars
<1>19. CASE CodexToolCall  BY <1>19 DEF CodexToolCall
<1>20. CASE CollectorEvent  BY <1>20 DEF CollectorEvent, toolVars
<1>21. CASE CodexTimeout  BY <1>21 DEF CodexTimeout, toolVars
<1>22. CASE Crash  BY <1>22 DEF Crash, toolVars
<1>23. CASE Withdraw  BY <1>23 DEF Withdraw, toolVars
<1>. QED  BY <1>1, <1>2, <1>3, <1>4, <1>5, <1>6, <1>7, <1>8, <1>9, <1>10, <1>11, <1>12, <1>13, <1>14,
             <1>15, <1>16, <1>17, <1>18, <1>19, <1>20, <1>21, <1>22, <1>23
          DEF Next, WorkerStep, CollectorStep

\* The messages change by a publish: progress, or the outcome that the run's place calls for.
Told(text, terminal) ==
    \/ ~terminal /\ text \in Labels \cup {"planning"}
    \/ terminal /\ text = "answer" /\ pc = "answer"
    \/ terminal /\ text = "notice" /\ pc = "undelivered"
    \/ terminal /\ text = "failure" /\ pc = "fail"

LEMMA Delivery ==
    ASSUME TypeOK, Next
    PROVE  \/ chat' = chat /\ (run' = run \/ run' = NewRun)
           \/ \E r \in RunState, text \in Texts, terminal \in BOOLEAN, ok \in BOOLEAN :
                 Successor(r) /\ Told(text, terminal) /\ Publish(r, text, terminal, ok)
<1>. DEFINE Same == chat' = chat /\ (run' = run \/ run' = NewRun)
            Shown == \E r \in RunState, text \in Texts, terminal \in BOOLEAN, ok \in BOOLEAN :
                        Successor(r) /\ Told(text, terminal) /\ Publish(r, text, terminal, ok)
<1>. SUFFICES Same \/ Shown  OBVIOUS
<1>p. ASSUME NEW r, NEW text \in Texts, NEW terminal \in BOOLEAN, NEW ok \in BOOLEAN,
             Successor(r), Told(text, terminal), Publish(r, text, terminal, ok)
      PROVE  Shown
  BY <1>p DEF Successor
<1>t. {"planning", "answer", "notice", "failure"} \cup Labels \subseteq Texts  BY DEF Texts
<1>s. Successor(run) /\ \A label \in Labels \cup {"planning"} : Successor([run EXCEPT !.last = label])
  BY DEF TypeOK, RunState, Texts, Successor
<1>. HIDE DEF Shown
<1>1. CASE WorkerStart  BY <1>1 DEF WorkerStart
<1>2. CASE Planning
  <2>1. CASE \E ok \in BOOLEAN : Publish(run, "planning", FALSE, ok)
    <3>1. PICK ok \in BOOLEAN : Publish(run, "planning", FALSE, ok)  BY <2>1
    <3>2. Told("planning", FALSE)  BY DEF Told
    <3>. QED  BY <3>1, <3>2, <1>t, <1>s, <1>p
  <2>. QED  BY <1>2, <2>1 DEF Planning
<1>3. CASE GlmProgress
  <2>1. PICK label \in Labels, ok \in BOOLEAN : Report(label, ok)  BY <1>3 DEF GlmProgress
  <2>2. CASE Publish([run EXCEPT !.last = label], label, FALSE, ok)
    <3>1. Told(label, FALSE)  BY DEF Told
    <3>. QED  BY <2>2, <3>1, <1>t, <1>s, <1>p
  <2>. QED  BY <2>1, <2>2 DEF Report
<1>4. CASE CollectorPublish
  <2>1. PICK ok \in BOOLEAN : Publish([run EXCEPT !.last = collector.text], collector.text, FALSE, ok)
    BY <1>4 DEF CollectorPublish
  <2>2. collector.text \in Labels \cup {"planning"}  BY DEF TypeOK, Collector
  <2>3. Told(collector.text, FALSE)  BY <2>2 DEF Told
  <2>. QED  BY <2>1, <2>2, <2>3, <1>t, <1>s, <1>p
<1>5. CASE Answer
  <2>1. PICK ok \in BOOLEAN : Publish(run, "answer", TRUE, ok)  BY <1>5 DEF Answer
  <2>2. Told("answer", TRUE)  BY <1>5 DEF Told, Answer
  <2>. QED  BY <2>1, <2>2, <1>t, <1>s, <1>p
<1>6. CASE Undelivered
  <2>1. CASE \E ok \in BOOLEAN : Publish(run, "notice", TRUE, ok)
    <3>1. PICK ok \in BOOLEAN : Publish(run, "notice", TRUE, ok)  BY <2>1
    <3>2. Told("notice", TRUE)  BY <1>6 DEF Told, Undelivered
    <3>. QED  BY <3>1, <3>2, <1>t, <1>s, <1>p
  <2>. QED  BY <1>6, <2>1 DEF Undelivered
<1>7. CASE Fail
  <2>1. CASE \E ok \in BOOLEAN : Publish(run, "failure", TRUE, ok)
    <3>1. PICK ok \in BOOLEAN : Publish(run, "failure", TRUE, ok)  BY <2>1
    <3>2. Told("failure", TRUE)  BY <1>7 DEF Told, Fail
    <3>. QED  BY <3>1, <3>2, <1>t, <1>s, <1>p
  <2>. QED  BY <1>7, <2>1 DEF Fail
<1>. QED  BY <1>1, <1>2, <1>3, <1>4, <1>5, <1>6, <1>7, Frames

\* A step counts at most one fault, and none is forgotten.
LEMMA FaultsCounted ==
    ASSUME Next
    PROVE  NoFault \/ \E k \in Faults : Fault(k)
<1>p. \A r, text, terminal : \A ok \in BOOLEAN :
         Publish(r, text, terminal, ok) => NoFault \/ Fault("publish")
  BY PublishCases
<1>0. \A k \in {"init", "store", "publish", "archive", "model", "attach", "overrun", "crash", "withdrawn"} : k \in Faults
  BY DEF Faults
<1>1. CASE WorkerStart  BY <1>1 DEF WorkerStart
<1>2. CASE Planning
  <2>1. (\E ok \in BOOLEAN : Publish(run, "planning", FALSE, ok)) \/ PutFails  BY <1>2 DEF Planning
  <2>. QED  BY <2>1, <1>p, <1>0 DEF PutFails
<1>3. CASE Cancel  BY <1>3, <1>0 DEF Cancel, Put, PutFails
<1>4. CASE GlmRound  BY <1>4, <1>0 DEF GlmRound
<1>5. CASE GlmFinalize  BY <1>5, <1>0 DEF GlmFinalize
<1>6. CASE GlmProgress
  <2>1. PICK label \in Labels, ok \in BOOLEAN : Report(label, ok)  BY <1>6 DEF GlmProgress
  <2>. QED  BY <2>1, <1>p, <1>0 DEF Report, PutFails
<1>t. ASSUME NEW counted, Tool(counted) PROVE NoFault \/ \E k \in Faults : Fault(k)
  BY <1>t, <1>0 DEF Tool, RetainDataset, Archived, ExportExcel
<1>7. CASE GlmTool  BY <1>7, <1>t DEF GlmTool
<1>8. CASE CodexTurnEnds  BY <1>8, <1>0 DEF CodexTurnEnds
<1>9. CASE Conclude  BY <1>9, <1>0 DEF Conclude
<1>10. CASE Promote  BY <1>10, <1>0 DEF Promote
<1>11. CASE Succeed  BY <1>11, <1>0 DEF Succeed, Put, PutFails
<1>12. CASE Answer  BY <1>12, <1>p, <1>0 DEF Answer
<1>13. CASE Attach  BY <1>13, <1>0 DEF Attach
<1>14. CASE Undelivered  BY <1>14, <1>p, <1>0 DEF Undelivered, PutFails
<1>15. CASE Fail  BY <1>15, <1>p, <1>0 DEF Fail, PutFails
<1>16. CASE CollectorPut  BY <1>16, <1>0 DEF CollectorPut, Put, PutFails
<1>17. CASE CollectorPublish  BY <1>17, <1>p, <1>0 DEF CollectorPublish
<1>18. CASE WorkerInitFails  BY <1>18, <1>0 DEF WorkerInitFails
<1>19. CASE CodexToolCall  BY <1>19, <1>t DEF CodexToolCall
<1>20. CASE CollectorEvent  BY <1>20 DEF CollectorEvent, NoFault
<1>21. CASE CodexTimeout  BY <1>21, <1>0 DEF CodexTimeout
<1>22. CASE Crash  BY <1>22, <1>0 DEF Crash
<1>23. CASE Withdraw  BY <1>23, <1>0 DEF Withdraw
<1>. QED  BY <1>1, <1>2, <1>3, <1>4, <1>5, <1>6, <1>7, <1>8, <1>9, <1>10, <1>11, <1>12, <1>13, <1>14,
             <1>15, <1>16, <1>17, <1>18, <1>19, <1>20, <1>21, <1>22, <1>23
          DEF Next, WorkerStep, CollectorStep

LEMMA SeenGrows ==
    ASSUME Next
    PROVE  seen \subseteq seen'
BY FaultsCounted DEF NoFault, Fault

-----------------------------------------------------------------------------
(***************************************************************************)
(* Types.                                                                  *)
(***************************************************************************)

\* The records that the handlers write are records of the task.
LEMMA Records ==
    ASSUME TypeOK, Next
    PROVE  stored' \in Task /\ task' \in Task
<1>0. stored \in Task /\ task \in Task  BY DEF TypeOK
<1>1. \A t \in Task : /\ \A st \in Statuses, sg \in Stages : [t EXCEPT !.status = st, !.stage = sg] \in Task
                      /\ \A sg \in Stages : [t EXCEPT !.stage = sg] \in Task
                      /\ \A f \in BOOLEAN : [t EXCEPT !.answer = TRUE, !.file = f] \in Task
                      /\ \A p \in BOOLEAN : [t EXCEPT !.page = p] \in Task
  BY DEF Task
<1>2. {"running", "succeeded", "failed"} \subseteq Statuses
      /\ {"planning", "working", "completed", "failed", "cancelled"} \subseteq Stages
  BY DEF Statuses, Stages
<1>3. task' \in Task
  <2>1. CASE WorkerStart  BY <2>1, <1>0 DEF WorkerStart
  <2>2. CASE WorkerInitFails  BY <2>2, <1>0, <1>1, <1>2 DEF WorkerInitFails
  <2>3. CASE Planning  BY <2>3, <1>0, <1>1, <1>2 DEF Planning
  <2>4. CASE Cancel  BY <2>4, <1>0, <1>1, <1>2 DEF Cancel
  <2>5. CASE GlmProgress  BY <2>5, <1>0, <1>1, <1>2 DEF GlmProgress, Report, Working
  <2>6. CASE CollectorEvent  BY <2>6, <1>0, <1>1, <1>2 DEF CollectorEvent, Working
  <2>7. CASE Conclude
    <3>. DEFINE file == book # None
                told == [task EXCEPT !.answer = TRUE, !.file = file]
                page == told.page \/ (file /\ PublicUrl)
    <3>1. told \in Task  BY <1>0, <1>1
    <3>2. task' = told \/ task' = [told EXCEPT !.page = page]  BY <2>7 DEF Conclude
    <3>3. page \in BOOLEAN  OBVIOUS
    <3>. HIDE DEF told, page
    <3>. QED  BY <1>1, <3>1, <3>2, <3>3
  <2>8. CASE Succeed  BY <2>8, <1>0, <1>1, <1>2 DEF Succeed
  <2>9. CASE Fail  BY <2>9, <1>0, <1>1, <1>2 DEF Fail, Failed
  <2>. QED  BY <2>1, <2>2, <2>3, <2>4, <2>5, <2>6, <2>7, <2>8, <2>9, <1>0, Frames
<1>4. stored' = stored \/ stored' = task \/ stored' = task' \/ WorkerInitFails
  <2>1. CASE Planning  BY <2>1 DEF Planning, PutFails
  <2>2. CASE Cancel  BY <2>2 DEF Cancel, Put, PutFails
  <2>3. CASE GlmProgress  BY <2>3 DEF GlmProgress, Report, PutFails
  <2>4. CASE CollectorPut  BY <2>4 DEF CollectorPut, Put, PutFails
  <2>5. CASE Succeed  BY <2>5 DEF Succeed, Put, PutFails
  <2>6. CASE Undelivered  BY <2>6 DEF Undelivered, PutFails
  <2>7. CASE Fail  BY <2>7 DEF Fail, PutFails
  <2>. QED  BY <2>1, <2>2, <2>3, <2>4, <2>5, <2>6, <2>7, Frames
<1>5. ASSUME WorkerInitFails PROVE stored' \in Task
  <2>1. stored' = [stored EXCEPT !.status = "failed", !.stage = "failed"]  BY <1>5 DEF WorkerInitFails
  <2>. QED  BY <2>1, <1>0, <1>1, <1>2
<1>. QED  BY <1>0, <1>3, <1>4, <1>5

LEMMA Messages ==
    ASSUME TypeOK, EditsCounted, Next
    PROVE  run' \in RunState /\ chat' \in Seq(Message) /\ run'.msg <= Len(chat') /\ EditsCounted'
<1>1. CASE chat' = chat /\ run' = run  BY <1>1 DEF TypeOK, EditsCounted
<1>2. CASE chat' = chat /\ run' = NewRun
  <2>1. run' \in RunState /\ run'.msg = 0 /\ run'.edits = 0  BY <1>2 DEF NewRun, RunState
  <2>. QED  BY <1>2, <2>1 DEF TypeOK, EditsCounted
<1>3. ASSUME NEW r, NEW text \in Texts, NEW terminal \in BOOLEAN, NEW ok \in BOOLEAN, Successor(r),
             Publish(r, text, terminal, ok)
      PROVE  run' \in RunState /\ chat' \in Seq(Message) /\ run'.msg <= Len(chat') /\ EditsCounted'
  BY <1>3, PublishTypes
<1>. QED  BY <1>1, <1>2, <1>3, Delivery

\* A tool writes one table entry, or exports an entry, or writes nothing.
LEMMA ToolTables ==
    ASSUME TypeOK, NEW counted \in Loop, counted.made = loop.made, Tool(counted)
    PROVE  /\ Table(datasets') /\ Table(archive')
           /\ book' \in Nat \cup {None} /\ latest' \in Nat \cup {None} /\ final' \in Nat \cup {None}
           /\ latest' # None => latest' \in DOMAIN archive'
           /\ final' # None => final' \in DOMAIN archive'
           /\ DOMAIN archive \subseteq DOMAIN archive'
           /\ loop' \in Loop /\ loop'.left = counted.left
<1>0. /\ Table(datasets) /\ Table(archive) /\ loop \in Loop /\ loop.made \in Nat
      /\ book \in Nat \cup {None} /\ latest \in Nat \cup {None} /\ final \in Nat \cup {None}
      /\ latest # None => latest \in DOMAIN archive
      /\ final # None => final \in DOMAIN archive
  BY DEF TypeOK, Loop
<1>1. CASE loop' = counted /\ NoFault /\ UNCHANGED toolVars
  BY <1>1, <1>0 DEF toolVars
<1>2. ASSUME NEW id \in Names, loop' = Retained(counted, id), RetainDataset(id)
      PROVE  /\ Table(datasets') /\ Table(archive')
             /\ book' \in Nat \cup {None} /\ latest' \in Nat \cup {None} /\ final' \in Nat \cup {None}
             /\ latest' # None => latest' \in DOMAIN archive'
             /\ final' # None => final' \in DOMAIN archive'
             /\ DOMAIN archive \subseteq DOMAIN archive'
             /\ loop' \in Loop /\ loop'.left = counted.left
  <2>1. Cardinality(DOMAIN datasets) \in Nat  BY <1>0, FS_CardinalityType DEF Table
  <2>2. MaxRounds * MaxCalls \in Nat  BY LoopBounds
  <2>3. id \in Nat  BY <2>1, <2>2 DEF Names, NextId
  <2>4. datasets' = With(datasets, id, loop.made + 1)  BY <1>2 DEF RetainDataset
  <2>5. \/ archive' = With(archive, id, loop.made + 1) /\ latest' = id
        \/ archive' = archive /\ latest' = latest
        \/ archive' = With(archive, id, loop.made + 1) /\ latest' = latest
    BY <1>2 DEF RetainDataset, Archived
  <2>6. Table(datasets') /\ Table(archive')  BY <1>0, <2>3, <2>4, <2>5, WithTable
  <2>7. DOMAIN With(archive, id, loop.made + 1) = DOMAIN archive \cup {id}  BY WithEntry
  <2>8. book' = book /\ final' = final  BY <1>2 DEF RetainDataset
  <2>9. loop' \in Loop /\ loop'.left = counted.left
    <3>1. (counted.reused \/ (id \in DOMAIN datasets)) \in BOOLEAN  OBVIOUS
    <3>2. loop' = [counted EXCEPT !.made = counted.made + 1,
                                  !.reused = (counted.reused \/ id \in DOMAIN datasets)]
      BY <1>2 DEF Retained
    <3>3. counted.made + 1 \in Nat  BY DEF Loop
    <3>. DEFINE b == counted.reused \/ (id \in DOMAIN datasets)
                n == counted.made + 1
    <3>4. loop' = [counted EXCEPT !.made = n, !.reused = b]  BY <3>2
    <3>5. b \in BOOLEAN /\ n \in Nat  BY <3>1, <3>3
    <3>. HIDE DEF b, n
    <3>. QED  BY <3>4, <3>5 DEF Loop
  <2>. QED  BY <1>0, <2>3, <2>5, <2>6, <2>7, <2>8, <2>9
<1>3. ASSUME NEW id \in DatasetIds, loop' = counted, ExportExcel(id)
      PROVE  /\ Table(datasets') /\ Table(archive')
             /\ book' \in Nat \cup {None} /\ latest' \in Nat \cup {None} /\ final' \in Nat \cup {None}
             /\ latest' # None => latest' \in DOMAIN archive'
             /\ final' # None => final' \in DOMAIN archive'
             /\ DOMAIN archive \subseteq DOMAIN archive'
             /\ loop' \in Loop /\ loop'.left = counted.left
  <2>1. id \in DOMAIN datasets /\ id \in Nat /\ datasets[id] \in Nat  BY <1>3, <1>0 DEF ExportExcel, Table
  <2>2. book' \in Nat /\ datasets' = datasets  BY <1>3, <2>1 DEF ExportExcel
  <2>3. \/ id = 0 /\ archive' = With(archive, 0, datasets[0]) /\ latest' = 0
        \/ archive' = archive /\ latest' = latest
    BY <1>3 DEF ExportExcel
  <2>4. final' = final \/ (final' = id /\ id \in DOMAIN archive')  BY <1>3 DEF ExportExcel
  <2>5. Table(archive') /\ DOMAIN archive \subseteq DOMAIN archive' /\ (latest' # None => latest' \in DOMAIN archive')
    <3>1. Table(With(archive, 0, datasets[0])) \/ ~(id = 0)  BY <1>0, <2>1, WithTable
    <3>2. DOMAIN With(archive, 0, datasets[0]) = DOMAIN archive \cup {0}  BY WithEntry
    <3>. QED  BY <1>0, <2>3, <3>1, <3>2
  <2>. QED  BY <1>0, <1>3, <2>1, <2>2, <2>3, <2>4, <2>5
<1>. QED  BY <1>1, <1>2, <1>3 DEF Tool

LEMMA Counting ==
    ASSUME TypeOK
    PROVE  /\ [loop EXCEPT !.rounds = loop.rounds + 1] \in Loop
           /\ pc \in {"tools", "tool"} => Called(loop) \in Loop /\ Called(loop).left + 1 = loop.left
<1>0. loop \in Loop /\ loop.left \in Nat  BY DEF TypeOK, Loop
<1>1. ASSUME pc \in {"tools", "tool"} PROVE loop.left - 1 \in Nat  BY <1>0, <1>1 DEF TypeOK
<1>2. Called(loop) = [loop EXCEPT !.left = loop.left - 1]  BY DEF Called
<1>. QED  BY <1>0, <1>1, <1>2 DEF Loop

LEMMA ToolStep ==
    ASSUME TypeOK, NEW counted,
           \/ GlmTool /\ counted = Called(loop)
           \/ CodexToolCall /\ counted = [loop EXCEPT !.rounds = loop.rounds + 1]
    PROVE  /\ counted \in Loop /\ counted.made = loop.made /\ counted.reused = loop.reused
           /\ Tool(counted) /\ pc \in {"turn", "tool"}
           /\ CodexToolCall => pc = "turn" /\ pc' = pc
           /\ GlmTool => pc = "tool" /\ pc' = AfterCall
<1>0. loop \in Loop  BY DEF TypeOK
<1>1. CASE GlmTool /\ counted = Called(loop)
  <2>1. counted \in Loop /\ Tool(counted) /\ pc = "tool" /\ pc' = AfterCall  BY <1>1, Counting DEF GlmTool
  <2>2. counted.made = loop.made /\ counted.reused = loop.reused  BY <1>0, <1>1 DEF Called, Loop
  <2>3. ~CodexToolCall  BY <2>1 DEF CodexToolCall
  <2>. QED  BY <2>1, <2>2, <2>3
<1>2. CASE CodexToolCall /\ counted = [loop EXCEPT !.rounds = loop.rounds + 1]
  <2>1. counted \in Loop /\ Tool(counted) /\ pc = "turn" /\ pc' = pc  BY <1>2, Counting DEF CodexToolCall
  <2>2. counted.made = loop.made /\ counted.reused = loop.reused  BY <1>0, <1>2 DEF Loop
  <2>3. ~GlmTool  BY <2>1 DEF GlmTool
  <2>. QED  BY <2>1, <2>2, <2>3
<1>. QED  BY <1>1, <1>2

LEMMA Data ==
    ASSUME TypeOK, Next
    PROVE  /\ Table(datasets') /\ Table(archive')
           /\ {book', latest', final'} \subseteq Nat \cup {None}
           /\ latest' # None => latest' \in DOMAIN archive'
           /\ final' # None => final' \in DOMAIN archive'
           /\ DOMAIN archive \subseteq DOMAIN archive'
<1>1. CASE UNCHANGED toolVars  BY <1>1 DEF toolVars, TypeOK
<1>2. CASE WorkerStart
  <2>1. datasets' = SessionDatasets /\ book' = None /\ UNCHANGED <<archive, latest, final>>
    BY <1>2 DEF WorkerStart
  <2>. QED  BY <2>1, SessionTable DEF TypeOK
<1>3. CASE GlmTool
  <2>. DEFINE counted == Called(loop)
  <2>. QED  BY <1>3, ToolStep, ToolTables
<1>4. CASE CodexToolCall
  <2>. DEFINE counted == [loop EXCEPT !.rounds = loop.rounds + 1]
  <2>. QED  BY <1>4, ToolStep, ToolTables
<1>. QED  BY <1>1, <1>2, <1>3, <1>4, Frames

LEMMA Workspaces ==
    ASSUME TypeOK, Next
    PROVE  /\ workspace' \in {None} \cup (BOOLEAN \X Nat)
           /\ workspace' # None /\ workspace'[1] => workspace'[2] \in DOMAIN archive'
<1>0. /\ workspace \in {None} \cup (BOOLEAN \X Nat)
      /\ workspace # None /\ workspace[1] => workspace[2] \in DOMAIN archive
      /\ DOMAIN archive \subseteq DOMAIN archive'
  BY Data DEF TypeOK
<1>1. CASE workspace' = workspace  BY <1>0, <1>1
<1>2. CASE Promote
  <2>1. workspace' = workspace \/ workspace' = Promoted  BY <1>2 DEF Promote
  <2>2. Promoted = workspace \/ \E id \in DOMAIN archive : Promoted = <<TRUE, id>>
    BY DEF Promoted, TypeOK
  <2>3. ASSUME NEW id \in DOMAIN archive, workspace' = <<TRUE, id>>
        PROVE  workspace' \in BOOLEAN \X Nat /\ workspace'[2] = id
    BY <2>3 DEF TypeOK, Table
  <2>. QED  BY <1>1, <1>0, <2>1, <2>2, <2>3
<1>. QED  BY <1>1, <1>2, Frames

LEMMA LoopStep ==
    ASSUME TypeOK, Next
    PROVE  loop' \in Loop /\ (pc' \in {"tools", "tool"} => loop'.left > 0)
<1>0. loop \in Loop /\ loop.left \in Nat /\ (pc \in {"tools", "tool"} => loop.left > 0)  BY DEF TypeOK, Loop
<1>1. CASE WorkerStart
  <2>1. loop' = NewLoop(loop.made) /\ pc' \notin {"tools", "tool"}  BY <1>1 DEF WorkerStart
  <2>. QED  BY <1>0, <2>1 DEF NewLoop, Loop
<1>2. CASE GlmRound
  <2>1. CASE loop' = loop /\ pc' = "finalize"  BY <1>0, <2>1
  <2>. DEFINE round == [loop EXCEPT !.rounds = loop.rounds + 1]
  <2>2. round \in Loop /\ NextRound = round  BY Counting DEF NextRound
  <2>3. CASE loop' = round /\ pc' \notin {"tools", "tool"}  BY <2>2, <2>3
  <2>4. CASE loop' = [round EXCEPT !.idle = round.idle + 1] /\ pc' \notin {"tools", "tool"}
    <3>. HIDE DEF round
    <3>. QED  BY <2>2, <2>4 DEF Loop
  <2>5. ASSUME NEW n \in 1..MaxCalls, loop' = [round EXCEPT !.idle = 0, !.left = n]
        PROVE  loop' \in Loop /\ loop'.left > 0
    <3>1. n \in Nat /\ n > 0  BY LoopBounds
    <3>. HIDE DEF round
    <3>. QED  BY <2>2, <2>5, <3>1 DEF Loop
  <2>6. \/ loop' = loop /\ pc' = "finalize"
        \/ loop' = round /\ pc' \notin {"tools", "tool"}
        \/ loop' = [round EXCEPT !.idle = round.idle + 1] /\ pc' \notin {"tools", "tool"}
        \/ \E n \in 1..MaxCalls : loop' = [round EXCEPT !.idle = 0, !.left = n]
    <3>. HIDE DEF round
    <3>. QED  BY <1>2, <2>2 DEF GlmRound
  <2>. QED  BY <2>1, <2>3, <2>4, <2>5, <2>6
<1>3. CASE GlmProgress
  <2>1. \/ pc' = "tool" /\ loop' = loop /\ pc = "tools"
        \/ loop' = Called(loop) /\ pc' = AfterCall /\ pc = "tools"
    BY <1>3 DEF GlmProgress
  <2>2. CASE loop' = Called(loop) /\ pc' = AfterCall /\ pc = "tools"
    <3>1. loop' \in Loop /\ loop'.left \in Nat  BY <2>2, Counting DEF Loop
    <3>. QED  BY <2>2, <3>1 DEF AfterCall
  <2>. QED  BY <1>0, <2>1, <2>2
<1>4. CASE GlmTool
  <2>1. loop' \in Loop /\ loop'.left \in Nat  BY <1>4, ToolStep, ToolTables DEF Loop
  <2>2. pc' = AfterCall  BY <1>4 DEF GlmTool
  <2>. QED  BY <2>1, <2>2 DEF AfterCall
<1>5. CASE CodexToolCall
  <2>1. loop' \in Loop  BY <1>5, ToolStep, ToolTables
  <2>2. pc' = "turn"  BY <1>5 DEF CodexToolCall
  <2>. QED  BY <2>1, <2>2
<1>6. CASE loop' = loop /\ ~(WorkerStart \/ GlmRound \/ GlmProgress \/ GlmTool \/ CodexToolCall)
  <2>1. pc' \notin {"tools", "tool"} \/ pc' = pc
    BY <1>6 DEF Next, WorkerStep, CollectorStep, Planning, Cancel, GlmFinalize, CodexTurnEnds, Conclude, Promote,
                Succeed, Answer, Attach, Undelivered, Fail, CollectorPut, CollectorPublish, CollectorEnds,
                WorkerInitFails, CollectorEvent, CodexTimeout, Crash, Withdraw, Exit, AfterPromotion
  <2>. QED  BY <1>0, <1>6, <2>1
<1>. QED  BY <1>1, <1>2, <1>3, <1>4, <1>5, <1>6, Frames

LEMMA Dues ==
    ASSUME Next
    PROVE  \/ due' = due
           \/ due' \in BOOLEAN /\ (WorkerStart \/ WorkerInitFails)
           \/ due' \in BOOLEAN /\ \E ok \in BOOLEAN : Exit(ok)
<1>0. \A ok \in BOOLEAN : Exit(ok) => due' \in BOOLEAN  BY DEF Exit
<1>. DEFINE Left == due' \in BOOLEAN /\ \E ok \in BOOLEAN : Exit(ok)
<1>e. ASSUME NEW ok \in BOOLEAN, Exit(ok) PROVE Left  BY <1>e, <1>0
<1>. SUFFICES due' = due \/ (due' \in BOOLEAN /\ (WorkerStart \/ WorkerInitFails)) \/ Left  OBVIOUS
<1>. HIDE DEF Left
<1>1. CASE WorkerStart  BY <1>1 DEF WorkerStart
<1>2. CASE WorkerInitFails
  <2>1. due' = (attempt' < MaxAttempts)  BY <1>2 DEF WorkerInitFails
  <2>2. due' \in BOOLEAN  BY <2>1
  <2>. QED  BY <1>2, <2>2
<1>3. CASE Planning
  <2>1. due' = due \/ Exit(TRUE) \/ Exit(FALSE)  BY <1>3 DEF Planning
  <2>. QED  BY <2>1, <1>e
<1>4. CASE Cancel  BY <1>4, <1>e DEF Cancel
<1>5. CASE Answer
  <2>1. due' = due \/ Exit(TRUE) \/ Exit(FALSE)  BY <1>5 DEF Answer
  <2>. QED  BY <2>1, <1>e
<1>6. CASE Attach
  <2>1. due' = due \/ Exit(TRUE) \/ Exit(FALSE)  BY <1>6 DEF Attach
  <2>. QED  BY <2>1, <1>e
<1>7. CASE Undelivered
  <2>1. due' = due \/ Exit(TRUE) \/ Exit(FALSE)  BY <1>7 DEF Undelivered
  <2>. QED  BY <2>1, <1>e
<1>8. CASE Fail  BY <1>8, <1>e DEF Fail
<1>9. CASE Crash  BY <1>9, <1>e DEF Crash
<1>10. GlmRound \/ GlmFinalize \/ GlmProgress \/ GlmTool \/ CodexTurnEnds \/ Conclude => due' = due
  BY DEF GlmRound, GlmFinalize, GlmProgress, GlmTool, CodexTurnEnds, Conclude
<1>11. Promote \/ Succeed \/ CollectorPut \/ CollectorPublish => due' = due
  BY DEF Promote, Succeed, CollectorPut, CollectorPublish
<1>12. CodexToolCall \/ CollectorEvent \/ CodexTimeout \/ Withdraw => due' = due
  BY DEF CodexToolCall, CollectorEvent, CodexTimeout, Withdraw
<1>. QED  BY <1>1, <1>2, <1>3, <1>4, <1>5, <1>6, <1>7, <1>8, <1>9, <1>10, <1>11, <1>12
          DEF Next, WorkerStep, CollectorStep

LEMMA Control ==
    ASSUME TypeOK, Next
    PROVE  /\ pc' \in Places /\ attempt' \in 0..MaxAttempts /\ due' \in BOOLEAN
           /\ collector' \in Collector /\ (collector'.pc = "idle" => collector' = Idle)
           /\ present' \in BOOLEAN /\ faults' \in 0..MaxFaults /\ seen' \subseteq Faults
<1>0. /\ pc \in Places /\ attempt \in 0..MaxAttempts /\ due \in BOOLEAN /\ MaxAttempts \in Nat
      /\ collector \in Collector /\ (collector.pc = "idle" => collector = Idle)
      /\ present \in BOOLEAN /\ faults \in 0..MaxFaults /\ seen \subseteq Faults
  BY LoopBounds DEF TypeOK
<1>1. faults' \in 0..MaxFaults /\ seen' \subseteq Faults
  BY <1>0, FaultsCounted, LoopBounds DEF NoFault, Fault
<1>2. present' \in BOOLEAN  BY <1>0, Frames DEF Withdraw
<1>3. attempt' \in 0..MaxAttempts
  <2>1. attempt' = attempt \/ (attempt < MaxAttempts /\ attempt' = attempt + 1)
    BY Frames DEF WorkerStart, WorkerInitFails
  <2>. QED  BY <1>0, <2>1
<1>4. collector' \in Collector /\ (collector'.pc = "idle" => collector' = Idle)
  <2>1. Idle \in Collector  BY DEF Idle, Collector
  <2>2. CASE collector' = collector  BY <1>0, <2>2
  <2>3. CASE collector' = Idle  BY <2>1, <2>3
  <2>4. ASSUME NEW label \in Labels, collector' = [pc |-> "put", text |-> label]
        PROVE  collector' \in Collector /\ collector'.pc # "idle"
    BY <2>4 DEF Collector
  <2>5. CASE collector' = [collector EXCEPT !.pc = "publish"]  BY <1>0, <2>5 DEF Collector
  <2>6. \/ collector' = collector \/ collector' = Idle
        \/ collector' = [collector EXCEPT !.pc = "publish"]
        \/ \E label \in Labels : collector' = [pc |-> "put", text |-> label]
    BY Frames DEF CollectorEvent, CollectorPut, CollectorPublish, CollectorEnds, Crash
  <2>. QED  BY <2>2, <2>3, <2>4, <2>5, <2>6
<1>5. pc' \in Places
  BY <1>0 DEF Next, WorkerStep, CollectorStep, WorkerStart, Planning, Cancel, GlmRound, GlmFinalize, GlmProgress,
              GlmTool, CodexTurnEnds, Conclude, Promote, Succeed, Answer, Attach, Undelivered, Fail, CollectorPut,
              CollectorPublish, CollectorEnds, WorkerInitFails, CodexToolCall, CollectorEvent, CodexTimeout, Crash,
              Withdraw, Exit, AfterCall, AfterPromotion, Places
<1>6. due' \in BOOLEAN  BY <1>0, Dues
<1>. QED  BY <1>1, <1>2, <1>3, <1>4, <1>5, <1>6

LEMMA TypeStep ==
    ASSUME TypeOK, EditsCounted, Next
    PROVE  TypeOK' /\ EditsCounted'
<1>1. runtime' \in Runtimes  BY Frames DEF TypeOK
<1>2. /\ {book, latest, final}' \subseteq Nat \cup {None}
      /\ Table(datasets)' /\ Table(archive)'
  BY Data DEF Table
<1>. QED  BY <1>1, <1>2, Records, Messages, Data, Workspaces, LoopStep, Control DEF TypeOK

-----------------------------------------------------------------------------
(***************************************************************************)
(* The record before the chat.                                             *)
(***************************************************************************)

\* What a step writes: the stored record becomes a copy of the worker's, and neither an answer nor
\* its page is taken back.
LEMMA RecordKept ==
    ASSUME TypeOK, Next, AnswersKept, AnswersAreRecorded
    PROVE  /\ stored.answer => stored'.answer
           /\ stored'.answer => task'.answer
           /\ task'.page => task'.answer
           /\ task'.answer = task.answer \/ WorkerStart \/ WorkerInitFails \/ (task'.answer /\ Conclude)
           /\ \/ stored'.answer = stored.answer /\ stored'.page = stored.page
              \/ stored'.answer = task'.answer /\ stored'.page = task'.page
<1>0. /\ stored \in Task /\ task \in Task /\ stored' \in Task /\ task' \in Task
      /\ stored.answer => task.answer
      /\ task.page => task.answer
      /\ stored.page => stored.answer
  BY Records DEF TypeOK, AnswersKept, AnswersAreRecorded
<1>. DEFINE Same == task'.answer = task.answer /\ task'.page = task.page
            Written == \/ stored'.answer = stored.answer /\ stored'.page = stored.page
                       \/ stored'.answer = task'.answer /\ stored'.page = task'.page
<1>2. CASE WorkerStart
  <2>1. task' = stored /\ stored' = stored  BY <1>2 DEF WorkerStart
  <2>. QED  BY <1>0, <1>2, <2>1
<1>3. CASE WorkerInitFails
  <2>1. task' = stored' /\ stored' = [stored EXCEPT !.status = "failed", !.stage = "failed"]
    BY <1>3 DEF WorkerInitFails
  <2>2. stored'.answer = stored.answer /\ stored'.page = stored.page  BY <1>0, <2>1 DEF Task
  <2>. QED  BY <1>0, <1>3, <2>1, <2>2
<1>4. CASE Conclude
  <2>1. stored' = stored  BY <1>4 DEF Conclude
  <2>2. task'.answer
    <3>. DEFINE told == [task EXCEPT !.answer = TRUE, !.file = (book # None)]
                page == told.page \/ ((book # None) /\ PublicUrl)
    <3>1. told \in Task /\ told.answer  BY <1>0 DEF Task
    <3>2. task' = told \/ task' = [told EXCEPT !.page = page]  BY <1>4 DEF Conclude
    <3>. HIDE DEF told, page
    <3>. QED  BY <3>1, <3>2 DEF Task
  <2>. QED  BY <1>4, <1>0, <2>1, <2>2
<1>5. CASE Same /\ Written  BY <1>0, <1>5
<1>6. CASE Planning
  <2>1. task' = [task EXCEPT !.status = "running", !.stage = "planning"] /\ (stored' = stored \/ stored' = task')
    BY <1>6 DEF Planning, PutFails
  <2>2. task'.answer = task.answer /\ task'.page = task.page  BY <1>0, <2>1 DEF Task
  <2>. QED  BY <1>5, <2>1, <2>2
<1>7. CASE Cancel
  <2>1. task' = [task EXCEPT !.status = "failed", !.stage = "cancelled"] /\ (stored' = stored \/ stored' = task')
    BY <1>7 DEF Cancel, Put, PutFails
  <2>2. task'.answer = task.answer /\ task'.page = task.page  BY <1>0, <2>1 DEF Task
  <2>. QED  BY <1>5, <2>1, <2>2
<1>8. CASE GlmProgress
  <2>1. task' = [task EXCEPT !.stage = "working"] /\ (stored' = stored \/ stored' = task')
    BY <1>8 DEF GlmProgress, Report, Working, PutFails
  <2>2. task'.answer = task.answer /\ task'.page = task.page  BY <1>0, <2>1 DEF Task
  <2>. QED  BY <1>5, <2>1, <2>2
<1>9. CASE CollectorEvent
  <2>1. task' = [task EXCEPT !.stage = "working"] /\ stored' = stored  BY <1>9 DEF CollectorEvent, Working
  <2>2. task'.answer = task.answer /\ task'.page = task.page  BY <1>0, <2>1 DEF Task
  <2>. QED  BY <1>5, <2>1, <2>2
<1>10. CASE Succeed
  <2>1. task' = [task EXCEPT !.status = "succeeded", !.stage = "completed"] /\ (stored' = stored \/ stored' = task')
    BY <1>10 DEF Succeed, Put, PutFails
  <2>2. task'.answer = task.answer /\ task'.page = task.page  BY <1>0, <2>1 DEF Task
  <2>. QED  BY <1>5, <2>1, <2>2
<1>11. CASE Fail
  <2>1. task' = [task EXCEPT !.status = "failed", !.stage = "failed"] /\ (stored' = stored \/ stored' = task')
    BY <1>11 DEF Fail, Failed, PutFails
  <2>2. task'.answer = task.answer /\ task'.page = task.page  BY <1>0, <2>1 DEF Task
  <2>. QED  BY <1>5, <2>1, <2>2
<1>12. CASE CollectorPut \/ Undelivered
  <2>1. task' = task /\ (stored' = stored \/ stored' = task')
    BY <1>12 DEF CollectorPut, Undelivered, Put, PutFails
  <2>. QED  BY <1>5, <2>1
<1>. QED  BY <1>2, <1>3, <1>4, <1>5, <1>6, <1>7, <1>8, <1>9, <1>10, <1>11, <1>12, Frames

\* Where a step leaves the run once the answer exists.
LEMMA Path ==
    ASSUME Next, pc' # pc
    PROVE  /\ pc' = "promote" => Conclude
           /\ pc' = "success" => pc = "promote" /\ Promote
           /\ pc' = "answer" => pc = "success" /\ Succeed /\ stored' = task'
           /\ pc' = "attach" => pc = "answer" /\ Answer
           /\ pc' = "undelivered" => pc = "attach" /\ Attach
           /\ pc' = "cancel" => Planning
<1>1. CASE WorkerStart \/ Planning \/ Cancel \/ GlmRound \/ GlmFinalize
  BY <1>1 DEF WorkerStart, Planning, Cancel, GlmRound, GlmFinalize, Exit
<1>2. CASE GlmProgress \/ GlmTool \/ CodexTurnEnds
  BY <1>2 DEF GlmProgress, GlmTool, CodexTurnEnds, AfterCall
<1>3. CASE Conclude  BY <1>3 DEF Conclude
<1>4. CASE Promote  BY <1>4 DEF Promote, AfterPromotion
<1>5. CASE Succeed  BY <1>5 DEF Succeed, Put
<1>6. CASE Answer  BY <1>6 DEF Answer, Exit
<1>7. CASE Attach  BY <1>7 DEF Attach, Exit
<1>8. CASE Undelivered \/ Fail  BY <1>8 DEF Undelivered, Fail, Exit
<1>9. CASE CollectorPut \/ CollectorPublish  BY <1>9 DEF CollectorPut, CollectorPublish, CollectorEnds
<1>10. CASE WorkerInitFails \/ CodexToolCall \/ CollectorEvent \/ CodexTimeout \/ Crash \/ Withdraw
  BY <1>10 DEF WorkerInitFails, CodexToolCall, CollectorEvent, CodexTimeout, Crash, Withdraw, Exit
<1>. QED  BY <1>1, <1>2, <1>3, <1>4, <1>5, <1>6, <1>7, <1>8, <1>9, <1>10 DEF Next, WorkerStep, CollectorStep

LEMMA AnswersKeptStep ==
    ASSUME TypeOK, AnswersKept, AnswersAreRecorded, Next
    PROVE  AnswersKept'
<1>1. stored'.answer => task'.answer  BY RecordKept
<1>2. task'.page => task'.answer  BY RecordKept
<1>3. WorkerStart \/ WorkerInitFails => pc' \in {"off", "planning"}
  BY DEF WorkerStart, WorkerInitFails
<1>4. task.answer /\ pc' \notin {"off", "planning"} => task'.answer  BY <1>3, RecordKept
<1>5. pc' \in {"promote", "success", "answer", "attach", "undelivered"} => task'.answer
  <2>1. CASE pc' = pc  BY <2>1, <1>4 DEF AnswersKept
  <2>2. CASE pc' # pc
    <3>1. pc' = "promote" => task'.answer
      <4>1. Conclude => ~WorkerStart /\ ~WorkerInitFails  BY DEF Conclude, WorkerStart, WorkerInitFails
      <4>2. Conclude => task'.answer
        <5>. SUFFICES ASSUME Conclude PROVE task'.answer  OBVIOUS
        <5>. DEFINE told == [task EXCEPT !.answer = TRUE, !.file = (book # None)]
                    page == told.page \/ ((book # None) /\ PublicUrl)
        <5>1. told \in Task /\ told.answer  BY DEF TypeOK, Task
        <5>2. task' = told \/ task' = [told EXCEPT !.page = page]  BY DEF Conclude
        <5>. HIDE DEF told, page
        <5>. QED  BY <5>1, <5>2 DEF Task
      <4>. QED  BY <2>2, <4>2, Path
    <3>2. pc' \in {"success", "answer", "attach", "undelivered"} => task'.answer
      BY <2>2, <1>4, Path DEF AnswersKept
    <3>. QED  BY <3>1, <3>2
  <2>. QED  BY <2>1, <2>2
<1>6. pc' \in {"answer", "attach", "undelivered"} => stored'.answer
  <2>1. CASE pc' = pc  BY <2>1, RecordKept DEF AnswersKept
  <2>2. CASE pc' # pc /\ pc' = "answer"
    <3>1. stored' = task'  BY <2>2, Path
    <3>. QED  BY <2>2, <3>1, <1>5
  <2>3. CASE pc' # pc /\ pc' \in {"attach", "undelivered"}
    BY <2>3, Path, RecordKept DEF AnswersKept
  <2>. QED  BY <2>1, <2>2, <2>3
<1>. QED  BY <1>1, <1>2, <1>5, <1>6 DEF AnswersKept

LEMMA AnswersAreRecordedStep ==
    ASSUME TypeOK, EditsCounted, AnswersKept, AnswersAreRecorded, Next
    PROVE  AnswersAreRecorded'
<1>0. stored \in Task /\ task \in Task /\ stored' \in Task  BY Records DEF TypeOK
<1>1. stored.answer => stored'.answer  BY RecordKept
<1>2. stored'.page => stored'.answer
  BY <1>1, RecordKept DEF AnswersAreRecorded, AnswersKept
<1>3. ASSUME NEW m \in DOMAIN chat', chat'[m].text \in {"answer", "notice"} PROVE stored'.answer
  <2>1. CASE m \in DOMAIN chat /\ chat'[m] = chat[m]  BY <2>1, <1>1, <1>3 DEF AnswersAreRecorded
  <2>2. CASE chat' = chat  BY <2>2, <1>1, <1>3 DEF AnswersAreRecorded
  <2>3. ASSUME NEW r \in RunState, NEW text \in Texts, NEW terminal \in BOOLEAN, NEW ok \in BOOLEAN,
               Successor(r), Told(text, terminal), Publish(r, text, terminal, ok), chat'[m].text = text
        PROVE  stored'.answer
    <3>1. text \in {"answer", "notice"}  BY <1>3, <2>3
    <3>2. text \notin Labels  BY <3>1, ProgressLabels
    <3>3. pc \in {"answer", "undelivered"}  BY <2>3, <3>1, <3>2 DEF Told
    <3>. QED  BY <3>3, <1>1 DEF AnswersKept
  <2>4. \A r \in RunState, text \in Texts, terminal \in BOOLEAN, ok \in BOOLEAN :
           Successor(r) /\ Told(text, terminal) /\ Publish(r, text, terminal, ok) =>
              (m \in DOMAIN chat /\ chat'[m] = chat[m]) \/ chat'[m].text = text
    BY PublishTexts
  <2>. QED  BY <2>1, <2>2, <2>3, <2>4, Delivery
<1>. QED  BY <1>2, <1>3 DEF AnswersAreRecorded

LEMMA LastEditStep ==
    ASSUME TypeOK, EditsCounted, LastEditIsForTheOutcome, Next
    PROVE  LastEditIsForTheOutcome'
<1>. SUFFICES ASSUME NEW m \in DOMAIN chat', chat'[m].edits = EditLimit
              PROVE  chat'[m].text \notin Labels \cup {"planning"}
  BY DEF LastEditIsForTheOutcome
<1>1. CASE m \in DOMAIN chat /\ chat'[m] = chat[m]  BY <1>1 DEF LastEditIsForTheOutcome
<1>2. CASE chat' = chat  BY <1>2 DEF LastEditIsForTheOutcome
<1>3. ASSUME NEW r \in RunState, NEW text \in Texts, NEW terminal \in BOOLEAN, NEW ok \in BOOLEAN,
             Successor(r), Told(text, terminal), Publish(r, text, terminal, ok),
             chat'[m].text = text, terminal \/ chat'[m].edits < EditLimit
      PROVE  chat'[m].text \notin Labels \cup {"planning"}
  <2>1. terminal  BY <1>3, ProgressLeavesOneEdit
  <2>2. text \in {"answer", "notice", "failure"}  BY <1>3, <2>1 DEF Told
  <2>. QED  BY <1>3, <2>2, ProgressLabels
<1>4. \A r \in RunState, text \in Texts, terminal \in BOOLEAN, ok \in BOOLEAN :
         Successor(r) /\ Told(text, terminal) /\ Publish(r, text, terminal, ok) =>
            \/ m \in DOMAIN chat /\ chat'[m] = chat[m]
            \/ chat'[m].text = text /\ (terminal \/ chat'[m].edits < EditLimit)
  BY PublishTexts
<1>. QED  BY <1>1, <1>2, <1>3, <1>4, Delivery

-----------------------------------------------------------------------------
(***************************************************************************)
(* The exported workbook.                                                  *)
(***************************************************************************)

\* The archive agrees with the run's datasets, and the exported one is marked final.
DatasetsArchived ==
    \A id \in DOMAIN datasets \ {0} : id \in DOMAIN archive /\ archive[id] = datasets[id]
ExportIsFinal ==
    book # None => /\ final # None /\ final \in DOMAIN datasets /\ final \in DOMAIN archive
                   /\ archive[final] = book

\* A new dataset is archived under its own name and leaves the others alone.
LEMMA RetainKeeps ==
    ASSUME TypeOK, DatasetsArchived, ExportIsFinal, NEW id \in Names, RetainDataset(id),
           id \notin DOMAIN datasets, "archive" \notin seen'
    PROVE  DatasetsArchived' /\ ExportIsFinal'
<1>. DEFINE c == loop.made + 1
<1>1. datasets' = With(datasets, id, c) /\ book' = book /\ final' = final  BY DEF RetainDataset
<1>2. archive' = With(archive, id, c)  BY DEF RetainDataset, Archived, Fault
<1>. HIDE DEF c
<1>3. /\ DOMAIN datasets' = DOMAIN datasets \cup {id} /\ datasets'[id] = c
      /\ \A i \in DOMAIN datasets \ {id} : datasets'[i] = datasets[i]
  BY <1>1 DEF With
<1>4. /\ DOMAIN archive' = DOMAIN archive \cup {id} /\ archive'[id] = c
      /\ \A i \in DOMAIN archive \ {id} : archive'[i] = archive[i]
  BY <1>2 DEF With
<1>5. DatasetsArchived'
  <2>. SUFFICES ASSUME NEW i \in DOMAIN datasets' \ {0} PROVE i \in DOMAIN archive' /\ archive'[i] = datasets'[i]
    BY DEF DatasetsArchived
  <2>1. CASE i = id  BY <2>1, <1>3, <1>4
  <2>2. CASE i # id  BY <2>2, <1>3, <1>4 DEF DatasetsArchived
  <2>. QED  BY <2>1, <2>2
<1>6. ExportIsFinal'
  <2>. SUFFICES ASSUME book # None
                PROVE  final # None /\ final \in DOMAIN datasets' /\ final \in DOMAIN archive' /\ archive'[final] = book
    BY <1>1 DEF ExportIsFinal
  <2>1. final # None /\ final \in DOMAIN datasets /\ final \in DOMAIN archive /\ archive[final] = book
    BY DEF ExportIsFinal
  <2>. QED  BY <2>1, <1>3, <1>4
<1>. QED  BY <1>5, <1>6

\* An export marks its dataset final; the session's dataset is archived by it.
LEMMA ExportKeeps ==
    ASSUME TypeOK, DatasetsArchived, ExportIsFinal, NEW id \in DatasetIds, ExportExcel(id),
           "archive" \notin seen'
    PROVE  DatasetsArchived' /\ ExportIsFinal'
<1>1. id \in DOMAIN datasets /\ id \in Nat /\ book' = datasets[id] /\ datasets' = datasets
  BY DEF ExportExcel, TypeOK, Table
<1>2. final' = IF id \in DOMAIN archive' THEN id ELSE final  BY DEF ExportExcel, Fault
<1>3. CASE id = 0
  <2>1. archive' = With(archive, 0, datasets[0])  BY <1>3 DEF ExportExcel
  <2>2. /\ DOMAIN archive' = DOMAIN archive \cup {0} /\ archive'[0] = datasets[0]
        /\ \A i \in DOMAIN archive \ {0} : archive'[i] = archive[i]
    BY <2>1 DEF With
  <2>3. DatasetsArchived'  BY <1>1, <2>2 DEF DatasetsArchived
  <2>4. ExportIsFinal'  BY <1>1, <1>2, <1>3, <2>2, NoneIsNew DEF ExportIsFinal
  <2>. QED  BY <2>3, <2>4
<1>4. CASE id # 0
  <2>1. archive' = archive  BY <1>4 DEF ExportExcel
  <2>2. id \in DOMAIN archive /\ archive[id] = datasets[id]  BY <1>1, <1>4 DEF DatasetsArchived
  <2>3. DatasetsArchived'  BY <1>1, <2>1 DEF DatasetsArchived
  <2>4. ExportIsFinal'  BY <1>1, <1>2, <2>1, <2>2, NoneIsNew DEF ExportIsFinal
  <2>. QED  BY <2>3, <2>4
<1>. QED  BY <1>3, <1>4

LEMMA ToolKeeps ==
    ASSUME TypeOK, DatasetsArchived, ExportIsFinal, "archive" \notin seen',
           NEW counted \in Loop, counted.reused = loop.reused, Tool(counted), ~loop'.reused
    PROVE  DatasetsArchived' /\ ExportIsFinal'
<1>1. CASE UNCHANGED toolVars  BY <1>1 DEF toolVars, DatasetsArchived, ExportIsFinal
<1>2. ASSUME NEW id \in Names, loop' = Retained(counted, id), RetainDataset(id)
      PROVE  DatasetsArchived' /\ ExportIsFinal'
  <2>1. id \notin DOMAIN datasets
    <3>1. loop' = [counted EXCEPT !.made = counted.made + 1,
                                  !.reused = (counted.reused \/ id \in DOMAIN datasets)]
      BY <1>2 DEF Retained
    <3>2. loop'.reused = (counted.reused \/ id \in DOMAIN datasets)  BY <3>1 DEF Loop
    <3>. QED  BY <3>2
  <2>. QED  BY <1>2, <2>1, RetainKeeps
<1>3. ASSUME NEW id \in DatasetIds, ExportExcel(id) PROVE DatasetsArchived' /\ ExportIsFinal'
  BY <1>3, ExportKeeps
<1>. QED  BY <1>1, <1>2, <1>3 DEF Tool

\* Only a new execution forgets that an identifier was used twice.
LEMMA ReusedKept ==
    ASSUME TypeOK, Next, ~WorkerStart, loop.reused
    PROVE  loop'.reused
<1>0. loop \in Loop  BY DEF TypeOK
<1>1. CASE GlmRound
  <2>. DEFINE round == [loop EXCEPT !.rounds = loop.rounds + 1]
  <2>1. round \in Loop /\ round.reused = loop.reused /\ NextRound = round  BY <1>0, Counting DEF NextRound, Loop
  <2>. HIDE DEF round
  <2>2. \/ loop' = loop \/ loop' = round \/ loop' = [round EXCEPT !.idle = round.idle + 1]
        \/ \E n \in 1..MaxCalls : loop' = [round EXCEPT !.idle = 0, !.left = n]
    BY <1>1, <2>1 DEF GlmRound
  <2>. QED  BY <2>1, <2>2 DEF Loop
<1>2. CASE GlmProgress  BY <1>0, <1>2 DEF GlmProgress, Called, Loop
<1>3. ASSUME NEW counted \in Loop, counted.reused = loop.reused, Tool(counted) PROVE loop'.reused
  <2>1. CASE loop' = counted  BY <1>3, <2>1
  <2>2. ASSUME NEW id, loop' = Retained(counted, id) PROVE loop'.reused
    <3>1. loop' = [counted EXCEPT !.made = counted.made + 1,
                                  !.reused = (counted.reused \/ id \in DOMAIN datasets)]
      BY <2>2 DEF Retained
    <3>2. loop'.reused = (counted.reused \/ id \in DOMAIN datasets)  BY <3>1 DEF Loop
    <3>. QED  BY <1>3, <3>2
  <2>. QED  BY <1>3, <2>1, <2>2 DEF Tool
<1>4. CASE GlmTool
  <2>. DEFINE counted == Called(loop)
  <2>. QED  BY <1>4, <1>3, ToolStep
<1>5. CASE CodexToolCall
  <2>. DEFINE counted == [loop EXCEPT !.rounds = loop.rounds + 1]
  <2>. QED  BY <1>5, <1>3, ToolStep
<1>. QED  BY <1>1, <1>2, <1>4, <1>5, Frames

LEMMA WorkbookArchivedStep ==
    ASSUME TypeOK, WorkbookArchived, Next
    PROVE  WorkbookArchived'
<1>. SUFFICES ASSUME "archive" \notin seen', ~loop'.reused
              PROVE  /\ DatasetsArchived' /\ ExportIsFinal'
                     /\ book' # None /\ pc' \in {"success", "answer"} => workspace' = <<TRUE, final'>>
  BY DEF WorkbookArchived, DatasetsArchived, ExportIsFinal
<1>1. CASE WorkerStart
  <2>1. datasets' = SessionDatasets /\ book' = None  BY <1>1 DEF WorkerStart
  <2>. QED  BY <2>1, SessionTable DEF DatasetsArchived, ExportIsFinal
<1>2. CASE ~WorkerStart
  <2>0. "archive" \notin seen /\ ~loop.reused  BY <1>2, ReusedKept, SeenGrows
  <2>1. /\ DatasetsArchived /\ ExportIsFinal
        /\ book # None /\ pc \in {"success", "answer"} => workspace = <<TRUE, final>>
    BY <2>0 DEF WorkbookArchived, DatasetsArchived, ExportIsFinal
  <2>2. CASE GlmTool \/ CodexToolCall
    <3>1. PICK counted \in Loop : counted.reused = loop.reused /\ Tool(counted)
      BY <2>2, ToolStep
    <3>2. DatasetsArchived' /\ ExportIsFinal'  BY <2>1, <3>1, ToolKeeps
    <3>3. pc' \notin {"success", "answer"}  BY <2>2, ToolStep DEF AfterCall
    <3>. QED  BY <3>2, <3>3
  <2>3. CASE UNCHANGED toolVars
    <3>1. DatasetsArchived' /\ ExportIsFinal'  BY <2>1, <2>3 DEF toolVars, DatasetsArchived, ExportIsFinal
    <3>2. ASSUME book' # None, pc' \in {"success", "answer"} PROVE workspace' = <<TRUE, final'>>
      <4>1. book # None /\ final' = final /\ final # None  BY <2>1, <2>3, <3>2 DEF toolVars, ExportIsFinal
      <4>2. CASE Promote
        <5>1. pc' # "fail" /\ workspace' = Promoted  BY <4>2, <3>2 DEF Promote, Fault
        <5>. QED  BY <4>1, <5>1 DEF Promoted
      <4>3. CASE ~Promote
        <5>1. workspace' = workspace  BY <4>3, Frames
        <5>2. pc \in {"success", "answer"}  BY <4>3, <3>2, Path
        <5>. QED  BY <4>1, <5>1, <5>2, <2>1
      <4>. QED  BY <4>2, <4>3
    <3>. QED  BY <3>1, <3>2
  <2>. QED  BY <1>2, <2>2, <2>3, Frames
<1>. QED  BY <1>1, <1>2

-----------------------------------------------------------------------------
(***************************************************************************)
(* The outcome of a calm run.                                              *)
(***************************************************************************)

\* What CalmRun and OutcomeShown say of a state without the disturbing faults.
CalmState ==
    /\ present /\ ~run.withdrawn
    /\ pc \notin {"cancel", "undelivered"}
    /\ attempt = 0 => pc = "off" /\ stored.status = "queued"
    /\ attempt > 0 => attempt = 1 /\ ~due
    /\ attempt = 0 \/ pc = "planning" => chat = <<>> /\ collector = Idle
    /\ collector # Idle => pc = "turn" /\ runtime = "codex"
    /\ pc \notin {"off", "planning"} => Len(chat) = 1 /\ run.msg = 1
    /\ pc \notin {"off", "planning", "attach"} => run.edits <= MaxProgress
    /\ pc \notin {"off", "planning", "answer", "attach", "fail"} => task.status = "running"
    /\ pc \in {"answer", "attach"} => stored.status = "succeeded"
    /\ pc = "attach" => chat[1].text = "answer"
Shown ==
    /\ chat # <<>>
    /\ chat[Len(chat)].text = IF stored.status = "succeeded" THEN "answer" ELSE "failure"
    /\ stored.status \in {"succeeded", "failed"}
Ended == pc = "off" /\ ~due /\ collector = Idle /\ attempt > 0

Researching == {"turn", "tools", "tool", "finalize", "conclude", "promote", "success"}

LEMMA CalmFaults ==
    ASSUME Next, Calm'
    PROVE  /\ Calm
           /\ \A k \in {"init", "store", "publish", "crash", "withdrawn", "overrun", "attach"} :
                 ~Fault(k) /\ k \notin seen'
BY SeenGrows DEF Calm, Fault

\* A step between the first message and the outcome that leaves the message an edit.
LEMMA ResearchCalm ==
    ASSUME TypeOK, CalmState, pc \in Researching, pc' \in Researching \cup {"fail"},
           attempt' = attempt, due' = due, present' = present, task'.status = task.status,
           Len(chat') = 1, run'.msg = 1, ~run'.withdrawn, run'.edits <= MaxProgress,
           collector' = Idle \/ (pc' = "turn" /\ runtime' = "codex")
    PROVE  CalmState' /\ (Ended => Shown)'
<1>1. attempt \in Nat /\ attempt # 0  BY LoopBounds DEF TypeOK, CalmState, Researching
<1>2. pc' \notin {"off", "planning", "answer", "attach", "cancel", "undelivered"}  BY DEF Researching
<1>3. task'.status = "running"  BY DEF CalmState, Researching
<1>4. ~Ended'  BY <1>2 DEF Ended
<1>5. CalmState'  BY <1>1, <1>2, <1>3 DEF CalmState
<1>. QED  BY <1>4, <1>5

\* What a publish does in a calm state with the run's message up.
LEMMA CalmPublish ==
    ASSUME TypeOK, EditsCounted, CalmState, Next, Calm', run.edits <= MaxProgress,
           NEW r, Successor(r), NEW text \in Texts, NEW terminal \in BOOLEAN, NEW ok \in BOOLEAN,
           Publish(r, text, terminal, ok), run.msg # 0 => Len(chat) = 1 /\ run.msg = 1, run.msg = 0 => chat = <<>>
    PROVE  /\ ok /\ ~run'.withdrawn /\ Len(chat') = 1 /\ run'.msg = 1
           /\ ~terminal => run'.edits <= MaxProgress
           /\ terminal => chat'[1].text = text
<1>1. "publish" \notin seen' /\ present /\ ~run.withdrawn  BY CalmFaults DEF CalmState
<1>2. /\ ok /\ ~run'.withdrawn
      /\ run.msg = 0 => Len(chat') = Len(chat) + 1 /\ run'.msg = Len(chat')
      /\ run.msg # 0 => Len(chat') = Len(chat) /\ run'.msg = run.msg
      /\ ~terminal => run'.edits <= MaxProgress
      /\ terminal => chat'[run'.msg].text = text
  BY <1>1, PublishShows
<1>3. chat = <<>> => Len(chat) = 0  OBVIOUS
<1>4. Len(chat') = 1 /\ run'.msg = 1
  <2>1. CASE run.msg = 0
    <3>1. Len(chat) = 0  BY <2>1, <1>3
    <3>. QED  BY <1>2, <2>1, <3>1
  <2>2. CASE run.msg # 0  BY <1>2, <2>2
  <2>. QED  BY <2>1, <2>2
<1>. QED  BY <1>2, <1>4

LEMMA CalmResearchStep ==
    ASSUME TypeOK, EditsCounted, CalmState, Next, Calm', pc \in Researching \ {"success"}
    PROVE  CalmState' /\ (Ended => Shown)'
<1>0. /\ ~run.withdrawn /\ Len(chat) = 1 /\ run.msg = 1 /\ run.edits <= MaxProgress
      /\ collector # Idle => pc = "turn"
      /\ run.msg # 0 => Len(chat) = 1 /\ run.msg = 1
      /\ run.msg = 0 => chat = <<>>
      /\ task \in Task
  BY DEF CalmState, Researching, TypeOK
<1>p. pc \notin {"off", "planning", "cancel", "success", "answer", "attach", "undelivered", "fail"}
  BY DEF Researching
<1>s. Successor(run) /\ \A label \in Labels \cup {"planning"} : Successor([run EXCEPT !.last = label])
  BY DEF TypeOK, RunState, Texts, Successor
<1>i. \/ collector = Idle
      \/ pc = "turn" /\ runtime = "codex"
  BY DEF CalmState
<1>r. runtime' = runtime  BY Frames
<1>1. CASE GlmRound
  <2>1. /\ UNCHANGED <<task, attempt, due, run, chat, collector, present>>
        /\ runtime = "glm" /\ pc' \in Researching \cup {"fail"}
    BY <1>1 DEF GlmRound, Researching
  <2>. QED  BY <1>0, <1>i, <2>1, ResearchCalm
<1>2. CASE GlmFinalize \/ CodexTurnEnds \/ Promote
  <2>1. /\ UNCHANGED <<task, attempt, due, run, chat, collector, present>>
        /\ collector = Idle /\ pc' \in Researching \cup {"fail"}
    BY <1>i, <1>2 DEF GlmFinalize, CodexTurnEnds, Promote, AfterPromotion, Researching
  <2>. QED  BY <1>0, <2>1, ResearchCalm
<1>3. CASE GlmTool
  <2>1. /\ UNCHANGED <<task, attempt, due, run, chat, collector, present>>
        /\ collector = Idle /\ pc' \in Researching \cup {"fail"}
    BY <1>i, <1>3 DEF GlmTool, AfterCall, Researching
  <2>. QED  BY <1>0, <2>1, ResearchCalm
<1>4. CASE CodexToolCall
  <2>1. /\ UNCHANGED <<task, attempt, due, run, chat, collector, present>>
        /\ runtime = "codex" /\ pc' = "turn"
    BY <1>4 DEF CodexToolCall
  <2>. QED  BY <1>0, <1>r, <2>1, ResearchCalm DEF Researching
<1>5. CASE CodexTimeout
  <2>1. /\ UNCHANGED <<task, attempt, due, run, chat, collector, present>>
        /\ pc' = "fail" /\ Fault(IF collector = Idle THEN "model" ELSE "overrun")
    BY <1>5 DEF CodexTimeout
  <2>2. collector = Idle  BY <2>1, CalmFaults
  <2>. QED  BY <1>0, <2>1, <2>2, ResearchCalm
<1>6. CASE Conclude
  <2>1. /\ UNCHANGED <<attempt, due, run, chat, collector, present>>
        /\ collector = Idle /\ pc' = "promote"
    BY <1>i, <1>6 DEF Conclude
  <2>2. task'.status = task.status
    <3>. DEFINE told == [task EXCEPT !.answer = TRUE, !.file = (book # None)]
                page == told.page \/ ((book # None) /\ PublicUrl)
    <3>1. told \in Task /\ told.status = task.status  BY <1>0 DEF Task
    <3>2. task' = told \/ task' = [told EXCEPT !.page = page]  BY <1>6 DEF Conclude
    <3>. HIDE DEF told, page
    <3>. QED  BY <3>1, <3>2 DEF Task
  <2>. QED  BY <1>0, <2>1, <2>2, ResearchCalm DEF Researching
<1>7. CASE GlmProgress
  <2>1. PICK label \in Labels, ok \in BOOLEAN : Report(label, ok)  BY <1>7 DEF GlmProgress
  <2>2. /\ UNCHANGED <<attempt, due, collector, present>>
        /\ collector = Idle /\ pc' \in Researching \cup {"fail"}
    BY <1>i, <1>7 DEF GlmProgress, AfterCall, Researching
  <2>3. task'.status = task.status  BY <1>0, <2>1 DEF Report, Working, Task
  <2>4. ~run'.withdrawn /\ Len(chat') = 1 /\ run'.msg = 1 /\ run'.edits <= MaxProgress
    <3>1. CASE run' = run /\ chat' = chat  BY <1>0, <3>1
    <3>2. CASE Publish([run EXCEPT !.last = label], label, FALSE, ok)
      <4>. DEFINE r == [run EXCEPT !.last = label]
      <4>1. Successor(r) /\ label \in Texts  BY <1>s DEF Texts
      <4>2. Publish(r, label, FALSE, ok)  BY <3>2
      <4>. HIDE DEF r
      <4>. QED  BY <1>0, <4>1, <4>2, CalmPublish
    <3>. QED  BY <2>1, <3>1, <3>2 DEF Report
  <2>. QED  BY <2>2, <2>3, <2>4, ResearchCalm
<1>8. CASE CollectorEvent
  <2>1. /\ UNCHANGED <<attempt, due, run, chat, present>>
        /\ runtime = "codex" /\ pc' = "turn" /\ task' = [task EXCEPT !.stage = "working"]
    BY <1>8 DEF CollectorEvent, Working
  <2>2. task'.status = task.status  BY <1>0, <2>1 DEF Task
  <2>. QED  BY <1>0, <1>r, <2>1, <2>2, ResearchCalm DEF Researching
<1>9. CASE CollectorPut
  <2>1. /\ UNCHANGED <<task, attempt, due, run, chat, present>>
        /\ (collector' = Idle /\ pc' = pc) \/ pc' = pc
    BY <1>9, CalmFaults DEF CollectorPut, CollectorEnds, PutFails
  <2>2. pc = "turn" /\ runtime = "codex"
    <3>1. collector # Idle  BY <1>9 DEF CollectorPut, Idle
    <3>. QED  BY <3>1, <1>i
  <2>. QED  BY <1>0, <1>r, <2>1, <2>2, ResearchCalm DEF Researching
<1>10. CASE CollectorPublish
  <2>1. PICK ok \in BOOLEAN : /\ Publish([run EXCEPT !.last = collector.text], collector.text, FALSE, ok)
                              /\ CollectorEnds(ok)
    BY <1>10 DEF CollectorPublish
  <2>2. /\ UNCHANGED <<task, attempt, due, present>> /\ collector' = Idle /\ (pc' = "fail" \/ pc' = pc)
    BY <1>10, <2>1 DEF CollectorPublish, CollectorEnds
  <2>3. ~run'.withdrawn /\ Len(chat') = 1 /\ run'.msg = 1 /\ run'.edits <= MaxProgress
    <3>. DEFINE r == [run EXCEPT !.last = collector.text]
    <3>1. collector.text \in Labels \cup {"planning"}  BY DEF TypeOK, Collector
    <3>2. Successor(r) /\ collector.text \in Texts  BY <1>s, <3>1 DEF Texts
    <3>3. Publish(r, collector.text, FALSE, ok)  BY <2>1
    <3>. HIDE DEF r
    <3>. QED  BY <1>0, <3>2, <3>3, CalmPublish
  <2>. QED  BY <2>2, <2>3, ResearchCalm
<1>11. ~(WorkerInitFails \/ Crash \/ Withdraw)
  BY CalmFaults DEF WorkerInitFails, Crash, Withdraw
<1>12. ~(WorkerStart \/ Planning \/ Cancel \/ Succeed \/ Answer \/ Attach \/ Undelivered \/ Fail)
  BY <1>p DEF WorkerStart, Planning, Cancel, Succeed, Answer, Attach, Undelivered, Fail
<1>. QED  BY <1>1, <1>2, <1>3, <1>4, <1>5, <1>6, <1>7, <1>8, <1>9, <1>10, <1>11, <1>12
          DEF Next, WorkerStep, CollectorStep

\* The first message, and the steps that end the run.
LEMMA CalmStart ==
    ASSUME TypeOK, EditsCounted, CalmState, Next, Calm', WorkerStart
    PROVE  CalmState' /\ (Ended => Shown)'
<1>1. /\ due /\ attempt \in Nat /\ attempt' = attempt + 1 /\ due' = FALSE /\ run' = NewRun
      /\ UNCHANGED <<chat, collector, present>>
      /\ pc' = IF stored.status \in {"running", "succeeded"} THEN "off" ELSE "planning"
  BY LoopBounds DEF WorkerStart, TypeOK
<1>2. attempt = 0  BY <1>1 DEF CalmState
<1>3. chat = <<>> /\ collector = Idle /\ stored.status = "queued" /\ present  BY <1>2 DEF CalmState
<1>4. attempt' = 1 /\ pc' = "planning"  BY <1>1, <1>2, <1>3
<1>5. ~run'.withdrawn  BY <1>1 DEF NewRun
<1>6. CalmState'  BY <1>1, <1>3, <1>4, <1>5 DEF CalmState
<1>. QED  BY <1>4, <1>6 DEF Ended

LEMMA CalmPlanning ==
    ASSUME TypeOK, EditsCounted, CalmState, Next, Calm', Planning
    PROVE  CalmState' /\ (Ended => Shown)'
<1>1. /\ pc = "planning" /\ UNCHANGED <<attempt, collector, present>>
      /\ task' = [task EXCEPT !.status = "running", !.stage = "planning"]
  BY DEF Planning
<1>2. /\ attempt \in Nat /\ attempt = 1 /\ ~due /\ chat = <<>> /\ collector = Idle /\ present
  BY <1>1, LoopBounds DEF CalmState, TypeOK
<1>3. run.msg = 0 /\ run.edits = 0
  <2>1. Len(chat) = 0  BY <1>2
  <2>. QED  BY <2>1 DEF TypeOK, RunState, EditsCounted
<1>4. PICK ok \in BOOLEAN : /\ Publish(run, "planning", FALSE, ok)
                            /\ IF ~ok THEN Exit(FALSE)
                               ELSE /\ pc' = IF run'.withdrawn THEN "cancel" ELSE "turn"
                                    /\ UNCHANGED due
  BY CalmFaults DEF Planning, PutFails
<1>5. ok /\ ~run'.withdrawn /\ Len(chat') = 1 /\ run'.msg = 1 /\ run'.edits <= MaxProgress
  <2>1. Successor(run) /\ "planning" \in Texts  BY DEF TypeOK, Successor, Texts
  <2>2. run.edits <= MaxProgress  BY <1>3, ProgressLeavesOneEdit
  <2>. QED  BY <1>2, <1>3, <1>4, <2>1, <2>2, CalmPublish
<1>6. pc' = "turn" /\ due' = due  BY <1>4, <1>5
<1>7. task'.status = "running"  BY <1>1 DEF TypeOK, Task
<1>8. CalmState'  BY <1>1, <1>2, <1>5, <1>6, <1>7 DEF CalmState
<1>. QED  BY <1>6, <1>8 DEF Ended

LEMMA CalmEnd ==
    ASSUME TypeOK, EditsCounted, CalmState, Next, Calm',
           pc \in {"success", "answer", "attach", "fail"}
    PROVE  CalmState' /\ (Ended => Shown)'
<1>0. /\ attempt \in Nat /\ attempt # 0 /\ attempt = 1 /\ ~due /\ present /\ ~run.withdrawn /\ collector = Idle
      /\ Len(chat) = 1 /\ run.msg = 1
      /\ run.msg # 0 => Len(chat) = 1 /\ run.msg = 1
      /\ run.msg = 0 => chat = <<>>
      /\ task \in Task
  BY LoopBounds DEF CalmState, TypeOK
<1>n. \A s : Len(s) = 1 => s # <<>>
  BY DEF Seq
<1>s. Successor(run) /\ {"answer", "failure"} \subseteq Texts  BY DEF TypeOK, Successor, Texts
<1>1. CASE Succeed
  <2>1. /\ pc = "success" /\ UNCHANGED <<attempt, due, run, chat, collector, present>>
        /\ stored' = [task EXCEPT !.status = "succeeded", !.stage = "completed"] /\ pc' = "answer"
    BY <1>1, CalmFaults DEF Succeed, Put, PutFails
  <2>2. stored'.status = "succeeded"  BY <1>0, <2>1 DEF Task
  <2>3. run.edits <= MaxProgress  BY <2>1 DEF CalmState
  <2>4. CalmState'  BY <1>0, <2>1, <2>2, <2>3 DEF CalmState
  <2>. QED  BY <2>1, <2>4 DEF Ended
<1>2. CASE Answer
  <2>1. pc = "answer" /\ UNCHANGED <<stored, attempt, collector, present>>  BY <1>2 DEF Answer
  <2>2. run.edits <= MaxProgress /\ stored.status = "succeeded"  BY <2>1 DEF CalmState
  <2>3. PICK ok \in BOOLEAN :
           /\ Publish(run, "answer", TRUE, ok)
           /\ IF ~ok THEN pc' = "fail" /\ UNCHANGED due
              ELSE IF task.file THEN pc' = "attach" /\ UNCHANGED due ELSE Exit(TRUE)
    BY <1>2 DEF Answer
  <2>4. ok /\ ~run'.withdrawn /\ Len(chat') = 1 /\ run'.msg = 1 /\ chat'[1].text = "answer"
    BY <1>0, <1>s, <2>2, <2>3, CalmPublish
  <2>5. (pc' = "attach" \/ pc' = "off") /\ ~due'  BY <1>0, <2>3, <2>4 DEF Exit
  <2>6. CalmState'  BY <1>0, <2>1, <2>2, <2>4, <2>5 DEF CalmState
  <2>7. Shown'  BY <1>n, <2>1, <2>2, <2>4 DEF Shown
  <2>. QED  BY <2>6, <2>7
<1>3. CASE Attach
  <2>1. /\ pc = "attach" /\ UNCHANGED <<stored, task, attempt, run, chat, collector, present>>
        /\ Exit(TRUE)
    BY <1>3, CalmFaults DEF Attach
  <2>2. stored.status = "succeeded" /\ chat[1].text = "answer"  BY <2>1 DEF CalmState
  <2>3. pc' = "off" /\ ~due'  BY <2>1 DEF Exit
  <2>4. CalmState'  BY <1>0, <2>1, <2>2, <2>3 DEF CalmState
  <2>5. Shown'  BY <1>0, <1>n, <2>1, <2>2 DEF Shown
  <2>. QED  BY <2>4, <2>5
<1>4. CASE Fail
  <2>1. /\ pc = "fail" /\ UNCHANGED <<attempt, collector, present>>
        /\ task' = [task EXCEPT !.status = "failed", !.stage = "failed"]
    BY <1>4 DEF Fail, Failed
  <2>2. run.edits <= MaxProgress  BY <2>1 DEF CalmState
  <2>3. PICK ok \in BOOLEAN : stored' = task' /\ Publish(run, "failure", TRUE, ok) /\ Exit(ok)
    BY <1>4, CalmFaults DEF Fail, PutFails
  <2>4. ok /\ ~run'.withdrawn /\ Len(chat') = 1 /\ run'.msg = 1 /\ chat'[1].text = "failure"
    BY <1>0, <1>s, <2>2, <2>3, CalmPublish
  <2>5. pc' = "off" /\ ~due'  BY <2>3, <2>4 DEF Exit
  <2>6. stored'.status = "failed"  BY <1>0, <2>1, <2>3 DEF Task
  <2>7. CalmState'  BY <1>0, <2>1, <2>4, <2>5 DEF CalmState
  <2>8. Shown'  BY <1>n, <2>4, <2>6 DEF Shown
  <2>. QED  BY <2>7, <2>8
<1>5. ~(WorkerInitFails \/ Crash \/ Withdraw)
  BY CalmFaults DEF WorkerInitFails, Crash, Withdraw
<1>6. ~(WorkerStart \/ Planning \/ Cancel \/ GlmRound \/ GlmFinalize \/ GlmProgress \/ GlmTool \/ CodexTurnEnds
        \/ Conclude \/ Promote \/ Undelivered \/ CodexToolCall \/ CollectorEvent \/ CodexTimeout)
  BY DEF WorkerStart, Planning, Cancel, GlmRound, GlmFinalize, GlmProgress, GlmTool, CodexTurnEnds, Conclude, Promote,
         Undelivered, CodexToolCall, CollectorEvent, CodexTimeout
<1>7. ~CollectorPut /\ ~CollectorPublish  BY <1>0 DEF CollectorPut, CollectorPublish, Idle
<1>. QED  BY <1>1, <1>2, <1>3, <1>4, <1>5, <1>6, <1>7 DEF Next, WorkerStep, CollectorStep

LEMMA CalmRunStep ==
    ASSUME TypeOK, EditsCounted, CalmRun, OutcomeShown, Next
    PROVE  CalmRun' /\ OutcomeShown'
<1>. SUFFICES ASSUME Calm' PROVE CalmState' /\ (Ended => Shown)'
  BY DEF CalmRun, CalmState, OutcomeShown, Ended, Shown, Calm
<1>0. CalmState /\ (Ended => Shown)
  BY CalmFaults DEF CalmRun, CalmState, OutcomeShown, Ended, Shown, Calm
<1>1. CASE pc \in Researching \ {"success"}  BY <1>0, <1>1, CalmResearchStep
<1>2. CASE pc \in {"success", "answer", "attach", "fail"}  BY <1>0, <1>2, CalmEnd
<1>3. CASE pc \in {"off", "planning"}
  <2>1. CASE WorkerStart  BY <1>0, <2>1, CalmStart
  <2>2. CASE Planning  BY <1>0, <2>2, CalmPlanning
  <2>3. ~(WorkerInitFails \/ Crash \/ Withdraw)
    BY CalmFaults DEF WorkerInitFails, Crash, Withdraw
  <2>4. ~(Cancel \/ GlmRound \/ GlmFinalize \/ GlmProgress \/ GlmTool \/ CodexTurnEnds \/ Conclude \/ Promote
          \/ Succeed \/ Answer \/ Attach \/ Undelivered \/ Fail \/ CodexToolCall \/ CollectorEvent \/ CodexTimeout)
    BY <1>3 DEF Cancel, GlmRound, GlmFinalize, GlmProgress, GlmTool, CodexTurnEnds, Conclude, Promote, Succeed,
                Answer, Attach, Undelivered, Fail, CodexToolCall, CollectorEvent, CodexTimeout
  <2>5. ~CollectorPut /\ ~CollectorPublish
    <3>1. collector = Idle  BY <1>0, <1>3 DEF CalmState
    <3>. QED  BY <3>1 DEF CollectorPut, CollectorPublish, Idle
  <2>. QED  BY <2>1, <2>2, <2>3, <2>4, <2>5 DEF Next, WorkerStep, CollectorStep
<1>. QED  BY <1>0, <1>1, <1>2, <1>3 DEF TypeOK, Places, CalmState, Researching

-----------------------------------------------------------------------------
(***************************************************************************)
(* The invariant and what follows from it.                                 *)
(***************************************************************************)

LEMMA InitInvariant == Init => IInv
<1>. SUFFICES ASSUME Init PROVE IInv  OBVIOUS
<1>1. TypeOK
  <2>1. stored \in Task /\ task \in Task  BY DEF Init, Task, Statuses, Stages
  <2>2. run \in RunState /\ run.msg = 0 /\ run.edits = 0  BY DEF Init, NewRun, RunState
  <2>3. chat \in Seq(Message) /\ Len(chat) = 0  BY DEF Init
  <2>4. collector \in Collector /\ collector = Idle  BY DEF Init, Idle, Collector
  <2>5. loop \in Loop  BY DEF Init, NewLoop, Loop
  <2>6. Table(datasets) /\ Table(archive)  BY NoTable DEF Init
  <2>7. workspace \in {None} \cup (BOOLEAN \X Nat) /\ (workspace # None => ~workspace[1])
    <3>1. CASE workspace = None  BY <3>1
    <3>2. CASE workspace = <<FALSE, 1>>  BY <3>2
    <3>. QED  BY <3>1, <3>2 DEF Init
  <2>8. runtime \in Runtimes /\ pc = "off" /\ attempt = 0 /\ due = TRUE /\ book = None /\ latest = None
        /\ final = None /\ present = TRUE /\ faults = 0 /\ seen = {}
    BY DEF Init
  <2>9. attempt \in 0..MaxAttempts /\ faults \in 0..MaxFaults  BY <2>8, LoopBounds
  <2>10. run.msg <= Len(chat)  BY <2>2, <2>3
  <2>. QED  BY <2>1, <2>2, <2>3, <2>4, <2>5, <2>6, <2>7, <2>8, <2>9, <2>10 DEF TypeOK, Places
<1>2. EditsCounted  BY DEF Init, EditsCounted, NewRun
<1>3. chat = <<>> /\ DOMAIN chat = {}  BY DEF Init
<1>4. AnswersKept  BY DEF Init, AnswersKept
<1>5. AnswersAreRecorded  BY <1>3 DEF Init, AnswersAreRecorded
<1>6. LastEditIsForTheOutcome  BY <1>3 DEF LastEditIsForTheOutcome
<1>7. WorkbookArchived  BY NoTable DEF Init, WorkbookArchived
<1>8. CalmRun /\ OutcomeShown  BY DEF Init, CalmRun, OutcomeShown, NewRun
<1>. QED  BY <1>1, <1>2, <1>4, <1>5, <1>6, <1>7, <1>8 DEF IInv

LEMMA StepInvariant == IInv /\ [Next]_vars => IInv'
<1>1. ASSUME IInv, Next PROVE IInv'
  BY <1>1, TypeStep, AnswersKeptStep, AnswersAreRecordedStep, LastEditStep, WorkbookArchivedStep, CalmRunStep DEF IInv
<1>2. ASSUME IInv, UNCHANGED vars PROVE IInv'
  <2>. USE <1>2 DEF vars, toolVars
  <2>1. TypeOK'  BY DEF IInv, TypeOK, Table
  <2>2. EditsCounted' /\ AnswersKept' /\ AnswersAreRecorded'
    BY DEF IInv, EditsCounted, AnswersKept, AnswersAreRecorded
  <2>3. LastEditIsForTheOutcome' /\ WorkbookArchived'  BY DEF IInv, LastEditIsForTheOutcome, WorkbookArchived
  <2>4. CalmRun' /\ OutcomeShown'  BY DEF IInv, CalmRun, Calm, OutcomeShown
  <2>. QED  BY <2>1, <2>2, <2>3, <2>4 DEF IInv
<1>. QED  BY <1>1, <1>2

\* The inductive invariant holds in every reachable state.
THEOREM Invariant == Spec => []IInv
BY InitInvariant, StepInvariant, PTL DEF Spec

\* Every variable keeps its type.
THEOREM TypeCorrect == Spec => []TypeOK
<1>1. IInv => TypeOK  BY DEF IInv
<1>. QED  BY <1>1, Invariant, PTL

\* The chat never announces an answer that the task record does not hold.
THEOREM RecordBeforeChat == Spec => []AnswersAreRecorded
<1>1. IInv => AnswersAreRecorded  BY DEF IInv
<1>. QED  BY <1>1, Invariant, PTL

\* A run without store, chat and platform faults ends with a message that tells its recorded outcome.
THEOREM CalmRunsShowTheirOutcome == Spec => []OutcomeShown
<1>1. IInv => OutcomeShown  BY DEF IInv
<1>. QED  BY <1>1, Invariant, PTL

\* Progress never uses up the last edit of a message.
THEOREM ProgressLeavesTheOutcome == Spec => []LastEditIsForTheOutcome
<1>1. IInv => LastEditIsForTheOutcome  BY DEF IInv
<1>. QED  BY <1>1, Invariant, PTL

\* The session continues from the exported workbook.
THEOREM SessionHasTheWorkbook == Spec => []WorkspaceShowsTheWorkbook
<1>1. IInv => WorkspaceShowsTheWorkbook
  <2>. SUFFICES ASSUME IInv, pc = "answer", book # None, "archive" \notin seen, ~loop.reused
                PROVE  workspace # None /\ workspace[1] /\ archive[workspace[2]] = book
    BY DEF WorkspaceShowsTheWorkbook
  <2>1. workspace = <<TRUE, final>> /\ final # None /\ archive[final] = book  BY DEF IInv, WorkbookArchived
  <2>2. final \in Nat  BY <2>1 DEF IInv, TypeOK
  <2>3. workspace \in BOOLEAN \X Nat  BY <2>1, <2>2
  <2>. QED  BY <2>1, <2>3, NoneIsNew
<1>. QED  BY <1>1, Invariant, PTL

=============================================================================
