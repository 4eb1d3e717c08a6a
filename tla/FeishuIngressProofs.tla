------------------------- MODULE FeishuIngressProofs -------------------------
(***************************************************************************)
(* What FeishuIngress promises, proved for any events, handlers and        *)
(* bounds: leases are exclusive, questions are dispatched once and not     *)
(* lost, pointers resolve, and conversations hold their own exchanges.     *)
(***************************************************************************)
EXTENDS FeishuIngress, FiniteSetTheorems, SequenceTheorems, TLAPS

-----------------------------------------------------------------------------
(***************************************************************************)
(* Conversations as bounded sequences.                                     *)
(***************************************************************************)

\* A bounded conversation is a sequence of events of at most MaxTurns.
LEMMA TurnsAreSequences ==
    \A s : s \in Turns <=> s \in Seq(Events) /\ Len(s) <= MaxTurns
<1>1. ASSUME NEW s, s \in Turns PROVE s \in Seq(Events) /\ Len(s) <= MaxTurns
  <2>1. PICK m \in 0..MaxTurns : s \in [1..m -> Events]  BY <1>1 DEF Turns, SeqOf
  <2>. QED  BY <2>1, BoundsAreNaturals
<1>2. ASSUME NEW s, s \in Seq(Events), Len(s) <= MaxTurns PROVE s \in Turns
  <2>1. Len(s) \in 0..MaxTurns /\ s \in [1..Len(s) -> Events]  BY <1>2, BoundsAreNaturals
  <2>. QED  BY <2>1 DEF Turns, SeqOf
<1>. QED  BY <1>1, <1>2

LEMMA NoTurns == <<>> \in Turns
<1>. SUFFICES ASSUME NEW s, s = <<>> PROVE s \in Turns  OBVIOUS
<1>1. s \in Seq(Events) /\ Len(s) = 0  OBVIOUS
<1>2. Len(s) <= MaxTurns  BY <1>1, BoundsAreNaturals
<1>. HIDE DEF Turns
<1>. QED  BY <1>1, <1>2, TurnsAreSequences

\* What AppendBounded stores: the new exchange behind the old ones, without the first of them
\* if the conversation was full.
LEMMA AppendBoundedShape ==
    ASSUME NEW s \in Turns, NEW e \in Events
    PROVE  LET u == AppendBounded(s, e)
           IN  /\ u \in Turns
               /\ \E k \in {0, 1} :
                     /\ Len(u) + k = Len(s) + 1
                     /\ u[Len(u)] = e
                     /\ \A i \in 1..(Len(u) - 1) : i + k \in 1..Len(s) /\ u[i] = s[i + k]
                     /\ Len(s) = MaxTurns <=> k = 1
<1>. DEFINE t == Append(s, e)
            u == AppendBounded(s, e)
            kept == IF Len(t) > MaxTurns THEN MaxTurns ELSE Len(t)
<1>1. s \in Seq(Events) /\ Len(s) <= MaxTurns /\ Len(s) \in Nat /\ MaxTurns \in Nat \ {0}
  BY TurnsAreSequences, BoundsAreNaturals
<1>2. /\ t \in Seq(Events) /\ Len(t) = Len(s) + 1 /\ t[Len(s) + 1] = e
      /\ \A i \in 1..Len(s) : t[i] = s[i]
  BY <1>1
<1>3. u = SubSeq(t, Len(t) - kept + 1, Len(t))  BY DEF AppendBounded
<1>. HIDE DEF t, u
<1>4. CASE Len(s) < MaxTurns
  <2>1. Len(t) - kept + 1 = 1  BY <1>1, <1>2, <1>4
  <2>2. u = SubSeq(t, 1, Len(t))  BY <1>3, <2>1
  <2>3. u \in Seq(Events) /\ Len(u) = Len(s) + 1 /\ \A i \in 1..Len(t) : u[i] = t[i]  BY <2>2, <1>1, <1>2
  <2>4. u \in Turns  BY <2>3, <1>1, <1>4, TurnsAreSequences
  <2>5. \A i \in 1..(Len(u) - 1) : i + 0 \in 1..Len(s) /\ u[i] = s[i + 0]  BY <2>3, <1>1, <1>2
  <2>6. Len(u) + 0 = Len(s) + 1 /\ u[Len(u)] = e  BY <2>3, <1>1, <1>2
  <2>. QED  BY <2>4, <2>5, <2>6, <1>1, <1>4 DEF u
<1>5. CASE Len(s) = MaxTurns
  <2>1. Len(t) - kept + 1 = 2 /\ Len(t) = MaxTurns + 1  BY <1>1, <1>2, <1>5
  <2>2. u = SubSeq(t, 2, MaxTurns + 1)  BY <1>3, <2>1
  <2>3. u \in Seq(Events) /\ Len(u) = MaxTurns /\ \A i \in 1..MaxTurns : u[i] = t[i + 1]  BY <2>2, <1>1, <1>2, <1>5
  <2>4. u \in Turns  BY <2>3, <1>1, TurnsAreSequences
  <2>5. \A i \in 1..(Len(u) - 1) : i + 1 \in 1..Len(s) /\ u[i] = s[i + 1]  BY <2>3, <1>1, <1>2, <1>5
  <2>6. Len(u) + 1 = Len(s) + 1 /\ u[Len(u)] = e  BY <2>3, <1>1, <1>2, <1>5
  <2>. QED  BY <2>4, <2>5, <2>6, <1>5 DEF u
<1>. QED  BY <1>1, <1>4, <1>5 DEF u

\* How often an exchange occurs, in terms of its positions.
LEMMA TimesByPosition ==
    ASSUME NEW s \in Turns, NEW e
    PROVE  /\ Times(e, s) = 0 <=> \A i \in 1..Len(s) : s[i] # e
           /\ Times(e, s) = 1 <=> \E i \in 1..Len(s) : s[i] = e /\ \A j \in 1..Len(s) : s[j] = e => j = i
           /\ Times(e, s) > 0 <=> \E i \in 1..Len(s) : s[i] = e
<1>. DEFINE places == {i \in DOMAIN s : s[i] = e}
<1>1. s \in Seq(Events) /\ DOMAIN s = 1..Len(s) /\ Len(s) \in Nat  BY TurnsAreSequences
<1>2. IsFiniteSet(places) /\ Cardinality(places) \in Nat
  <2>1. IsFiniteSet(1..Len(s))  BY <1>1, FS_Interval
  <2>2. places \in SUBSET (1..Len(s))  BY <1>1
  <2>. QED  BY <2>1, <2>2, FS_Subset, FS_CardinalityType
<1>3. Times(e, s) = Cardinality(places)  BY DEF Times
<1>4. Times(e, s) = 0 <=> places = {}  BY <1>2, <1>3, FS_EmptySet
<1>5. Times(e, s) = 1 <=> \E i : places = {i}  BY <1>2, <1>3, FS_Singleton
<1>6. (\E i : places = {i}) <=> \E i \in 1..Len(s) : s[i] = e /\ \A j \in 1..Len(s) : s[j] = e => j = i
  <2>1. ASSUME NEW i, places = {i}
        PROVE  i \in 1..Len(s) /\ s[i] = e /\ \A j \in 1..Len(s) : s[j] = e => j = i
    BY <1>1, <2>1
  <2>2. ASSUME NEW i \in 1..Len(s), s[i] = e, \A j \in 1..Len(s) : s[j] = e => j = i
        PROVE  places = {i}
    BY <1>1, <2>2
  <2>. HIDE DEF places
  <2>. QED  BY <2>1, <2>2
<1>. HIDE DEF places
<1>7. Times(e, s) > 0 <=> Times(e, s) # 0  BY <1>2, <1>3
<1>. QED  BY <1>1, <1>4, <1>5, <1>6, <1>7 DEF places

\* Recording an exchange that a conversation does not hold adds it once; the others stay as
\* often as they were, unless the conversation is full and forgets one.
LEMMA AppendedTimes ==
    ASSUME NEW s \in Turns, NEW e \in Events, NEW x \in Events
    PROVE  LET u == AppendBounded(s, e)
           IN  /\ u \in Turns
               /\ \A i \in DOMAIN u : u[i] = e \/ \E j \in DOMAIN s : u[i] = s[j]
               /\ x = e /\ Times(x, s) = 0 => Times(x, u) = 1
               /\ x # e /\ Times(x, s) = 0 => Times(x, u) = 0
               /\ x # e /\ Times(x, s) = 1 => Times(x, u) = 1 \/ (Times(x, u) = 0 /\ Len(u) = MaxTurns)
               /\ Len(s) = MaxTurns => Len(u) = MaxTurns
<1>. DEFINE u == AppendBounded(s, e)
<1>1. s \in Seq(Events) /\ Len(s) <= MaxTurns /\ Len(s) \in Nat /\ MaxTurns \in Nat /\ MaxTurns > 0 /\ DOMAIN s = 1..Len(s)
  BY TurnsAreSequences, BoundsAreNaturals
<1>2. u \in Turns  BY AppendBoundedShape
<1>3. PICK k \in {0, 1} :
         /\ Len(u) + k = Len(s) + 1
         /\ u[Len(u)] = e
         /\ \A i \in 1..(Len(u) - 1) : i + k \in 1..Len(s) /\ u[i] = s[i + k]
         /\ Len(s) = MaxTurns <=> k = 1
  BY AppendBoundedShape
<1>. HIDE DEF u
<1>4. u \in Seq(Events) /\ DOMAIN u = 1..Len(u) /\ Len(u) \in Nat /\ Len(u) > 0
  <2>1. u \in Seq(Events)  BY <1>2, TurnsAreSequences
  <2>2. DOMAIN u = 1..Len(u) /\ Len(u) \in Nat  BY <2>1
  <2>3. Len(u) + k = Len(s) + 1 /\ (Len(s) = MaxTurns <=> k = 1) /\ k \in {0, 1}  BY <1>3
  <2>4. \A a, b, m \in Nat : a + k = b + 1 /\ (b = m <=> k = 1) /\ m > 0 => a # 0  OBVIOUS
  <2>5. Len(u) # 0  BY <2>2, <2>3, <2>4, <1>1
  <2>. QED  BY <2>1, <2>2, <2>5
<1>5. \A i \in 1..Len(u) : i = Len(u) \/ i \in 1..(Len(u) - 1)
  <2>1. \A n \in Nat : \A i \in 1..n : i = n \/ i \in 1..(n - 1)  OBVIOUS
  <2>. QED  BY <2>1, <1>4
<1>6. \A i \in 1..Len(u) : u[i] = e \/ \E j \in 1..Len(s) : u[i] = s[j]
  <2>. TAKE i \in 1..Len(u)
  <2>1. CASE i = Len(u)  BY <2>1, <1>3
  <2>2. CASE i \in 1..(Len(u) - 1)  BY <2>2, <1>3
  <2>. QED  BY <2>1, <2>2, <1>5
<1>7. ASSUME x = e, Times(x, s) = 0 PROVE Times(x, u) = 1
  <2>1. \A j \in 1..Len(s) : s[j] # e  BY <1>7, TimesByPosition
  <2>2. \A j \in 1..Len(u) : u[j] = e => j = Len(u)  BY <2>1, <1>3, <1>5
  <2>3. Len(u) \in 1..Len(u)  BY <1>4
  <2>. QED  BY <2>2, <2>3, <1>2, <1>3, <1>7, TimesByPosition
<1>8. ASSUME x # e, Times(x, s) = 0 PROVE Times(x, u) = 0
  <2>1. \A j \in 1..Len(s) : s[j] # x  BY <1>8, TimesByPosition
  <2>2. \A i \in 1..Len(u) : u[i] # x  BY <2>1, <1>6, <1>8
  <2>. QED  BY <2>2, <1>2, TimesByPosition
<1>9. ASSUME x # e, Times(x, s) = 1 PROVE Times(x, u) = 1 \/ (Times(x, u) = 0 /\ Len(u) = MaxTurns)
  <2>1. PICK i \in 1..Len(s) : s[i] = x /\ \A j \in 1..Len(s) : s[j] = x => j = i  BY <1>9, TimesByPosition
  <2>2. \A j \in 1..Len(u) : u[j] = x => j \in 1..(Len(u) - 1) /\ j + k = i
    <3>. SUFFICES ASSUME NEW j \in 1..Len(u), u[j] = x PROVE j \in 1..(Len(u) - 1) /\ j + k = i  OBVIOUS
    <3>1. j # Len(u)  BY <1>3, <1>9
    <3>2. j \in 1..(Len(u) - 1)  BY <3>1, <1>5
    <3>3. j + k \in 1..Len(s) /\ s[j + k] = x  BY <3>2, <1>3
    <3>. QED  BY <3>2, <3>3, <2>1
  <2>3. CASE i > k
    <3>. DEFINE j == i - k
    <3>1. j \in 1..(Len(u) - 1) /\ j + k = i
      <4>1. i \in Nat /\ k \in Nat /\ i <= Len(s) /\ Len(u) + k = Len(s) + 1 /\ Len(u) \in Nat
        <5>1. Len(u) + k = Len(s) + 1  BY <1>3
        <5>. QED  BY <5>1, <1>1, <1>4
      <4>. QED  BY <4>1, <2>3
    <3>2. j \in 1..Len(u)  BY <3>1, <1>4
    <3>3. u[j] = x  BY <3>1, <1>3, <2>1
    <3>4. \A l \in 1..Len(u) : u[l] = x => l = j
      <4>. SUFFICES ASSUME NEW l \in 1..Len(u), u[l] = x PROVE l = j  OBVIOUS
      <4>1. l \in Int /\ i \in Int /\ k \in Int  BY <1>1, <1>4
      <4>2. l + k = i  BY <2>2
      <4>. QED  BY <4>1, <4>2
    <3>. HIDE DEF j
    <3>. QED  BY <3>2, <3>3, <3>4, <1>2, TimesByPosition
  <2>4. CASE ~(i > k)
    <3>1. k = 1 /\ i = 1  BY <2>4, <1>1
    <3>2. \A j \in 1..Len(u) : u[j] # x  BY <3>1, <2>2, <1>4
    <3>3. Len(u) = MaxTurns  BY <3>1, <1>1, <1>3
    <3>. QED  BY <3>2, <3>3, <1>2, TimesByPosition
  <2>. QED  BY <2>3, <2>4
<1>10. Len(s) = MaxTurns => Len(u) = MaxTurns  BY <1>1, <1>3
<1>. QED  BY <1>1, <1>2, <1>4, <1>6, <1>7, <1>8, <1>9, <1>10 DEF u

-----------------------------------------------------------------------------
(***************************************************************************)
(* Types.                                                                  *)
(***************************************************************************)

LEMMA SessionsAreEvents ==
    /\ None \notin Sessions /\ Default \in Sessions
    /\ \A e \in Events : KindOf[e] \in {"session", "session_ask"} => e \in Sessions
BY NoneIsNew DEF Sessions

LEMMA IdleTypes ==
    /\ IdleHandler \in HandlerState /\ Coherent(IdleHandler)
    /\ Done \in HandlerState /\ Coherent(Done) /\ Done.pc = "done"
<1>1. NoRequest \in Request  BY NoTurns, SessionsAreEvents DEF NoRequest, Request
<1>2. IdleHandler \in HandlerState  BY <1>1, NoTurns, SessionsAreEvents DEF IdleHandler, HandlerState
<1>3. Done \in HandlerState /\ Done.pc = "done"  BY <1>2 DEF Done, HandlerState
<1>4. IdleHandler.view = [known |-> {Default}, active |-> Default] /\ Done.view = IdleHandler.view
      /\ IdleHandler.pc = "idle"
  BY DEF IdleHandler, Done
<1>. QED  BY <1>2, <1>3, <1>4 DEF Coherent, Recording

\* The start has the right types.
LEMMA InitTypes ==
    ASSUME NEW old \in SUBSET Events, NEW used \in 0..MaxCuts, NEW asked \in Events \cup {None},
           InitWith(old, used, asked)
    PROVE  TypeOK /\ HandlersCoherent
<1>0. NoRequest \in Request  BY NoTurns, SessionsAreEvents DEF NoRequest, Request
<1>1. claim \in [Events -> ClaimState]  BY DEF InitWith, ClaimState
<1>2. task \in [Events -> TaskState]
  <2>1. ASSUME NEW e \in Events PROVE [NoRequest EXCEPT !.answers = e] \in Request  BY <1>0 DEF Request
  <2>. QED  BY <1>0, <2>1 DEF InitWith, TaskState
<1>3. session \in [known : SUBSET Sessions, active : Sessions] /\ session.active \in session.known
  BY SessionsAreEvents DEF InitWith
<1>4. record \in [Events -> [conv : Sessions \cup {None}, recorded : BOOLEAN]]
  BY SessionsAreEvents DEF InitWith
<1>5. latest \in [Sessions -> Events \cup {None}] /\ eventTask \subseteq Events
  BY DEF InitWith
<1>6. turns \in [Sessions -> Turns]  BY NoTurns DEF InitWith
<1>7. handler \in [Handlers -> HandlerState] /\ HandlersCoherent
  BY IdleTypes DEF InitWith, HandlersCoherent
<1>8. job \in [Events -> {"none", "waiting", "working", "over"}] /\ dispatches \in [Events -> 0..2]
  BY DEF InitWith
<1>9. acked \subseteq Events /\ cuts \in 0..MaxCuts /\ crashed \subseteq Events /\ stolen \subseteq Events
      /\ torn \subseteq Sessions
  BY DEF InitWith
<1>. QED  BY <1>1, <1>2, <1>3, <1>4, <1>5, <1>6, <1>7, <1>8, <1>9 DEF TypeOK

\* What a handler is before its step.
LEMMA HandlerBefore ==
    ASSUME TypeOK, HandlersCoherent, NEW h \in Handlers
    PROVE  /\ handler[h] \in HandlerState /\ Coherent(handler[h])
           /\ handler[h].pc \in Holding \cup {"idle", "claiming", "taking", "done"}
           /\ handler[h].event \in Events \cup {None} /\ handler[h].gen \in Nat
           /\ handler[h].request \in Request /\ handler[h].recording \in Events \cup {None}
           /\ handler[h].copy \in Turns
           /\ handler[h].view.known \in SUBSET Sessions /\ handler[h].view.active \in Sessions
           /\ handler[h].request.conv \in Sessions
<1>1. handler[h] \in HandlerState /\ Coherent(handler[h])  BY DEF TypeOK, HandlersCoherent
<1>. QED  BY <1>1 DEF HandlerState, Request

\* A handler moves, and only it does.
LEMMA OtherHandlers ==
    ASSUME TypeOK, NEW h \in Handlers, HandlerStep(h), NEW g \in Handlers, g # h
    PROVE  handler'[g] = handler[g]
<1>0. handler \in [Handlers -> HandlerState]  BY DEF TypeOK
<1>1. CASE \E e \in Events : Deliver(h, e)  BY <1>0, <1>1 DEF Deliver
<1>2. CASE ClaimEvent(h)  BY <1>0, <1>2 DEF ClaimEvent
<1>3. CASE TakeLease(h)  BY <1>0, <1>3 DEF TakeLease
<1>4. CASE Begin(h)  BY <1>0, <1>4 DEF Begin
<1>5. CASE NameSession(h)  BY <1>0, <1>5 DEF NameSession
<1>6. CASE LookUp(h)  BY <1>0, <1>6 DEF LookUp
<1>7. CASE Note(h)  BY <1>0, <1>7 DEF Note
<1>8. CASE AppendTurn(h)  BY <1>0, <1>8 DEF AppendTurn
<1>9. CASE MarkRecorded(h)  BY <1>0, <1>9 DEF MarkRecorded, MarkedGoto
<1>10. CASE Compose(h)  BY <1>0, <1>10 DEF Compose
<1>11. CASE Submit(h)  BY <1>0, <1>11 DEF Submit, Goto, Leave
<1>12. CASE Dispatch(h)  BY <1>0, <1>12 DEF Dispatch, Goto
<1>13. CASE DispatchFail(h)  BY <1>0, <1>13 DEF DispatchFail, Leave
<1>14. CASE LinkTask(h)  BY <1>0, <1>14 DEF LinkTask, Goto
<1>15. CASE Complete(h)  BY <1>0, <1>15 DEF Complete, Leave
<1>16. CASE Raise(h)  BY <1>0, <1>16 DEF Raise, Leave
<1>17. CASE Crash(h)  BY <1>0, <1>17 DEF Crash, Leave
<1>. QED  BY <1>1, <1>2, <1>3, <1>4, <1>5, <1>6, <1>7, <1>8, <1>9, <1>10, <1>11, <1>12, <1>13,
             <1>14, <1>15, <1>16, <1>17 DEF HandlerStep

\* Each variable has the few actions that change it.
LEMMA Frames ==
    ASSUME NEW h \in Handlers, HandlerStep(h)
    PROVE  /\ (\E e \in Events : Deliver(h, e)) \/ UNCHANGED acked
           /\ ClaimEvent(h) \/ TakeLease(h) \/ Complete(h) \/ UNCHANGED claim
           /\ NameSession(h) \/ UNCHANGED session
           /\ Submit(h) \/ DispatchFail(h) \/ UNCHANGED task
           /\ AppendTurn(h) \/ UNCHANGED turns
           /\ Dispatch(h) \/ UNCHANGED <<job, dispatches>>
           /\ Raise(h) \/ Crash(h) \/ UNCHANGED cuts
           /\ Crash(h) \/ UNCHANGED crashed
           /\ TakeLease(h) \/ UNCHANGED stolen
           /\ MarkRecorded(h) \/ LinkTask(h) \/ Raise(h) \/ Crash(h) \/ UNCHANGED <<record, latest, eventTask>>
           /\ LookUp(h) \/ LinkTask(h) \/ Raise(h) \/ Crash(h) \/ UNCHANGED torn
<1>1. CASE \E e \in Events : Deliver(h, e)  BY <1>1 DEF Deliver, store, history
<1>2. CASE ClaimEvent(h)  BY <1>2 DEF ClaimEvent, history
<1>3. CASE TakeLease(h)  BY <1>3 DEF TakeLease, work
<1>4. CASE Begin(h)  BY <1>4 DEF Begin, store, history
<1>5. CASE NameSession(h)  BY <1>5 DEF NameSession, history
<1>6. CASE LookUp(h)  BY <1>6 DEF LookUp, store, work
<1>7. CASE Note(h)  BY <1>7 DEF Note, store, history
<1>8. CASE AppendTurn(h)  BY <1>8 DEF AppendTurn, history
<1>9. CASE MarkRecorded(h)  BY <1>9 DEF MarkRecorded, history
<1>10. CASE Compose(h)  BY <1>10 DEF Compose, store, history
<1>11. CASE Submit(h)  BY <1>11 DEF Submit, history
<1>12. CASE Dispatch(h)  BY <1>12 DEF Dispatch, store
<1>13. CASE DispatchFail(h)  BY <1>13 DEF DispatchFail, history
<1>14. CASE LinkTask(h)  BY <1>14 DEF LinkTask, work
<1>15. CASE Complete(h)  BY <1>15 DEF Complete, history
<1>16. CASE Raise(h)  BY <1>16 DEF Raise, Cut, work
<1>17. CASE Crash(h)  BY <1>17 DEF Crash, Cut, work
<1>. QED  BY <1>1, <1>2, <1>3, <1>4, <1>5, <1>6, <1>7, <1>8, <1>9, <1>10, <1>11, <1>12, <1>13,
             <1>14, <1>15, <1>16, <1>17 DEF HandlerStep

\* The step leaves the handler in a state of its type that fits its place.
LEMMA HandlerAfter ==
    ASSUME TypeOK, HandlersCoherent, RecordsAgree, NEW h \in Handlers, HandlerStep(h)
    PROVE  handler'[h] \in HandlerState /\ Coherent(handler'[h]) /\ handler' \in [Handlers -> HandlerState]
<1>0. handler \in [Handlers -> HandlerState]  BY DEF TypeOK
<1>. DEFINE st == handler[h]
            e == st.event
<1>a. /\ st \in HandlerState /\ Coherent(st)
      /\ e \in Events \cup {None} /\ st.request \in Request
  BY HandlerBefore
<1>b. SUFFICES handler'[h] \in HandlerState /\ Coherent(handler'[h])
  <2>1. handler' \in [Handlers -> HandlerState]
    <3>1. DOMAIN handler' = Handlers /\ handler' = [g \in Handlers |-> handler'[g]]
      BY <1>0 DEF HandlerStep, Deliver, ClaimEvent, TakeLease, Begin, NameSession, LookUp, Note, AppendTurn,
              MarkRecorded, MarkedGoto, Compose, Submit, Dispatch, DispatchFail, LinkTask, Complete, Raise,
              Crash, Goto, Leave
    <3>2. \A g \in Handlers : handler'[g] \in HandlerState  BY <1>0, <1>b, OtherHandlers
    <3>. QED  BY <3>1, <3>2
  <2>. QED  BY <2>1, <1>b
<1>1. CASE \E d \in Events : Deliver(h, d)
  <2>1. PICK d \in Events : Deliver(h, d)  BY <1>1
  <2>2. handler'[h] = [IdleHandler EXCEPT !.pc = "claiming", !.event = d]  BY <2>1, <1>0 DEF Deliver
  <2>. QED  BY <2>2, IdleTypes DEF HandlerState, Coherent, Recording
<1>2. CASE ClaimEvent(h)
  <2>1. e \in Events /\ claim[e].gen \in Nat
    BY <1>2, <1>a DEF ClaimEvent, At, Coherent, TypeOK, ClaimState
  <2>2. \/ handler'[h] = [st EXCEPT !.gen = 1, !.pc = "begin"]
        \/ handler'[h] = [st EXCEPT !.gen = claim[e].gen, !.pc = "taking"]
        \/ handler'[h] = Done
    BY <1>2, <1>0 DEF ClaimEvent
  <2>3. [st EXCEPT !.gen = 1, !.pc = "begin"] \in HandlerState /\ Coherent([st EXCEPT !.gen = 1, !.pc = "begin"])
    BY <1>a, <2>1 DEF HandlerState, Coherent, Holding, Recording
  <2>4. /\ [st EXCEPT !.gen = claim[e].gen, !.pc = "taking"] \in HandlerState
        /\ Coherent([st EXCEPT !.gen = claim[e].gen, !.pc = "taking"])
    BY <1>a, <2>1 DEF HandlerState, Coherent, Holding, Recording
  <2>. QED  BY <2>2, <2>3, <2>4, IdleTypes
<1>3. CASE TakeLease(h)
  <2>1. e \in Events /\ claim[e].gen + 1 \in Nat
    BY <1>3, <1>a DEF TakeLease, At, Coherent, TypeOK, ClaimState
  <2>2. handler'[h] = [st EXCEPT !.gen = claim[e].gen + 1, !.pc = "begin"] \/ handler'[h] = Done
    BY <1>3, <1>0 DEF TakeLease
  <2>3. /\ [st EXCEPT !.gen = claim[e].gen + 1, !.pc = "begin"] \in HandlerState
        /\ Coherent([st EXCEPT !.gen = claim[e].gen + 1, !.pc = "begin"])
    BY <1>a, <2>1 DEF HandlerState, Coherent, Holding, Recording
  <2>. QED  BY <2>2, <2>3, IdleTypes
<1>4. CASE Begin(h)
  <2>1. e \in Events /\ session \in [known : SUBSET Sessions, active : Sessions] /\ session.active \in session.known
    BY <1>4, <1>a DEF Begin, At, Coherent, TypeOK
  <2>2. \/ /\ KindOf[e] \in SessionKinds
           /\ handler'[h] = [st EXCEPT !.pc = "naming", !.view = session]
        \/ \E p \in {"completing", "asking"} : handler'[h] = [st EXCEPT !.pc = p, !.view = st.view]
    <3>1. CASE KindOf[e] \in SessionKinds  BY <3>1, <1>4, <1>0 DEF Begin, SessionKinds
    <3>2. CASE KindOf[e] \notin SessionKinds  BY <3>2, <1>4, <1>0 DEF Begin
    <3>. QED  BY <3>1, <3>2
  <2>3. ASSUME KindOf[e] \in SessionKinds, handler'[h] = [st EXCEPT !.pc = "naming", !.view = session]
        PROVE  handler'[h] \in HandlerState /\ Coherent(handler'[h])
    BY <1>a, <2>1, <2>3 DEF HandlerState, Coherent, Holding, Recording
  <2>4. ASSUME NEW p \in {"completing", "asking"}, handler'[h] = [st EXCEPT !.pc = p, !.view = st.view]
        PROVE  handler'[h] \in HandlerState /\ Coherent(handler'[h])
    BY <1>a, <2>1, <2>4 DEF HandlerState, Coherent, Holding, Recording
  <2>. QED  BY <2>2, <2>3, <2>4
<1>5. CASE NameSession(h)
  <2>1. e \in Events  BY <1>5, <1>a DEF NameSession, At, Coherent
  <2>2. PICK p \in {"completing", "asking"} : handler'[h] = [st EXCEPT !.pc = p, !.view = IdleHandler.view]
    BY <1>5, <1>0 DEF NameSession
  <2>3. /\ IdleHandler.view \in [known : SUBSET Sessions, active : Sessions]
        /\ IdleHandler.view.active \in IdleHandler.view.known
    BY IdleTypes DEF HandlerState, Coherent
  <2>. QED  BY <1>a, <2>1, <2>2, <2>3 DEF HandlerState, Coherent, Holding, Recording
<1>6. CASE LookUp(h)
  <2>1. e \in Events /\ session.active \in Sessions  BY <1>6, <1>a DEF LookUp, At, Coherent, TypeOK
  <2>2. \E subject \in Events \cup {None}, q \in Request, r \in Events \cup {None}, p \in Holding :
           /\ handler'[h] = [st EXCEPT !.request = q, !.recording = r, !.pc = p]
           /\ p \notin {"naming"} /\ (p \in Recording => r \in Events)
    <3>1. PICK subject \in Subject(e, session.active) \cup {None} :
            LET conv == session.active
                asks == KindOf[e] \in {"ask", "session_ask"}
                found == subject # None
                records == /\ found /\ KindOf[e] # "retry"
                           /\ task[subject].status = "succeeded" /\ ~record[subject].recorded
            IN  handler' = [handler EXCEPT
                           ![h].request = CASE asks -> [conv |-> conv, context |-> <<>>, answers |-> e]
                                         [] found /\ KindOf[e] = "retry" ->
                                               [task[subject].request EXCEPT !.answers = e]
                                         [] OTHER -> NoRequest,
                           ![h].recording = IF records THEN subject ELSE None,
                           ![h].pc = CASE records -> "noting"
                                    [] ~records /\ asks -> "composing"
                                    [] found /\ KindOf[e] = "retry" /\ task[subject].status = "failed"
                                         -> "submitting"
                                    [] OTHER -> "completing"]
      BY <1>6 DEF LookUp
    <3>. DEFINE conv == session.active
                asks == KindOf[e] \in {"ask", "session_ask"}
                found == subject # None
                records == /\ found /\ KindOf[e] # "retry"
                           /\ task[subject].status = "succeeded" /\ ~record[subject].recorded
                q == CASE asks -> [conv |-> conv, context |-> <<>>, answers |-> e]
                       [] found /\ KindOf[e] = "retry" -> [task[subject].request EXCEPT !.answers = e]
                       [] OTHER -> NoRequest
                r == IF records THEN subject ELSE None
                p == CASE records -> "noting"
                       [] ~records /\ asks -> "composing"
                       [] found /\ KindOf[e] = "retry" /\ task[subject].status = "failed" -> "submitting"
                       [] OTHER -> "completing"
    <3>2. subject \in Events \cup {None}  BY <3>1 DEF Subject
    <3>3. subject \in Events => task[subject].request \in Request  BY DEF TypeOK, TaskState
    <3>4. q \in Request
      <4>1. [conv |-> conv, context |-> <<>>, answers |-> e] \in Request  BY <2>1, NoTurns DEF Request
      <4>2. found => [task[subject].request EXCEPT !.answers = e] \in Request  BY <3>2, <3>3, <2>1 DEF Request
      <4>3. NoRequest \in Request  BY NoTurns, SessionsAreEvents DEF NoRequest, Request
      <4>. QED  BY <4>1, <4>2, <4>3
    <3>5. p \in {"noting", "composing", "submitting", "completing"} /\ (p \in Recording => records)
      BY DEF Recording
    <3>6. r \in Events \cup {None} /\ (records => r \in Events)  BY <3>2
    <3>7. handler' = [handler EXCEPT ![h].request = q, ![h].recording = r, ![h].pc = p]  BY <3>1
    <3>. HIDE DEF q, r, p
    <3>8. handler'[h] = [st EXCEPT !.request = q, !.recording = r, !.pc = p]  BY <3>7, <1>0
    <3>. QED  BY <3>2, <3>4, <3>5, <3>6, <3>8 DEF Holding
  <2>3. PICK q \in Request, r \in Events \cup {None}, p \in Holding :
           /\ handler'[h] = [st EXCEPT !.request = q, !.recording = r, !.pc = p]
           /\ p \notin {"naming"} /\ (p \in Recording => r \in Events)
    BY <2>2
  <2>4. handler'[h] \in HandlerState  BY <1>a, <2>3 DEF HandlerState
  <2>5. /\ handler'[h].pc = p /\ handler'[h].event = e /\ handler'[h].recording = r
        /\ handler'[h].view = st.view
    BY <1>a, <2>3 DEF HandlerState
  <2>6. st.view.active \in st.view.known  BY <1>a DEF Coherent
  <2>. QED  BY <2>1, <2>3, <2>4, <2>5, <2>6 DEF Coherent
<1>7. CASE Note(h)
  <2>1. e \in Events /\ st.recording \in Events  BY <1>7, <1>a DEF Note, At, Coherent, Recording
  <2>2. record[st.recording].conv \in Sessions
    BY <2>1, <1>7 DEF TypeOK, RecordsAgree, Note, At, Recording
  <2>3. turns[record[st.recording].conv] \in Turns  BY <2>2 DEF TypeOK
  <2>4. handler'[h] = [st EXCEPT !.pc = "appending", !.copy = turns[record[st.recording].conv]]
    BY <1>7, <1>0 DEF Note
  <2>. QED  BY <1>a, <2>1, <2>3, <2>4 DEF HandlerState, Coherent, Holding, Recording
<1>8. CASE AppendTurn(h)
  <2>1. e \in Events /\ st.recording \in Events  BY <1>8, <1>a DEF AppendTurn, At, Coherent, Recording
  <2>2. handler'[h] = [st EXCEPT !.pc = "marking", !.copy = <<>>]  BY <1>8, <1>0 DEF AppendTurn
  <2>. QED  BY <1>a, <2>1, <2>2, NoTurns DEF HandlerState, Coherent, Holding, Recording
<1>9. CASE MarkRecorded(h)
  <2>1. e \in Events  BY <1>9, <1>a DEF MarkRecorded, At, Coherent
  <2>2. PICK p \in {"completing", "composing"} : handler'[h] = [st EXCEPT !.pc = p, !.recording = None]
    BY <1>9, <1>0 DEF MarkRecorded, MarkedGoto
  <2>. QED  BY <1>a, <2>1, <2>2 DEF HandlerState, Coherent, Holding, Recording
<1>10. CASE Compose(h)
  <2>1. e \in Events /\ st.request.conv \in Sessions  BY <1>10, <1>a DEF Compose, At, Coherent, Request
  <2>2. turns[st.request.conv] \in Turns  BY <2>1 DEF TypeOK
  <2>3. handler'[h] = [st EXCEPT !.pc = "submitting", !.request.context = turns[st.request.conv]]
    BY <1>10, <1>0 DEF Compose
  <2>4. [st.request EXCEPT !.context = turns[st.request.conv]] \in Request  BY <1>a, <2>2 DEF Request
  <2>. QED  BY <1>a, <2>1, <2>3, <2>4 DEF HandlerState, Coherent, Holding, Recording
<1>11. CASE Submit(h)
  <2>1. e \in Events  BY <1>11, <1>a DEF Submit, At, Coherent
  <2>2. handler'[h] = Done \/ \E p \in {"dispatching", "linking"} : handler'[h] = [st EXCEPT !.pc = p]
    BY <1>11, <1>0 DEF Submit, Goto, Leave
  <2>3. \A p \in {"dispatching", "linking"} : [st EXCEPT !.pc = p] \in HandlerState /\ Coherent([st EXCEPT !.pc = p])
    BY <1>a, <2>1 DEF HandlerState, Coherent, Holding, Recording
  <2>. QED  BY <2>2, <2>3, IdleTypes
<1>12. CASE Dispatch(h)
  <2>1. e \in Events  BY <1>12, <1>a DEF Dispatch, At, Coherent
  <2>2. \E p \in {"failing", "linking"} : handler'[h] = [st EXCEPT !.pc = p]
    BY <1>12, <1>0 DEF Dispatch, Goto
  <2>. QED  BY <1>a, <2>1, <2>2 DEF HandlerState, Coherent, Holding, Recording
<1>13. CASE DispatchFail(h)  BY <1>13, <1>0, IdleTypes DEF DispatchFail, Leave
<1>14. CASE LinkTask(h)
  <2>1. e \in Events /\ handler'[h] = [st EXCEPT !.pc = "completing"]
    BY <1>14, <1>0, <1>a DEF LinkTask, At, Coherent, Goto
  <2>. QED  BY <1>a, <2>1 DEF HandlerState, Coherent, Holding, Recording
<1>15. CASE Complete(h)  BY <1>15, <1>0, IdleTypes DEF Complete, Leave
<1>16. CASE Raise(h)  BY <1>16, <1>0, IdleTypes DEF Raise, Leave
<1>17. CASE Crash(h)  BY <1>17, <1>0, IdleTypes DEF Crash, Leave
<1>. QED  BY <1>1, <1>2, <1>3, <1>4, <1>5, <1>6, <1>7, <1>8, <1>9, <1>10, <1>11, <1>12, <1>13,
             <1>14, <1>15, <1>16, <1>17 DEF HandlerStep

-----------------------------------------------------------------------------
(***************************************************************************)
(* What a step does to the stored objects.                                 *)
(***************************************************************************)
RecordState == [conv : Sessions \cup {None}, recorded : BOOLEAN]

\* The record a handler writes, once it has got so far.
Writes(h, e, rec) ==
    \/ /\ At(h, "marking") /\ e = handler[h].recording
       /\ rec = [record[e] EXCEPT !.recorded = TRUE]
    \/ /\ At(h, "linking") /\ e = handler[h].event
       /\ rec = [conv |-> handler[h].request.conv, recorded |-> FALSE]

\* It names the conversation of the stored task, and the one a former record names.
Fitting(e, rec) ==
    /\ rec.conv \in Sessions /\ record[e].conv \in {None, rec.conv}
    /\ task[e].status # "absent" /\ task[e].request.conv = rec.conv

LEMMA WritesFit ==
    ASSUME TypeOK, HandlersCoherent, Submitted, PointersResolve, RecordsAgree,
           NEW h \in Handlers, NEW e, NEW rec, Writes(h, e, rec)
    PROVE  e \in Events /\ rec \in RecordState /\ Fitting(e, rec)
<1>1. /\ Coherent(handler[h]) /\ handler[h].request.conv \in Sessions
  BY HandlerBefore
<1>2. record \in [Events -> RecordState]  BY DEF TypeOK, RecordState
<1>3. CASE At(h, "marking") /\ e = handler[h].recording /\ rec = [record[e] EXCEPT !.recorded = TRUE]
  <2>1. e \in Events /\ record[e].conv # None
    BY <1>1, <1>3 DEF At, Coherent, Recording, RecordsAgree
  <2>2. rec \in RecordState /\ rec.conv = record[e].conv  BY <1>2, <1>3, <2>1 DEF RecordState
  <2>3. record[e].conv \in Sessions  BY <1>2, <2>1 DEF RecordState
  <2>. QED  BY <2>1, <2>2, <2>3 DEF Fitting, PointersResolve, RecordsAgree
<1>4. CASE /\ At(h, "linking") /\ e = handler[h].event
           /\ rec = [conv |-> handler[h].request.conv, recorded |-> FALSE]
  <2>1. e \in Events  BY <1>1, <1>4 DEF At, Coherent
  <2>2. task[e].status # "absent" /\ task[e].request.conv = handler[h].request.conv
    BY <1>4 DEF At, Submitted
  <2>. QED  BY <1>1, <1>4, <2>1, <2>2 DEF Fitting, RecordState, RecordsAgree
<1>. QED  BY <1>3, <1>4 DEF Writes

\* Whatever a handler does, it writes such a record and its pointers, as far as it gets, or
\* leaves them alone.
LEMMA PutStep ==
    ASSUME TypeOK, HandlersCoherent, Submitted, PointersResolve, RecordsAgree,
           NEW h \in Handlers, HandlerStep(h)
    PROVE  \/ UNCHANGED <<record, latest, eventTask>>
           \/ \E e \in Events, rec \in RecordState, written \in 0..3 :
                 Writes(h, e, rec) /\ Fitting(e, rec) /\ PutTask(e, rec, written)
<1>1. ASSUME NEW e, NEW rec, NEW written \in 0..3, Writes(h, e, rec), PutTask(e, rec, written)
      PROVE  \E d \in Events, r \in RecordState, w \in 0..3 :
                 Writes(h, d, r) /\ Fitting(d, r) /\ PutTask(d, r, w)
  BY <1>1, WritesFit
<1>2. ASSUME NEW written \in 0..3, Put(h, written)
      PROVE  \/ UNCHANGED <<record, latest, eventTask>>
             \/ \E e \in Events, rec \in RecordState, w \in 0..3 :
                   Writes(h, e, rec) /\ Fitting(e, rec) /\ PutTask(e, rec, w)
  <2>1. CASE At(h, "linking")
    <3>1. PutTask(handler[h].event, [conv |-> handler[h].request.conv, recorded |-> FALSE], written)
      BY <1>2, <2>1 DEF Put, At
    <3>. QED  BY <3>1, <2>1, <1>1 DEF Writes
  <2>2. CASE At(h, "marking")
    <3>1. PutTask(handler[h].recording, [record[handler[h].recording] EXCEPT !.recorded = TRUE], written)
      BY <1>2, <2>2 DEF Put, At
    <3>. QED  BY <3>1, <2>2, <1>1 DEF Writes
  <2>3. CASE ~At(h, "linking") /\ ~At(h, "marking")  BY <1>2, <2>3 DEF Put
  <2>. QED  BY <2>1, <2>2, <2>3
<1>3. CASE MarkRecorded(h)
  <2>1. PutTask(handler[h].recording, [record[handler[h].recording] EXCEPT !.recorded = TRUE], 3) /\ At(h, "marking")
    BY <1>3 DEF MarkRecorded
  <2>. QED  BY <2>1, <1>1 DEF Writes
<1>4. CASE LinkTask(h)  BY <1>4, <1>2 DEF LinkTask
<1>5. CASE Raise(h) \/ Crash(h)
  <2>1. PICK written \in 0..2 : Put(h, written)  BY <1>5 DEF Raise, Crash, Cut
  <2>2. written \in 0..3  OBVIOUS
  <2>. QED  BY <2>1, <2>2, <1>2
<1>6. CASE UNCHANGED <<record, latest, eventTask>>  BY <1>6
<1>. QED
  <2>1. CASE \E e \in Events : Deliver(h, e)  BY <2>1, <1>6 DEF Deliver, store
  <2>2. CASE ClaimEvent(h) \/ TakeLease(h) \/ Begin(h) \/ NameSession(h)
    BY <2>2, <1>6 DEF ClaimEvent, TakeLease, Begin, NameSession, store
  <2>3. CASE LookUp(h) \/ Note(h) \/ AppendTurn(h) \/ Compose(h)
    BY <2>3, <1>6 DEF LookUp, Note, AppendTurn, Compose, store
  <2>4. CASE Submit(h) \/ Dispatch(h) \/ DispatchFail(h) \/ Complete(h)
    BY <2>4, <1>6 DEF Submit, Dispatch, DispatchFail, Complete, store
  <2>. QED  BY <2>1, <2>2, <2>3, <2>4, <1>3, <1>4, <1>5 DEF HandlerStep

\* The pointers that put_task leaves behind lead to the record, wherever it is cut short, and
\* a record keeps its conversation.
LEMMA PutEffect ==
    ASSUME TypeOK, PointersResolve, NEW e \in Events, NEW rec \in RecordState, NEW written \in 0..3,
           Fitting(e, rec), PutTask(e, rec, written)
    PROVE  /\ record' \in [Events -> RecordState]
           /\ latest' \in [Sessions -> Events \cup {None}]
           /\ eventTask' \subseteq Events
           /\ \A d \in Events : d # e => record'[d] = record[d]
           /\ record'[e] = record[e] \/ record'[e] = rec
           /\ \A d \in Events : record[d].conv # None => record'[d].conv = record[d].conv
           /\ \A c \in Sessions : latest'[c] # None => record'[latest'[c]].conv = c
           /\ \A d \in eventTask' : record'[d].conv # None
<1>1. record \in [Events -> RecordState] /\ latest \in [Sessions -> Events \cup {None}] /\ eventTask \subseteq Events
  BY DEF TypeOK, RecordState
<1>2. /\ rec.conv \in Sessions /\ rec.conv # None /\ record[e].conv \in {None, rec.conv}
  BY SessionsAreEvents DEF Fitting
<1>3. record' = IF written >= 1 THEN [record EXCEPT ![e] = rec] ELSE record  BY DEF PutTask
<1>4. latest' = IF written >= 2 THEN [latest EXCEPT ![rec.conv] = e] ELSE latest  BY DEF PutTask
<1>5. eventTask' = IF written >= 3 THEN eventTask \cup {e} ELSE eventTask  BY DEF PutTask
<1>6. /\ record' \in [Events -> RecordState]
      /\ \A d \in Events : d # e => record'[d] = record[d]
      /\ record'[e] = record[e] \/ record'[e] = rec
      /\ written >= 1 => record'[e] = rec
  BY <1>1, <1>3
<1>7. latest' \in [Sessions -> Events \cup {None}] /\ eventTask' \subseteq Events
  BY <1>1, <1>2, <1>4, <1>5
<1>8. \A d \in Events : record[d].conv # None => record'[d].conv = record[d].conv
  BY <1>2, <1>6
<1>9. ASSUME NEW c \in Sessions, latest'[c] # None PROVE record'[latest'[c]].conv = c
  <2>1. CASE latest'[c] = latest[c]
    <3>1. latest[c] \in Events /\ record[latest[c]].conv = c
      BY <2>1, <1>9, <1>1 DEF PointersResolve
    <3>. QED  BY <3>1, <2>1, <1>8, SessionsAreEvents
  <2>2. CASE latest'[c] # latest[c]
    <3>1. written >= 2 /\ c = rec.conv /\ latest'[c] = e  BY <2>2, <1>1, <1>2, <1>4
    <3>2. written >= 1  BY <3>1
    <3>. QED  BY <3>1, <3>2, <1>6
  <2>. QED  BY <2>1, <2>2
<1>10. ASSUME NEW d \in eventTask' PROVE record'[d].conv # None
  <2>1. CASE d \in eventTask
    <3>1. d \in Events /\ record[d].conv # None  BY <2>1, <1>1 DEF PointersResolve
    <3>. QED  BY <3>1, <1>8
  <2>2. CASE d \notin eventTask
    <3>1. written >= 3 /\ d = e  BY <2>2, <1>10, <1>5
    <3>2. written >= 1  BY <3>1
    <3>. QED  BY <3>1, <3>2, <1>2, <1>6
  <2>. QED  BY <2>1, <2>2
<1>. QED  BY <1>6, <1>7, <1>8, <1>9, <1>10

\* A stored task keeps its request and never disappears.
LEMMA TaskEffect ==
    ASSUME TypeOK, HandlersCoherent, Next
    PROVE  /\ task' \in [Events -> TaskState]
           /\ \A e \in Events : task[e].status # "absent" =>
                 task'[e].status # "absent" /\ task'[e].request = task[e].request
<1>1. task \in [Events -> TaskState]  BY DEF TypeOK
<1>2. CASE UNCHANGED task  BY <1>1, <1>2
<1>3. CASE \E h \in Handlers : Submit(h)
  <2>1. PICK h \in Handlers : Submit(h)  BY <1>3
  <2>2. handler[h].event \in Events /\ handler[h].request \in Request
    BY <2>1, HandlerBefore DEF Submit, At, Coherent
  <2>3. task' = task \/ /\ task[handler[h].event].status = "absent"
                        /\ task' = [task EXCEPT ![handler[h].event] = [status |-> "queued", request |-> handler[h].request]]
    BY <2>1 DEF Submit
  <2>. QED  BY <1>1, <2>2, <2>3 DEF TaskState
<1>4. ASSUME NEW e \in Events, NEW how \in {"queued", "running", "succeeded", "failed"},
             task' = [task EXCEPT ![e].status = how]
      PROVE  /\ task' \in [Events -> TaskState]
             /\ \A d \in Events : task[d].status # "absent" =>
                   task'[d].status # "absent" /\ task'[d].request = task[d].request
  BY <1>1, <1>4 DEF TaskState
<1>5. CASE \E h \in Handlers : DispatchFail(h)
  <2>1. PICK h \in Handlers : DispatchFail(h)  BY <1>5
  <2>2. handler[h].event \in Events  BY <2>1, HandlerBefore DEF DispatchFail, At, Coherent
  <2>. QED  BY <2>1, <2>2, <1>4 DEF DispatchFail
<1>6. CASE \E e \in Events : Work(e)
  <2>1. PICK e \in Events : Work(e)  BY <1>6
  <2>2. task' = task \/ \E how \in {"running", "succeeded", "failed"} : task' = [task EXCEPT ![e].status = how]
    BY <2>1 DEF Work
  <2>3. CASE task' = task  BY <2>3, <1>2
  <2>. QED  BY <2>2, <2>3, <1>4
<1>7. CASE \E e \in Events : LeaseExpires(e)  BY <1>7, <1>2 DEF LeaseExpires
<1>8. ASSUME NEW h \in Handlers, HandlerStep(h), ~Submit(h), ~DispatchFail(h)
      PROVE  UNCHANGED task
  BY <1>8, Frames
<1>. QED  BY <1>2, <1>3, <1>5, <1>6, <1>7, <1>8 DEF Next

\* A step of the environment moves no handler.
LEMMA OutsideStep ==
    ASSUME Next, ~ \E h \in Handlers : HandlerStep(h)
    PROVE  UNCHANGED <<handler, record, latest, eventTask, turns, session, acked, cuts, dispatches,
                       crashed, stolen, torn>>
<1>1. PICK e \in Events : LeaseExpires(e) \/ Work(e)  BY DEF Next
<1>. QED  BY <1>1 DEF LeaseExpires, Work, history

LEMMA RecordsStep ==
    ASSUME TypeOK, HandlersCoherent, Submitted, PointersResolve, RecordsAgree, Next
    PROVE  /\ record' \in [Events -> RecordState]
           /\ latest' \in [Sessions -> Events \cup {None}]
           /\ eventTask' \subseteq Events
           /\ \A e \in Events : record[e].conv # None => record'[e].conv = record[e].conv
           /\ \A e \in Events : record'[e].conv # None => record'[e].conv = task'[e].request.conv
           /\ PointersResolve'
<1>0. record \in [Events -> RecordState] /\ latest \in [Sessions -> Events \cup {None}] /\ eventTask \subseteq Events
  BY DEF TypeOK, RecordState
<1>1. CASE UNCHANGED <<record, latest, eventTask>>
  <2>1. \A c \in Sessions : latest'[c] # None => record'[latest'[c]].conv = c  BY <1>1 DEF PointersResolve
  <2>2. \A e \in eventTask' : record'[e].conv # None  BY <1>1 DEF PointersResolve
  <2>3. \A e \in Events : record'[e].conv # None => task'[e].status # "absent"
    BY <1>1, TaskEffect DEF PointersResolve
  <2>4. \A e \in Events : record'[e].conv # None => record'[e].conv = task'[e].request.conv
    BY <1>1, TaskEffect DEF PointersResolve, RecordsAgree
  <2>. QED  BY <1>0, <1>1, <2>1, <2>2, <2>3, <2>4 DEF PointersResolve
<1>2. ASSUME NEW e \in Events, NEW rec \in RecordState, NEW written \in 0..3,
             Fitting(e, rec), PutTask(e, rec, written)
      PROVE  /\ record' \in [Events -> RecordState]
             /\ latest' \in [Sessions -> Events \cup {None}]
             /\ eventTask' \subseteq Events
             /\ \A d \in Events : record[d].conv # None => record'[d].conv = record[d].conv
             /\ \A d \in Events : record'[d].conv # None => record'[d].conv = task'[d].request.conv
             /\ PointersResolve'
  <2>1. /\ \A d \in Events : d # e => record'[d] = record[d]
        /\ record'[e] = record[e] \/ record'[e] = rec
    BY <1>2, PutEffect
  <2>2. ASSUME NEW d \in Events, record'[d].conv # None
        PROVE  task'[d].status # "absent" /\ record'[d].conv = task'[d].request.conv
    <3>1. CASE record'[d] = record[d]
      <4>1. task[d].status # "absent" /\ record[d].conv = task[d].request.conv
        BY <2>2, <3>1 DEF PointersResolve, RecordsAgree
      <4>. QED  BY <3>1, <4>1, TaskEffect
    <3>2. CASE d = e /\ record'[d] = rec
      <4>1. task[e].status # "absent" /\ task[e].request.conv = rec.conv  BY <1>2 DEF Fitting
      <4>. QED  BY <3>2, <4>1, TaskEffect
    <3>. QED  BY <2>1, <3>1, <3>2
  <2>3. /\ record' \in [Events -> RecordState]
        /\ latest' \in [Sessions -> Events \cup {None}]
        /\ eventTask' \subseteq Events
        /\ \A d \in Events : record[d].conv # None => record'[d].conv = record[d].conv
        /\ \A c \in Sessions : latest'[c] # None => record'[latest'[c]].conv = c
        /\ \A d \in eventTask' : record'[d].conv # None
    BY <1>2, PutEffect
  <2>. QED  BY <2>2, <2>3 DEF PointersResolve
<1>3. CASE \E h \in Handlers : HandlerStep(h)  BY <1>1, <1>2, <1>3, PutStep
<1>4. CASE ~ \E h \in Handlers : HandlerStep(h)  BY <1>1, <1>4, OutsideStep
<1>. QED  BY <1>3, <1>4

\* Every variable keeps its type.
LEMMA TypeStep ==
    ASSUME TypeOK, HandlersCoherent, Submitted, PointersResolve, RecordsAgree, Next
    PROVE  TypeOK' /\ HandlersCoherent'
<1>1. handler' \in [Handlers -> HandlerState] /\ HandlersCoherent'
  <2>1. CASE \E h \in Handlers : HandlerStep(h)
    <3>1. PICK h \in Handlers : HandlerStep(h)  BY <2>1
    <3>. QED  BY <3>1, HandlerAfter, OtherHandlers DEF HandlersCoherent
  <2>2. CASE ~ \E h \in Handlers : HandlerStep(h)  BY <2>2, OutsideStep DEF TypeOK, HandlersCoherent
  <2>. QED  BY <2>1, <2>2
<1>2. acked' \subseteq Events /\ crashed' \subseteq Events /\ stolen' \subseteq Events
  <2>0. acked \subseteq Events /\ crashed \subseteq Events /\ stolen \subseteq Events  BY DEF TypeOK
  <2>1. CASE \E h \in Handlers, e \in Events : Deliver(h, e)  BY <2>0, <2>1 DEF Deliver, history
  <2>2. CASE \E h \in Handlers : TakeLease(h)
    <3>1. PICK h \in Handlers : TakeLease(h)  BY <2>2
    <3>2. handler[h].event \in Events  BY <3>1, HandlerBefore DEF TakeLease, At, Coherent
    <3>. QED  BY <2>0, <3>1, <3>2 DEF TakeLease
  <2>3. CASE \E h \in Handlers : Crash(h)
    <3>1. PICK h \in Handlers : Crash(h)  BY <2>3
    <3>2. handler[h].event \in Events  BY <3>1, HandlerBefore DEF Crash, Holding, Coherent
    <3>. QED  BY <2>0, <3>1, <3>2 DEF Crash, Cut
  <2>4. CASE UNCHANGED <<acked, crashed, stolen>>  BY <2>0, <2>4
  <2>5. ASSUME NEW h \in Handlers, HandlerStep(h), ~ \E e \in Events : Deliver(h, e), ~TakeLease(h), ~Crash(h)
        PROVE  UNCHANGED <<acked, crashed, stolen>>
    BY <2>5, Frames
  <2>6. CASE ~ \E h \in Handlers : HandlerStep(h)  BY <2>4, <2>6, OutsideStep
  <2>. QED  BY <2>1, <2>2, <2>3, <2>4, <2>5, <2>6
<1>3. claim' \in [Events -> ClaimState]
  <2>0. claim \in [Events -> ClaimState]  BY DEF TypeOK
  <2>1. CASE UNCHANGED claim  BY <2>0, <2>1
  <2>2. ASSUME NEW e \in Events, NEW s \in {"processing", "completed"}, NEW g \in Nat,
               claim' = [claim EXCEPT ![e] = [state |-> s, gen |-> g, stale |-> FALSE]]
        PROVE  claim' \in [Events -> ClaimState]
    BY <2>0, <2>2 DEF ClaimState
  <2>3. ASSUME NEW h \in Handlers, HandlerStep(h) PROVE claim' \in [Events -> ClaimState]
    <3>0. At(h, "claiming") \/ At(h, "taking") \/ At(h, "completing") =>
             handler[h].event \in Events /\ claim[handler[h].event].gen + 1 \in Nat
      BY <2>0, HandlerBefore DEF At, Coherent, ClaimState
    <3>1. CASE ClaimEvent(h)  BY <3>0, <3>1, <2>1, <2>2 DEF ClaimEvent
    <3>2. CASE TakeLease(h)  BY <3>0, <3>2, <2>1, <2>2 DEF TakeLease
    <3>3. CASE Complete(h)  BY <3>0, <3>3, <2>2 DEF Complete
    <3>. QED  BY <2>3, <3>1, <3>2, <3>3, <2>1, Frames
  <2>4. CASE \E e \in Events : LeaseExpires(e)  BY <2>0, <2>4 DEF LeaseExpires, ClaimState
  <2>5. CASE \E e \in Events : Work(e)  BY <2>5, <2>1 DEF Work
  <2>. QED  BY <2>3, <2>4, <2>5 DEF Next
<1>4. session' \in [known : SUBSET Sessions, active : Sessions] /\ session'.active \in session'.known
  <2>0. session \in [known : SUBSET Sessions, active : Sessions] /\ session.active \in session.known  BY DEF TypeOK
  <2>1. CASE UNCHANGED session  BY <2>0, <2>1
  <2>2. CASE \E h \in Handlers : NameSession(h)
    <3>1. PICK h \in Handlers : NameSession(h)  BY <2>2
    <3>2. /\ handler[h].view.known \in SUBSET Sessions
          /\ handler[h].event \in Events /\ KindOf[handler[h].event] \in SessionKinds
      BY <3>1, HandlerBefore DEF NameSession, At, Coherent
    <3>3. PICK s \in Sessions : session' = [known |-> handler[h].view.known \cup {s}, active |-> s]
      <4>1. CASE KindOf[handler[h].event] = "switch"  BY <3>1, <3>2, <4>1 DEF NameSession
      <4>2. CASE KindOf[handler[h].event] # "switch"
        <5>1. handler[h].event \in Sessions  BY <3>2, <4>2, SessionsAreEvents DEF SessionKinds
        <5>. QED  BY <3>1, <4>2, <5>1 DEF NameSession
      <4>. QED  BY <4>1, <4>2
    <3>. QED  BY <3>2, <3>3
  <2>3. ASSUME NEW h \in Handlers, HandlerStep(h), ~NameSession(h) PROVE UNCHANGED session
    BY <2>3, Frames
  <2>4. CASE ~ \E h \in Handlers : HandlerStep(h)  BY <2>1, <2>4, OutsideStep
  <2>. QED  BY <2>1, <2>2, <2>3, <2>4
<1>5. turns' \in [Sessions -> Turns]
  <2>0. turns \in [Sessions -> Turns]  BY DEF TypeOK
  <2>1. CASE UNCHANGED turns  BY <2>0, <2>1
  <2>2. CASE \E h \in Handlers : AppendTurn(h)
    <3>1. PICK h \in Handlers : AppendTurn(h)  BY <2>2
    <3>2. handler[h].recording \in Events /\ handler[h].copy \in Turns
      BY <3>1, HandlerBefore DEF AppendTurn, At, Coherent, Recording
    <3>3. AppendBounded(handler[h].copy, handler[h].recording) \in Turns  BY <3>2, AppendedTimes
    <3>. QED  BY <2>0, <3>1, <3>3 DEF AppendTurn
  <2>3. ASSUME NEW h \in Handlers, HandlerStep(h), ~AppendTurn(h) PROVE UNCHANGED turns
    BY <2>3, Frames
  <2>4. CASE ~ \E h \in Handlers : HandlerStep(h)  BY <2>1, <2>4, OutsideStep
  <2>. QED  BY <2>1, <2>2, <2>3, <2>4
<1>6. job' \in [Events -> {"none", "waiting", "working", "over"}] /\ dispatches' \in [Events -> 0..2]
  <2>0. job \in [Events -> {"none", "waiting", "working", "over"}] /\ dispatches \in [Events -> 0..2]  BY DEF TypeOK
  <2>1. CASE UNCHANGED <<job, dispatches>>  BY <2>0, <2>1
  <2>2. CASE \E h \in Handlers : Dispatch(h)
    <3>1. PICK h \in Handlers : Dispatch(h)  BY <2>2
    <3>2. CASE UNCHANGED work  BY <2>0, <3>2 DEF work
    <3>3. CASE ~UNCHANGED work
      <4>. DEFINE e == handler[h].event
      <4>1. e \in Events  BY <3>1, HandlerBefore DEF Dispatch, At, Coherent
      <4>2. /\ dispatches' = [dispatches EXCEPT ![e] = IF @ < 2 THEN @ + 1 ELSE @]
            /\ job' = [job EXCEPT ![e] = IF @ = "working" THEN @ ELSE "waiting"]
        BY <3>1, <3>3 DEF Dispatch
      <4>. QED  BY <2>0, <4>1, <4>2
    <3>. QED  BY <3>2, <3>3
  <2>3. ASSUME NEW h \in Handlers, HandlerStep(h), ~Dispatch(h) PROVE UNCHANGED <<job, dispatches>>
    BY <2>3, Frames
  <2>4. CASE \E e \in Events : LeaseExpires(e)  BY <2>4, <2>1 DEF LeaseExpires, history
  <2>5. CASE \E e \in Events : Work(e)
    <3>1. PICK e \in Events : Work(e)  BY <2>5
    <3>2. UNCHANGED dispatches /\ \E w \in {"working", "over"} : job' = [job EXCEPT ![e] = w]  BY <3>1 DEF Work
    <3>. QED  BY <2>0, <3>2
  <2>. QED  BY <2>1, <2>2, <2>3, <2>4, <2>5 DEF Next
<1>7. cuts' \in 0..MaxCuts
  <2>0. cuts \in 0..MaxCuts /\ MaxCuts \in Nat  BY BoundsAreNaturals DEF TypeOK
  <2>1. CASE UNCHANGED cuts  BY <2>0, <2>1
  <2>2. CASE \E h \in Handlers : Raise(h) \/ Crash(h)  BY <2>0, <2>2 DEF Raise, Crash, Cut
  <2>3. CASE ~ \E h \in Handlers : HandlerStep(h)  BY <2>1, <2>3, OutsideStep
  <2>. QED  BY <2>1, <2>2, <2>3, Frames
<1>8. torn' \subseteq Sessions
  <2>0. torn \subseteq Sessions /\ record \in [Events -> RecordState]  BY DEF TypeOK, RecordState
  <2>1. CASE UNCHANGED torn  BY <2>0, <2>1
  <2>2. CASE \E h \in Handlers : LookUp(h)
    <3>1. session.active \in Sessions  BY DEF TypeOK
    <3>2. torn' = torn \/ torn' = torn \cup {session.active}  BY <2>2 DEF LookUp
    <3>. QED  BY <2>0, <3>1, <3>2
  <2>3. ASSUME NEW h \in Handlers, LinkTask(h) \/ Raise(h) \/ Crash(h) PROVE torn' \subseteq Sessions
    <3>1. Tears(h) \in Sessions \cup {None}
      <4>1. At(h, "linking") => handler[h].event \in Events  BY HandlerBefore DEF At, Coherent
      <4>2. At(h, "linking") => record[handler[h].event].conv \in Sessions \cup {None}
        BY <2>0, <4>1 DEF RecordState
      <4>. QED  BY <4>2 DEF Tears
    <3>2. handler[h].pc \in Recording => record[handler[h].recording].conv \in Sessions \cup {None}
      <4>1. handler[h].pc \in Recording => handler[h].recording \in Events  BY HandlerBefore DEF Coherent
      <4>. QED  BY <2>0, <4>1 DEF RecordState
    <3>3. \/ torn' = torn \cup ({Tears(h)} \ {None})
          \/ torn' = torn \cup (({Tears(h)} \cup
                 (IF handler[h].pc \in Recording THEN {record[handler[h].recording].conv} ELSE {}))
                 \ {None})
      BY <2>3 DEF LinkTask, Raise, Crash, Cut
    <3>. QED  BY <2>0, <3>1, <3>2, <3>3
  <2>4. CASE ~ \E h \in Handlers : HandlerStep(h)  BY <2>1, <2>4, OutsideStep
  <2>. QED  BY <2>1, <2>2, <2>3, <2>4, Frames
<1>9. /\ record' \in [Events -> [conv : Sessions \cup {None}, recorded : BOOLEAN]]
      /\ latest' \in [Sessions -> Events \cup {None}] /\ eventTask' \subseteq Events
  BY RecordsStep DEF RecordState
<1>10. task' \in [Events -> TaskState]  BY TaskEffect
<1>. QED  BY <1>1, <1>2, <1>3, <1>4, <1>5, <1>6, <1>7, <1>8, <1>9, <1>10 DEF TypeOK

-----------------------------------------------------------------------------
(***************************************************************************)
(* Where a step takes a handler.                                           *)
(***************************************************************************)

\* What LookUp finds: the record of an answer that is not yet part of the active session's
\* conversation, or nothing to record.
LEMMA LookUpEffect ==
    ASSUME TypeOK, HandlersCoherent, NEW h \in Handlers, LookUp(h)
    PROVE  /\ handler'[h].event = handler[h].event
           /\ handler'[h].pc \in {"noting", "composing", "submitting", "completing"}
           /\ Asks(handler[h].event) => handler'[h].pc \in {"noting", "composing"}
           /\ handler'[h].pc = "noting" =>
                 LET subject == handler'[h].recording
                 IN  /\ subject \in Events /\ record[subject].conv = session.active
                     /\ ~record[subject].recorded
                     /\ (\E g \in Handlers \ {h} : RecordsIn(g, session.active)) => session.active \in torn'
<1>0. handler \in [Handlers -> HandlerState] /\ handler[h] \in HandlerState  BY DEF TypeOK
<1>. DEFINE e == handler[h].event
            conv == session.active
            asks == KindOf[e] \in {"ask", "session_ask"}
<1>1. PICK subject \in Subject(e, conv) \cup {None} :
        LET found == subject # None
            records == /\ found /\ KindOf[e] # "retry"
                       /\ task[subject].status = "succeeded" /\ ~record[subject].recorded
        IN  /\ handler' = [handler EXCEPT
                       ![h].request = CASE asks -> [conv |-> conv, context |-> <<>>, answers |-> e]
                                     [] found /\ KindOf[e] = "retry" ->
                                           [task[subject].request EXCEPT !.answers = e]
                                     [] OTHER -> NoRequest,
                       ![h].recording = IF records THEN subject ELSE None,
                       ![h].pc = CASE records -> "noting"
                                [] ~records /\ asks -> "composing"
                                [] found /\ KindOf[e] = "retry" /\ task[subject].status = "failed"
                                     -> "submitting"
                                [] OTHER -> "completing"]
            /\ torn' = IF records /\ \E other \in Handlers \ {h} :
                                  /\ handler[other].pc \in Recording
                                  /\ record[handler[other].recording].conv = conv
                       THEN torn \cup {conv} ELSE torn
  BY DEF LookUp
<1>. DEFINE found == subject # None
            records == /\ found /\ KindOf[e] # "retry"
                       /\ task[subject].status = "succeeded" /\ ~record[subject].recorded
            q == CASE asks -> [conv |-> conv, context |-> <<>>, answers |-> e]
                   [] found /\ KindOf[e] = "retry" -> [task[subject].request EXCEPT !.answers = e]
                   [] OTHER -> NoRequest
            r == IF records THEN subject ELSE None
            p == CASE records -> "noting"
                   [] ~records /\ asks -> "composing"
                   [] found /\ KindOf[e] = "retry" /\ task[subject].status = "failed" -> "submitting"
                   [] OTHER -> "completing"
<1>2. p \in {"noting", "composing", "submitting", "completing"} /\ (p = "noting" => records)
  OBVIOUS
<1>3. Asks(e) => p \in {"noting", "composing"}
  <2>1. CASE records  BY <2>1, <1>2
  <2>2. CASE ~records /\ asks
    <3>1. KindOf[e] # "retry"  BY <2>2
    <3>. QED  BY <2>2, <3>1
  <2>. QED  BY <2>1, <2>2 DEF Asks
<1>4. records => subject \in Events /\ record[subject].conv = conv /\ ~record[subject].recorded /\ r = subject
  BY <1>1 DEF Subject
<1>5. records => ((\E g \in Handlers \ {h} : RecordsIn(g, conv)) => conv \in torn')
  BY <1>1 DEF RecordsIn
<1>6. handler' = [handler EXCEPT ![h].request = q, ![h].recording = r, ![h].pc = p]  BY <1>1
<1>. HIDE DEF q, r, p, records
<1>7. handler'[h].event = e /\ handler'[h].pc = p /\ handler'[h].recording = r  BY <1>0, <1>6 DEF HandlerState
<1>. QED  BY <1>2, <1>3, <1>4, <1>5, <1>7

\* The actions that lead to each place.
LEMMA Path ==
    ASSUME TypeOK, HandlersCoherent, NEW h \in Handlers, HandlerStep(h)
    PROVE  /\ handler'[h].pc \in Holding \cup {"taking"} =>
                 handler'[h].event = handler[h].event /\ handler[h].event \in Events
           /\ handler'[h].pc = "taking" => ClaimEvent(h)
           /\ handler'[h].pc \in Holding => handler[h].pc \in Holding \/ ClaimEvent(h) \/ TakeLease(h)
           /\ handler'[h].pc = "dispatching" => Submit(h)
           /\ handler'[h].pc = "failing" => Dispatch(h)
           /\ handler'[h].pc = "linking" => Submit(h) \/ Dispatch(h)
           /\ handler'[h].pc = "completing" =>
                 Begin(h) \/ NameSession(h) \/ LookUp(h) \/ MarkRecorded(h) \/ LinkTask(h)
           /\ handler'[h].pc \in Recording => LookUp(h) \/ Note(h) \/ AppendTurn(h)
<1>0. handler \in [Handlers -> HandlerState] /\ handler[h] \in HandlerState  BY DEF TypeOK
<1>. USE DEF Holding, Recording
<1>a. handler[h].pc \in Holding \cup {"claiming", "taking"} => handler[h].event \in Events
  BY HandlerBefore DEF Coherent
<1>1. CASE \E e \in Events : Deliver(h, e)
  <2>1. handler'[h].pc = "claiming"
    <3>1. PICK e \in Events : handler' = [handler EXCEPT ![h] = [IdleHandler EXCEPT !.pc = "claiming", !.event = e]]
      BY <1>1 DEF Deliver
    <3>. QED  BY <3>1, <1>0, IdleTypes DEF HandlerState
  <2>. QED  BY <2>1
<1>2. CASE ClaimEvent(h)
  <2>1. At(h, "claiming") /\ (handler'[h].event = handler[h].event \/ handler'[h].pc = "done")
        /\ handler'[h].pc \in {"begin", "taking", "done"}
    BY <1>2, <1>0, IdleTypes DEF ClaimEvent, HandlerState
  <2>. QED  BY <2>1, <1>2, <1>a DEF At
<1>3. CASE TakeLease(h)
  <2>1. At(h, "taking") /\ (handler'[h].event = handler[h].event \/ handler'[h].pc = "done")
        /\ handler'[h].pc \in {"begin", "done"}
    BY <1>3, <1>0, IdleTypes DEF TakeLease, HandlerState
  <2>. QED  BY <2>1, <1>3, <1>a DEF At
<1>4. CASE Begin(h)
  <2>1. At(h, "begin") /\ handler'[h].event = handler[h].event /\ handler'[h].pc \in {"naming", "completing", "asking"}
    BY <1>4, <1>0 DEF Begin, HandlerState
  <2>. QED  BY <2>1, <1>4, <1>a DEF At
<1>5. CASE NameSession(h)
  <2>1. At(h, "naming") /\ handler'[h].event = handler[h].event /\ handler'[h].pc \in {"completing", "asking"}
    BY <1>5, <1>0 DEF NameSession, HandlerState
  <2>. QED  BY <2>1, <1>5, <1>a DEF At
<1>6. CASE LookUp(h)
  <2>1. At(h, "asking")  BY <1>6 DEF LookUp
  <2>2. handler'[h].event = handler[h].event /\ handler'[h].pc \in {"noting", "composing", "submitting", "completing"}
    BY <1>6, LookUpEffect
  <2>. QED  BY <2>1, <2>2, <1>6, <1>a DEF At
<1>7. CASE Note(h)
  <2>1. At(h, "noting") /\ handler'[h].event = handler[h].event /\ handler'[h].pc = "appending"
    BY <1>7, <1>0 DEF Note, HandlerState
  <2>. QED  BY <2>1, <1>7, <1>a DEF At
<1>8. CASE AppendTurn(h)
  <2>1. At(h, "appending") /\ handler'[h].event = handler[h].event /\ handler'[h].pc = "marking"
    BY <1>8, <1>0 DEF AppendTurn, HandlerState
  <2>. QED  BY <2>1, <1>8, <1>a DEF At
<1>9. CASE MarkRecorded(h)
  <2>1. At(h, "marking") /\ handler'[h].event = handler[h].event /\ handler'[h].pc \in {"completing", "composing"}
    BY <1>9, <1>0 DEF MarkRecorded, MarkedGoto, HandlerState
  <2>. QED  BY <2>1, <1>9, <1>a DEF At
<1>10. CASE Compose(h)
  <2>1. At(h, "composing") /\ handler'[h].event = handler[h].event /\ handler'[h].pc = "submitting"
    BY <1>10, <1>0 DEF Compose, HandlerState
  <2>. QED  BY <2>1, <1>10, <1>a DEF At
<1>11. CASE Submit(h)
  <2>1. At(h, "submitting") /\ (handler'[h].event = handler[h].event \/ handler'[h].pc = "done")
        /\ handler'[h].pc \in {"dispatching", "linking", "done"}
    BY <1>11, <1>0, IdleTypes DEF Submit, Goto, Leave, HandlerState
  <2>. QED  BY <2>1, <1>11, <1>a DEF At
<1>12. CASE Dispatch(h)
  <2>1. At(h, "dispatching") /\ handler'[h].event = handler[h].event /\ handler'[h].pc \in {"linking", "failing"}
    BY <1>12, <1>0 DEF Dispatch, Goto, HandlerState
  <2>. QED  BY <2>1, <1>12, <1>a DEF At
<1>13. CASE DispatchFail(h)
  <2>1. handler'[h].pc = "done"  BY <1>13, <1>0, IdleTypes DEF DispatchFail, Leave
  <2>. QED  BY <2>1
<1>14. CASE LinkTask(h)
  <2>1. At(h, "linking") /\ handler'[h].event = handler[h].event /\ handler'[h].pc = "completing"
    BY <1>14, <1>0 DEF LinkTask, Goto, HandlerState
  <2>. QED  BY <2>1, <1>14, <1>a DEF At
<1>15. CASE Complete(h) \/ Raise(h) \/ Crash(h)
  <2>1. handler'[h].pc = "done"  BY <1>15, <1>0, IdleTypes DEF Complete, Raise, Crash, Leave
  <2>. QED  BY <2>1
<1>. QED  BY <1>1, <1>2, <1>3, <1>4, <1>5, <1>6, <1>7, <1>8, <1>9, <1>10, <1>11, <1>12, <1>13,
             <1>14, <1>15 DEF HandlerStep

-----------------------------------------------------------------------------
(***************************************************************************)
(* Leases.                                                                 *)
(***************************************************************************)

\* A claim is only written under a larger generation, and otherwise only expires; it is taken
\* from nobody before that.
LEMMA ClaimEffect ==
    ASSUME TypeOK, HandlersCoherent, LeaseWasRead, Next, NEW e \in Events
    PROVE  /\ claim'[e].gen >= claim[e].gen
           /\ claim'[e].gen = claim[e].gen =>
                 claim'[e].state = claim[e].state /\ (claim[e].stale => claim'[e].stale)
           /\ claim[e].state # "none" => claim'[e].state # "none"
           /\ claim'[e].state = "none" => claim'[e].gen = 0
           /\ claim'[e].state = "processing" /\ claim'[e].gen # claim[e].gen =>
                 claim[e].state = "none" \/ (claim[e].state = "processing" /\ claim[e].stale)
           /\ claim'[e].state = "completed" =>
                 claim[e].state = "completed" \/ \E h \in Handlers : Complete(h) /\ handler[h].event = e
<1>0. claim \in [Events -> ClaimState] /\ claim[e].gen \in Nat  BY DEF TypeOK, ClaimState
<1>1. CASE UNCHANGED claim  BY <1>0, <1>1 DEF LeaseWasRead
<1>2. ASSUME NEW h \in Handlers, ClaimEvent(h) PROVE
           /\ claim'[e].gen >= claim[e].gen
           /\ claim'[e].gen = claim[e].gen => claim'[e] = claim[e]
           /\ claim[e].state # "none" => claim'[e] = claim[e]
           /\ claim'[e] = claim[e] \/ (claim'[e].state = "processing" /\ claim[e].state = "none")
  <2>1. handler[h].event \in Events  BY <1>2, HandlerBefore DEF ClaimEvent, At, Coherent
  <2>2. CASE claim[handler[h].event].state = "none" /\ handler[h].event = e
    <3>1. claim'[e] = [state |-> "processing", gen |-> 1, stale |-> FALSE]
      BY <1>0, <1>2, <2>1, <2>2 DEF ClaimEvent
    <3>2. claim[e].gen = 0  BY <2>2 DEF LeaseWasRead
    <3>. QED  BY <3>1, <3>2, <2>2
  <2>3. CASE ~(claim[handler[h].event].state = "none" /\ handler[h].event = e)
    <3>1. claim'[e] = claim[e]  BY <1>0, <1>2, <2>1, <2>3 DEF ClaimEvent
    <3>. QED  BY <3>1, <1>0
  <2>. QED  BY <2>2, <2>3
<1>3. ASSUME NEW h \in Handlers, TakeLease(h) PROVE
           \/ claim'[e] = claim[e]
           \/ /\ claim[e].state = "processing" /\ claim[e].stale
              /\ claim'[e] = [state |-> "processing", gen |-> claim[e].gen + 1, stale |-> FALSE]
  <2>1. handler[h].event \in Events /\ At(h, "taking")  BY <1>3, HandlerBefore DEF TakeLease, At, Coherent
  <2>2. CASE claim[e].gen = handler[h].gen /\ handler[h].event = e
    <3>1. claim'[e] = [state |-> "processing", gen |-> claim[e].gen + 1, stale |-> FALSE]
      BY <1>0, <1>3, <2>1, <2>2 DEF TakeLease
    <3>2. claim[e].state = "processing" /\ claim[e].stale  BY <2>1, <2>2 DEF LeaseWasRead
    <3>. QED  BY <3>1, <3>2
  <2>3. CASE ~(claim[e].gen = handler[h].gen /\ handler[h].event = e)  BY <1>0, <1>3, <2>1, <2>3 DEF TakeLease
  <2>. QED  BY <2>2, <2>3
<1>4. ASSUME NEW h \in Handlers, Complete(h) PROVE
           \/ claim'[e] = claim[e]
           \/ handler[h].event = e /\ claim'[e] = [state |-> "completed", gen |-> claim[e].gen + 1, stale |-> FALSE]
  <2>1. handler[h].event \in Events  BY <1>4, HandlerBefore DEF Complete, At, Coherent
  <2>. QED  BY <1>0, <1>4, <2>1 DEF Complete
<1>5. ASSUME NEW d \in Events, LeaseExpires(d) PROVE
           \/ claim'[e] = claim[e]
           \/ claim'[e].gen = claim[e].gen /\ claim'[e].state = claim[e].state /\ claim'[e].stale
  BY <1>0, <1>5 DEF LeaseExpires, ClaimState
<1>6. ASSUME claim'[e] = claim[e] PROVE
           /\ claim'[e].gen >= claim[e].gen
           /\ claim'[e].state = "none" => claim'[e].gen = 0
  BY <1>0, <1>6 DEF LeaseWasRead
<1>7. CASE \E h \in Handlers : ClaimEvent(h)  BY <1>0, <1>2, <1>6, <1>7
<1>8. CASE \E h \in Handlers : TakeLease(h)
  <2>1. CASE claim'[e] = claim[e]  BY <2>1, <1>6
  <2>2. CASE claim'[e] # claim[e]
    <3>1. /\ claim[e].state = "processing" /\ claim[e].stale
          /\ claim'[e] = [state |-> "processing", gen |-> claim[e].gen + 1, stale |-> FALSE]
      BY <2>2, <1>3, <1>8
    <3>2. claim[e].gen + 1 >= claim[e].gen /\ claim[e].gen + 1 # claim[e].gen  BY <1>0
    <3>. QED  BY <3>1, <3>2
  <2>. QED  BY <2>1, <2>2
<1>9. CASE \E h \in Handlers : Complete(h)
  <2>1. CASE claim'[e] = claim[e]  BY <2>1, <1>6
  <2>2. CASE claim'[e] # claim[e]
    <3>1. PICK h \in Handlers : Complete(h)  BY <1>9
    <3>2. handler[h].event = e /\ claim'[e] = [state |-> "completed", gen |-> claim[e].gen + 1, stale |-> FALSE]
      BY <2>2, <3>1, <1>4
    <3>3. claim[e].gen + 1 >= claim[e].gen /\ claim[e].gen + 1 # claim[e].gen  BY <1>0
    <3>. QED  BY <3>1, <3>2, <3>3
  <2>. QED  BY <2>1, <2>2
<1>10. CASE \E d \in Events : LeaseExpires(d)
  <2>1. CASE claim'[e] = claim[e]  BY <2>1, <1>6
  <2>2. CASE claim'[e] # claim[e]
    <3>1. claim'[e].gen = claim[e].gen /\ claim'[e].state = claim[e].state /\ claim'[e].stale  BY <2>2, <1>5, <1>10
    <3>. QED  BY <3>1, <1>0 DEF LeaseWasRead
  <2>. QED  BY <2>1, <2>2
<1>11. CASE \E d \in Events : Work(d)  BY <1>11, <1>1 DEF Work
<1>. QED  BY <1>1, <1>7, <1>8, <1>9, <1>10, <1>11, Frames DEF Next

LEMMA LeaseWasReadStep ==
    ASSUME TypeOK, HandlersCoherent, LeaseWasRead, Next, HandlersCoherent', TypeOK'
    PROVE  LeaseWasRead'
<1>1. \A e \in Events : claim'[e].state = "none" => claim'[e].gen = 0  BY ClaimEffect
<1>2. ASSUME NEW h \in Handlers, handler'[h].pc = "taking"
      PROVE  LET e == handler'[h].event
             IN  /\ handler'[h].gen <= claim'[e].gen
                 /\ handler'[h].gen = claim'[e].gen => claim'[e].state = "processing" /\ claim'[e].stale
  <2>. DEFINE e == handler'[h].event
  <2>0. e \in Events  BY <1>2 DEF HandlersCoherent, Coherent
  <2>1. handler[h].gen \in Nat /\ claim[e].gen \in Nat /\ claim'[e].gen \in Nat
    BY <2>0, HandlerBefore DEF TypeOK, ClaimState
  <2>2. CASE handler'[h] = handler[h]
    <3>1. /\ handler[h].gen <= claim[e].gen
          /\ handler[h].gen = claim[e].gen => claim[e].state = "processing" /\ claim[e].stale
      BY <1>2, <2>2 DEF LeaseWasRead, At
    <3>. HIDE DEF e
    <3>2. /\ claim'[e].gen >= claim[e].gen
          /\ claim'[e].gen = claim[e].gen =>
                 claim'[e].state = claim[e].state /\ (claim[e].stale => claim'[e].stale)
      BY <2>0, ClaimEffect
    <3>3. handler[h].gen <= claim'[e].gen  BY <3>1, <3>2, <2>1
    <3>4. handler[h].gen = claim'[e].gen => claim[e].gen = claim'[e].gen  BY <3>1, <3>2, <2>1
    <3>. QED  BY <2>2, <3>1, <3>2, <3>3, <3>4 DEF e
  <2>3. CASE handler'[h] # handler[h]
    <3>1. HandlerStep(h)  BY <2>3, OutsideStep, OtherHandlers DEF Next
    <3>2. ClaimEvent(h) /\ e = handler[h].event  BY <3>1, <1>2, Path
    <3>3. handler \in [Handlers -> HandlerState]  BY DEF TypeOK
    <3>4. Done.pc # "taking"  BY IdleTypes
    <3>5. claim' = claim /\ claim[e].state = "processing" /\ claim[e].stale /\ handler'[h].gen = claim[e].gen
      BY <3>2, <3>3, <3>4, <1>2 DEF ClaimEvent, HandlerState
    <3>. QED  BY <3>5, <2>1
  <2>. QED  BY <2>2, <2>3
<1>. QED  BY <1>1, <1>2 DEF LeaseWasRead, At

LEMMA LeaseHeldStep ==
    ASSUME TypeOK, HandlersCoherent, LeaseWasRead, LeaseHeld, Next
    PROVE  LeaseHeld'
<1>1. ASSUME NEW h \in Handlers, handler'[h].pc \in Holding PROVE claim'[handler'[h].event].state # "none"
  <2>1. CASE handler[h].pc \in Holding /\ handler'[h].event = handler[h].event
    <3>1. handler[h].event \in Events  BY <2>1, HandlerBefore DEF Coherent, Holding
    <3>2. claim[handler[h].event].state # "none"  BY <2>1 DEF LeaseHeld
    <3>. QED  BY <2>1, <3>1, <3>2, ClaimEffect
  <2>2. CASE HandlerStep(h) /\ handler[h].pc \notin Holding
    <3>1. /\ ClaimEvent(h) \/ TakeLease(h)
          /\ handler'[h].event = handler[h].event /\ handler[h].event \in Events
      BY <1>1, <2>2, Path
    <3>2. claim \in [Events -> ClaimState] /\ handler \in [Handlers -> HandlerState]  BY DEF TypeOK
    <3>3. Done.pc \notin Holding /\ "taking" \notin Holding  BY IdleTypes DEF Holding
    <3>4. CASE ClaimEvent(h)  BY <1>1, <3>1, <3>2, <3>3, <3>4 DEF ClaimEvent, HandlerState
    <3>5. CASE TakeLease(h)  BY <1>1, <3>1, <3>2, <3>3, <3>5 DEF TakeLease, HandlerState
    <3>. QED  BY <3>1, <3>4, <3>5
  <2>3. CASE HandlerStep(h)  BY <1>1, <2>1, <2>2, <2>3, Path
  <2>4. CASE ~HandlerStep(h)
    <3>1. handler'[h] = handler[h]  BY <2>4, OutsideStep, OtherHandlers DEF Next
    <3>. QED  BY <3>1, <2>1, <1>1
  <2>. QED  BY <2>3, <2>4
<1>2. ASSUME NEW g \in Handlers, NEW h \in Handlers, NEW e \in Events, e \notin stolen',
             g # h, Holds(g, e)', Holds(h, e)', HandlerStep(h)
      PROVE  FALSE
  <2>1. handler'[g] = handler[g]  BY <1>2, OtherHandlers
  <2>2. Holds(g, e)  BY <1>2, <2>1 DEF Holds
  <2>3. handler[h].event = e /\ (handler[h].pc \in Holding \/ ClaimEvent(h) \/ TakeLease(h))
    BY <1>2, Path DEF Holds
  <2>4. CASE handler[h].pc \in Holding
    <3>1. e \notin stolen
      <4>1. CASE TakeLease(h)  BY <4>1, <1>2 DEF TakeLease
      <4>2. CASE ~TakeLease(h)  BY <4>2, <1>2, Frames
      <4>. QED  BY <4>1, <4>2
    <3>. QED  BY <3>1, <2>2, <2>3, <2>4, <1>2 DEF LeaseHeld, Holds
  <2>5. CASE ClaimEvent(h)
    <3>1. claim[e].state # "none"  BY <2>2 DEF LeaseHeld, Holds
    <3>2. handler'[h] = Done \/ handler'[h].pc = "taking"
      BY <2>3, <2>5, <3>1 DEF ClaimEvent, TypeOK, HandlerState
    <3>3. Done.pc \notin Holding /\ "taking" \notin Holding  BY IdleTypes DEF Holding
    <3>. QED  BY <3>2, <3>3, <1>2 DEF Holds
  <2>6. CASE TakeLease(h)
    <3>1. claim[e].gen = handler[h].gen
      <4>1. Done.pc \notin Holding  BY IdleTypes DEF Holding
      <4>. QED  BY <4>1, <1>2, <2>3, <2>6 DEF TakeLease, Holds, TypeOK
    <3>2. g \in Working(e)  BY <2>2 DEF Working, Holds
    <3>. QED  BY <3>1, <3>2, <2>3, <2>6, <1>2 DEF TakeLease
  <2>. QED  BY <2>3, <2>4, <2>5, <2>6
<1>3. ASSUME NEW g \in Handlers, NEW h \in Handlers, NEW e \in Events, e \notin stolen', Holds(g, e)', Holds(h, e)'
      PROVE  g = h
  <2>1. CASE HandlerStep(g) \/ HandlerStep(h)  BY <2>1, <1>2, <1>3
  <2>2. CASE ~HandlerStep(g) /\ ~HandlerStep(h)
    <3>1. handler'[g] = handler[g] /\ handler'[h] = handler[h]
      BY <2>2, OutsideStep, OtherHandlers DEF Next
    <3>2. e \notin stolen
      <4>1. CASE \E k \in Handlers : TakeLease(k)  BY <4>1, <1>3 DEF TakeLease
      <4>2. CASE ~ \E k \in Handlers : TakeLease(k)  BY <4>2, <1>3, Frames, OutsideStep
      <4>. QED  BY <4>1, <4>2
    <3>. QED  BY <3>1, <3>2, <1>3 DEF LeaseHeld, Holds
  <2>. QED  BY <2>1, <2>2
<1>. QED  BY <1>1, <1>3 DEF LeaseHeld, Holds

-----------------------------------------------------------------------------
(***************************************************************************)
(* Tasks and their dispatch.                                               *)
(***************************************************************************)

\* A dispatch counts a run of the handler's task, or leaves things as they are.
LEMMA DispatchEffect ==
    ASSUME TypeOK, HandlersCoherent, NEW h \in Handlers, Dispatch(h)
    PROVE  LET e == handler[h].event
           IN  /\ e \in Events
               /\ \/ UNCHANGED <<job, dispatches>>
                  \/ /\ \A d \in Events : d # e => dispatches'[d] = dispatches[d] /\ job'[d] = job[d]
                     /\ dispatches'[e] > 0 /\ (dispatches[e] = 0 => dispatches'[e] = 1)
<1>. DEFINE e == handler[h].event
<1>1. e \in Events  BY HandlerBefore DEF Dispatch, At, Coherent
<1>2. dispatches \in [Events -> 0..2] /\ job \in [Events -> {"none", "waiting", "working", "over"}]
  BY DEF TypeOK
<1>3. CASE UNCHANGED work  BY <1>1, <1>3 DEF work
<1>4. CASE ~UNCHANGED work
  <2>1. /\ dispatches' = [dispatches EXCEPT ![e] = IF @ < 2 THEN @ + 1 ELSE @]
        /\ job' = [job EXCEPT ![e] = IF @ = "working" THEN @ ELSE "waiting"]
    BY <1>4 DEF Dispatch
  <2>2. dispatches[e] \in 0..2  BY <1>1, <1>2
  <2>. QED  BY <1>1, <1>2, <2>1, <2>2
<1>. QED  BY <1>3, <1>4

\* What a step does to the dispatches and the job of one event.
LEMMA WorkEffect ==
    ASSUME TypeOK, HandlersCoherent, DispatchesCounted, Next, NEW e \in Events
    PROVE  \/ /\ dispatches'[e] = dispatches[e]
              /\ job'[e] # "none" => job[e] # "none"
           \/ /\ \E h \in Handlers : Dispatch(h) /\ handler[h].event = e
              /\ dispatches'[e] > 0 /\ (dispatches[e] = 0 => dispatches'[e] = 1)
<1>1. CASE \E h \in Handlers : Dispatch(h)
  <2>1. PICK h \in Handlers : Dispatch(h)  BY <1>1
  <2>. QED  BY <2>1, DispatchEffect
<1>2. CASE \E d \in Events : Work(d)
  <2>1. PICK d \in Events : Work(d)  BY <1>2
  <2>2. UNCHANGED dispatches /\ job[d] # "none" /\ \E w \in {"working", "over"} : job' = [job EXCEPT ![d] = w]
    BY <2>1 DEF Work
  <2>. QED  BY <2>2 DEF TypeOK
<1>3. CASE \E d \in Events : LeaseExpires(d)  BY <1>3 DEF LeaseExpires, history
<1>4. CASE \E h \in Handlers : HandlerStep(h) /\ ~Dispatch(h)
  <2>1. UNCHANGED <<job, dispatches>>  BY <1>4, Frames
  <2>. QED  BY <2>1
<1>. QED  BY <1>1, <1>2, <1>3, <1>4 DEF Next

\* What Submit stores, or finds.
LEMMA SubmitEffect ==
    ASSUME TypeOK, HandlersCoherent, NEW h \in Handlers, Submit(h)
    PROVE  LET e == handler[h].event
           IN  /\ e \in Events
               /\ \A d \in Events : d # e => task'[d] = task[d]
               /\ handler'[h].pc = "dispatching" =>
                     /\ task[e].status = "absent"
                     /\ task'[e].status = "queued" /\ task'[e].request = handler[h].request
               /\ handler'[h].pc = "linking" =>
                     task[e].status # "absent" /\ task' = task /\ task[e].request = handler[h].request
               /\ task[e].status = "absent" => handler'[h].pc = "dispatching"
               /\ handler'[h].pc \in {"dispatching", "linking"} =>
                     handler'[h].event = e /\ handler'[h].request = handler[h].request
<1>. DEFINE e == handler[h].event
<1>1. e \in Events  BY HandlerBefore DEF Submit, At, Coherent
<1>2. task \in [Events -> TaskState] /\ handler \in [Handlers -> HandlerState]  BY DEF TypeOK
<1>3. CASE task[e].status = "absent"
  <2>1. /\ task' = [task EXCEPT ![e] = [status |-> "queued", request |-> handler[h].request]]
        /\ Goto(h, "dispatching")
    BY <1>3 DEF Submit
  <2>. QED  BY <1>1, <1>2, <1>3, <2>1 DEF Goto, HandlerState
<1>4. CASE task[e].status # "absent" /\ task[e].request = handler[h].request
  <2>1. task' = task /\ Goto(h, "linking")  BY <1>4 DEF Submit
  <2>. QED  BY <1>1, <1>2, <1>4, <2>1 DEF Goto, HandlerState
<1>5. CASE task[e].status # "absent" /\ task[e].request # handler[h].request
  <2>1. task' = task /\ Leave(h)  BY <1>5 DEF Submit
  <2>2. handler'[h].pc = "done"  BY <2>1, <1>2, IdleTypes DEF Leave
  <2>. QED  BY <1>1, <1>5, <2>1, <2>2
<1>. QED  BY <1>3, <1>4, <1>5

LEMMA DispatchesCountedStep ==
    ASSUME TypeOK, HandlersCoherent, LeaseHeld, DispatchesCounted, Submitted, Next
    PROVE  DispatchesCounted'
<1>1. ASSUME NEW e \in Events, task'[e].status = "absent" PROVE dispatches'[e] = 0
  <2>1. task[e].status = "absent"  BY <1>1, TaskEffect
  <2>2. ~ \E h \in Handlers : Dispatch(h) /\ handler[h].event = e  BY <2>1 DEF Submitted, Dispatch, At
  <2>3. dispatches[e] = 0  BY <2>1 DEF DispatchesCounted
  <2>. QED  BY <2>2, <2>3, WorkEffect
<1>2. ASSUME NEW e \in Events, job'[e] # "none" PROVE dispatches'[e] > 0
  BY <1>2, WorkEffect DEF DispatchesCounted
<1>3. \A e \in Events : e \notin stolen' => e \notin stolen
  <2>1. CASE \E h \in Handlers : TakeLease(h)  BY <2>1 DEF TakeLease
  <2>2. CASE ~ \E h \in Handlers : TakeLease(h)  BY <2>2, Frames, OutsideStep
  <2>. QED  BY <2>1, <2>2
<1>4. ASSUME NEW e \in Events, e \notin stolen' PROVE dispatches'[e] <= 1
  <2>1. dispatches[e] <= 1  BY <1>3, <1>4 DEF DispatchesCounted
  <2>2. CASE \E h \in Handlers : Dispatch(h) /\ handler[h].event = e
    <3>1. dispatches[e] = 0  BY <1>3, <1>4, <2>2 DEF DispatchesCounted, Dispatch
    <3>. QED  BY <3>1, WorkEffect
  <2>3. CASE ~ \E h \in Handlers : Dispatch(h) /\ handler[h].event = e  BY <2>1, <2>3, WorkEffect
  <2>. QED  BY <2>2, <2>3
<1>5. ASSUME NEW h \in Handlers, NEW e \in Events, e \notin stolen',
             handler'[h].pc = "dispatching", handler'[h].event = e
      PROVE  dispatches'[e] = 0
  <2>1. CASE HandlerStep(h)
    <3>1. Submit(h)  BY <1>5, <2>1, Path
    <3>2. handler[h].event = e /\ task[e].status = "absent"  BY <3>1, <1>5, SubmitEffect
    <3>3. dispatches[e] = 0  BY <3>2 DEF DispatchesCounted
    <3>4. ~ \E g \in Handlers : Dispatch(g) /\ handler[g].event = e  BY <3>2 DEF Submitted, Dispatch, At
    <3>. QED  BY <3>3, <3>4, WorkEffect
  <2>2. CASE ~HandlerStep(h)
    <3>1. handler'[h] = handler[h]  BY <2>2, OutsideStep, OtherHandlers DEF Next
    <3>2. dispatches[e] = 0 /\ e \notin stolen  BY <3>1, <1>3, <1>5 DEF DispatchesCounted, At
    <3>3. ASSUME NEW g \in Handlers, Dispatch(g), handler[g].event = e PROVE FALSE
      <4>1. g # h  BY <2>2, <3>3 DEF HandlerStep
      <4>2. Holds(g, e) /\ Holds(h, e)  BY <3>1, <3>3, <1>5 DEF Holds, Holding, Dispatch, At
      <4>. QED  BY <4>1, <4>2, <3>2 DEF LeaseHeld
    <3>. QED  BY <3>2, <3>3, WorkEffect
  <2>. QED  BY <2>1, <2>2
<1>. QED  BY <1>1, <1>2, <1>4, <1>5 DEF DispatchesCounted, At

LEMMA SubmittedStep ==
    ASSUME TypeOK, HandlersCoherent, Submitted, Next
    PROVE  Submitted'
<1>1. ASSUME NEW h \in Handlers, handler'[h].pc \in {"dispatching", "failing", "linking"}
      PROVE  /\ task'[handler'[h].event].status # "absent"
             /\ task'[handler'[h].event].request.conv = handler'[h].request.conv
  <2>1. CASE /\ handler[h].pc \in {"dispatching", "failing", "linking"}
             /\ handler'[h].event = handler[h].event /\ handler'[h].request = handler[h].request
    <3>1. handler[h].event \in Events  BY <2>1, HandlerBefore DEF Coherent
    <3>2. /\ task[handler[h].event].status # "absent"
          /\ task[handler[h].event].request.conv = handler[h].request.conv
      BY <2>1 DEF Submitted
    <3>. QED  BY <2>1, <3>1, <3>2, TaskEffect
  <2>2. CASE HandlerStep(h)
    <3>1. Submit(h) \/ Dispatch(h)  BY <1>1, <2>2, Path
    <3>2. CASE Submit(h)
      <4>1. handler'[h].pc \in {"dispatching", "linking"}
        <5>1. handler'[h].pc # "failing"  BY <2>2, <3>2, Path DEF Dispatch, Submit, At
        <5>. QED  BY <5>1, <1>1
      <4>. QED  BY <3>2, <4>1, SubmitEffect
    <3>3. CASE Dispatch(h)
      <4>1. /\ handler[h].pc = "dispatching" /\ handler'[h].event = handler[h].event
            /\ handler'[h].request = handler[h].request
        BY <3>3 DEF Dispatch, At, Goto, TypeOK, HandlerState
      <4>. QED  BY <4>1, <2>1
    <3>. QED  BY <3>1, <3>2, <3>3
  <2>3. CASE ~HandlerStep(h)
    <3>1. handler'[h] = handler[h]  BY <2>3, OutsideStep, OtherHandlers DEF Next
    <3>. QED  BY <3>1, <2>1, <1>1
  <2>. QED  BY <2>2, <2>3
<1>. QED  BY <1>1 DEF Submitted

LEMMA TasksAccountedStep ==
    ASSUME TypeOK, HandlersCoherent, DispatchesCounted, Submitted, TasksAccounted, Next
    PROVE  TasksAccounted'
<1>. SUFFICES ASSUME NEW e \in Events, e \notin crashed',
                     task'[e].status # "absent", task'[e].status # "failed", dispatches'[e] = 0
              PROVE  \E h \in Handlers : Starting(h, e)'
  BY DEF TasksAccounted
<1>1. task \in [Events -> TaskState] /\ handler \in [Handlers -> HandlerState]  BY DEF TypeOK
<1>2. e \notin crashed
  <2>1. CASE \E h \in Handlers : Crash(h)  BY <2>1 DEF Crash
  <2>2. CASE ~ \E h \in Handlers : Crash(h)  BY <2>2, Frames, OutsideStep
  <2>. QED  BY <2>1, <2>2
<1>3. dispatches[e] = 0 /\ job[e] = "none"
  <2>1. dispatches'[e] = dispatches[e]  BY WorkEffect
  <2>. QED  BY <2>1 DEF DispatchesCounted
<1>4. CASE task'[e] # task[e]
  <2>1. ~ \E d \in Events : LeaseExpires(d)  BY <1>4 DEF LeaseExpires
  <2>2. ASSUME NEW d \in Events, Work(d) PROVE FALSE
    <3>1. CASE d = e  BY <3>1, <2>2, <1>3 DEF Work
    <3>2. CASE d # e  BY <3>2, <2>2, <1>1, <1>4 DEF Work
    <3>. QED  BY <3>1, <3>2
  <2>3. PICK h \in Handlers : HandlerStep(h)  BY <2>1, <2>2 DEF Next
  <2>4. Submit(h) \/ DispatchFail(h)  BY <2>3, <1>4, Frames
  <2>5. ~DispatchFail(h)
    <3>1. SUFFICES ASSUME DispatchFail(h) PROVE FALSE  OBVIOUS
    <3>2. handler[h].event \in Events  BY <3>1, HandlerBefore DEF DispatchFail, At, Coherent
    <3>3. task' = [task EXCEPT ![handler[h].event].status = "failed"]  BY <3>1 DEF DispatchFail
    <3>4. handler[h].event = e  BY <3>2, <3>3, <1>1, <1>4
    <3>. QED  BY <3>3, <3>4, <1>1 DEF TaskState
  <2>6. handler[h].event = e  BY <2>4, <2>5, <1>4, SubmitEffect
  <2>7. task[e].status = "absent"
    <3>1. CASE task[e].status # "absent"
      <4>1. task' = task  BY <3>1, <2>4, <2>5, <2>6 DEF Submit
      <4>. QED  BY <4>1, <1>4
    <3>. QED  BY <3>1
  <2>8. handler'[h].pc = "dispatching" /\ handler'[h].event = e  BY <2>4, <2>5, <2>6, <2>7, SubmitEffect
  <2>. QED  BY <2>8 DEF Starting
<1>5. CASE task'[e] = task[e]
  <2>1. PICK h \in Handlers : Starting(h, e)  BY <1>2, <1>3, <1>5 DEF TasksAccounted
  <2>2. CASE handler'[h] = handler[h]  BY <2>1, <2>2 DEF Starting
  <2>3. CASE handler'[h] # handler[h]
    <3>1. HandlerStep(h)  BY <2>3, OutsideStep, OtherHandlers DEF Next
    <3>2. At(h, "dispatching") \/ At(h, "failing")  BY <2>1 DEF Starting, At
    <3>3. Dispatch(h) \/ DispatchFail(h) \/ Crash(h)
      BY <3>1, <3>2 DEF HandlerStep, Deliver, ClaimEvent, TakeLease, Begin, NameSession, LookUp, Note,
                        AppendTurn, MarkRecorded, Compose, Submit, LinkTask, Complete, Raise, At, Holding
    <3>4. CASE Dispatch(h)
      <4>1. UNCHANGED <<job, dispatches>>  BY <3>4, <2>1, <1>3, DispatchEffect DEF Starting
      <4>2. dispatches[e] \in 0..2  BY DEF TypeOK
      <4>3. handler'[h].event = e /\ handler'[h].pc \in {"failing", "linking"}
        BY <3>4, <2>1, <1>1 DEF Dispatch, Goto, HandlerState, Starting
      <4>4. handler'[h].pc # "linking"
        <5>. SUFFICES ASSUME handler'[h].pc = "linking" PROVE FALSE  OBVIOUS
        <5>1. ~Goto(h, "failing")  BY <1>1 DEF Goto, HandlerState
        <5>2. dispatches' = [dispatches EXCEPT ![handler[h].event] = IF @ < 2 THEN @ + 1 ELSE @]
          BY <3>4, <5>1 DEF Dispatch
        <5>3. handler[h].event = e  BY <2>1 DEF Starting
        <5>4. dispatches'[e] = IF dispatches[e] < 2 THEN dispatches[e] + 1 ELSE dispatches[e]
          BY <5>2, <5>3 DEF TypeOK
        <5>. QED  BY <5>4, <4>1, <4>2
      <4>. QED  BY <4>3, <4>4 DEF Starting
    <3>5. CASE DispatchFail(h)
      <4>1. task'[e].status = "failed"
        BY <3>5, <2>1, <1>1 DEF DispatchFail, Starting, TaskState
      <4>. QED  BY <4>1
    <3>6. CASE Crash(h)  BY <3>6, <2>1 DEF Crash, Starting
    <3>. QED  BY <3>3, <3>4, <3>5, <3>6
  <2>. QED  BY <2>2, <2>3
<1>. QED  BY <1>4, <1>5

LEMMA QuestionsHaveTasksStep ==
    ASSUME TypeOK, HandlersCoherent, LeaseWasRead, Submitted, PointersResolve, QuestionsHaveTasks, Next
    PROVE  QuestionsHaveTasks'
<1>1. ASSUME NEW e \in Events, Asks(e), claim'[e].state = "completed" PROVE task'[e].status # "absent"
  <2>1. claim[e].state = "completed" \/ \E h \in Handlers : Complete(h) /\ handler[h].event = e
    BY <1>1, ClaimEffect
  <2>2. task[e].status # "absent"  BY <1>1, <2>1 DEF QuestionsHaveTasks, Complete
  <2>. QED  BY <2>2, TaskEffect
<1>2. ASSUME NEW h \in Handlers, handler'[h].pc = "completing", Asks(handler'[h].event)
      PROVE  task'[handler'[h].event].status # "absent"
  <2>. DEFINE e == handler[h].event
  <2>0. handler \in [Handlers -> HandlerState]  BY DEF TypeOK
  <2>1. CASE HandlerStep(h)
    <3>1. /\ Begin(h) \/ NameSession(h) \/ LookUp(h) \/ MarkRecorded(h) \/ LinkTask(h)
          /\ handler'[h].event = e /\ e \in Events
      BY <1>2, <2>1, Path DEF Holding
    <3>2. CASE e \in eventTask
      <4>1. task[e].status # "absent"  BY <3>1, <3>2 DEF PointersResolve
      <4>. QED  BY <3>1, <4>1, TaskEffect
    <3>3. CASE Begin(h) /\ e \notin eventTask
      <4>1. handler'[h].pc \in {"naming", "asking"}
        <5>1. CASE KindOf[e] \in SessionKinds  BY <5>1, <3>3, <2>0 DEF Begin, SessionKinds, HandlerState
        <5>2. CASE KindOf[e] \notin SessionKinds  BY <5>2, <3>3, <2>0 DEF Begin, HandlerState
        <5>. QED  BY <5>1, <5>2
      <4>. QED  BY <4>1, <1>2
    <3>4. CASE NameSession(h) /\ e \notin eventTask
      <4>1. KindOf[e] \in SessionKinds  BY <3>4, HandlerBefore DEF NameSession, At, Coherent
      <4>2. KindOf[e] = "session_ask"  BY <4>1, <3>1, <1>2 DEF Asks, SessionKinds
      <4>3. handler'[h].pc = "asking"  BY <3>4, <4>2, <2>0 DEF NameSession, HandlerState
      <4>. QED  BY <4>3, <1>2
    <3>5. CASE LookUp(h)  BY <3>5, <3>1, <1>2, LookUpEffect
    <3>6. CASE MarkRecorded(h)
      <4>1. KindOf[e] # "status"  BY <3>1, <1>2 DEF Asks
      <4>2. handler'[h].pc = "composing"  BY <3>6, <4>1, <2>0 DEF MarkRecorded, MarkedGoto, HandlerState
      <4>. QED  BY <4>2, <1>2
    <3>7. CASE LinkTask(h)
      <4>1. task[e].status # "absent"  BY <3>7 DEF LinkTask, Submitted, At
      <4>. QED  BY <3>1, <4>1, TaskEffect
    <3>. QED  BY <3>1, <3>2, <3>3, <3>4, <3>5, <3>6, <3>7
  <2>2. CASE ~HandlerStep(h)
    <3>1. handler'[h] = handler[h]  BY <2>2, OutsideStep, OtherHandlers DEF Next
    <3>2. e \in Events  BY <3>1, <1>2, HandlerBefore DEF Coherent
    <3>3. task[e].status # "absent"  BY <3>1, <1>2 DEF QuestionsHaveTasks, At
    <3>. QED  BY <3>1, <3>2, <3>3, TaskEffect
  <2>. QED  BY <2>1, <2>2
<1>. QED  BY <1>1, <1>2 DEF QuestionsHaveTasks, At, Asks

-----------------------------------------------------------------------------
(***************************************************************************)
(* Conversations.                                                          *)
(***************************************************************************)

\* A torn conversation stays so, and whoever writes a record anew or is cut short while it
\* records tears the conversation.
LEMMA TornGrows ==
    ASSUME Next
    PROVE  /\ \A c \in torn : c \in torn'
           /\ \A h \in Handlers : LinkTask(h) \/ Raise(h) \/ Crash(h) =>
                 (At(h, "linking") /\ record[handler[h].event].conv # None => record[handler[h].event].conv \in torn')
           /\ \A h \in Handlers : Raise(h) \/ Crash(h) =>
                 (handler[h].pc \in Recording /\ record[handler[h].recording].conv # None =>
                    record[handler[h].recording].conv \in torn')
<1>1. \A h \in Handlers : LookUp(h) \/ LinkTask(h) \/ Raise(h) \/ Crash(h) => \A c \in torn : c \in torn'
  BY DEF LookUp, LinkTask, Raise, Crash, Cut
<1>2. \A c \in torn : c \in torn'
  <2>1. CASE UNCHANGED torn  BY <2>1
  <2>. QED  BY <2>1, <1>1, Frames, OutsideStep
<1>3. \A h \in Handlers : LinkTask(h) \/ Raise(h) \/ Crash(h) =>
         (At(h, "linking") /\ record[handler[h].event].conv # None => record[handler[h].event].conv \in torn')
  BY DEF LinkTask, Raise, Crash, Cut, Tears
<1>4. \A h \in Handlers : Raise(h) \/ Crash(h) =>
         (handler[h].pc \in Recording /\ record[handler[h].recording].conv # None =>
            record[handler[h].recording].conv \in torn')
  BY DEF Raise, Crash, Cut
<1>. QED  BY <1>2, <1>3, <1>4

\* A handler that records has looked the record up, or was recording it before.
LEMMA RecordingMove ==
    ASSUME TypeOK, HandlersCoherent, NEW h \in Handlers, HandlerStep(h), handler'[h].pc \in Recording
    PROVE  /\ UNCHANGED record
           /\ \/ LookUp(h) /\ handler'[h].pc = "noting"
              \/ /\ Note(h) \/ AppendTurn(h)
                 /\ handler[h].pc \in Recording /\ handler'[h].recording = handler[h].recording
<1>0. handler \in [Handlers -> HandlerState]  BY DEF TypeOK
<1>1. LookUp(h) \/ Note(h) \/ AppendTurn(h)  BY Path
<1>2. CASE LookUp(h)
  <2>1. handler'[h].pc = "noting"  BY <1>2, LookUpEffect DEF Recording
  <2>. QED  BY <2>1, <1>2 DEF LookUp, store
<1>3. CASE Note(h)
  <2>1. handler[h].pc \in Recording /\ handler'[h].recording = handler[h].recording
    BY <1>0, <1>3 DEF Note, At, Recording, HandlerState
  <2>. QED  BY <2>1, <1>3 DEF Note, store
<1>4. CASE AppendTurn(h)
  <2>1. handler[h].pc \in Recording /\ handler'[h].recording = handler[h].recording
    BY <1>0, <1>4 DEF AppendTurn, At, Recording, HandlerState
  <2>. QED  BY <2>1, <1>4 DEF AppendTurn
<1>. QED  BY <1>1, <1>2, <1>3, <1>4

LEMMA RecordsAgreeStep ==
    ASSUME TypeOK, HandlersCoherent, Submitted, PointersResolve, RecordsAgree, Next
    PROVE  RecordsAgree'
<1>1. \A e \in Events : record'[e].conv # None => record'[e].conv = task'[e].request.conv  BY RecordsStep
<1>2. ASSUME NEW h \in Handlers, handler'[h].pc \in Recording PROVE record'[handler'[h].recording].conv # None
  <2>1. CASE handler[h].pc \in Recording /\ handler'[h].recording = handler[h].recording
    <3>1. handler[h].recording \in Events  BY <2>1, HandlerBefore DEF Coherent
    <3>2. record[handler[h].recording].conv # None  BY <2>1 DEF RecordsAgree
    <3>. QED  BY <2>1, <3>1, <3>2, RecordsStep
  <2>2. CASE HandlerStep(h) /\ LookUp(h) /\ handler'[h].pc = "noting"
    <3>1. UNCHANGED record  BY <1>2, <2>2, RecordingMove
    <3>2. record[handler'[h].recording].conv = session.active  BY <2>2, LookUpEffect
    <3>3. session.active # None  BY SessionsAreEvents DEF TypeOK
    <3>. QED  BY <3>1, <3>2, <3>3
  <2>3. CASE ~HandlerStep(h)
    <3>1. handler'[h] = handler[h]  BY <2>3, OutsideStep, OtherHandlers DEF Next
    <3>. QED  BY <3>1, <2>1, <1>2
  <2>. QED  BY <2>1, <2>2, <2>3, <1>2, RecordingMove
<1>. QED  BY <1>1, <1>2 DEF RecordsAgree

\* AppendTurn stores its copy and the exchange in the conversation of the record.
LEMMA AppendEffect ==
    ASSUME TypeOK, HandlersCoherent, RecordsAgree, NEW h \in Handlers, AppendTurn(h)
    PROVE  LET r == handler[h].recording
               c == record[r].conv
           IN  /\ r \in Events /\ c \in Sessions /\ handler[h].copy \in Turns
               /\ turns'[c] = AppendBounded(handler[h].copy, r)
               /\ \A d \in Sessions : d # c => turns'[d] = turns[d]
               /\ handler'[h].pc = "marking" /\ handler'[h].recording = r
               /\ UNCHANGED <<record, torn>>
<1>1. handler[h].recording \in Events /\ handler[h].copy \in Turns /\ handler[h].pc = "appending"
  BY HandlerBefore DEF AppendTurn, At, Coherent, Recording
<1>2. record[handler[h].recording].conv \in Sessions  BY <1>1 DEF RecordsAgree, Recording, TypeOK
<1>3. handler'[h].pc = "marking" /\ handler'[h].recording = handler[h].recording
  BY DEF AppendTurn, TypeOK, HandlerState
<1>4. UNCHANGED <<record, torn>>  BY DEF AppendTurn, history
<1>5. turns \in [Sessions -> Turns]  BY DEF TypeOK
<1>. QED  BY <1>1, <1>2, <1>3, <1>4, <1>5 DEF AppendTurn

LEMMA TurnsIsolatedStep ==
    ASSUME TypeOK, HandlersCoherent, Submitted, PointersResolve, RecordsAgree, TurnsIsolated, Next
    PROVE  TurnsIsolated'
<1>0. \A s \in Turns : \A i \in DOMAIN s : s[i] \in Events  BY TurnsAreSequences
<1>1. ASSUME NEW c \in Sessions, NEW i \in DOMAIN turns'[c] PROVE record'[turns'[c][i]].conv = c
  <2>1. CASE turns'[c] = turns[c]
    <3>1. record[turns[c][i]].conv = c  BY <1>1, <2>1 DEF TurnsIsolated
    <3>2. turns[c] \in Turns  BY DEF TypeOK
    <3>3. turns[c][i] \in Events  BY <3>2, <2>1, <1>0, <1>1
    <3>4. c # None  BY SessionsAreEvents
    <3>. QED  BY <3>1, <3>3, <3>4, <2>1, RecordsStep
  <2>2. CASE turns'[c] # turns[c]
    <3>1. PICK h \in Handlers : AppendTurn(h)  BY <2>2, Frames, OutsideStep
    <3>. DEFINE r == handler[h].recording
                copy == handler[h].copy
    <3>2. /\ r \in Events /\ copy \in Turns /\ c = record[r].conv
          /\ turns'[c] = AppendBounded(copy, r) /\ UNCHANGED record
      BY <2>2, <3>1, AppendEffect
    <3>3. turns'[c][i] = r \/ \E j \in DOMAIN copy : turns'[c][i] = copy[j]  BY <3>2, <1>1, AppendedTimes
    <3>4. \A j \in DOMAIN copy : record[copy[j]].conv = c  BY <3>1, <3>2 DEF AppendTurn, TurnsIsolated
    <3>. HIDE DEF r, copy
    <3>. QED  BY <3>2, <3>3, <3>4
  <2>. QED  BY <2>1, <2>2
<1>2. ASSUME NEW h \in Handlers, handler'[h].pc = "appending", NEW i \in DOMAIN handler'[h].copy
      PROVE  record'[handler'[h].copy[i]].conv = record'[handler'[h].recording].conv
  <2>1. CASE HandlerStep(h)
    <3>1. Note(h)
      <4>1. handler'[h].pc \in Recording  BY <1>2 DEF Recording
      <4>. QED  BY <4>1, <2>1, <1>2, RecordingMove, AppendEffect
    <3>2. UNCHANGED record /\ handler[h].pc \in Recording  BY <3>1 DEF Note, store, At, Recording
    <3>3. /\ handler'[h].copy = turns[record[handler[h].recording].conv]
          /\ handler'[h].recording = handler[h].recording
      BY <3>1 DEF Note, TypeOK, HandlerState
    <3>4. handler[h].recording \in Events  BY <3>2, HandlerBefore DEF Coherent
    <3>5. record[handler[h].recording].conv \in Sessions
      BY <3>2, <3>4 DEF RecordsAgree, TypeOK
    <3>. QED  BY <3>2, <3>3, <3>5, <1>2 DEF TurnsIsolated
  <2>2. CASE ~HandlerStep(h)
    <3>1. handler'[h] = handler[h]  BY <2>2, OutsideStep, OtherHandlers DEF Next
    <3>2. handler[h].pc \in Recording  BY <3>1, <1>2 DEF Recording
    <3>3. handler[h].recording \in Events /\ handler[h].copy \in Turns  BY <3>2, HandlerBefore DEF Coherent
    <3>4. handler[h].copy[i] \in Events  BY <3>1, <3>3, <1>0, <1>2
    <3>5. record[handler[h].copy[i]].conv = record[handler[h].recording].conv
      BY <3>1, <1>2 DEF TurnsIsolated, At
    <3>6. record[handler[h].recording].conv # None  BY <3>2 DEF RecordsAgree
    <3>. QED  BY <3>1, <3>3, <3>4, <3>5, <3>6, RecordsStep
  <2>. QED  BY <2>1, <2>2
<1>. QED  BY <1>1, <1>2 DEF TurnsIsolated, At

\* Whoever records in a conversation that is not torn did so before, or has just looked the
\* record up, and then nobody else does.
LEMMA RecordsInBefore ==
    ASSUME TypeOK, HandlersCoherent, Submitted, PointersResolve, RecordsAgree, Next,
           NEW c \in Sessions, c \notin torn', NEW h \in Handlers, RecordsIn(h, c)'
    PROVE  \/ /\ RecordsIn(h, c) /\ handler'[h].recording = handler[h].recording
           \/ /\ HandlerStep(h) /\ LookUp(h) /\ handler'[h].pc = "noting" /\ session.active = c
              /\ \A g \in Handlers : RecordsIn(g, c) => g = h
<1>0. handler'[h].pc \in Recording /\ record'[handler'[h].recording].conv = c  BY DEF RecordsIn
<1>1. CASE handler[h].pc \in Recording /\ handler'[h].recording = handler[h].recording
  <2>1. handler[h].recording \in Events  BY <1>1, HandlerBefore DEF Coherent
  <2>2. record[handler[h].recording].conv # None  BY <1>1 DEF RecordsAgree
  <2>3. record[handler[h].recording].conv = c  BY <1>0, <1>1, <2>1, <2>2, RecordsStep
  <2>. QED  BY <2>3, <1>1 DEF RecordsIn
<1>2. CASE HandlerStep(h) /\ LookUp(h) /\ handler'[h].pc = "noting"
  <2>1. UNCHANGED record  BY <1>0, <1>2, RecordingMove
  <2>2. /\ record[handler'[h].recording].conv = session.active
        /\ (\E g \in Handlers \ {h} : RecordsIn(g, session.active)) => session.active \in torn'
    BY <1>2, LookUpEffect
  <2>3. session.active = c  BY <2>1, <2>2, <1>0
  <2>. QED  BY <2>2, <2>3, <1>2
<1>3. CASE ~HandlerStep(h)
  <2>1. handler'[h] = handler[h]  BY <1>3, OutsideStep, OtherHandlers DEF Next
  <2>. QED  BY <2>1, <1>0, <1>1
<1>. QED  BY <1>0, <1>1, <1>2, <1>3, RecordingMove

\* A record is marked by the handler that recorded it, or written anew by one that links its
\* task; neither touches a conversation.
LEMMA RecordEffect ==
    ASSUME TypeOK, HandlersCoherent, Submitted, PointersResolve, RecordsAgree, Next, NEW e \in Events
    PROVE  \/ record'[e] = record[e]
           \/ \E h \in Handlers :
                 /\ MarkRecorded(h) \/ Raise(h) \/ Crash(h)
                 /\ At(h, "marking") /\ handler[h].recording = e /\ UNCHANGED turns
                 /\ record'[e].conv = record[e].conv /\ record'[e].recorded
           \/ \E h \in Handlers :
                 /\ LinkTask(h) \/ Raise(h) \/ Crash(h)
                 /\ At(h, "linking") /\ handler[h].event = e /\ UNCHANGED turns
                 /\ ~record'[e].recorded
<1>. SUFFICES ASSUME record'[e] # record[e] PROVE
           \/ \E h \in Handlers :
                 /\ MarkRecorded(h) \/ Raise(h) \/ Crash(h)
                 /\ At(h, "marking") /\ handler[h].recording = e /\ UNCHANGED turns
                 /\ record'[e].conv = record[e].conv /\ record'[e].recorded
           \/ \E h \in Handlers :
                 /\ LinkTask(h) \/ Raise(h) \/ Crash(h)
                 /\ At(h, "linking") /\ handler[h].event = e /\ UNCHANGED turns
                 /\ ~record'[e].recorded
  OBVIOUS
<1>1. PICK h \in Handlers : HandlerStep(h)  BY OutsideStep
<1>2. MarkRecorded(h) \/ LinkTask(h) \/ Raise(h) \/ Crash(h)  BY <1>1, Frames
<1>3. UNCHANGED turns  BY <1>2 DEF MarkRecorded, LinkTask, Raise, Crash, Cut
<1>4. PICK d \in Events, rec \in RecordState, written \in 0..3 :
         Writes(h, d, rec) /\ Fitting(d, rec) /\ PutTask(d, rec, written)
  BY <1>1, PutStep
<1>5. d = e /\ record'[e] = rec  BY <1>4, PutEffect
<1>6. CASE At(h, "marking") /\ e = handler[h].recording /\ rec = [record[e] EXCEPT !.recorded = TRUE]
  <2>1. rec.conv = record[e].conv /\ rec.recorded  BY <1>6 DEF TypeOK
  <2>2. ~LinkTask(h)  BY <1>6 DEF LinkTask, At
  <2>. QED  BY <2>1, <2>2, <1>2, <1>3, <1>5, <1>6
<1>7. CASE /\ At(h, "linking") /\ e = handler[h].event
           /\ rec = [conv |-> handler[h].request.conv, recorded |-> FALSE]
  <2>1. ~MarkRecorded(h)  BY <1>7 DEF MarkRecorded, At
  <2>. QED  BY <2>1, <1>2, <1>3, <1>5, <1>7
<1>. QED  BY <1>4, <1>5, <1>6, <1>7 DEF Writes

\* The only handler that records in a conversation finds its exchange absent before it
\* appends it.
LEMMA AbsentBeforeAppend ==
    ASSUME TypeOK, HandlersCoherent, RecordsAgree, RecordedAlone, ContextAgrees,
           NEW c \in Sessions, c \notin torn, NEW h \in Handlers, AppendTurn(h), RecordsIn(h, c)
    PROVE  /\ handler[h].copy = turns[c] /\ ~record[handler[h].recording].recorded
           /\ Times(handler[h].recording, turns[c]) = 0
<1>1. At(h, "appending")  BY DEF AppendTurn
<1>2. handler[h].copy = turns[c] /\ ~record[handler[h].recording].recorded  BY <1>1 DEF RecordedAlone
<1>3. handler[h].recording \in Events /\ record[handler[h].recording].conv = c
  BY AppendEffect DEF RecordsIn
<1>4. ASSUME NEW g \in Handlers, At(g, "marking"), handler[g].recording = handler[h].recording PROVE FALSE
  <2>1. RecordsIn(g, c)  BY <1>3, <1>4 DEF RecordsIn, At, Recording
  <2>2. g = h  BY <2>1 DEF RecordedAlone
  <2>. QED  BY <2>2, <1>1, <1>4 DEF At
<1>. QED  BY <1>2, <1>3, <1>4 DEF ContextAgrees

\* A conversation that is not torn changes by the append of the handler that records in it.
LEMMA TurnsEffect ==
    ASSUME TypeOK, HandlersCoherent, RecordsAgree, RecordedAlone, ContextAgrees, Next,
           NEW c \in Sessions, c \notin torn
    PROVE  \/ turns'[c] = turns[c]
           \/ \E h \in Handlers :
                 LET r == handler[h].recording
                 IN  /\ AppendTurn(h) /\ RecordsIn(h, c) /\ r \in Events /\ record[r].conv = c
                     /\ ~record[r].recorded /\ Times(r, turns[c]) = 0
                     /\ turns'[c] = AppendBounded(turns[c], r)
                     /\ handler'[h].pc = "marking" /\ handler'[h].recording = r /\ UNCHANGED record
<1>. SUFFICES ASSUME turns'[c] # turns[c] PROVE
        \E h \in Handlers :
                 LET r == handler[h].recording
                 IN  /\ AppendTurn(h) /\ RecordsIn(h, c) /\ r \in Events /\ record[r].conv = c
                     /\ ~record[r].recorded /\ Times(r, turns[c]) = 0
                     /\ turns'[c] = AppendBounded(turns[c], r)
                     /\ handler'[h].pc = "marking" /\ handler'[h].recording = r /\ UNCHANGED record
  OBVIOUS
<1>1. PICK h \in Handlers : AppendTurn(h)  BY Frames, OutsideStep
<1>. DEFINE r == handler[h].recording
<1>2. /\ r \in Events /\ c = record[r].conv /\ turns'[c] = AppendBounded(handler[h].copy, r)
      /\ handler'[h].pc = "marking" /\ handler'[h].recording = r /\ UNCHANGED record
  BY <1>1, AppendEffect
<1>3. RecordsIn(h, c)  BY <1>1, <1>2 DEF RecordsIn, AppendTurn, At, Recording
<1>4. handler[h].copy = turns[c] /\ ~record[r].recorded /\ Times(r, turns[c]) = 0
  BY <1>1, <1>3, AbsentBeforeAppend
<1>. QED  BY <1>1, <1>2, <1>3, <1>4

LEMMA RecordedAloneStep ==
    ASSUME TypeOK, HandlersCoherent, Submitted, PointersResolve, RecordsAgree, RecordedAlone, ContextAgrees, Next
    PROVE  RecordedAlone'
<1>1. ASSUME NEW c \in Sessions, c \notin torn', NEW g \in Handlers, NEW h \in Handlers,
             RecordsIn(g, c)', RecordsIn(h, c)'
      PROVE  g = h
  <2>1. c \notin torn  BY <1>1, TornGrows
  <2>2. CASE RecordsIn(g, c) /\ RecordsIn(h, c)  BY <2>1, <2>2 DEF RecordedAlone
  <2>3. CASE ~RecordsIn(g, c) /\ RecordsIn(h, c)  BY <1>1, <2>3, RecordsInBefore
  <2>4. CASE RecordsIn(g, c) /\ ~RecordsIn(h, c)  BY <1>1, <2>4, RecordsInBefore
  <2>5. CASE ~RecordsIn(g, c) /\ ~RecordsIn(h, c)
    <3>1. HandlerStep(g) /\ HandlerStep(h)  BY <1>1, <2>5, RecordsInBefore
    <3>2. LookUp(g) /\ LookUp(h) /\ handler'[g].pc = "noting"  BY <1>1, <2>5, RecordsInBefore
    <3>3. SUFFICES ASSUME g # h PROVE FALSE  OBVIOUS
    <3>4. handler'[g] = handler[g]  BY <3>1, <3>3, OtherHandlers
    <3>. QED  BY <3>2, <3>4 DEF LookUp, At
  <2>. QED  BY <2>2, <2>3, <2>4, <2>5
<1>2. ASSUME NEW c \in Sessions, c \notin torn', NEW h \in Handlers, RecordsIn(h, c)'
      PROVE  /\ ~record'[handler'[h].recording].recorded
             /\ At(h, "appending")' => handler'[h].copy = turns'[c]
             /\ At(h, "marking")' => Times(handler'[h].recording, turns'[c]) = 1
  <2>0. c \notin torn  BY <1>2, TornGrows
  <2>a. handler'[h].pc \in Recording  BY <1>2 DEF RecordsIn
  <2>1. CASE LookUp(h) /\ HandlerStep(h) /\ handler'[h].pc = "noting"
    <3>1. UNCHANGED record  BY <2>1, <2>a, RecordingMove
    <3>2. ~record[handler'[h].recording].recorded  BY <2>1, LookUpEffect
    <3>. QED  BY <2>1, <3>1, <3>2 DEF At
  <2>2. CASE RecordsIn(h, c) /\ handler'[h].recording = handler[h].recording
    <3>. DEFINE r == handler[h].recording
    <3>0. r \in Events /\ ~record[r].recorded /\ handler[h].pc \in Recording
      BY <2>0, <2>2, HandlerBefore DEF RecordsIn, RecordedAlone, Coherent
    <3>1. ~record'[r].recorded
      <4>. SUFFICES ASSUME record'[r].recorded PROVE FALSE  OBVIOUS
      <4>1. PICK g \in Handlers : /\ MarkRecorded(g) \/ Raise(g) \/ Crash(g)
                                  /\ At(g, "marking") /\ handler[g].recording = r
        BY <3>0, RecordEffect
      <4>2. RecordsIn(g, c)  BY <2>2, <4>1 DEF RecordsIn, At, Recording
      <4>3. g = h  BY <2>0, <2>2, <4>2 DEF RecordedAlone
      <4>4. HandlerStep(h)  BY <4>1, <4>3 DEF HandlerStep
      <4>5. Note(h) \/ AppendTurn(h) \/ LookUp(h)  BY <4>4, <2>a, RecordingMove
      <4>. QED  BY <4>1, <4>3, <4>5 DEF Note, AppendTurn, LookUp, At
    <3>2. CASE HandlerStep(h) /\ Note(h)
      <4>1. UNCHANGED turns /\ handler'[h].pc = "appending" /\ handler'[h].copy = turns[record[r].conv]
        BY <3>2 DEF Note, store, TypeOK, HandlerState
      <4>2. record[r].conv = c  BY <2>2 DEF RecordsIn
      <4>. QED  BY <2>2, <3>1, <4>1, <4>2 DEF At
    <3>3. CASE HandlerStep(h) /\ AppendTurn(h)
      <4>1. /\ handler'[h].pc = "marking" /\ turns'[c] = AppendBounded(handler[h].copy, r)
        BY <2>2, <3>3, AppendEffect DEF RecordsIn
      <4>2. handler[h].copy = turns[c] /\ Times(r, turns[c]) = 0  BY <2>0, <2>2, <3>3, AbsentBeforeAppend
      <4>3. turns[c] \in Turns  BY DEF TypeOK
      <4>4. Times(r, turns'[c]) = 1  BY <3>0, <4>1, <4>2, <4>3, AppendedTimes
      <4>. QED  BY <2>2, <3>1, <4>1, <4>4 DEF At
    <3>4. CASE ~HandlerStep(h)
      <4>1. handler'[h] = handler[h]  BY <3>4, OutsideStep, OtherHandlers DEF Next
      <4>2. turns'[c] = turns[c]
        <5>1. ASSUME NEW g \in Handlers, AppendTurn(g), RecordsIn(g, c) PROVE FALSE
          <6>1. g = h  BY <2>0, <2>2, <5>1 DEF RecordedAlone
          <6>. QED  BY <6>1, <5>1, <3>4 DEF HandlerStep
        <5>. QED  BY <2>0, <5>1, TurnsEffect
      <4>. QED  BY <2>0, <2>2, <3>1, <4>1, <4>2 DEF RecordedAlone, At
    <3>5. CASE HandlerStep(h) /\ LookUp(h)
      <4>1. handler[h].pc \notin Recording  BY <3>5 DEF LookUp, At, Recording
      <4>. QED  BY <4>1, <3>0
    <3>. QED  BY <3>2, <3>3, <3>4, <3>5, <2>a, RecordingMove
  <2>. QED  BY <1>2, <2>1, <2>2, RecordsInBefore
<1>. QED  BY <1>1, <1>2 DEF RecordedAlone

LEMMA ContextAgreesStep ==
    ASSUME TypeOK, HandlersCoherent, Submitted, PointersResolve, RecordsAgree, TurnsIsolated,
           RecordedAlone, ContextAgrees, Next
    PROVE  ContextAgrees'
<1>. SUFFICES ASSUME NEW c \in Sessions, c \notin torn', NEW e \in Events, record'[e].conv = c
              PROVE  IF record'[e].recorded
                     THEN \/ Times(e, turns'[c]) = 1
                          \/ Times(e, turns'[c]) = 0 /\ Len(turns'[c]) = MaxTurns
                     ELSE \/ Times(e, turns'[c]) = 0
                          \/ \E h \in Handlers : At(h, "marking")' /\ handler'[h].recording = e
  BY DEF ContextAgrees, Times
<1>0. c \notin torn /\ c # None /\ turns[c] \in Turns
  BY TornGrows, SessionsAreEvents DEF TypeOK
<1>1. CASE record'[e] = record[e] /\ record[e].recorded
  <2>1. Times(e, turns[c]) = 1 \/ (Times(e, turns[c]) = 0 /\ Len(turns[c]) = MaxTurns)
    BY <1>0, <1>1 DEF ContextAgrees
  <2>2. CASE turns'[c] = turns[c]  BY <2>1, <2>2, <1>1
  <2>3. CASE turns'[c] # turns[c]
    <3>1. PICK h \in Handlers :
             /\ handler[h].recording \in Events /\ ~record[handler[h].recording].recorded
             /\ turns'[c] = AppendBounded(turns[c], handler[h].recording)
      BY <1>0, <2>3, TurnsEffect
    <3>2. handler[h].recording # e  BY <3>1, <1>1
    <3>3. Times(e, turns'[c]) = 1 \/ (Times(e, turns'[c]) = 0 /\ Len(turns'[c]) = MaxTurns)
      BY <1>0, <2>1, <3>1, <3>2, AppendedTimes
    <3>. QED  BY <3>3, <1>1
  <2>. QED  BY <2>2, <2>3
<1>2. CASE record'[e] = record[e] /\ ~record[e].recorded
  <2>1. Times(e, turns[c]) = 0 \/ \E h \in Handlers : At(h, "marking") /\ handler[h].recording = e
    BY <1>0, <1>2 DEF ContextAgrees
  <2>2. CASE \E h \in Handlers : At(h, "marking") /\ handler[h].recording = e
    <3>1. PICK h \in Handlers : At(h, "marking") /\ handler[h].recording = e  BY <2>2
    <3>2. CASE HandlerStep(h)
      <4>1. MarkRecorded(h) \/ Raise(h) \/ Crash(h)
        BY <3>1, <3>2 DEF HandlerStep, Deliver, ClaimEvent, TakeLease, Begin, NameSession, LookUp, Note,
                          AppendTurn, Compose, Submit, Dispatch, DispatchFail, LinkTask, Complete, At
      <4>2. CASE MarkRecorded(h)
        <5>1. PutTask(e, [record[e] EXCEPT !.recorded = TRUE], 3)  BY <3>1, <4>2 DEF MarkRecorded
        <5>2. record'[e].recorded  BY <5>1 DEF PutTask, TypeOK
        <5>. QED  BY <5>2, <1>2
      <4>3. CASE Raise(h) \/ Crash(h)
        <5>1. c \in torn'  BY <3>1, <4>3, <1>0, <1>2, TornGrows DEF At, Recording
        <5>. QED  BY <5>1
      <4>. QED  BY <4>1, <4>2, <4>3
    <3>3. CASE ~HandlerStep(h)
      <4>1. handler'[h] = handler[h]  BY <3>3, OutsideStep, OtherHandlers DEF Next
      <4>. QED  BY <4>1, <3>1, <1>2 DEF At
    <3>. QED  BY <3>2, <3>3
  <2>3. CASE Times(e, turns[c]) = 0 /\ turns'[c] = turns[c]  BY <2>3, <1>2
  <2>4. CASE Times(e, turns[c]) = 0 /\ turns'[c] # turns[c]
    <3>1. PICK h \in Handlers :
             /\ handler[h].recording \in Events
             /\ turns'[c] = AppendBounded(turns[c], handler[h].recording)
             /\ handler'[h].pc = "marking" /\ handler'[h].recording = handler[h].recording
      BY <1>0, <2>4, TurnsEffect
    <3>2. CASE handler[h].recording = e  BY <3>1, <3>2, <1>2 DEF At
    <3>3. CASE handler[h].recording # e
      <4>1. Times(e, turns'[c]) = 0  BY <1>0, <2>4, <3>1, <3>3, AppendedTimes
      <4>. QED  BY <4>1, <1>2
    <3>. QED  BY <3>2, <3>3
  <2>. QED  BY <2>1, <2>2, <2>3, <2>4
<1>3. CASE \E h \in Handlers :
              /\ At(h, "marking") /\ handler[h].recording = e /\ UNCHANGED turns
              /\ record'[e].conv = record[e].conv /\ record'[e].recorded
  <2>1. PICK h \in Handlers :
              /\ At(h, "marking") /\ handler[h].recording = e /\ UNCHANGED turns
              /\ record'[e].conv = record[e].conv /\ record'[e].recorded
    BY <1>3
  <2>2. RecordsIn(h, c)  BY <2>1 DEF RecordsIn, At, Recording
  <2>3. Times(e, turns[c]) = 1  BY <1>0, <2>1, <2>2 DEF RecordedAlone
  <2>. QED  BY <2>1, <2>3
<1>4. CASE \E h \in Handlers :
              /\ LinkTask(h) \/ Raise(h) \/ Crash(h)
              /\ At(h, "linking") /\ handler[h].event = e /\ UNCHANGED turns
              /\ ~record'[e].recorded
  <2>1. CASE record[e].conv # None
    <3>1. record[e].conv = c  BY <2>1, RecordsStep
    <3>2. c \in torn'  BY <1>4, <2>1, <3>1, TornGrows
    <3>. QED  BY <3>2
  <2>2. CASE record[e].conv = None
    <3>1. \A i \in 1..Len(turns[c]) : turns[c][i] # e
      <4>1. DOMAIN turns[c] = 1..Len(turns[c])  BY <1>0, TurnsAreSequences
      <4>. QED  BY <4>1, <2>2, <1>0 DEF TurnsIsolated
    <3>2. Times(e, turns[c]) = 0  BY <3>1, <1>0, TimesByPosition
    <3>. QED  BY <3>2, <1>4
  <2>. QED  BY <2>1, <2>2
<1>. QED  BY <1>1, <1>2, <1>3, <1>4, RecordEffect

-----------------------------------------------------------------------------
(***************************************************************************)
(* The theorems.                                                           *)
(***************************************************************************)

\* The invariant holds at the start, whatever events were acknowledged long ago, however many
\* cuts are used up, and if one question has been answered already.
LEMMA InitInvariant ==
    ASSUME NEW old \in SUBSET Events, NEW used \in 0..MaxCuts, NEW asked \in Events \cup {None},
           InitWith(old, used, asked)
    PROVE  IInv
<1>1. TypeOK /\ HandlersCoherent  BY InitTypes
<1>2. /\ \A h \in Handlers : handler[h].pc = "idle"
      /\ \A e \in Events : task[e].status = "absent" \/ e = asked
      /\ \A e \in Events : claim[e].state = "none" <=> e # asked
      /\ \A e \in Events : claim[e].state = "none" => claim[e].gen = 0
  BY DEF InitWith, IdleHandler
<1>3. /\ \A e \in Events : e = asked => /\ task[e].status = "succeeded" /\ task[e].request.conv = Default
                                       /\ record[e].conv = Default /\ dispatches[e] = 1
      /\ \A e \in Events : e # asked => record[e].conv = None /\ dispatches[e] = 0 /\ job[e] = "none"
      /\ \A e \in Events : ~record[e].recorded
      /\ \A c \in Sessions : turns[c] = <<>>
      /\ \A c \in Sessions : latest[c] # None => c = Default /\ latest[c] = asked
      /\ eventTask = {asked} \ {None}
  <2>1. \A e \in Events : [NoRequest EXCEPT !.answers = e].conv = Default  BY DEF NoRequest
  <2>. QED  BY <2>1 DEF InitWith
<1>4. \A h \in Handlers : handler[h].pc \notin Holding /\ handler[h].pc \notin Recording /\ handler[h].pc # "taking"
  BY <1>2 DEF Holding, Recording
<1>5. LeaseWasRead /\ LeaseHeld  BY <1>2, <1>4 DEF LeaseWasRead, LeaseHeld, Holds, At
<1>6. DispatchesCounted /\ Submitted /\ TasksAccounted /\ QuestionsHaveTasks
  <2>1. DispatchesCounted
    <3>1. \A e \in Events : dispatches[e] \in {0, 1} /\ (job[e] # "none" => dispatches[e] = 1)  BY <1>3
    <3>. QED  BY <1>2, <1>3, <3>1 DEF DispatchesCounted, At
  <2>2. Submitted  BY <1>2 DEF Submitted
  <2>3. TasksAccounted  BY <1>2, <1>3 DEF TasksAccounted
  <2>4. QuestionsHaveTasks  BY <1>2, <1>3 DEF QuestionsHaveTasks, At, InitWith
  <2>. QED  BY <2>1, <2>2, <2>3, <2>4
<1>7. PointersResolve /\ RecordsAgree
  <2>1. RecordsAgree  BY <1>3, <1>4 DEF RecordsAgree
  <2>2. PointersResolve  BY <1>3, SessionsAreEvents DEF PointersResolve, TypeOK
  <2>. QED  BY <2>1, <2>2
<1>8. TurnsIsolated /\ RecordedAlone
  BY <1>2, <1>3, <1>4 DEF TurnsIsolated, RecordedAlone, RecordsIn, At
<1>9. ContextAgrees
  <2>1. \A e \in Events, c \in Sessions : Times(e, turns[c]) = 0
    <3>. TAKE e \in Events, c \in Sessions
    <3>1. Len(turns[c]) = 0 /\ turns[c] \in Turns  BY <1>3, NoTurns
    <3>. QED  BY <3>1, TimesByPosition
  <2>. QED  BY <2>1, <1>3 DEF ContextAgrees
<1>. QED  BY <1>1, <1>5, <1>6, <1>7, <1>8, <1>9 DEF IInv

\* Every step keeps it.
LEMMA StepInvariant == IInv /\ [Next]_vars => IInv'
<1>1. ASSUME IInv, Next PROVE IInv'
  <2>. USE <1>1 DEF IInv
  <2>1. TypeOK' /\ HandlersCoherent'  BY TypeStep
  <2>2. LeaseWasRead' /\ LeaseHeld'  BY <2>1, LeaseWasReadStep, LeaseHeldStep
  <2>3. DispatchesCounted' /\ Submitted'  BY DispatchesCountedStep, SubmittedStep
  <2>4. TasksAccounted' /\ QuestionsHaveTasks'  BY TasksAccountedStep, QuestionsHaveTasksStep
  <2>5. PointersResolve' /\ RecordsAgree'  BY RecordsStep, RecordsAgreeStep
  <2>6. TurnsIsolated'  BY TurnsIsolatedStep
  <2>7. RecordedAlone' /\ ContextAgrees'  BY RecordedAloneStep, ContextAgreesStep
  <2>. QED  BY <2>1, <2>2, <2>3, <2>4, <2>5, <2>6, <2>7
<1>2. ASSUME IInv, UNCHANGED vars PROVE IInv'
  BY <1>2 DEF IInv, vars, TypeOK, HandlersCoherent, LeaseWasRead, LeaseHeld, DispatchesCounted, Submitted,
              TasksAccounted, QuestionsHaveTasks, PointersResolve, RecordsAgree, TurnsIsolated, RecordedAlone,
              ContextAgrees, Holds, Starting, RecordsIn, At, Times
<1>. QED  BY <1>1, <1>2

\* The inductive invariant holds in every reachable state.
THEOREM Invariant == Spec => []IInv
<1>1. Init => IInv  BY InitInvariant, BoundsAreNaturals DEF Init
<1>. QED  BY <1>1, StepInvariant, PTL DEF Spec

\* Every variable keeps its type.
THEOREM TypeCorrect == Spec => []TypeOK
<1>1. IInv => TypeOK  BY DEF IInv
<1>. QED  BY <1>1, Invariant, PTL

\* The job of a question is started once, unless its lease was taken from a live handler.
THEOREM OneDispatch == Spec => []DispatchedOnce
<1>1. IInv => DispatchedOnce
  <2>. SUFFICES ASSUME IInv, NEW e \in Events, dispatches[e] > 1, e \notin stolen PROVE FALSE
    BY DEF DispatchedOnce
  <2>1. dispatches[e] <= 1 /\ dispatches[e] \in 0..2  BY DEF IInv, DispatchesCounted, TypeOK
  <2>. QED  BY <2>1
<1>. QED  BY <1>1, Invariant, PTL

\* A completed question no handler of which was killed has a job or a visible failure.
THEOREM RequestsSurvive == Spec => []UncrashedRequestsSurvive
<1>1. IInv => UncrashedRequestsSurvive
  <2>. SUFFICES ASSUME IInv, NEW e \in Events, e \notin crashed, Lost(e) PROVE FALSE
    BY DEF UncrashedRequestsSurvive
  <2>1. task[e].status # "absent"  BY DEF Lost, IInv, QuestionsHaveTasks, Asks
  <2>2. PICK h \in Handlers : Starting(h, e)  BY <2>1 DEF Lost, IInv, TasksAccounted
  <2>3. h \in Working(e)  BY <2>2 DEF Starting, Working, Holding
  <2>. QED  BY <2>3 DEF Lost
<1>. QED  BY <1>1, Invariant, PTL

\* Task pointers lead to records of the right conversation, and records to tasks.
THEOREM PointersLead == Spec => []PointersResolve
<1>1. IInv => PointersResolve  BY DEF IInv
<1>. QED  BY <1>1, Invariant, PTL

\* A conversation holds the exchanges of tasks that were asked in it.
THEOREM IsolatedContext == Spec => []ContextIsolated
<1>1. IInv => ContextIsolated
  <2>. SUFFICES ASSUME IInv, NEW c \in Sessions, NEW e \in Events, Times(e, turns[c]) > 0
                PROVE  record[e].conv = c /\ task[e].request.conv = c
    BY DEF ContextIsolated
  <2>1. turns[c] \in Turns  BY DEF IInv, TypeOK
  <2>2. PICK i \in 1..Len(turns[c]) : turns[c][i] = e  BY <2>1, TimesByPosition
  <2>3. DOMAIN turns[c] = 1..Len(turns[c])  BY <2>1, TurnsAreSequences
  <2>4. record[e].conv = c  BY <2>2, <2>3 DEF IInv, TurnsIsolated
  <2>. QED  BY <2>4, SessionsAreEvents DEF IInv, RecordsAgree
<1>. QED  BY <1>1, Invariant, PTL

\* Records and conversations agree wherever nothing has torn a conversation.
THEOREM AgreeingContext == Spec => []ContextAgrees
<1>1. IInv => ContextAgrees  BY DEF IInv
<1>. QED  BY <1>1, Invariant, PTL

\* A lease is taken over only once it has expired, and a completed event is never claimed again.
THEOREM ExclusiveLeases == Spec => LeaseExclusive
<1>1. IInv /\ [Next]_vars =>
        [\A e \in Events :
          claim'[e].state = "processing" /\ claim'[e].gen # claim[e].gen =>
             claim[e].state = "none" \/ (claim[e].state = "processing" /\ claim[e].stale)]_vars
  <2>1. ASSUME IInv, Next
        PROVE  \A e \in Events :
                  claim'[e].state = "processing" /\ claim'[e].gen # claim[e].gen =>
                     claim[e].state = "none" \/ (claim[e].state = "processing" /\ claim[e].stale)
    BY <2>1, ClaimEffect DEF IInv
  <2>. QED  BY <2>1
<1>. QED  BY <1>1, Invariant, PTL DEF Spec, LeaseExclusive

=============================================================================
