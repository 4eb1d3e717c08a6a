------------------------------ MODULE FreshReads ------------------------------
(***************************************************************************)
(* What the layered response cache promises to a data query, without the  *)
(* layers: every query ends, and an answer is a response the provider      *)
(* could have given at some moment since the query began.  In particular   *)
(* no response from before a publication is served after it.               *)
(***************************************************************************)
EXTENDS Naturals

CONSTANTS
    Threads,          \* the callers
    Keys,             \* the requests, by cache key
    Version(_, _),    \* Version(k, t): what the provider answers to k at time t
    MaxTime,          \* bound of the clock
    None

VARIABLES clock, reader

absVars == <<clock, reader>>

Ended == {"idle", "answered"}
NoQuery == [state |-> "idle", key |-> None, since |-> 0, version |-> 0]

Init ==
    /\ clock = 0
    /\ reader = [t \in Threads |-> NoQuery]

Ask(t, k) ==
    /\ reader[t].state \in Ended
    /\ reader' = [reader EXCEPT ![t] = [state |-> "asking", key |-> k, since |-> clock, version |-> 0]]
    /\ UNCHANGED clock

Answer(t) ==
    /\ reader[t].state = "asking"
    /\ \E v \in Version(reader[t].key, reader[t].since)..Version(reader[t].key, clock) :
          reader' = [reader EXCEPT ![t] = [NoQuery EXCEPT !.state = "answered", !.version = v]]
    /\ UNCHANGED clock

Fail(t) ==
    /\ reader[t].state = "asking"
    /\ reader' = [reader EXCEPT ![t] = NoQuery]
    /\ UNCHANGED clock

\* A process is replaced, and the queries of its callers with it.
Lose(lost) ==
    /\ \A t \in lost : reader[t].state = "asking"
    /\ reader' = [t \in Threads |-> IF t \in lost THEN NoQuery ELSE reader[t]]
    /\ UNCHANGED clock

Tick == clock < MaxTime /\ clock' = clock + 1 /\ UNCHANGED reader

Next ==
    \/ \E lost \in SUBSET Threads : Lose(lost)
    \/ \E t \in Threads : (\E k \in Keys : Ask(t, k)) \/ Answer(t) \/ Fail(t)
    \/ Tick

Spec == Init /\ [][Next]_absVars
=============================================================================
