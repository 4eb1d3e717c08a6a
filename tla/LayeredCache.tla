----------------------------- MODULE LayeredCache -----------------------------
(***************************************************************************)
(* The layered response cache of the data providers (cache.py), with the   *)
(* expiration policy of the Tushare adapter (providers/tushare.py).        *)
(*                                                                         *)
(* Each process has a bounded L1 with LRU eviction and striped miss locks; *)
(* all processes share the L2 objects in the bucket, which are replaced    *)
(* without a precondition.  The clock is counted in ticks, Day ticks to a  *)
(* day, and the data of a day is complete from tick Completion of it on.   *)
(* A response is represented by its version, the number of publications    *)
(* it contains.                                                            *)
(***************************************************************************)
EXTENDS Naturals, Sequences, SequencesExt

CONSTANTS
    Threads, Processes,            \* callers; the API and worker processes they may be in
    Keys, KindOf,                  \* cache keys; what their operation and parameters ask for
    Stripes, StripeOf,             \* _lock_index
    Size(_, _),                    \* Size(k, v): serialized size of version v of k
    MaxEntries, MaxBytes,          \* the limits of L1
    Day, Completion,               \* ticks of a day, and of its publication
    ShortTTL, HistoricalTTL,
    MaxTime,                       \* bound of the clock
    None

\* A fixed business date (day 0), the latest data, and an operation that is not persisted.
Kinds == {"dated", "latest", "realtime"}

ASSUME Requests == KindOf \in [Keys -> Kinds] /\ StripeOf \in [Keys -> Stripes]
ASSUME Limits == MaxEntries \in Nat \ {0} /\ MaxBytes \in Nat \ {0} /\ MaxTime \in Nat
ASSUME Times == /\ Day \in Nat /\ Completion \in 1..(Day - 1)
                /\ ShortTTL \in Nat \ {0} /\ HistoricalTTL \in Nat \ {0}

\* DataCacheRecord, with the instant after which it must not be served.
Record == [key : Keys, version : 0..(MaxTime + 1), expires : Nat]

ASSUME Sizes == \A k \in Keys, v \in 0..(MaxTime + 1) : Size(k, v) \in Nat
ASSUME NoneIsNew == None \notin Threads \cup Processes /\ None \notin Keys /\ None \notin Record

VARIABLES
    clock,
    l1,        \* per process: the entries, least recently used first, and the byte count
    l2,        \* cache/ objects of the bucket
    lock,      \* per process: the holder of each miss lock
    thread

vars == <<clock, l1, l2, lock, thread>>

-----------------------------------------------------------------------------
(***************************************************************************)
(* The provider and its expiration policy.                                 *)
(***************************************************************************)

\* Publications the provider's answer contains at time t.  (Those of an operation that
\* is not persisted are not counted.)
Version(k, t) ==
    CASE KindOf[k] = "dated" -> IF t >= Completion THEN 1 ELSE 0
      [] KindOf[k] = "latest" -> (t \div Day) + (IF t % Day >= Completion THEN 1 ELSE 0)
      [] OTHER -> 0

Earlier(a, b) == IF a < b THEN a ELSE b

\* Mutant: a response from before the publication lives for the short TTL in any case.
PolicyPastCompletion(k, now) ==
    LET completion == (now \div Day) * Day + Completion
    IN  CASE KindOf[k] = "realtime" -> None
          [] KindOf[k] = "dated" -> now + (IF now >= Completion THEN HistoricalTTL ELSE ShortTTL)
          [] OTHER -> IF now >= completion THEN completion + Day ELSE now + ShortTTL

\* TushareCacheExpirationPolicy.resolve, None for an operation that bypasses the cache.
Policy(k, now) ==
    LET completion == (now \div Day) * Day + Completion
    IN  CASE KindOf[k] = "realtime" -> None
          [] KindOf[k] = "dated" -> IF now >= Completion THEN now + HistoricalTTL
                                    ELSE Earlier(now + ShortTTL, Completion)
          [] OTHER -> IF now >= completion THEN completion + Day
                      ELSE Earlier(now + ShortTTL, completion)

-----------------------------------------------------------------------------
(***************************************************************************)
(* MemoryDataCacheStore.                                                   *)
(***************************************************************************)
\* The running byte counts of a sequence of entries, and the last of them.
Running(entries) ==
    LET bytes[i \in 0..Len(entries)] ==
          IF i = 0 THEN 0 ELSE bytes[i - 1] + Size(entries[i].key, entries[i].version)
    IN  bytes
TotalSize(entries) == Running(entries)[Len(entries)]

\* The entry of a key, as the OrderedDict finds it.
Has(p, k) == \E i \in 1..Len(l1[p].entries) : l1[p].entries[i].key = k
Position(p, k) == CHOOSE i \in 1..Len(l1[p].entries) : l1[p].entries[i].key = k
Entry(p, k) == l1[p].entries[Position(p, k)]
Others(p, k) == IF Has(p, k) THEN RemoveAt(l1[p].entries, Position(p, k)) ELSE l1[p].entries

\* get: the entry becomes the most recently used one, valid or not.
Touched(p, k) == IF Has(p, k)
                 THEN [entries |-> Append(Others(p, k), Entry(p, k)), bytes |-> l1[p].bytes]
                 ELSE l1[p]

\* popitem until both limits hold.
Evicted(cache) ==
    LET n == Len(cache.entries)
        Suffix(i) == SubSeq(cache.entries, i, n)
        Bytes(i) == cache.bytes - TotalSize(SubSeq(cache.entries, 1, i - 1))
        first == CHOOSE i \in 1..(n + 1) :
                    /\ n - i + 1 <= MaxEntries /\ Bytes(i) <= MaxBytes
                    /\ \A j \in 1..(i - 1) : n - j + 1 > MaxEntries \/ Bytes(j) > MaxBytes
    IN  [entries |-> Suffix(first), bytes |-> Bytes(first)]

\* previous[1], the size of the entry that a new one replaces.
Freed(p, k) == IF Has(p, k) THEN Size(k, Entry(p, k).version) ELSE 0

\* Mutant: the size of the entry that is replaced stays in the byte count.
StoredTwice(p, r) ==
    IF Size(r.key, r.version) > MaxBytes THEN l1[p]
    ELSE Evicted([entries |-> Append(Others(p, r.key), r),
                  bytes |-> l1[p].bytes + Size(r.key, r.version)])

\* put: an oversized record is skipped and leaves the entry that is there.
Stored(p, r) ==
    IF Size(r.key, r.version) > MaxBytes THEN l1[p]
    ELSE Evicted([entries |-> Append(Others(p, r.key), r),
                  bytes |-> (l1[p].bytes + Size(r.key, r.version)) - Freed(p, r.key)])

-----------------------------------------------------------------------------
(***************************************************************************)
(* LayeredDataResponseCache.get_or_fetch.                                  *)
(***************************************************************************)
NoThread == [pc |-> "idle", proc |-> None, key |-> None, since |-> 0, now |-> 0, expires |-> 0, version |-> 0,
             record |-> None]

\* The steps at which a thread may hold a miss lock.
Looking == {"l1", "l2", "promote"}
Filling == {"fetch", "put2", "put1"}
Ended == {"idle", "answered", "rejected"}

Cache == [entries : Seq(Record), bytes : Nat]
Thread == [pc : Ended \cup Looking \cup Filling \cup {"lock", "bypass"},
           proc : Processes \cup {None}, key : Keys \cup {None}, since : Nat, now : Nat,
           expires : Nat \cup {None}, version : 0..(MaxTime + 1), record : Record \cup {None}]

TypeOK ==
    /\ clock \in 0..MaxTime
    /\ l1 \in [Processes -> Cache]
    /\ l2 \in [Keys -> Record \cup {None}]
    /\ lock \in [Processes -> [Stripes -> Threads \cup {None}]]
    /\ thread \in [Threads -> Thread]
    /\ \A k \in Keys : l2[k] # None => l2[k].key = k
    \* validate_expiration: what is about to be stored was valid when it was fetched
    /\ \A t \in Threads : thread[t].pc \in {"put2", "put1"} => thread[t].record.expires > thread[t].now

Init ==
    /\ clock = 0
    /\ l1 = [p \in Processes |-> [entries |-> <<>>, bytes |-> 0]]
    /\ l2 = [k \in Keys |-> None]
    /\ lock = [p \in Processes |-> [s \in Stripes |-> None]]
    /\ thread = [t \in Threads |-> NoThread]

At(t, pc) == thread[t].pc = pc
Goto(t, pc) == thread' = [thread EXCEPT ![t].pc = pc]
HasLock(t) == \E p \in Processes, s \in Stripes : lock[p][s] = t
Release(t) == lock' = [p \in Processes |-> [s \in Stripes |->
                              IF lock[p][s] = t THEN None ELSE lock[p][s]]]

\* The query ends, and leaves the "with" block.
End(t, pc, v) ==
    /\ thread' = [thread EXCEPT ![t] = [NoThread EXCEPT !.pc = pc, !.version = v]]
    /\ Release(t)

\* _is_valid
Valid(r, now) == r.expires > now

Begin(t, p, k) ==
    LET expires == Policy(k, clock)
    IN  /\ thread[t].pc \in Ended
        /\ thread' = [thread EXCEPT ![t] =
              [NoThread EXCEPT !.pc = IF expires = None THEN "bypass" ELSE "l1",
                               !.proc = p, !.key = k, !.since = clock, !.now = clock, !.expires = expires]]
        /\ UNCHANGED <<clock, l1, l2, lock>>

Bypass(t) ==
    /\ At(t, "bypass")
    /\ End(t, "idle", 0) \/ End(t, "answered", Version(thread[t].key, clock))
    /\ UNCHANGED <<clock, l1, l2>>

LookL1(t) ==
    LET p == thread[t].proc
        k == thread[t].key
    IN  /\ At(t, "l1")
        /\ l1' = [l1 EXCEPT ![p] = Touched(p, k)]
        /\ IF Has(p, k) /\ Valid(Entry(p, k), thread[t].now)
           THEN End(t, "answered", Entry(p, k).version)
           ELSE Goto(t, "l2") /\ UNCHANGED lock
        /\ UNCHANGED <<clock, l2>>

\* The read of L2 raises after its attempts, or on a corrupt object.
LookL2(t) ==
    LET found == l2[thread[t].key]
    IN  /\ At(t, "l2")
        /\ \/ End(t, "idle", 0)
           \/ /\ IF found # None /\ Valid(found, thread[t].now)
                 THEN thread' = [thread EXCEPT ![t].pc = "promote", ![t].record = found]
                 ELSE Goto(t, IF HasLock(t) THEN "fetch" ELSE "lock")
              /\ UNCHANGED lock
        /\ UNCHANGED <<clock, l1, l2>>

Promote(t) ==
    /\ At(t, "promote")
    /\ l1' = [l1 EXCEPT ![thread[t].proc] = Stored(thread[t].proc, thread[t].record)]
    /\ End(t, "answered", thread[t].record.version)
    /\ UNCHANGED <<clock, l2>>

\* Mutant: the layers are not looked at again under the lock.
LockOnly(t) ==
    LET p == thread[t].proc
        s == StripeOf[thread[t].key]
    IN  /\ At(t, "lock") /\ lock[p][s] = None
        /\ lock' = [lock EXCEPT ![p][s] = t]
        /\ thread' = [thread EXCEPT ![t].pc = "fetch", ![t].now = clock]
        /\ UNCHANGED <<clock, l1, l2>>

\* The clock is read again under the lock; the expiration stays that of the first reading.
TakeLock(t) ==
    LET p == thread[t].proc
        s == StripeOf[thread[t].key]
    IN  /\ At(t, "lock") /\ lock[p][s] = None
        /\ lock' = [lock EXCEPT ![p][s] = t]
        /\ thread' = [thread EXCEPT ![t].pc = "l1", ![t].now = clock]
        /\ UNCHANGED <<clock, l1, l2>>

\* Mutant: DataCacheRecord does not compare its instants.
FetchUnvalidated(t) ==
    LET k == thread[t].key
    IN  /\ At(t, "fetch")
        /\ thread' = [thread EXCEPT ![t].pc = "put2",
                ![t].record = [key |-> k, version |-> Version(k, clock),
                            expires |-> thread[t].expires]]
        /\ UNCHANGED <<clock, l1, l2, lock>>

\* The provider answers or raises; DataCacheRecord rejects an expiration that has passed
\* by the second reading of the clock.
Fetch(t) ==
    LET k == thread[t].key
    IN  /\ At(t, "fetch")
        /\ \/ End(t, "idle", 0)
           \/ thread[t].expires <= thread[t].now /\ End(t, "rejected", 0)
           \/ /\ thread[t].expires > thread[t].now
              /\ thread' = [thread EXCEPT ![t].pc = "put2",
                      ![t].record = [key |-> k, version |-> Version(k, clock),
                                  expires |-> thread[t].expires]]
              /\ UNCHANGED lock
        /\ UNCHANGED <<clock, l1, l2>>

\* put: L2 first.  An upload that raises may have replaced the object.
PutL2(t) ==
    LET written == [l2 EXCEPT ![thread[t].key] = thread[t].record]
    IN  /\ At(t, "put2")
        /\ \/ l2' = written /\ Goto(t, "put1") /\ UNCHANGED lock
           \/ l2' \in {l2, written} /\ End(t, "idle", 0)
        /\ UNCHANGED <<clock, l1>>

PutL1(t) ==
    /\ At(t, "put1")
    /\ l1' = [l1 EXCEPT ![thread[t].proc] = Stored(thread[t].proc, thread[t].record)]
    /\ End(t, "answered", thread[t].record.version)
    /\ UNCHANGED <<clock, l2>>

Tick ==
    /\ clock < MaxTime /\ clock' = clock + 1
    /\ UNCHANGED <<l1, l2, lock, thread>>

\* A process is scaled to zero or replaced: its L1, its locks and its queries are gone.
Restart(p) ==
    /\ l1' = [l1 EXCEPT ![p] = [entries |-> <<>>, bytes |-> 0]]
    /\ lock' = [lock EXCEPT ![p] = [s \in Stripes |-> None]]
    /\ thread' = [t \in Threads |->
                    IF thread[t].proc = p THEN NoThread ELSE thread[t]]
    /\ UNCHANGED <<clock, l2>>

Next ==
    \/ \E t \in Threads :
          \/ \E p \in Processes, k \in Keys : Begin(t, p, k)
          \/ Bypass(t) \/ LookL1(t) \/ LookL2(t) \/ Promote(t) \/ TakeLock(t)
          \/ Fetch(t) \/ PutL2(t) \/ PutL1(t)
    \/ \E p \in Processes : Restart(p)
    \/ Tick

Spec == Init /\ [][Next]_vars

-----------------------------------------------------------------------------
(***************************************************************************)
(* Properties.                                                             *)
(***************************************************************************)

\* The bytes and entries of L1 stay within their limits, and the running byte count is
\* that of the entries, whatever is replaced, skipped and evicted.
L1Accounting ==
    \A p \in Processes :
       /\ l1[p].bytes = TotalSize(l1[p].entries) /\ l1[p].bytes <= MaxBytes
       /\ Len(l1[p].entries) <= MaxEntries
       /\ \A i, j \in 1..Len(l1[p].entries) : l1[p].entries[i].key = l1[p].entries[j].key => i = j

\* cache.py:231: "perform one deduplicated provider fetch".  A thread that starts a fetch
\* is the only one of its process that fetches or stores this key, and the bucket has no
\* response that is valid at the thread's time.
OneFetchPerMiss ==
    [][\A t \in Threads :
          LET k == thread[t].key
          IN  thread'[t].pc = "fetch" /\ ~At(t, "fetch") =>
                 /\ \A other \in Threads \ {t} :
                       thread[other].proc = thread[t].proc /\ thread[other].key = k
                          => thread[other].pc \notin Filling
                 /\ l2[k] # None => ~Valid(l2[k], thread'[t].now)]_vars

\* contracts.py:2694: "instant after which the response must not be served".  The cache
\* refines FreshReads: an answer is one the provider could have given since the query
\* began, for every publication in between.
Abstract == INSTANCE FreshReads WITH
    reader <- [t \in Threads |->
                 [state |-> CASE At(t, "answered") -> "answered"
                              [] thread[t].pc \in {"idle", "rejected"} -> "idle"
                              [] OTHER -> "asking",
                  key |-> thread[t].key, since |-> thread[t].since,
                  version |-> IF thread[t].pc = "answered" THEN thread[t].version ELSE 0]]
AnswersAreFresh == Abstract!Spec

\* cache.py:231: "Return cached data or perform one deduplicated provider fetch."  A
\* successful fetch is not turned into an error.
FetchedIsServed == \A t \in Threads : ~At(t, "rejected")

-----------------------------------------------------------------------------
(***************************************************************************)
(* The inductive invariant.                                                *)
(***************************************************************************)

\* The response is one of the provider's until now, and until it expires no publication
\* comes that it does not contain.
Fresh(r) ==
    /\ r.version <= Version(r.key, clock)
    /\ \A s \in 0..MaxTime : s < r.expires => Version(r.key, s) <= r.version

CachedFresh ==
    /\ \A p \in Processes : \A i \in 1..Len(l1[p].entries) : Fresh(l1[p].entries[i])
    /\ \A k \in Keys : l2[k] # None => Fresh(l2[k])

\* What a query knows at each of its steps.
QueryOf(th) ==
    /\ th.pc \in Ended => th.proc = None /\ th.key = None /\ th.since = 0
    /\ th.pc \notin Ended => /\ th.proc \in Processes /\ th.key \in Keys
                             /\ th.since <= th.now /\ th.now <= clock
                             /\ th.expires = Policy(th.key, th.since)
    /\ th.pc \in Looking \cup Filling \cup {"lock"} => th.expires # None
    /\ th.pc \in {"promote", "put2", "put1"} =>
          th.record \in Record /\ th.record.key = th.key /\ Valid(th.record, th.now) /\ Fresh(th.record)
Queries == \A t \in Threads : QueryOf(thread[t])

\* A miss lock is held by a query that needs it, and who fills the cache holds one.
Locking ==
    /\ \A p \in Processes, s \in Stripes, t \in Threads :
          lock[p][s] = t => /\ thread[t].proc = p /\ thread[t].pc \in Looking \cup Filling
                            /\ StripeOf[thread[t].key] = s
    /\ \A t \in Threads :
          thread[t].pc \in Filling => lock[thread[t].proc][StripeOf[thread[t].key]] = t

IInv == TypeOK /\ L1Accounting /\ CachedFresh /\ Queries /\ Locking

=============================================================================
