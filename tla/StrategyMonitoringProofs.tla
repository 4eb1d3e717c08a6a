----------------------- MODULE StrategyMonitoringProofs -----------------------
(***************************************************************************)
(* What StrategyMonitoring promises, proved for any numbers of drafts,     *)
(* strategies, actions, scans and faults, and from any store: a mark never *)
(* loses a notification, a marked row is not sent again, a scan that ends  *)
(* well is complete, and only overlapping actions undo the owner's work.   *)
(***************************************************************************)
EXTENDS StrategyMonitoring, SequenceTheorems, FiniteSetTheorems, TLAPS

-----------------------------------------------------------------------------
(***************************************************************************)
(* Sequences.                                                              *)
(***************************************************************************)

LEMMA RangeOfTail ==
    ASSUME NEW S, NEW s \in Seq(S), s # <<>>
    PROVE  /\ Head(s) \in S /\ Tail(s) \in Seq(S)
           /\ Range(s) = {Head(s)} \cup Range(Tail(s))
<1>1. /\ Head(s) = s[1] /\ Head(s) \in S /\ Tail(s) \in Seq(S)
      /\ Len(s) \in Nat \ {0} /\ Len(Tail(s)) = Len(s) - 1
    OBVIOUS
<1>2. \A i \in 1..(Len(s) - 1) : Tail(s)[i] = s[i + 1]
    OBVIOUS
<1>3. DOMAIN s = 1..Len(s) /\ DOMAIN Tail(s) = 1..(Len(s) - 1)
    BY <1>1
<1>4. Range(s) \subseteq {Head(s)} \cup Range(Tail(s))
    <2>1. SUFFICES ASSUME NEW i \in 1..Len(s), i # 1
                   PROVE  s[i] \in Range(Tail(s))
        BY <1>1, <1>3 DEF Range
    <2>2. i - 1 \in 1..(Len(s) - 1) /\ (i - 1) + 1 = i
        BY <2>1, <1>1
    <2>3. Tail(s)[i - 1] = s[i]
        BY <2>2, <1>2
    <2> QED BY <2>2, <2>3, <1>3 DEF Range
<1>5. {Head(s)} \cup Range(Tail(s)) \subseteq Range(s)
    <2>1. 1 \in DOMAIN s
        BY <1>1, <1>3
    <2>2. ASSUME NEW i \in 1..(Len(s) - 1)
          PROVE  Tail(s)[i] \in Range(s)
        <3>1. i + 1 \in 1..Len(s)
            BY <1>1
        <3> QED BY <3>1, <1>2, <1>3 DEF Range
    <2> QED BY <2>1, <2>2, <1>1, <1>3 DEF Range
<1> QED BY <1>1, <1>4, <1>5

LEMMA RangeOfAppend ==
    ASSUME NEW S, NEW s \in Seq(S), NEW e \in S
    PROVE  Append(s, e) \in Seq(S) /\ Range(Append(s, e)) = Range(s) \cup {e}
<1>1. /\ Append(s, e) \in Seq(S) /\ Len(s) \in Nat /\ DOMAIN s = 1..Len(s)
      /\ DOMAIN Append(s, e) = 1..(Len(s) + 1) /\ Append(s, e)[Len(s) + 1] = e
      /\ \A i \in 1..Len(s) : Append(s, e)[i] = s[i]
    OBVIOUS
<1>2. 1..(Len(s) + 1) = 1..Len(s) \cup {Len(s) + 1}
    BY <1>1
<1> QED BY <1>1, <1>2 DEF Range

LEMMA RangeOfStart ==
    ASSUME NEW S, NEW s \in Seq(S), NEW n \in Nat, n <= Len(s)
    PROVE  SubSeq(s, 1, n) \in Seq(S) /\ Range(SubSeq(s, 1, n)) \subseteq Range(s)
<1>1. /\ SubSeq(s, 1, n) \in Seq(S) /\ Len(SubSeq(s, 1, n)) = n
      /\ \A i \in 1..n : SubSeq(s, 1, n)[i] = s[i]
    OBVIOUS
<1>2. DOMAIN s = 1..Len(s) /\ DOMAIN SubSeq(s, 1, n) = 1..n /\ 1..n \subseteq 1..Len(s)
    BY <1>1
<1> QED BY <1>1, <1>2 DEF Range

LEMMA RangeIn ==
    ASSUME NEW S, NEW s \in Seq(S)
    PROVE  Range(s) \subseteq S
BY DEF Range

\* What is left of a sequence without its i-th entry.
LEMMA RemovedEntry ==
    ASSUME NEW S, NEW s \in Seq(S), NEW i \in 1..Len(s)
    PROVE  /\ RemoveAt(s, i) \in Seq(S) /\ Len(RemoveAt(s, i)) = Len(s) - 1
           /\ \A j \in 1..(Len(s) - 1) : RemoveAt(s, i)[j] = IF j < i THEN s[j] ELSE s[j + 1]
<1> DEFINE before == SubSeq(s, 1, i - 1)
           after == SubSeq(s, i + 1, Len(s))
<1>0. Len(s) \in Nat /\ i \in Nat
    OBVIOUS
<1>1. before \in Seq(S) /\ after \in Seq(S) /\ Len(before) = i - 1 /\ Len(after) = Len(s) - i
    OBVIOUS
<1>2. (\A j \in 1..(i - 1) : before[j] = s[j]) /\ (\A j \in 1..(Len(s) - i) : after[j] = s[i + j])
    <2>1. \A j \in 1..(Len(s) - i) : (i + 1) + j - 1 = i + j
        BY <1>0
    <2> QED BY <2>1
<1>3. RemoveAt(s, i) = before \o after
    BY DEF RemoveAt
<1> HIDE DEF before, after
<1>4. RemoveAt(s, i) \in Seq(S) /\ Len(RemoveAt(s, i)) = Len(s) - 1
    <2>1. before \o after \in Seq(S) /\ Len(before \o after) = Len(before) + Len(after)
        BY <1>1
    <2>2. (i - 1) + (Len(s) - i) = Len(s) - 1
        BY <1>0
    <2> QED BY <2>1, <2>2, <1>1, <1>3
<1>5. ASSUME NEW j \in 1..(Len(s) - 1)
      PROVE  RemoveAt(s, i)[j] = IF j < i THEN s[j] ELSE s[j + 1]
    <2>1. CASE j < i
        <3>1. j \in 1..(i - 1)
            BY <2>1, <1>0
        <3> QED BY <3>1, <2>1, <1>0, <1>1, <1>2, <1>3
    <2>2. CASE ~(j < i)
        <3>1. j - (i - 1) \in 1..(Len(s) - i) /\ i + (j - (i - 1)) = j + 1
            BY <2>2, <1>0
        <3>2. (before \o after)[j] = after[j - (i - 1)]
            BY <2>2, <1>0, <1>1
        <3> QED BY <3>1, <3>2, <2>2, <1>2, <1>3
    <2> QED BY <2>1, <2>2
<1> QED BY <1>4, <1>5

-----------------------------------------------------------------------------
(***************************************************************************)
(* The drafts.                                                             *)
(***************************************************************************)

DraftsOK == drafts \in Seq(Draft) /\ StoredDrafts(drafts)

LEMMA WithoutEffect ==
    ASSUME DraftsOK, NEW x
    PROVE  /\ Without(x) \in Seq(Draft) /\ StoredDrafts(Without(x))
           /\ \A d \in Range(Without(x)) : d.id # x /\ d \in Range(drafts)
<1> DEFINE w == Without(x)
<1>0. drafts \in Seq(Draft) /\ Len(drafts) \in Nat /\ DOMAIN drafts = 1..Len(drafts)
    BY DEF DraftsOK
<1>1. CASE ~Has(x)
    BY <1>0, <1>1 DEF DraftsOK, Without, Has, Range
<1>2. CASE Has(x)
    <2> DEFINE n == Position(x)
    <2>1. n \in 1..Len(drafts) /\ drafts[n].id = x
        BY <1>2, <1>0 DEF Has, Position
    <2>2. w = RemoveAt(drafts, n)
        BY <1>2 DEF Without
    <2> HIDE DEF n
    <2>3. /\ w \in Seq(Draft) /\ Len(w) = Len(drafts) - 1
          /\ \A j \in 1..(Len(drafts) - 1) : w[j] = IF j < n THEN drafts[j] ELSE drafts[j + 1]
        BY <1>0, <2>1, <2>2, RemovedEntry
    <2> HIDE DEF w
    <2> DEFINE Old(j) == IF j < n THEN j ELSE j + 1
    <2>4. ASSUME NEW j \in DOMAIN w
          PROVE  Old(j) \in DOMAIN drafts /\ Old(j) # n /\ w[j] = drafts[Old(j)]
        <3>1. j \in 1..(Len(drafts) - 1) /\ j \in Nat /\ n \in Nat
            BY <2>3, <2>1, <1>0
        <3>2. Old(j) \in 1..Len(drafts) /\ Old(j) # n
            BY <3>1, <1>0
        <3> QED BY <3>1, <3>2, <2>3, <1>0
    <2>5. ASSUME NEW j \in DOMAIN w, NEW k \in DOMAIN w, Old(j) = Old(k)
          PROVE  j = k
        <3>1. j \in Nat /\ k \in Nat /\ n \in Nat
            BY <2>3, <2>1, <1>0
        <3> QED BY <3>1, <2>5
    <2> HIDE DEF Old
    <2>6. \A j \in DOMAIN w : w[j].id # x
        BY <2>1, <2>4, <1>0 DEF DraftsOK, StoredDrafts
    <2>7. StoredDrafts(w)
        BY <2>4, <2>5 DEF DraftsOK, StoredDrafts
    <2>8. \A d \in Range(w) : d.id # x /\ d \in Range(drafts)
        BY <2>4, <2>6 DEF Range
    <2> QED BY <2>3, <2>7, <2>8 DEF w
<1> QED BY <1>1, <1>2

LEMMA DropEffect ==
    ASSUME DraftsOK, NEW x, DropDraft(x)
    PROVE  /\ DraftsOK'
           /\ \A d \in Range(drafts') : d.id # x /\ d \in Range(drafts)
           /\ ~Has(x)' /\ \A y : Has(y)' => Has(y)
<1>1. drafts' = Without(x)
    BY DEF DropDraft
<1>2. DraftsOK'
    BY <1>1, WithoutEffect DEF DraftsOK
<1>3. \A d \in Range(drafts') : d.id # x /\ d \in Range(drafts)
    BY <1>1, WithoutEffect
<1> QED BY <1>2, <1>3 DEF Has, Range

LEMMA PutEffect ==
    ASSUME DraftsOK, NEW d \in Draft, Complete(d), PutDraft(d)
    PROVE  /\ DraftsOK'
           /\ \A e \in Range(drafts') : e = d \/ (e.id # d.id /\ e \in Range(drafts))
           /\ \A y : y # d.id /\ Has(y)' => Has(y)
<1> DEFINE w == Without(d.id)
<1>1. /\ w \in Seq(Draft) /\ StoredDrafts(w)
      /\ \A e \in Range(w) : e.id # d.id /\ e \in Range(drafts)
    BY WithoutEffect
<1>2. drafts' = Append(w, d)
    BY DEF PutDraft
<1> HIDE DEF w
<1>3. /\ drafts' \in Seq(Draft) /\ Range(drafts') = Range(w) \cup {d}
    BY <1>1, <1>2, RangeOfAppend
<1>4. /\ Len(w) \in Nat /\ DOMAIN w = 1..Len(w) /\ DOMAIN drafts' = 1..(Len(w) + 1)
      /\ drafts'[Len(w) + 1] = d /\ \A i \in 1..Len(w) : drafts'[i] = w[i]
    BY <1>1, <1>2
<1>5. StoredDrafts(drafts')
    <2>1. \A i \in 1..Len(w) : drafts'[i].id # d.id /\ i \in DOMAIN w
        BY <1>1, <1>4 DEF Range
    <2>2. \A i \in DOMAIN drafts' : i \in 1..Len(w) \/ i = Len(w) + 1
        BY <1>4
    <2>3. \A i, j \in DOMAIN drafts' : drafts'[i].id = drafts'[j].id => i = j
        BY <2>1, <2>2, <1>1, <1>4 DEF StoredDrafts
    <2>4. \A i \in DOMAIN drafts' : Complete(drafts'[i])
        BY <2>1, <2>2, <1>1, <1>4 DEF StoredDrafts
    <2> QED BY <2>3, <2>4 DEF StoredDrafts
<1>6. \A e \in Range(drafts') : e = d \/ (e.id # d.id /\ e \in Range(drafts))
    BY <1>1, <1>3
<1>7. \A y : y # d.id /\ Has(y)' => Has(y)
    BY <1>6 DEF Has, Range
<1> QED BY <1>3, <1>5, <1>6, <1>7 DEF DraftsOK

-----------------------------------------------------------------------------
(***************************************************************************)
(* One scan.                                                               *)
(***************************************************************************)

LEMMA CurrentInTodo ==
    ASSUME NEW r \in ScanType, Todo(r) # {}
    PROVE  Current(r) \in Todo(r) /\ Todo(r) \subseteq StrategyIds /\ Current(r) \in StrategyIds
<1>1. Current(r) \in Todo(r)
    BY DEF Current
<1>2. Todo(r) \subseteq StrategyIds
    BY DEF Todo, ScanType
<1> QED BY <1>1, <1>2

LEMMA PairsType ==
    ASSUME NEW r \in ScanType, Todo(r) # {}, NEW rows \in Seq(Rows)
    PROVE  Pairs(r, rows) \subseteq StrategyIds \X Rows
BY CurrentInTodo, RangeIn DEF Pairs

LEMMA LeftTodoEffect ==
    ASSUME NEW r \in ScanType, NEW rest \in SUBSET StrategyIds
    PROVE  LET q == LeftTodo(r, rest)
           IN  /\ q \in ScanType /\ q.pc = r.pc /\ q.preview = r.preview
               /\ q.left = r.left /\ q.rows = r.rows /\ q.due = r.due /\ q.sent = r.sent
               /\ q.gave = r.gave /\ q.failed = r.failed /\ q.known = r.known
               /\ r.legacy # {} => q.legacy = rest /\ q.compiled = r.compiled
               /\ r.legacy = {} => q.legacy = {} /\ q.compiled = rest
BY DEF LeftTodo, ScanType

\* After a strategy that was sent or has failed, a scan goes on or ends as ScanOf says.
LEMMA ProceedKeeps ==
    ASSUME NEW r \in ScanType, NEW ms, NEW ds, Todo(r) # {}, Accounted(r),
           Current(r) \in r.sent \cup r.failed, r.known \subseteq ms,
           ~r.preview => r.gave \cap r.known = {},
           (~r.preview /\ r.failed = {}) => r.gave \subseteq ms
    PROVE  Proceed(r) \in ScanType /\ ScanOf(Proceed(r), ms, ds)
<1> DEFINE x == Current(r)
           rest == Todo(r) \ {x}
           l == LeftTodo(r, rest)
           next == IF rest # {} THEN "evaluate" ELSE IF r.failed # {} THEN "failed" ELSE AfterPhase(r)
           q == Proceed(r)
<1>1. x \in Todo(r) /\ rest \in SUBSET StrategyIds
    BY CurrentInTodo
<1>2. /\ l \in ScanType /\ l.preview = r.preview
      /\ l.left = r.left /\ l.rows = r.rows /\ l.due = r.due /\ l.sent = r.sent
      /\ l.gave = r.gave /\ l.failed = r.failed /\ l.known = r.known
      /\ r.legacy # {} => l.legacy = rest /\ l.compiled = r.compiled
      /\ r.legacy = {} => l.legacy = {} /\ l.compiled = rest
    <2> HIDE DEF rest
    <2> QED BY <1>1, LeftTodoEffect
<1>3. q = [l EXCEPT !.pc = next]
    BY DEF Proceed
<1>4. next \in {"evaluate", "failed", "load", "ok"}
    BY DEF AfterPhase
<1>5. next = "evaluate" => rest # {}
    BY DEF AfterPhase
<1>6. next = "load" => rest = {} /\ r.failed = {} /\ r.legacy # {} /\ r.compiled # {}
    BY DEF AfterPhase
<1>7. next = "ok" => rest = {} /\ r.failed = {} /\ (r.legacy = {} \/ r.compiled = {})
    BY DEF AfterPhase
<1> HIDE DEF l, next, q
<1>8. /\ q \in ScanType /\ q.pc = next /\ q.preview = r.preview /\ q.due = r.due /\ q.sent = r.sent
      /\ q.gave = r.gave /\ q.failed = r.failed /\ q.known = r.known
      /\ r.legacy # {} => q.legacy = rest /\ q.compiled = r.compiled
      /\ r.legacy = {} => q.legacy = {} /\ q.compiled = rest
    BY <1>2, <1>3, <1>4 DEF ScanType
<1>9. r.due \subseteq r.sent \cup r.failed \cup q.legacy \cup q.compiled
    BY <1>8 DEF Accounted, Todo
<1>10. Accounted(q)
    BY <1>8, <1>9 DEF Accounted
<1>11. q.pc \in Running => Todo(q) # {}
    BY <1>4, <1>5, <1>6, <1>8 DEF Running, Todo
<1>12. q.pc = "ok" => q.due \subseteq q.sent
    <2>1. next = "ok" => q.legacy = {} /\ q.compiled = {}
        BY <1>7, <1>8
    <2> QED BY <2>1, <1>7, <1>8, <1>9
<1>13. q.pc \in {"load", "ok"} => q.failed = {}
    BY <1>6, <1>7, <1>8
<1>14. q.pc \notin {"check", "send", "mark"}
    BY <1>4, <1>8
<1>15. (~q.preview /\ q.failed = {}) => q.gave \subseteq ms
    BY <1>8
<1>16. ScanOf(q, ms, ds)
    BY <1>8, <1>10, <1>11, <1>12, <1>13, <1>14, <1>15 DEF ScanOf
<1> QED BY <1>8, <1>16 DEF q

\* Markers and delivered cards of others leave what a scan relies on.
LEMMA ScanOfGrows ==
    ASSUME NEW r, NEW ms, NEW ds, NEW mt, NEW dt, ms \subseteq mt, ds \subseteq dt, ScanOf(r, ms, ds)
    PROVE  ScanOf(r, mt, dt)
BY DEF ScanOf

LEMMA SentEffect ==
    ASSUME NEW r \in ScanType, Todo(r) # {}
    PROVE  LET q == StrategySent(r)
           IN  /\ q \in ScanType /\ q.pc = "mark" /\ q.preview = r.preview
               /\ q.legacy = r.legacy /\ q.compiled = r.compiled /\ q.left = r.rows /\ q.rows = r.rows
               /\ q.due = r.due /\ q.sent = r.sent \cup {Current(r)} /\ q.failed = r.failed
               /\ q.gave = r.gave \cup Pairs(r, r.rows) /\ q.known = r.known
               /\ Todo(q) = Todo(r) /\ Current(q) = Current(r)
<1> DEFINE q == StrategySent(r)
<1>1. Current(r) \in StrategyIds /\ r.rows \in Seq(Rows)
    BY CurrentInTodo DEF ScanType
<1>2. Pairs(r, r.rows) \subseteq StrategyIds \X Rows
    BY <1>1, PairsType
<1>3. /\ q \in ScanType /\ q.pc = "mark" /\ q.preview = r.preview
      /\ q.legacy = r.legacy /\ q.compiled = r.compiled /\ q.left = r.rows /\ q.rows = r.rows
      /\ q.due = r.due /\ q.sent = r.sent \cup {Current(r)} /\ q.failed = r.failed
      /\ q.gave = r.gave \cup Pairs(r, r.rows) /\ q.known = r.known
    <2> DEFINE now == Current(r)
               pairs == Pairs(r, r.rows)
    <2>1. q = [r EXCEPT !.sent = r.sent \cup {now}, !.left = r.rows, !.gave = r.gave \cup pairs, !.pc = "mark"]
        BY DEF StrategySent
    <2> HIDE DEF now, pairs, q
    <2>2. now \in StrategyIds /\ pairs \subseteq StrategyIds \X Rows
        BY <1>1, <1>2 DEF now, pairs
    <2>3. /\ q \in ScanType /\ q.pc = "mark" /\ q.preview = r.preview
          /\ q.legacy = r.legacy /\ q.compiled = r.compiled /\ q.left = r.rows /\ q.rows = r.rows
          /\ q.due = r.due /\ q.sent = r.sent \cup {now} /\ q.failed = r.failed
          /\ q.gave = r.gave \cup pairs /\ q.known = r.known
        BY <2>1, <2>2 DEF ScanType
    <2> QED BY <2>3 DEF now, pairs
<1>4. Todo(q) = Todo(r)
    BY <1>3 DEF Todo
<1> QED BY <1>3, <1>4 DEF Current

LEMMA FailingEffect ==
    ASSUME NEW r \in ScanType, Todo(r) # {}
    PROVE  LET q == Failing(r)
           IN  /\ q \in ScanType /\ q.pc = r.pc /\ q.preview = r.preview
               /\ q.legacy = r.legacy /\ q.compiled = r.compiled /\ q.left = r.left /\ q.rows = r.rows
               /\ q.due = r.due /\ q.sent = r.sent /\ q.failed = r.failed \cup {Current(r)}
               /\ q.gave = r.gave /\ q.known = r.known
               /\ Todo(q) = Todo(r) /\ Current(q) = Current(r)
<1> DEFINE q == Failing(r)
           now == Current(r)
<1>1. now \in StrategyIds
    BY CurrentInTodo
<1>2. q = [r EXCEPT !.failed = r.failed \cup {now}]
    BY DEF Failing
<1> HIDE DEF now, q
<1>3. /\ q \in ScanType /\ q.pc = r.pc /\ q.preview = r.preview
      /\ q.legacy = r.legacy /\ q.compiled = r.compiled /\ q.left = r.left /\ q.rows = r.rows
      /\ q.due = r.due /\ q.sent = r.sent /\ q.failed = r.failed \cup {now}
      /\ q.gave = r.gave /\ q.known = r.known
    BY <1>1, <1>2 DEF ScanType
<1>4. Todo(q) = Todo(r)
    BY <1>3 DEF Todo
<1>5. Current(q) = Current(r)
    BY <1>4 DEF Current
<1> QED BY <1>3, <1>4, <1>5 DEF q, now

\* A strategy that fails at any point of its turn.
LEMMA StrategyFailsKeeps ==
    ASSUME NEW r \in ScanType, NEW ms, NEW ds, ScanOf(r, ms, ds), r.pc \in Running
    PROVE  StrategyFails(r) \in ScanType /\ ScanOf(StrategyFails(r), ms, ds)
<1> DEFINE q == Failing(r)
<1>0. Todo(r) # {} /\ Accounted(r) /\ r.known \subseteq ms /\ (~r.preview => r.gave \cap r.known = {})
    BY DEF ScanOf
<1>1. /\ q \in ScanType /\ q.preview = r.preview
      /\ q.legacy = r.legacy /\ q.compiled = r.compiled
      /\ q.due = r.due /\ q.sent = r.sent /\ q.failed = r.failed \cup {Current(r)}
      /\ q.gave = r.gave /\ q.known = r.known
      /\ Todo(q) = Todo(r) /\ Current(q) = Current(r)
    BY <1>0, FailingEffect
<1>2. StrategyFails(r) = Proceed(q)
    BY DEF StrategyFails
<1> HIDE DEF q
<1>3. Accounted(q) /\ Current(q) \in q.sent \cup q.failed /\ q.failed # {}
    BY <1>0, <1>1 DEF Accounted
<1> QED BY <1>0, <1>1, <1>2, <1>3, ProceedKeeps

-----------------------------------------------------------------------------
(***************************************************************************)
(* The steps of scans.                                                     *)
(***************************************************************************)

\* A step of one scan keeps the invariant when that scan's record stays as ScanOf says.
LEMMA ScanKeeps ==
    ASSUME IInv, NEW c \in Scans, NEW r, r \in ScanType, UNCHANGED interaction,
           scan' = [scan EXCEPT ![c] = r], NoFault \/ Fault,
           markers \subseteq markers', markers' \in SUBSET (StrategyIds \X Rows),
           shown' \in SUBSET (StrategyIds \X Rows), cut' \in SUBSET (StrategyIds \X Rows),
           shown \cup cut \subseteq shown' \cup cut', markers' \subseteq shown' \cup cut',
           ScanOf(r, markers', shown' \cup cut')
    PROVE  IInv'
<1>1. faults' \in 0..MaxFaults
    BY Bounds DEF IInv, TypeOK, NoFault, Fault
<1>2. scan' \in [Scans -> ScanType] /\ scan'[c] = r /\ \A d \in Scans \ {c} : scan'[d] = scan[d]
    BY DEF IInv, TypeOK
<1>3. TypeOK'
    BY <1>1, <1>2 DEF IInv, TypeOK, interaction
<1>4. Scanning'
    <2> SUFFICES ASSUME NEW d \in Scans
                 PROVE  ScanOf(scan'[d], markers', shown' \cup cut')
        BY DEF Scanning
    <2>1. CASE d = c
        BY <2>1, <1>2
    <2>2. CASE d # c
        <3>1. ScanOf(scan[d], markers, shown \cup cut)
            BY DEF IInv, Scanning
        <3>2. ScanOf(scan[d], markers', shown' \cup cut')
            BY <3>1, ScanOfGrows
        <3> QED BY <2>2, <3>2, <1>2
    <2> QED BY <2>1, <2>2
<1>5. MarkedWasDelivered'
    BY DEF MarkedWasDelivered
<1>6. Reading' /\ Saving' /\ SavedOnce' /\ GoneDrafts' /\ GoneStrategies'
    BY DEF IInv, interaction, Reading, Saving, SavedOnce, GoneDrafts, GoneStrategies, Has, Holds, Allowed,
           Complete
<1> QED BY <1>3, <1>4, <1>5, <1>6 DEF IInv

LEMMA ScanAt ==
    ASSUME IInv, NEW c \in Scans
    PROVE  /\ scan[c] \in ScanType /\ ScanOf(scan[c], markers, shown \cup cut)
           /\ markers \in SUBSET (StrategyIds \X Rows) /\ shown \in SUBSET (StrategyIds \X Rows)
           /\ cut \in SUBSET (StrategyIds \X Rows) /\ markers \subseteq shown \cup cut
BY DEF IInv, TypeOK, Scanning, MarkedWasDelivered

\* A step that only moves one scan's record.
LEMMA MoveKeeps ==
    ASSUME IInv, NEW c \in Scans, NEW r, r \in ScanType, UNCHANGED <<interaction, markers, shown, cut>>,
           scan' = [scan EXCEPT ![c] = r], NoFault \/ Fault, ScanOf(r, markers, shown \cup cut)
    PROVE  IInv'
<1>1. /\ markers' = markers /\ shown' = shown /\ cut' = cut /\ UNCHANGED interaction
      /\ ScanOf(r, markers', shown' \cup cut')
    OBVIOUS
<1> QED BY <1>1, ScanAt, ScanKeeps

LEMMA ScanStartKeeps ==
    ASSUME IInv, NEW c \in Scans, ScanStart(c)
    PROVE  IInv'
<1>1. PICK preview \in BOOLEAN : scan' = [scan EXCEPT ![c] = [IdleScan EXCEPT
           !.pc = IF Enabled = {} THEN "ok" ELSE "load", !.preview = preview,
           !.legacy = OfKind("legacy"), !.compiled = OfKind("compiled"), !.due = Enabled, !.known = markers]]
    BY DEF ScanStart
<1> DEFINE r == [IdleScan EXCEPT
           !.pc = IF Enabled = {} THEN "ok" ELSE "load", !.preview = preview,
           !.legacy = OfKind("legacy"), !.compiled = OfKind("compiled"), !.due = Enabled, !.known = markers]
<1>2. markers \in SUBSET (StrategyIds \X Rows)
    BY ScanAt
<1>3. /\ Enabled \subseteq StrategyIds
      /\ OfKind("legacy") \subseteq Enabled /\ OfKind("compiled") \subseteq Enabled
      /\ Enabled = OfKind("legacy") \cup OfKind("compiled")
    BY DEF IInv, TypeOK, Enabled, OfKind, Strategy, Kinds
<1>4. /\ r.pc = (IF Enabled = {} THEN "ok" ELSE "load") /\ r.preview = preview
      /\ r.legacy = OfKind("legacy") /\ r.compiled = OfKind("compiled") /\ r.due = Enabled
      /\ r.known = markers /\ r.left = <<>> /\ r.rows = <<>> /\ r.sent = {} /\ r.gave = {} /\ r.failed = {}
    BY DEF IdleScan
<1>5. r \in ScanType
    <2>1. <<>> \in Seq(Rows)
        OBVIOUS
    <2> HIDE DEF Running
    <2> QED BY <1>2, <1>3, <2>1 DEF ScanType, IdleScan
<1> HIDE DEF r
<1>6. ScanOf(r, markers, shown \cup cut)
    BY <1>3, <1>4 DEF ScanOf, Accounted, Todo, Running
<1> QED BY <1>1, <1>5, <1>6, MoveKeeps DEF ScanStart, NoFault, r

LEMMA ScanLoadKeeps ==
    ASSUME IInv, NEW c \in Scans, ScanLoad(c)
    PROVE  IInv'
<1> DEFINE r == scan[c]
<1>0. /\ r \in ScanType /\ ScanOf(r, markers, shown \cup cut) /\ r.pc = "load"
      /\ UNCHANGED <<interaction, markers, shown, cut>> /\ scan \in [Scans -> ScanType]
    BY ScanAt DEF ScanLoad, At, IInv, TypeOK
<1>1. CASE scan' = [scan EXCEPT ![c].pc = "evaluate"] /\ NoFault
    <2> DEFINE q == [r EXCEPT !.pc = "evaluate"]
    <2>1. scan' = [scan EXCEPT ![c] = q]
        BY <1>0, <1>1
    <2>2. q \in ScanType
        BY <1>0 DEF ScanType
    <2>3. ScanOf(q, markers, shown \cup cut)
        BY <1>0 DEF ScanOf, Accounted, Todo, Running, ScanType
    <2> HIDE DEF q
    <2> QED BY <2>1, <2>2, <2>3, <1>0, <1>1, MoveKeeps
<1>2. CASE ~r.preview /\ NoFault /\ scan' = [scan EXCEPT ![c] = SkipPhase(r)]
    <2> DEFINE l == LeftTodo(r, {})
               q == SkipPhase(r)
               rest == r.due \ Todo(r)
               next == AfterPhase(r)
    <2>1. {} \in SUBSET StrategyIds
        OBVIOUS
    <2>2. /\ l \in ScanType /\ l.preview = r.preview /\ l.sent = r.sent
          /\ l.gave = r.gave /\ l.failed = r.failed /\ l.known = r.known
          /\ r.legacy # {} => l.legacy = {} /\ l.compiled = r.compiled
          /\ r.legacy = {} => l.legacy = {} /\ l.compiled = {}
        BY <1>0, <2>1, LeftTodoEffect
    <2>3. q = [l EXCEPT !.pc = next, !.due = rest]
        BY DEF SkipPhase
    <2>4. /\ next \in {"load", "ok"} /\ rest \in SUBSET StrategyIds
          /\ next = "load" => r.legacy # {} /\ r.compiled # {}
          /\ next = "ok" => r.legacy = {} \/ r.compiled = {}
        BY <1>0 DEF AfterPhase, ScanType
    <2> HIDE DEF l, q, next
    <2>5. /\ q \in ScanType /\ q.pc = next /\ q.due = rest /\ q.preview = r.preview /\ q.sent = r.sent
          /\ q.gave = r.gave /\ q.failed = r.failed /\ q.known = r.known
          /\ q.legacy = {} /\ (r.legacy # {} => q.compiled = r.compiled)
          /\ (r.legacy = {} => q.compiled = {})
        <3> HIDE DEF rest
        <3> QED BY <2>2, <2>3, <2>4 DEF ScanType
    <2>6. /\ Accounted(r) /\ r.failed = {} /\ r.known \subseteq markers
          /\ (~r.preview => r.gave \cap r.known = {}) /\ (~r.preview => r.gave \subseteq markers)
        BY <1>0 DEF ScanOf, Running
    <2>7. rest \subseteq r.sent \cup q.compiled
        BY <2>5, <2>6 DEF Accounted, Todo
    <2>8. next = "ok" => q.compiled = {}
        BY <2>4, <2>5
    <2> HIDE DEF rest
    <2>9. ScanOf(q, markers, shown \cup cut)
        BY <2>4, <2>5, <2>6, <2>7, <2>8 DEF ScanOf, Accounted, Todo, Running
    <2> QED BY <2>5, <2>9, <1>0, <1>2, MoveKeeps DEF q
<1>3. CASE Fault /\ scan' = [scan EXCEPT ![c].pc = "failed"]
    <2> DEFINE q == [r EXCEPT !.pc = "failed"]
    <2>1. scan' = [scan EXCEPT ![c] = q]
        BY <1>0, <1>3
    <2>2. q \in ScanType
        BY <1>0 DEF ScanType
    <2>3. ScanOf(q, markers, shown \cup cut)
        BY <1>0 DEF ScanOf, Running, ScanType
    <2> HIDE DEF q
    <2> QED BY <2>1, <2>2, <2>3, <1>0, <1>3, MoveKeeps
<1> QED BY <1>1, <1>2, <1>3 DEF ScanLoad

LEMMA ScanEvaluateKeeps ==
    ASSUME IInv, NEW c \in Scans, ScanEvaluate(c)
    PROVE  IInv'
<1> DEFINE r == scan[c]
<1>0. /\ r \in ScanType /\ ScanOf(r, markers, shown \cup cut) /\ r.pc = "evaluate"
      /\ UNCHANGED <<interaction, markers, shown, cut>>
    BY ScanAt DEF ScanEvaluate, At
<1>1. PICK rows \in RowLists : scan' = [scan EXCEPT ![c] = [r EXCEPT !.pc = "check", !.left = rows, !.rows = <<>>]]
    BY DEF ScanEvaluate
<1> DEFINE q == [r EXCEPT !.pc = "check", !.left = rows, !.rows = <<>>]
<1>2. rows \in Seq(Rows) /\ <<>> \in Seq(Rows)
    BY ListsOfRows
<1>3. q \in ScanType
    BY <1>0, <1>2 DEF ScanType
<1>4. /\ q.pc = "check" /\ q.rows = <<>> /\ q.preview = r.preview /\ q.legacy = r.legacy
      /\ q.compiled = r.compiled /\ q.due = r.due /\ q.sent = r.sent /\ q.gave = r.gave
      /\ q.failed = r.failed /\ q.known = r.known
    BY <1>0 DEF ScanType
<1> HIDE DEF q
<1>5. Pairs(q, q.rows) = {}
    BY <1>4 DEF Pairs, Range
<1>6. ScanOf(q, markers, shown \cup cut)
    BY <1>0, <1>4, <1>5 DEF ScanOf, Accounted, Todo, Running
<1> QED BY <1>0, <1>1, <1>3, <1>6, MoveKeeps DEF ScanEvaluate, NoFault, q

\* The rows that a check lets through were not marked, so not when the scan started either.
LEMMA ScanCheckKeeps ==
    ASSUME IInv, NEW c \in Scans, ScanCheck(c)
    PROVE  IInv'
<1> DEFINE r == scan[c]
           q == Checked(c)
<1>0. /\ r \in ScanType /\ ScanOf(r, markers, shown \cup cut) /\ r.pc = "check"
      /\ UNCHANGED <<interaction, markers, shown, cut>> /\ scan' = [scan EXCEPT ![c] = q]
    BY ScanAt DEF ScanCheck, At
<1>1. /\ Todo(r) # {} /\ r.known \subseteq markers /\ r.left \in Seq(Rows) /\ r.rows \in Seq(Rows)
      /\ ~r.preview => Pairs(r, r.rows) \cap r.known = {}
    BY <1>0 DEF ScanOf, Running, ScanType
<1>2. /\ q \in ScanType /\ q.pc \in {"check", "send"} /\ q.preview = r.preview /\ q.legacy = r.legacy
      /\ q.compiled = r.compiled /\ q.due = r.due /\ q.sent = r.sent /\ q.gave = r.gave
      /\ q.failed = r.failed /\ q.known = r.known
      /\ ~r.preview => Pairs(r, q.rows) \cap r.known = {}
    <2>1. CASE r.left = <<>>
        BY <2>1, <1>0, <1>1 DEF Checked, ScanType
    <2>2. CASE r.left # <<>>
        <3> DEFINE e == Head(r.left)
                   rest == Tail(r.left)
                   rows == IF Deliverable(c, e) THEN Append(r.rows, e) ELSE r.rows
        <3>1. e \in Rows /\ rest \in Seq(Rows)
            BY <2>2, <1>1, RangeOfTail
        <3>2. Append(r.rows, e) \in Seq(Rows) /\ Range(Append(r.rows, e)) = Range(r.rows) \cup {e}
            BY <3>1, <1>1, RangeOfAppend
        <3>3. rows \in Seq(Rows) /\ (Range(rows) = Range(r.rows) \/ (Deliverable(c, e) /\ Range(rows) = Range(r.rows) \cup {e}))
            BY <3>2, <1>1
        <3>4. q = [r EXCEPT !.left = rest, !.rows = rows]
            BY <2>2 DEF Checked
        <3>5. ~r.preview => Pairs(r, rows) \cap r.known = {}
            <4> HIDE DEF rows, e, rest
            <4>1. (Deliverable(c, e) /\ ~r.preview) => <<Current(r), e>> \notin r.known
                BY <1>1 DEF Deliverable
            <4> QED BY <4>1, <3>3, <1>1 DEF Pairs
        <3> HIDE DEF rows, e, rest, q
        <3>6. /\ q \in ScanType /\ q.pc = r.pc /\ q.preview = r.preview /\ q.legacy = r.legacy
              /\ q.compiled = r.compiled /\ q.due = r.due /\ q.sent = r.sent /\ q.gave = r.gave
              /\ q.failed = r.failed /\ q.known = r.known /\ q.rows = rows
            BY <3>1, <3>3, <3>4, <1>0 DEF ScanType
        <3> QED BY <3>5, <3>6, <1>0
    <2> QED BY <2>1, <2>2
<1> HIDE DEF q
<1>3. Todo(q) = Todo(r)
    BY <1>2 DEF Todo
<1>4. Pairs(q, q.rows) = Pairs(r, q.rows)
    BY <1>3 DEF Pairs, Current
<1>5. ScanOf(q, markers, shown \cup cut)
    BY <1>0, <1>2, <1>3, <1>4 DEF ScanOf, Accounted, Running
<1> QED BY <1>0, <1>2, <1>5, MoveKeeps DEF ScanCheck, NoFault

\* A delivered card shows each of its rows or counts it among those left out.
LEMMA CardShows ==
    ASSUME IInv, NEW c \in Scans, Todo(scan[c]) # {}, ShowCard(c)
    PROVE  /\ shown' \in SUBSET (StrategyIds \X Rows) /\ cut' \in SUBSET (StrategyIds \X Rows)
           /\ shown \cup cut \cup Pairs(scan[c], scan[c].rows) \subseteq shown' \cup cut'
<1> DEFINE r == scan[c]
           all == Pairs(r, r.rows)
           some == Pairs(r, Listed(r))
<1>0. r \in ScanType /\ r.rows \in Seq(Rows) /\ Len(r.rows) \in Nat /\ CardRows \in Nat
    BY ScanAt, Bounds DEF ScanType
<1>1. Listed(r) \in Seq(Rows)
    <2>1. CASE ~(Len(r.rows) <= CardRows)
        <3>1. CardRows <= Len(r.rows)
            BY <2>1, <1>0
        <3> QED BY <3>1, <1>0, RangeOfStart DEF Listed
    <2> QED BY <2>1, <1>0 DEF Listed
<1>2. all \subseteq StrategyIds \X Rows /\ some \subseteq StrategyIds \X Rows
    BY <1>0, <1>1, PairsType
<1>3. shown' = shown \cup some /\ cut' = cut \cup (all \ some)
    BY DEF ShowCard
<1> HIDE DEF all, some
<1>4. shown \in SUBSET (StrategyIds \X Rows) /\ cut \in SUBSET (StrategyIds \X Rows)
    BY ScanAt
<1> QED BY <1>2, <1>3, <1>4 DEF all

LEMMA ScanSendKeeps ==
    ASSUME IInv, NEW c \in Scans, ScanSend(c)
    PROVE  IInv'
<1> DEFINE r == scan[c]
           ds == shown' \cup cut'
<1>0. /\ r \in ScanType /\ ScanOf(r, markers, shown \cup cut) /\ r.pc = "send"
      /\ UNCHANGED interaction /\ markers' = markers
      /\ markers \in SUBSET (StrategyIds \X Rows) /\ shown \in SUBSET (StrategyIds \X Rows)
      /\ cut \in SUBSET (StrategyIds \X Rows) /\ markers \subseteq shown \cup cut
    BY ScanAt DEF ScanSend, At
<1>1. /\ Todo(r) # {} /\ Accounted(r) /\ r.known \subseteq markers
      /\ ~r.preview => r.gave \cap r.known = {} /\ Pairs(r, r.rows) \cap r.known = {}
      /\ (~r.preview /\ r.failed = {}) => r.gave \subseteq markers
    BY <1>0 DEF ScanOf, Running
<1>2. CASE ShowCard(c) /\ NoFault /\ scan' = [scan EXCEPT ![c] =
              IF r.preview THEN Proceed(StrategySent(r)) ELSE StrategySent(r)]
    <2> DEFINE q == StrategySent(r)
    <2>1. /\ shown' \in SUBSET (StrategyIds \X Rows) /\ cut' \in SUBSET (StrategyIds \X Rows)
          /\ shown \cup cut \cup Pairs(r, r.rows) \subseteq ds
        BY <1>1, <1>2, CardShows
    <2>2. /\ q \in ScanType /\ q.pc = "mark" /\ q.preview = r.preview
          /\ q.legacy = r.legacy /\ q.compiled = r.compiled /\ q.left = r.rows
          /\ q.due = r.due /\ q.sent = r.sent \cup {Current(r)} /\ q.failed = r.failed
          /\ q.gave = r.gave \cup Pairs(r, r.rows) /\ q.known = r.known
          /\ Todo(q) = Todo(r) /\ Current(q) = Current(r)
        BY <1>0, <1>1, SentEffect
    <2> HIDE DEF q
    <2>3. Accounted(q) /\ Pairs(q, q.left) = Pairs(r, r.rows)
        BY <1>1, <2>2 DEF Accounted, Pairs
    <2>4. CASE r.preview
        <3>1. Proceed(q) \in ScanType /\ ScanOf(Proceed(q), markers', ds)
            <4>1. /\ Todo(q) # {} /\ Current(q) \in q.sent \cup q.failed /\ q.known \subseteq markers'
                  /\ q.preview
                BY <1>0, <1>1, <2>2, <2>4
            <4> QED BY <4>1, <2>2, <2>3, ProceedKeeps
        <3>2. scan' = [scan EXCEPT ![c] = Proceed(q)]
            BY <1>2, <2>4 DEF q
        <3> QED BY <3>1, <3>2, <1>0, <1>2, <2>1, ScanKeeps
    <2>5. CASE ~r.preview
        <3>1. ScanOf(q, markers', ds)
            BY <1>0, <1>1, <2>1, <2>2, <2>3 DEF ScanOf, Running
        <3>2. scan' = [scan EXCEPT ![c] = q]
            BY <1>2, <2>5 DEF q
        <3> QED BY <3>1, <3>2, <1>0, <1>2, <2>1, <2>2, ScanKeeps
    <2> QED BY <2>4, <2>5
<1>3. CASE /\ Fault /\ scan' = [scan EXCEPT ![c] = StrategyFails(r)]
           /\ ShowCard(c) \/ UNCHANGED <<shown, cut>>
    <2>1. /\ shown' \in SUBSET (StrategyIds \X Rows) /\ cut' \in SUBSET (StrategyIds \X Rows)
          /\ shown \cup cut \subseteq ds
        BY <1>0, <1>1, <1>3, CardShows
    <2>2. ScanOf(r, markers', ds)
        BY <1>0, <2>1, ScanOfGrows
    <2>3. StrategyFails(r) \in ScanType /\ ScanOf(StrategyFails(r), markers', ds)
        BY <1>0, <2>2, StrategyFailsKeeps DEF Running
    <2> QED BY <2>1, <2>3, <1>0, <1>3, ScanKeeps
<1> QED BY <1>2, <1>3 DEF ScanSend

\* A mark follows a delivered card, and the rows left to mark are those the card had.
LEMMA ScanMarkKeeps ==
    ASSUME IInv, NEW c \in Scans, ScanMark(c)
    PROVE  IInv'
<1> DEFINE r == scan[c]
           ds == shown \cup cut
<1>0. /\ r \in ScanType /\ ScanOf(r, markers, ds) /\ r.pc = "mark"
      /\ UNCHANGED interaction /\ shown' = shown /\ cut' = cut /\ NoFault
      /\ markers \in SUBSET (StrategyIds \X Rows) /\ shown \in SUBSET (StrategyIds \X Rows)
      /\ cut \in SUBSET (StrategyIds \X Rows) /\ markers \subseteq ds
      /\ scan \in [Scans -> ScanType]
    BY ScanAt DEF ScanMark, At, NoFault, IInv, TypeOK
<1>1. /\ Todo(r) # {} /\ Accounted(r) /\ r.known \subseteq markers /\ r.left \in Seq(Rows)
      /\ Current(r) \in r.sent /\ Pairs(r, r.left) \subseteq ds
      /\ ~r.preview => r.gave \cap r.known = {}
      /\ (~r.preview /\ r.failed = {}) => r.gave \subseteq markers \cup Pairs(r, r.left)
    BY <1>0 DEF ScanOf, Running, ScanType
<1>2. CASE r.left = <<>>
    <2>1. Pairs(r, r.left) = {}
        BY <1>2 DEF Pairs, Range
    <2>2. Proceed(r) \in ScanType /\ ScanOf(Proceed(r), markers, ds)
        BY <1>0, <1>1, <2>1, ProceedKeeps
    <2>3. scan' = [scan EXCEPT ![c] = Proceed(r)] /\ markers' = markers
        BY <1>2 DEF ScanMark
    <2> QED BY <2>2, <2>3, <1>0, MoveKeeps
<1>3. CASE r.left # <<>>
    <2> DEFINE q == [r EXCEPT !.left = Tail(r.left)]
               pair == <<Current(r), Head(r.left)>>
    <2>1. markers' = markers \cup {pair} /\ scan' = [scan EXCEPT ![c] = q]
        BY <1>0, <1>3 DEF ScanMark
    <2>2. Head(r.left) \in Rows /\ Tail(r.left) \in Seq(Rows) /\ Range(r.left) = {Head(r.left)} \cup Range(Tail(r.left))
        BY <1>1, <1>3, RangeOfTail
    <2>3. /\ q \in ScanType /\ q.pc = "mark" /\ q.left = Tail(r.left) /\ q.preview = r.preview
          /\ q.legacy = r.legacy /\ q.compiled = r.compiled /\ q.due = r.due /\ q.sent = r.sent
          /\ q.gave = r.gave /\ q.failed = r.failed /\ q.known = r.known
        BY <1>0, <2>2 DEF ScanType
    <2> HIDE DEF q
    <2>4. Todo(q) = Todo(r) /\ Current(q) = Current(r)
        BY <2>3 DEF Todo, Current
    <2>5. Pairs(r, r.left) = {pair} \cup Pairs(q, q.left)
        BY <2>2, <2>3, <2>4 DEF Pairs
    <2>6. pair \in StrategyIds \X Rows
        BY <1>0, <1>1, <2>2, CurrentInTodo
    <2> HIDE DEF pair
    <2>7. markers' \in SUBSET (StrategyIds \X Rows) /\ markers' \subseteq ds /\ markers \subseteq markers'
        BY <1>0, <1>1, <2>1, <2>5, <2>6
    <2>8. (~r.preview /\ r.failed = {}) => r.gave \subseteq markers' \cup Pairs(q, q.left)
        BY <1>1, <2>1, <2>5
    <2>9. ScanOf(q, markers', shown' \cup cut')
        BY <1>0, <1>1, <2>3, <2>4, <2>5, <2>7, <2>8 DEF ScanOf, Accounted
    <2> QED BY <2>1, <2>3, <2>7, <2>9, <1>0, ScanKeeps
<1> QED BY <1>2, <1>3

LEMMA ScanStrategyFailsKeeps ==
    ASSUME IInv, NEW c \in Scans, ScanStrategyFails(c)
    PROVE  IInv'
<1>1. /\ scan[c] \in ScanType /\ ScanOf(scan[c], markers, shown \cup cut) /\ scan[c].pc \in Running
    BY ScanAt DEF ScanStrategyFails, Running
<1>2. StrategyFails(scan[c]) \in ScanType /\ ScanOf(StrategyFails(scan[c]), markers, shown \cup cut)
    BY <1>1, StrategyFailsKeeps
<1> QED BY <1>2, MoveKeeps DEF ScanStrategyFails

LEMMA ScanCrashKeeps ==
    ASSUME IInv, NEW c \in Scans, ScanCrash(c)
    PROVE  IInv'
<1> DEFINE r == scan[c]
           q == [r EXCEPT !.pc = "crashed"]
<1>0. r \in ScanType /\ ScanOf(r, markers, shown \cup cut) /\ scan \in [Scans -> ScanType]
    BY ScanAt DEF IInv, TypeOK
<1>1. scan' = [scan EXCEPT ![c] = q]
    BY <1>0 DEF ScanCrash
<1>2. q \in ScanType
    BY <1>0 DEF ScanType
<1>3. ScanOf(q, markers, shown \cup cut)
    BY <1>0 DEF ScanOf, Running, ScanType
<1> HIDE DEF q
<1> QED BY <1>1, <1>2, <1>3, MoveKeeps DEF ScanCrash

-----------------------------------------------------------------------------
(***************************************************************************)
(* The owner's actions.                                                    *)
(***************************************************************************)

InteractionOK ==
    /\ DraftsOK
    /\ strategies \in [StrategyIds -> Strategy \cup {None}]
    /\ op \in [Ops -> OpType]
    /\ origin \in [StrategyIds -> DraftIds \cup {None}]
    /\ gone \in SUBSET (DraftIds \cup StrategyIds) /\ raced \in SUBSET (DraftIds \cup StrategyIds)

LEMMA InteractionKeeps ==
    ASSUME IInv, UNCHANGED scanning, NoFault \/ Fault,
           InteractionOK', Reading', Saving', SavedOnce', GoneDrafts', GoneStrategies'
    PROVE  IInv'
<1>1. faults' \in 0..MaxFaults
    BY Bounds DEF IInv, TypeOK, NoFault, Fault
<1>2. TypeOK'
    BY <1>1 DEF IInv, TypeOK, scanning, InteractionOK, DraftsOK
<1>3. MarkedWasDelivered' /\ Scanning'
    BY DEF IInv, MarkedWasDelivered, Scanning, scanning
<1> QED BY <1>2, <1>3 DEF IInv

LEMMA Interacting ==
    ASSUME IInv
    PROVE  InteractionOK /\ DraftsOK /\ Reading /\ Saving /\ SavedOnce /\ GoneDrafts /\ GoneStrategies
BY DEF IInv, TypeOK, InteractionOK, DraftsOK

\* What one action leaves of the actions in flight.
Others(o) == \A p \in Ops \ {o} : op'[p] = op[p]
Ended(o)  == op'[o].pc = "done" /\ op'[o].draft = None

LEMMA FinishEffect ==
    ASSUME IInv, NEW o \in Ops, Finish(o)
    PROVE  op' \in [Ops -> OpType] /\ Others(o) /\ Ended(o) /\ Reading'
<1>1. [IdleOp EXCEPT !.pc = "done"] \in OpType
    BY DEF IdleOp, OpType
<1>2. op \in [Ops -> OpType] /\ Reading
    BY Interacting DEF InteractionOK
<1>3. op' \in [Ops -> OpType] /\ Others(o) /\ Ended(o)
    BY <1>1, <1>2 DEF Finish, Others, Ended, IdleOp
<1>4. Reading'
    BY <1>2, <1>3 DEF Reading, Others, Ended, Allowed, Complete
<1> QED BY <1>3, <1>4

\* An action that takes no step of its own: only its place in op changes.
LEMMA HoldsOther ==
    ASSUME NEW o \in Ops, Others(o), NEW p \in Ops \ {o}, NEW x
    PROVE  Holds(p, x)' <=> Holds(p, x)
BY DEF Others, Holds

\* When no other action overlaps one that holds a draft, nothing was saved from that draft.
LEMMA NothingSaved ==
    ASSUME IInv, NEW o \in Ops, NEW x \in DraftIds \ raced, Holds(o, x), op[o].pc # "saved",
           ~Overlaps(o, x), NEW s \in StrategyIds
    PROVE  origin[s] # x
<1>1. SUFFICES ASSUME origin[s] = x
               PROVE  FALSE
    OBVIOUS
<1>2. (\E p \in Ops : op[p].pc = "saved" /\ Holds(p, x)) \/ (\A p \in Ops : ~Holds(p, x))
    BY <1>1, Interacting DEF Saving
<1>3. PICK p \in Ops : op[p].pc = "saved" /\ Holds(p, x)
    BY <1>2
<1> QED BY <1>3 DEF Overlaps

\* An action on the draft x keeps Saving for the other drafts when it stores none of them and
\* comes to hold none of them.
LEMMA SavingElsewhere ==
    ASSUME IInv, NEW o \in Ops, Others(o), raced \subseteq raced', NEW y \in DraftIds \ raced',
           Has(y)' => Has(y), Holds(o, y)' => Holds(o, y), ~(op[o].pc = "saved" /\ Holds(o, y)),
           NEW s \in StrategyIds, origin[s] = y
    PROVE  \/ \E p \in Ops : op'[p].pc = "saved" /\ Holds(p, y)'
           \/ ~Has(y)' /\ \A p \in Ops : ~Holds(p, y)'
<1>1. CASE \E p \in Ops : op[p].pc = "saved" /\ Holds(p, y)
    <2>1. PICK p \in Ops : op[p].pc = "saved" /\ Holds(p, y)
        BY <1>1
    <2>2. p # o
        BY <2>1
    <2>3. Holds(p, y)' /\ op'[p].pc = "saved"
        BY <2>1, <2>2, HoldsOther DEF Others
    <2> QED BY <2>3
<1>2. CASE ~Has(y) /\ \A p \in Ops : ~Holds(p, y)
    <2>1. \A p \in Ops : ~Holds(p, y)'
        BY <1>2, HoldsOther
    <2> QED BY <1>2, <2>1
<1> QED BY <1>1, <1>2, Interacting DEF Saving

LEMMA CreateDraftKeeps ==
    ASSUME IInv, NEW o \in Ops, CreateDraft(o)
    PROVE  IInv'
<1>1. PICK x \in NewDrafts, named \in BOOLEAN :
         PutDraft([id |-> x, name |-> named, direction |-> FALSE, rules |-> None,
                   state |-> IF named THEN "awaiting_direction" ELSE "awaiting_name"])
    BY DEF CreateDraft
<1> DEFINE d == [id |-> x, name |-> named, direction |-> FALSE, rules |-> None,
                 state |-> IF named THEN "awaiting_direction" ELSE "awaiting_name"]
<1>2. /\ x \in DraftIds \ gone /\ (\A s \in StrategyIds : origin[s] # x)
    BY DEF NewDrafts
<1>3. d \in Draft /\ Complete(d) /\ d.id = x
    BY <1>2 DEF Draft, States, Complete
<1> HIDE DEF d
<1>4. /\ op[o].pc = "idle" /\ Finish(o)
      /\ UNCHANGED <<strategies, origin, gone, raced, scanning, faults>> /\ PutDraft(d)
    BY <1>1 DEF CreateDraft, Free, d
<1>5. /\ DraftsOK'
      /\ \A e \in Range(drafts') : e = d \/ (e.id # x /\ e \in Range(drafts))
      /\ \A y : y # x /\ Has(y)' => Has(y)
    BY <1>3, <1>4, PutEffect, Interacting
<1>6. op' \in [Ops -> OpType] /\ Others(o) /\ Ended(o) /\ Reading'
    BY <1>4, FinishEffect
<1>7. InteractionOK'
    BY <1>4, <1>5, <1>6, Interacting DEF InteractionOK
<1>8. Saving'
    <2> SUFFICES ASSUME NEW s \in StrategyIds, NEW y \in DraftIds \ raced, origin[s] = y
                 PROVE  \/ \E p \in Ops : op'[p].pc = "saved" /\ Holds(p, y)'
                        \/ ~Has(y)' /\ \A p \in Ops : ~Holds(p, y)'
        BY <1>4 DEF Saving
    <2>1. y # x
        BY <1>2
    <2>2. ~Holds(o, y)'
        BY <1>6 DEF Ended, Holds
    <2> QED BY <2>1, <2>2, <1>4, <1>5, <1>6, SavingElsewhere
<1>9. GoneDrafts'
    BY <1>2, <1>3, <1>4, <1>5, Interacting DEF GoneDrafts
<1>10. SavedOnce' /\ GoneStrategies'
    BY <1>4, Interacting DEF SavedOnce, GoneStrategies
<1> QED BY <1>4, <1>6, <1>7, <1>8, <1>9, <1>10, InteractionKeeps DEF scanning, NoFault

LEMMA ReadDraftKeeps ==
    ASSUME IInv, NEW o \in Ops, ReadDraft(o)
    PROVE  IInv'
<1>1. PICK kind \in {"name", "direction", "rules", "save", "cancel"} : \E d \in Chosen(kind) :
         Allowed(kind, d) /\ op' = [op EXCEPT ![o] = [IdleOp EXCEPT !.pc = kind, !.draft = d]]
    BY DEF ReadDraft
<1>2. PICK d \in Chosen(kind) :
         Allowed(kind, d) /\ op' = [op EXCEPT ![o] = [IdleOp EXCEPT !.pc = kind, !.draft = d]]
    BY <1>1
<1>3. /\ op[o].pc = "idle" /\ UNCHANGED <<drafts, strategies, origin, gone, raced, scanning, faults>>
    BY DEF ReadDraft, Free
<1>4. /\ drafts \in Seq(Draft) /\ StoredDrafts(drafts) /\ op \in [Ops -> OpType] /\ Reading
    BY Interacting DEF DraftsOK, InteractionOK
<1>5. PICK i \in DOMAIN drafts : d = drafts[i]
    <2>1. CASE d \in Range(drafts)
        BY <2>1 DEF Range
    <2>2. CASE d \notin Range(drafts)
        <3>1. drafts # <<>> /\ d = Last(drafts)
            BY <2>2 DEF Chosen
        <3>2. Len(drafts) \in DOMAIN drafts
            BY <3>1, <1>4
        <3> QED BY <3>1, <3>2 DEF Last
    <2> QED BY <2>1, <2>2
<1>6. d \in Draft /\ Complete(d) /\ d.id \in DraftIds /\ Has(d.id)
    <2>1. drafts[i] \in Draft
        BY <1>4
    <2>2. Complete(drafts[i])
        BY <1>4 DEF StoredDrafts
    <2> QED BY <2>1, <2>2, <1>5 DEF Draft, Has
<1> DEFINE n == [IdleOp EXCEPT !.pc = kind, !.draft = d]
<1>7. n \in OpType /\ n.pc = kind /\ n.draft = d /\ n.id = None
    BY <1>6 DEF OpType, IdleOp
<1> HIDE DEF n
<1>8. op' \in [Ops -> OpType] /\ Others(o) /\ op'[o] = n
    BY <1>2, <1>4, <1>7 DEF Others, n
<1>9. InteractionOK'
    BY <1>3, <1>8, Interacting DEF InteractionOK, DraftsOK
<1>10. Reading'
    <2> SUFFICES ASSUME NEW p \in Ops
                 PROVE  /\ op'[p].pc \in {"toggle", "delete"} =>
                             op'[p].id \in StrategyIds /\ op'[p].strategy \in Strategy
                        /\ op'[p].pc \in {"name", "direction", "rules", "save", "saved", "cancel"} =>
                             op'[p].draft \in Draft /\ Complete(op'[p].draft)
                        /\ op'[p].pc \in {"name", "direction", "rules", "save"} =>
                             Allowed(op'[p].pc, op'[p].draft)
        BY DEF Reading, Allowed, Complete
    <2>1. CASE p = o
        BY <2>1, <1>2, <1>6, <1>7, <1>8
    <2>2. CASE p # o
        BY <2>2, <1>4, <1>8 DEF Reading, Others
    <2> QED BY <2>1, <2>2
<1>11. Saving'
    <2> SUFFICES ASSUME NEW s \in StrategyIds, NEW y \in DraftIds \ raced, origin[s] = y
                 PROVE  \/ \E p \in Ops : op'[p].pc = "saved" /\ Holds(p, y)'
                        \/ ~Has(y)' /\ \A p \in Ops : ~Holds(p, y)'
        BY <1>3 DEF Saving
    <2>1. CASE \E p \in Ops : op[p].pc = "saved" /\ Holds(p, y)
        <3>1. PICK p \in Ops : op[p].pc = "saved" /\ Holds(p, y)
            BY <2>1
        <3>2. p \in Ops \ {o}
            BY <3>1, <1>3
        <3>3. Holds(p, y)' /\ op'[p].pc = "saved"
            BY <3>1, <3>2, <1>8, HoldsOther DEF Others
        <3> QED BY <3>3
    <2>2. CASE ~Has(y) /\ \A p \in Ops : ~Holds(p, y)
        <3>1. ~Has(y)'
            BY <2>2, <1>3 DEF Has
        <3>2. ~Holds(o, y)'
            BY <2>2, <1>6, <1>7, <1>8 DEF Holds
        <3>3. \A p \in Ops : ~Holds(p, y)'
            BY <2>2, <3>2, <1>8, HoldsOther
        <3> QED BY <3>1, <3>3
    <2> QED BY <2>1, <2>2, Interacting DEF Saving
<1>12. SavedOnce' /\ GoneStrategies' /\ GoneDrafts'
    BY <1>3, Interacting DEF SavedOnce, GoneStrategies, GoneDrafts
<1> QED BY <1>3, <1>9, <1>10, <1>11, <1>12, InteractionKeeps DEF scanning, NoFault

\* What an action on the draft it holds does to the set of raced drafts.
LEMMA RaceEffect ==
    ASSUME InteractionOK, NEW o \in Ops, NEW x \in DraftIds \cup StrategyIds,
           raced' = raced \/ raced' = raced \cup {x}
    PROVE  raced' \in SUBSET (DraftIds \cup StrategyIds) /\ raced \subseteq raced'
BY DEF InteractionOK

\* The draft an action has read.
LEMMA HeldDraft ==
    ASSUME IInv, NEW o \in Ops,
           op[o].pc \in {"name", "direction", "rules", "save", "saved", "cancel"}
    PROVE  /\ op[o].draft \in Draft /\ Complete(op[o].draft) /\ op[o].draft.id \in DraftIds
           /\ op[o].draft # None /\ Holds(o, op[o].draft.id)
           /\ \A y : Holds(o, y) => y = op[o].draft.id
<1>1. op[o].draft \in Draft /\ Complete(op[o].draft)
    BY Interacting DEF Reading
<1> QED BY <1>1, NoneIsNew DEF Draft, Holds

\* Writing back an edited draft, for which x is its identifier.
LEMMA EditDraftKeeps ==
    ASSUME IInv, NEW o \in Ops, EditDraft(o)
    PROVE  IInv'
<1> DEFINE d == op[o].draft
<1>0. /\ op[o].pc \in {"name", "direction", "rules"} /\ Finish(o)
      /\ UNCHANGED <<strategies, origin, gone, scanning, faults>>
      /\ raced' = IF Stale(o) \/ Overlaps(o, d.id) THEN raced \cup {d.id} ELSE raced
    BY DEF EditDraft, Race
<1>1. /\ d \in Draft /\ Complete(d) /\ d.id \in DraftIds /\ Holds(o, d.id)
      /\ \A y : Holds(o, y) => y = d.id
    BY <1>0, HeldDraft
<1>2. Allowed(op[o].pc, d)
    BY <1>0, Interacting DEF Reading
<1>3. PICK e \in Edited(o) : PutDraft(e)
    BY DEF EditDraft
<1>4. e \in Draft /\ Complete(e) /\ e.id = d.id
    <2>1. CASE op[o].pc = "name"
        <3>1. e = [d EXCEPT !.name = TRUE, !.state = "awaiting_direction"] /\ d.state = "awaiting_name"
            BY <2>1, <1>2 DEF Edited, Allowed
        <3> QED BY <3>1, <1>1 DEF Draft, Complete, States
    <2>2. CASE op[o].pc = "direction"
        <3>1. e = [d EXCEPT !.direction = TRUE, !.state = "awaiting_rules"] /\ d.state = "awaiting_direction"
            BY <2>2, <1>2 DEF Edited, Allowed
        <3> QED BY <3>1, <1>1 DEF Draft, Complete, States
    <2>3. CASE op[o].pc = "rules"
        <3>1. PICK k \in Kinds : e = [d EXCEPT !.rules = k, !.state = "ready"]
            BY <2>3 DEF Edited
        <3>2. d.state \in {"awaiting_rules", "ready"}
            BY <2>3, <1>2 DEF Allowed
        <3>3. k # None
            BY NoneIsNew
        <3> QED BY <3>1, <3>2, <3>3, <1>1 DEF Draft, Complete, States
    <2> QED BY <2>1, <2>2, <2>3, <1>0
<1>5. PICK x \in DraftIds : x = d.id
    BY <1>1
<1> HIDE DEF d
<1>6. /\ DraftsOK'
      /\ \A f \in Range(drafts') : f = e \/ (f.id # x /\ f \in Range(drafts))
      /\ \A y : y # x /\ Has(y)' => Has(y)
    BY <1>3, <1>4, <1>5, PutEffect, Interacting
<1>7. op' \in [Ops -> OpType] /\ Others(o) /\ Ended(o) /\ Reading'
    BY <1>0, FinishEffect
<1>8. /\ raced' \in SUBSET (DraftIds \cup StrategyIds) /\ raced \subseteq raced'
      /\ x \notin raced' => ~Stale(o) /\ ~Overlaps(o, x) /\ x \notin raced
    BY <1>0, <1>5, RaceEffect, Interacting
<1>9. InteractionOK'
    BY <1>0, <1>6, <1>7, <1>8, Interacting DEF InteractionOK
<1>10. Saving'
    <2> SUFFICES ASSUME NEW s \in StrategyIds, NEW y \in DraftIds \ raced', origin[s] = y
                 PROVE  \/ \E p \in Ops : op'[p].pc = "saved" /\ Holds(p, y)'
                        \/ ~Has(y)' /\ \A p \in Ops : ~Holds(p, y)'
        BY <1>0 DEF Saving
    <2>1. y # x
        BY <1>0, <1>1, <1>5, <1>8, NothingSaved
    <2>2. ~Holds(o, y)'
        BY <1>7 DEF Ended, Holds
    <2>3. ~Holds(o, y)
        BY <2>1, <1>1, <1>5
    <2> QED BY <2>1, <2>2, <2>3, <1>6, <1>7, <1>8, SavingElsewhere
<1>11. GoneDrafts'
    <2>1. x \in gone => x \in raced'
        <3>1. SUFFICES ASSUME x \in gone, ~Stale(o), x \notin raced
                       PROVE  FALSE
            BY <1>8
        <3> QED BY <3>1, <1>5, Interacting DEF Stale, GoneDrafts, d
    <2> QED BY <2>1, <1>0, <1>4, <1>5, <1>6, <1>8, Interacting DEF GoneDrafts
<1>12. SavedOnce' /\ GoneStrategies'
    BY <1>0, <1>8, Interacting DEF SavedOnce, GoneStrategies
<1> QED BY <1>0, <1>7, <1>9, <1>10, <1>11, <1>12, InteractionKeeps DEF scanning, NoFault

LEMMA RulesRejectedKeeps ==
    ASSUME IInv, NEW o \in Ops, RulesRejected(o)
    PROVE  IInv'
<1>0. /\ op[o].pc = "rules" /\ Finish(o)
      /\ UNCHANGED <<drafts, strategies, origin, gone, raced, scanning, faults>>
    BY DEF RulesRejected
<1>1. op' \in [Ops -> OpType] /\ Others(o) /\ Ended(o) /\ Reading'
    BY <1>0, FinishEffect
<1>2. InteractionOK'
    BY <1>0, <1>1, Interacting DEF InteractionOK, DraftsOK
<1>3. Saving'
    <2> SUFFICES ASSUME NEW s \in StrategyIds, NEW y \in DraftIds \ raced, origin[s] = y
                 PROVE  \/ \E p \in Ops : op'[p].pc = "saved" /\ Holds(p, y)'
                        \/ ~Has(y)' /\ \A p \in Ops : ~Holds(p, y)'
        BY <1>0 DEF Saving
    <2>1. ~Holds(o, y)' /\ (Has(y)' => Has(y))
        BY <1>0, <1>1 DEF Ended, Holds, Has
    <2> QED BY <2>1, <1>0, <1>1, SavingElsewhere
<1>4. SavedOnce' /\ GoneStrategies' /\ GoneDrafts'
    BY <1>0, Interacting DEF SavedOnce, GoneStrategies, GoneDrafts
<1> QED BY <1>0, <1>1, <1>2, <1>3, <1>4, InteractionKeeps DEF scanning, NoFault

LEMMA CancelDraftKeeps ==
    ASSUME IInv, NEW o \in Ops, CancelDraft(o)
    PROVE  IInv'
<1> DEFINE d == op[o].draft
<1>0. /\ op[o].pc = "cancel" /\ Finish(o) /\ DropDraft(d.id)
      /\ UNCHANGED <<strategies, origin, scanning, faults>> /\ gone' = gone \cup {d.id}
      /\ raced' = IF Stale(o) \/ Overlaps(o, d.id) THEN raced \cup {d.id} ELSE raced
    BY DEF CancelDraft, Race
<1>1. d.id \in DraftIds /\ Holds(o, d.id) /\ \A y : Holds(o, y) => y = d.id
    BY <1>0, HeldDraft
<1>2. PICK x \in DraftIds : x = d.id
    BY <1>1
<1> HIDE DEF d
<1>3. /\ DraftsOK' /\ ~Has(x)' /\ (\A y : Has(y)' => Has(y))
      /\ \A f \in Range(drafts') : f.id # x /\ f \in Range(drafts)
    BY <1>0, <1>2, DropEffect, Interacting
<1>4. op' \in [Ops -> OpType] /\ Others(o) /\ Ended(o) /\ Reading'
    BY <1>0, FinishEffect
<1>5. /\ raced' \in SUBSET (DraftIds \cup StrategyIds) /\ raced \subseteq raced'
      /\ x \notin raced' => ~Overlaps(o, x) /\ x \notin raced
    BY <1>0, <1>2, RaceEffect, Interacting
<1>6. InteractionOK'
    BY <1>0, <1>2, <1>3, <1>4, <1>5, Interacting DEF InteractionOK
<1>7. Saving'
    <2> SUFFICES ASSUME NEW s \in StrategyIds, NEW y \in DraftIds \ raced', origin[s] = y
                 PROVE  \/ \E p \in Ops : op'[p].pc = "saved" /\ Holds(p, y)'
                        \/ ~Has(y)' /\ \A p \in Ops : ~Holds(p, y)'
        BY <1>0 DEF Saving
    <2>1. y # x
        BY <1>0, <1>1, <1>2, <1>5, NothingSaved
    <2>2. ~Holds(o, y)' /\ ~Holds(o, y)
        BY <2>1, <1>1, <1>2, <1>4 DEF Ended, Holds
    <2> QED BY <2>2, <1>3, <1>4, <1>5, SavingElsewhere
<1>8. GoneDrafts'
    BY <1>0, <1>2, <1>3, <1>5, Interacting DEF GoneDrafts
<1>9. SavedOnce' /\ GoneStrategies'
    BY <1>0, <1>2, <1>5, Interacting, IdsAreUnique DEF SavedOnce, GoneStrategies
<1> QED BY <1>0, <1>4, <1>6, <1>7, <1>8, <1>9, InteractionKeeps DEF scanning, NoFault

\* The first write of a save: the draft has its strategy, and is still stored.
LEMMA SaveStrategyKeeps ==
    ASSUME IInv, NEW o \in Ops, SaveStrategy(o)
    PROVE  IInv'
<1> DEFINE d == op[o].draft
<1>0. /\ op[o].pc = "save" /\ op' = [op EXCEPT ![o].pc = "saved"]
      /\ UNCHANGED <<drafts, gone, scanning, faults>>
      /\ raced' = IF Stale(o) \/ Overlaps(o, d.id) THEN raced \cup {d.id} ELSE raced
    BY DEF SaveStrategy, Race
<1>1. /\ d \in Draft /\ Complete(d) /\ d.id \in DraftIds /\ Holds(o, d.id) /\ d # None
      /\ \A y : Holds(o, y) => y = d.id
    BY <1>0, HeldDraft
<1>2. PICK t \in StrategyIds :
         /\ origin[t] = None /\ t \notin gone
         /\ strategies' = [strategies EXCEPT ![t] = [rules |-> d.rules, enabled |-> TRUE]]
         /\ origin' = [origin EXCEPT ![t] = d.id]
    BY DEF SaveStrategy
<1>3. PICK x \in DraftIds : x = d.id
    BY <1>1
<1>4. [rules |-> d.rules, enabled |-> TRUE] \in Strategy
    <2>1. d.state = "ready"
        BY <1>0, Interacting DEF Reading, Allowed
    <2> QED BY <2>1, <1>1 DEF Draft, Complete, Strategy
<1>5. /\ op' \in [Ops -> OpType] /\ Others(o) /\ op'[o].pc = "saved" /\ op'[o].draft = d
    <2>1. op \in [Ops -> OpType] /\ op[o] \in OpType
        BY Interacting DEF InteractionOK
    <2>2. /\ [op[o] EXCEPT !.pc = "saved"] \in OpType /\ [op[o] EXCEPT !.pc = "saved"].pc = "saved"
          /\ [op[o] EXCEPT !.pc = "saved"].draft = d
        BY <2>1 DEF OpType
    <2>3. op' = [op EXCEPT ![o] = [op[o] EXCEPT !.pc = "saved"]]
        BY <1>0, <2>1
    <2> HIDE DEF d
    <2> QED BY <2>1, <2>2, <2>3 DEF Others
<1> HIDE DEF d
<1>6. /\ raced' \in SUBSET (DraftIds \cup StrategyIds) /\ raced \subseteq raced'
      /\ x \notin raced' => ~Overlaps(o, x) /\ x \notin raced
    BY <1>0, <1>3, RaceEffect, Interacting
<1>7. InteractionOK'
    BY <1>0, <1>2, <1>3, <1>4, <1>5, <1>6, Interacting DEF InteractionOK, DraftsOK
<1>8. origin'[t] = x /\ \A s \in StrategyIds \ {t} : origin'[s] = origin[s]
    BY <1>2, <1>3, Interacting DEF InteractionOK
<1>9. x \notin raced' => \A s \in StrategyIds : origin[s] # x
    BY <1>0, <1>1, <1>3, <1>6, NothingSaved
<1>10. Reading'
    <2> SUFFICES ASSUME NEW p \in Ops
                 PROVE  /\ op'[p].pc \in {"toggle", "delete"} =>
                             op'[p].id \in StrategyIds /\ op'[p].strategy \in Strategy
                        /\ op'[p].pc \in {"name", "direction", "rules", "save", "saved", "cancel"} =>
                             op'[p].draft \in Draft /\ Complete(op'[p].draft)
                        /\ op'[p].pc \in {"name", "direction", "rules", "save"} =>
                             Allowed(op'[p].pc, op'[p].draft)
        BY DEF Reading, Allowed, Complete
    <2>1. CASE p = o
        BY <2>1, <1>1, <1>5
    <2>2. CASE p # o
        BY <2>2, <1>5, Interacting DEF Reading, Others
    <2> QED BY <2>1, <2>2
<1>11. Saving'
    <2> SUFFICES ASSUME NEW s \in StrategyIds, NEW y \in DraftIds \ raced', origin'[s] = y
                 PROVE  \/ \E p \in Ops : op'[p].pc = "saved" /\ Holds(p, y)'
                        \/ ~Has(y)' /\ \A p \in Ops : ~Holds(p, y)'
        BY DEF Saving
    <2>1. CASE y = x
        <3>1. Holds(o, y)'
            BY <2>1, <1>1, <1>3, <1>5 DEF Holds
        <3> QED BY <3>1, <1>5
    <2>2. CASE y # x
        <3>1. origin[s] = y
            BY <2>2, <1>8
        <3>2. ~Holds(o, y)' /\ ~Holds(o, y) /\ (Has(y)' => Has(y))
            BY <2>2, <1>0, <1>1, <1>3, <1>5 DEF Holds, Has
        <3> QED BY <3>1, <3>2, <1>5, <1>6, SavingElsewhere
    <2> QED BY <2>1, <2>2
<1>12. SavedOnce'
    <2> SUFFICES ASSUME NEW s \in StrategyIds, NEW u \in StrategyIds, origin'[s] = origin'[u],
                        origin'[s] \in DraftIds \ raced'
                 PROVE  s = u
        BY DEF SavedOnce
    <2>1. CASE s = t \/ u = t
        BY <2>1, <1>8, <1>9
    <2>2. CASE s # t /\ u # t
        BY <2>2, <1>6, <1>8, Interacting DEF SavedOnce
    <2> QED BY <2>1, <2>2
<1>13. GoneDrafts'
    BY <1>0, <1>6, Interacting DEF GoneDrafts
<1>14. GoneStrategies'
    BY <1>0, <1>2, <1>6, Interacting DEF GoneStrategies, InteractionOK
<1> QED BY <1>0, <1>7, <1>10, <1>11, <1>12, <1>13, <1>14, InteractionKeeps DEF scanning, NoFault

\* The second write of a save: the draft is deleted, or the call fails and the draft stays.
LEMMA SaveDeleteKeeps ==
    ASSUME IInv, NEW o \in Ops, SaveDelete(o)
    PROVE  IInv'
<1> DEFINE d == op[o].draft
<1>0. /\ op[o].pc = "saved" /\ Finish(o) /\ UNCHANGED <<strategies, origin, scanning>>
      /\ \/ /\ DropDraft(d.id) /\ NoFault /\ gone' = gone \cup {d.id}
            /\ raced' = IF Stale(o) \/ Overlaps(o, d.id) THEN raced \cup {d.id} ELSE raced
         \/ Fault /\ UNCHANGED <<drafts, gone>> /\ raced' = raced \cup {d.id}
    BY DEF SaveDelete, SavedDraft, Race
<1>1. d.id \in DraftIds /\ Holds(o, d.id) /\ \A y : Holds(o, y) => y = d.id
    BY <1>0, HeldDraft
<1>2. PICK x \in DraftIds : x = d.id
    BY <1>1
<1> HIDE DEF d
<1>3. /\ DraftsOK' /\ (\A y : Has(y)' => Has(y))
      /\ \A f \in Range(drafts') : f \in Range(drafts)
    BY <1>0, <1>2, DropEffect, Interacting DEF DraftsOK, Has
<1>4. op' \in [Ops -> OpType] /\ Others(o) /\ Ended(o) /\ Reading'
    BY <1>0, FinishEffect
<1>5. /\ raced' \in SUBSET (DraftIds \cup StrategyIds) /\ raced \subseteq raced'
    BY <1>0, <1>2, RaceEffect, Interacting
<1>6. x \notin raced' => ~Overlaps(o, x) /\ DropDraft(x)
    BY <1>0, <1>2
<1>7. gone' \in SUBSET (DraftIds \cup StrategyIds) /\ gone \subseteq gone' /\ gone' \subseteq gone \cup {x}
    BY <1>0, <1>2, Interacting DEF InteractionOK
<1>8. InteractionOK'
    BY <1>0, <1>3, <1>4, <1>5, <1>7, Interacting DEF InteractionOK
<1>9. Saving'
    <2> SUFFICES ASSUME NEW s \in StrategyIds, NEW y \in DraftIds \ raced', origin[s] = y
                 PROVE  \/ \E p \in Ops : op'[p].pc = "saved" /\ Holds(p, y)'
                        \/ ~Has(y)' /\ \A p \in Ops : ~Holds(p, y)'
        BY <1>0 DEF Saving
    <2>1. CASE y = x
        <3>1. ~Has(y)' /\ ~Overlaps(o, y)
            BY <2>1, <1>6, DropEffect, Interacting
        <3>2. ~Holds(o, y)'
            BY <1>4 DEF Ended, Holds
        <3>3. \A p \in Ops \ {o} : ~Holds(p, y)'
            BY <3>1, <1>4, HoldsOther DEF Overlaps
        <3> QED BY <3>1, <3>2, <3>3
    <2>2. CASE y # x
        <3>1. ~Holds(o, y)' /\ ~Holds(o, y)
            BY <2>2, <1>1, <1>2, <1>4 DEF Ended, Holds
        <3> QED BY <3>1, <1>3, <1>4, <1>5, SavingElsewhere
    <2> QED BY <2>1, <2>2
<1>10. GoneDrafts'
    <2>1. x \in raced' \/ \A f \in Range(drafts') : f.id # x
        BY <1>6, DropEffect, Interacting
    <2> QED BY <2>1, <1>3, <1>5, <1>7, Interacting DEF GoneDrafts
<1>11. SavedOnce' /\ GoneStrategies'
    BY <1>0, <1>2, <1>5, <1>7, Interacting, IdsAreUnique DEF SavedOnce, GoneStrategies
<1> QED BY <1>0, <1>4, <1>8, <1>9, <1>10, <1>11, InteractionKeeps DEF scanning

LEMMA ReadStrategyKeeps ==
    ASSUME IInv, NEW o \in Ops, ReadStrategy(o)
    PROVE  IInv'
<1>1. PICK s \in StrategyIds, kind \in {"toggle", "delete"} :
         /\ strategies[s] # None
         /\ op' = [op EXCEPT ![o] = [IdleOp EXCEPT !.pc = kind, !.id = s, !.strategy = strategies[s]]]
    BY DEF ReadStrategy
<1>2. /\ op[o].pc = "idle" /\ UNCHANGED <<drafts, strategies, origin, gone, raced, scanning, faults>>
    BY DEF ReadStrategy, Free
<1>3. strategies[s] \in Strategy /\ op \in [Ops -> OpType]
    BY <1>1, Interacting DEF InteractionOK
<1> DEFINE n == [IdleOp EXCEPT !.pc = kind, !.id = s, !.strategy = strategies[s]]
<1>4. n \in OpType /\ n.pc = kind /\ n.draft = None /\ n.id = s /\ n.strategy = strategies[s]
    BY <1>3 DEF OpType, IdleOp
<1>5. op' = [op EXCEPT ![o] = n]
    BY <1>1
<1> HIDE DEF n
<1>6. op' \in [Ops -> OpType] /\ Others(o) /\ op'[o] = n
    BY <1>3, <1>4, <1>5 DEF Others
<1>7. InteractionOK'
    BY <1>2, <1>6, Interacting DEF InteractionOK, DraftsOK
<1>8. Reading'
    <2> SUFFICES ASSUME NEW p \in Ops
                 PROVE  /\ op'[p].pc \in {"toggle", "delete"} =>
                             op'[p].id \in StrategyIds /\ op'[p].strategy \in Strategy
                        /\ op'[p].pc \in {"name", "direction", "rules", "save", "saved", "cancel"} =>
                             op'[p].draft \in Draft /\ Complete(op'[p].draft)
                        /\ op'[p].pc \in {"name", "direction", "rules", "save"} =>
                             Allowed(op'[p].pc, op'[p].draft)
        BY DEF Reading, Allowed, Complete
    <2>1. CASE p = o
        BY <2>1, <1>3, <1>4, <1>6
    <2>2. CASE p # o
        BY <2>2, <1>6, Interacting DEF Reading, Others
    <2> QED BY <2>1, <2>2
<1>9. Saving'
    <2> SUFFICES ASSUME NEW t \in StrategyIds, NEW y \in DraftIds \ raced, origin[t] = y
                 PROVE  \/ \E p \in Ops : op'[p].pc = "saved" /\ Holds(p, y)'
                        \/ ~Has(y)' /\ \A p \in Ops : ~Holds(p, y)'
        BY <1>2 DEF Saving
    <2>1. ~Holds(o, y)' /\ (Has(y)' => Has(y))
        BY <1>2, <1>4, <1>6 DEF Holds, Has
    <2> QED BY <2>1, <1>2, <1>6, SavingElsewhere
<1>10. SavedOnce' /\ GoneStrategies' /\ GoneDrafts'
    BY <1>2, Interacting DEF SavedOnce, GoneStrategies, GoneDrafts
<1> QED BY <1>2, <1>7, <1>8, <1>9, <1>10, InteractionKeeps DEF scanning, NoFault

\* A toggle that finds its strategy deleted, and writes it back, races.
LEMMA WriteStrategyKeeps ==
    ASSUME IInv, NEW o \in Ops, WriteStrategy(o)
    PROVE  IInv'
<1> DEFINE r == op[o].strategy
           new == IF op[o].pc = "delete" THEN None ELSE [r EXCEPT !.enabled = ~r.enabled]
<1>0. /\ op[o].pc \in {"toggle", "delete"} /\ Finish(o) /\ UNCHANGED <<drafts, origin, scanning, faults>>
      /\ strategies' = [strategies EXCEPT ![op[o].id] = new]
      /\ raced' = IF strategies[op[o].id] # r \/ Overlaps(o, op[o].id) THEN raced \cup {op[o].id} ELSE raced
      /\ gone' = IF op[o].pc = "delete" THEN gone \cup {op[o].id} ELSE gone
    BY DEF WriteStrategy, Race
<1>1. op[o].id \in StrategyIds /\ r \in Strategy /\ r # None
    BY <1>0, Interacting, NoneIsNew DEF Reading
<1>2. new \in Strategy \cup {None}
    BY <1>1 DEF Strategy
<1>3. PICK t \in StrategyIds : t = op[o].id
    BY <1>1
<1>4. op' \in [Ops -> OpType] /\ Others(o) /\ Ended(o) /\ Reading'
    BY <1>0, FinishEffect
<1>5. raced' \in SUBSET (DraftIds \cup StrategyIds) /\ raced \subseteq raced'
    BY <1>0, <1>3, RaceEffect, Interacting
<1>6. strategies' \in [StrategyIds -> Strategy \cup {None}] /\ strategies'[t] = new
    <2> HIDE DEF new
    <2> QED BY <1>0, <1>2, <1>3, Interacting DEF InteractionOK
<1>7. \A s \in StrategyIds \ {t} : strategies'[s] = strategies[s]
    <2> HIDE DEF new
    <2> QED BY <1>0, <1>3, Interacting DEF InteractionOK
<1>8. InteractionOK'
    BY <1>0, <1>3, <1>4, <1>5, <1>6, Interacting DEF InteractionOK, DraftsOK
<1>9. Saving'
    <2> SUFFICES ASSUME NEW s \in StrategyIds, NEW y \in DraftIds \ raced', origin[s] = y
                 PROVE  \/ \E p \in Ops : op'[p].pc = "saved" /\ Holds(p, y)'
                        \/ ~Has(y)' /\ \A p \in Ops : ~Holds(p, y)'
        BY <1>0 DEF Saving
    <2>1. ~Holds(o, y)' /\ (Has(y)' => Has(y))
        BY <1>0, <1>4 DEF Ended, Holds, Has
    <2> QED BY <2>1, <1>0, <1>4, <1>5, SavingElsewhere
<1>10. GoneDrafts'
    <2>1. \A f \in Range(drafts) : f.id \in DraftIds
        <3>1. drafts \in Seq(Draft)
            BY Interacting DEF DraftsOK
        <3>2. Range(drafts) \subseteq Draft
            BY <3>1, RangeIn
        <3> QED BY <3>2 DEF Draft
    <2> QED BY <2>1, <1>0, <1>3, <1>5, Interacting, IdsAreUnique DEF GoneDrafts
<1>11. GoneStrategies'
    <2> SUFFICES ASSUME NEW s \in StrategyIds \ raced', s \in gone'
                 PROVE  strategies'[s] = None
        BY DEF GoneStrategies
    <2>1. CASE s # t
        BY <2>1, <1>0, <1>3, <1>5, <1>7, Interacting DEF GoneStrategies
    <2>2. CASE s = t /\ op[o].pc = "delete"
        BY <2>2, <1>6
    <2>3. CASE s = t /\ op[o].pc # "delete"
        <3>1. s \in gone /\ s \notin raced /\ strategies[s] = r
            BY <2>3, <1>0, <1>3, <1>5
        <3> QED BY <3>1, <1>1, Interacting DEF GoneStrategies
    <2> QED BY <2>1, <2>2, <2>3
<1>12. SavedOnce'
    BY <1>0, <1>5, Interacting DEF SavedOnce
<1> QED BY <1>0, <1>4, <1>8, <1>9, <1>10, <1>11, <1>12, InteractionKeeps DEF scanning, NoFault

-----------------------------------------------------------------------------
(***************************************************************************)
(* The theorems.                                                           *)
(***************************************************************************)

LEMMA InitInvariant ==
    ASSUME NEW ds \in Seq(Draft), NEW saved \in [StrategyIds -> Strategy \cup {None}],
           NEW requested, NEW scheduled, StoredDrafts(ds), InitWith(ds, saved, requested, scheduled)
    PROVE  IInv
<1> USE DEF InitWith
<1>1. IdleOp \in OpType /\ [IdleOp EXCEPT !.pc = "done"] \in OpType
    BY DEF IdleOp, OpType
<1>2. IdleScan \in ScanType /\ [IdleScan EXCEPT !.pc = "ok"] \in ScanType
    <2>1. <<>> \in Seq(Rows)
        OBVIOUS
    <2> QED BY <2>1 DEF IdleScan, ScanType
<1>3. op \in [Ops -> OpType] /\ scan \in [Scans -> ScanType]
    BY <1>1, <1>2
<1>4. faults \in 0..MaxFaults
    BY Bounds
<1>5. TypeOK
    BY <1>3, <1>4 DEF TypeOK
<1>6. MarkedWasDelivered
    BY DEF MarkedWasDelivered
<1>7. Scanning
    <2> SUFFICES ASSUME NEW c \in Scans
                 PROVE  ScanOf(scan[c], markers, shown \cup cut)
        BY DEF Scanning
    <2>1. scan[c] = IdleScan \/ scan[c] = [IdleScan EXCEPT !.pc = "ok"]
        OBVIOUS
    <2> QED BY <2>1 DEF ScanOf, Running, IdleScan
<1>8. Reading
    BY DEF Reading, IdleOp
<1>9. Saving /\ SavedOnce
    BY NoneIsNew DEF Saving, SavedOnce
<1>10. GoneDrafts /\ GoneStrategies
    BY DEF GoneDrafts, GoneStrategies
<1> QED BY <1>5, <1>6, <1>7, <1>8, <1>9, <1>10 DEF IInv

LEMMA StepInvariant ==
    ASSUME IInv, [Next]_vars
    PROVE  IInv'
<1>1. ASSUME NEW o \in Ops,
             \/ CreateDraft(o) \/ ReadDraft(o) \/ EditDraft(o) \/ RulesRejected(o)
             \/ CancelDraft(o) \/ SaveStrategy(o) \/ SaveDelete(o)
             \/ ReadStrategy(o) \/ WriteStrategy(o)
      PROVE  IInv'
    BY <1>1, CreateDraftKeeps, ReadDraftKeeps, EditDraftKeeps, RulesRejectedKeeps, CancelDraftKeeps,
       SaveStrategyKeeps, SaveDeleteKeeps, ReadStrategyKeeps, WriteStrategyKeeps
<1>2. ASSUME NEW c \in Scans,
             \/ ScanStart(c) \/ ScanLoad(c) \/ ScanEvaluate(c) \/ ScanCheck(c)
             \/ ScanSend(c) \/ ScanMark(c) \/ ScanStrategyFails(c) \/ ScanCrash(c)
      PROVE  IInv'
    BY <1>2, ScanStartKeeps, ScanLoadKeeps, ScanEvaluateKeeps, ScanCheckKeeps, ScanSendKeeps,
       ScanMarkKeeps, ScanStrategyFailsKeeps, ScanCrashKeeps
<1>3. CASE UNCHANGED vars
    <2>1. UNCHANGED <<drafts, strategies, markers, op, scan, shown, cut, origin, gone, raced, faults>>
        BY <1>3 DEF vars, interaction, scanning
    <2>2. TypeOK'
        BY <2>1 DEF IInv, TypeOK
    <2>3. MarkedWasDelivered' /\ Scanning' /\ Reading' /\ Saving' /\ SavedOnce' /\ GoneDrafts' /\ GoneStrategies'
        BY <2>1 DEF IInv, MarkedWasDelivered, Scanning, Reading, Saving, SavedOnce, GoneDrafts,
           GoneStrategies, Has, Holds, Allowed, Complete
    <2> QED BY <2>2, <2>3 DEF IInv
<1> QED BY <1>1, <1>2, <1>3 DEF Next

\* The inductive invariant holds of every store and every interleaving of actions and scans.
THEOREM Invariant == Spec => []IInv
<1>1. Init => IInv
    BY InitInvariant DEF Init
<1> QED BY <1>1, StepInvariant, PTL DEF Spec

\* Types; the stored drafts have identifiers of their own and what their states require.
THEOREM TypeCorrect == Spec => []TypeOK
<1>1. IInv => TypeOK
    BY DEF IInv
<1> QED BY <1>1, Invariant, PTL

\* Marking after sending (_run_strategy, _run_compiled_strategies) loses no notification: every
\* marked row was in a delivered card of its strategy, whatever failed or was replaced.
THEOREM MarksFollowCards == Spec => []MarkedWasDelivered
<1>1. IInv => MarkedWasDelivered
    BY DEF IInv
<1> QED BY <1>1, Invariant, PTL

\* A scan sends no row that was already marked when the scan started.
THEOREM MarksStopRepeats == Spec => []MarkedIsNotRepeated
<1>1. IInv => MarkedIsNotRepeated
    BY DEF IInv, Scanning, ScanOf, MarkedIsNotRepeated
<1> QED BY <1>1, Invariant, PTL

\* A scan that ends well has carded every strategy it had to and marked all it delivered.
THEOREM GoodScansComplete == Spec => []GoodScansAreComplete
<1>1. IInv => GoodScansAreComplete
    <2> SUFFICES ASSUME IInv, NEW c \in Scans, scan[c].pc = "ok"
                 PROVE  /\ scan[c].failed = {} /\ scan[c].due \subseteq scan[c].sent
                        /\ ~scan[c].preview => scan[c].gave \subseteq markers
        BY DEF GoodScansAreComplete, At
    <2>1. ScanOf(scan[c], markers, shown \cup cut)
        BY ScanAt
    <2> QED BY <2>1 DEF ScanOf
<1> QED BY <1>1, Invariant, PTL

\* A draft becomes one strategy and what was deleted stays deleted, unless actions overlapped.
THEOREM RacesAloneUndo == Spec => []OnlyRacesUndoWork
<1>1. ASSUME IInv, NEW d \in DraftIds \ raced
      PROVE  Cardinality({s \in StrategyIds : origin[s] = d}) <= 1
    <2> DEFINE S == {s \in StrategyIds : origin[s] = d}
    <2>1. \A s, t \in S : s = t
        BY <1>1, Interacting DEF SavedOnce
    <2>2. CASE S = {}
        BY <2>2, FS_EmptySet
    <2>3. CASE S # {}
        <3>1. PICK s \in S : TRUE
            BY <2>3
        <3>2. S = {s}
            BY <2>1, <3>1
        <3>3. Cardinality({s}) = 1
            BY FS_Singleton
        <3>4. Cardinality(S) = 1
            <4> HIDE DEF S
            <4> QED BY <3>2, <3>3
        <3> QED BY <3>4
    <2> QED BY <2>2, <2>3
<1>2. IInv => OnlyRacesUndoWork
    BY <1>1, Interacting DEF OnlyRacesUndoWork, GoneDrafts, GoneStrategies
<1> QED BY <1>2, Invariant, PTL

=============================================================================
