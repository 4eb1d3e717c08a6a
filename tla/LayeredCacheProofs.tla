-------------------------- MODULE LayeredCacheProofs --------------------------
(***************************************************************************)
(* Proofs about LayeredCache, for any sets of callers, processes and keys, *)
(* any sizes of the responses, any limits of L1 and any times of expiry.   *)
(***************************************************************************)
EXTENDS LayeredCache, SequenceTheorems, FiniteSets, FiniteSetTheorems, WellFoundedInduction, TLAPS

-----------------------------------------------------------------------------
(***************************************************************************)
(* Natural numbers.                                                        *)
(***************************************************************************)

\* A set of natural numbers has a least element.  (The intervals 1..n are finite sets,
\* which strict inclusion orders well.)
LEMMA Least ==
    ASSUME NEW T \in SUBSET Nat, T # {}
    PROVE  \E x \in T : \A y \in T : x <= y
<1> DEFINE R == StrictSubsetOrdering(Nat)
           U == {1..n : n \in T}
<1>1. \A n \in T : IsFiniteSet(1..n) /\ 1..n \in SUBSET Nat
    <2> TAKE n \in T
    <2>1. n \in Nat
        OBVIOUS
    <2> QED BY <2>1, FS_Interval
<1>2. U \subseteq FiniteSubsetsOf(Nat) /\ U # {}
    BY <1>1 DEF FiniteSubsetsOf
<1>3. IsWellFoundedOn(R, FiniteSubsetsOf(Nat))
    BY FS_StrictSubsetOrderingWellFounded
<1>4. \E x \in U : \A y \in U : ~ (<<y, x>> \in R)
    <2> HIDE DEF R, U
    <2> QED BY <1>2, <1>3, WFMin
<1>5. PICK x \in T : \A y \in T : ~ (<<1..y, 1..x>> \in R)
    BY <1>4
<1>6. ASSUME NEW y \in T
      PROVE  x <= y
    <2>0. x \in Nat /\ y \in Nat
        OBVIOUS
    <2>1. SUFFICES ASSUME y < x
                   PROVE  FALSE
        BY <2>0
    <2>2. 1..y \in SUBSET Nat /\ 1..x \in SUBSET Nat
        BY <1>1
    <2>3. 1..y \subseteq 1..x
        BY <2>0, <2>1
    <2>4. x \in 1..x /\ x \notin 1..y
        BY <2>0, <2>1
    <2> QED BY <1>5, <2>2, <2>3, <2>4 DEF StrictSubsetOrdering
<1> QED BY <1>6

\* Quotient and remainder.
LEMMA DivMod ==
    ASSUME NEW t \in Nat, NEW d \in Nat \ {0}
    PROVE  t = d * (t \div d) + (t % d) /\ t % d \in 0..(d - 1) /\ t \div d \in Nat
OBVIOUS

LEMMA DivMonotone ==
    ASSUME NEW d \in Nat \ {0}, NEW a \in Nat, NEW b \in Nat, a <= b
    PROVE  a \div d <= b \div d
BY DivMod

-----------------------------------------------------------------------------
(***************************************************************************)
(* The byte count of a sequence of entries.                                *)
(***************************************************************************)

SizeOf(r) == Size(r.key, r.version)

LEMMA SizeOfRecord ==
    ASSUME NEW r \in Record
    PROVE  SizeOf(r) \in Nat
BY Sizes DEF Record, SizeOf

\* sum is the function of running byte counts over the first n entries of s.
Counts(sum, s, n) ==
    /\ sum \in [0..n -> Nat] /\ sum[0] = 0
    /\ \A i \in 1..n : sum[i] = sum[i - 1] + SizeOf(s[i])

LEMMA CountsExist ==
    ASSUME NEW s \in Seq(Record)
    PROVE  \A n \in 0..Len(s) : \E sum : Counts(sum, s, n)
<1> DEFINE Bad == {n \in 0..Len(s) : ~ \E sum : Counts(sum, s, n)}
<1>1. SUFFICES ASSUME Bad # {}
               PROVE  FALSE
    OBVIOUS
<1>2. Bad \in SUBSET Nat
    OBVIOUS
<1>3. PICK n \in Bad : \A m \in Bad : n <= m
    <2> HIDE DEF Bad
    <2> QED BY <1>1, <1>2, Least
<1>4. n # 0
    <2>1. Counts([i \in 0..0 |-> 0], s, 0)
        BY DEF Counts
    <2> QED BY <2>1
<1>5. n \in 1..Len(s) /\ n - 1 \in 0..Len(s) /\ n - 1 \notin Bad
    <2>1. n \in 1..Len(s) /\ n - 1 \in 0..Len(s)
        BY <1>4
    <2>2. ~(n <= n - 1)
        BY <2>1
    <2> QED BY <2>1, <2>2, <1>3
<1>6. PICK g : Counts(g, s, n - 1)
    BY <1>5
<1> DEFINE h == [i \in 0..n |-> IF i = n THEN g[n - 1] + SizeOf(s[n]) ELSE g[i]]
<1>7. Counts(h, s, n)
    <2>0. s[n] \in Record
        BY <1>5
    <2>1. SizeOf(s[n]) \in Nat
        BY <2>0, SizeOfRecord
    <2>2. n \in Nat /\ n - 1 \in 0..(n - 1)
        BY <1>5
    <2>3. g[n - 1] \in Nat
        BY <2>2, <1>6 DEF Counts
    <2>4. h \in [0..n -> Nat]
        BY <2>1, <2>2, <2>3, <1>6 DEF Counts
    <2>5. h[0] = 0
        BY <1>4, <1>6, <2>2 DEF Counts
    <2>6. ASSUME NEW i \in 1..n
          PROVE  h[i] = h[i - 1] + SizeOf(s[i])
        <3>1. CASE i = n
            BY <3>1, <2>2
        <3>2. CASE i # n
            <4>1. i \in 1..(n - 1) /\ i \in 0..n /\ i - 1 \in 0..n /\ i - 1 # n
                BY <3>2, <2>2
            <4> QED BY <4>1, <3>2, <1>6 DEF Counts
        <3> QED BY <3>1, <3>2
    <2> QED BY <2>4, <2>5, <2>6 DEF Counts
<1> QED BY <1>7

\* Two functions of running byte counts agree as far as their entries do.
LEMMA CountsUnique ==
    ASSUME NEW s, NEW u, NEW n \in Nat, NEW m \in Nat, NEW k \in 0..n, k <= m,
           NEW f, NEW g, Counts(f, s, n), Counts(g, u, m), \A i \in 1..k : s[i] = u[i]
    PROVE  f[k] = g[k]
<1> DEFINE Bad == {i \in 0..k : f[i] # g[i]}
<1>1. SUFFICES ASSUME Bad # {}
               PROVE  FALSE
    BY DEF Counts
<1>2. Bad \in SUBSET Nat
    OBVIOUS
<1>3. PICK b \in Bad : \A i \in Bad : b <= i
    <2> HIDE DEF Bad
    <2> QED BY <1>1, <1>2, Least
<1>4. b # 0
    BY DEF Counts
<1>5. b \in 1..k /\ b - 1 \in 0..k /\ b - 1 \notin Bad
    <2>1. b \in 1..k /\ b - 1 \in 0..k
        BY <1>4
    <2>2. ~(b <= b - 1)
        BY <2>1
    <2> QED BY <2>1, <2>2, <1>3
<1>6. f[b - 1] = g[b - 1] /\ s[b] = u[b]
    BY <1>5
<1>7. f[b] = f[b - 1] + SizeOf(s[b])
    <2>1. b \in 1..n
        BY <1>5
    <2> QED BY <2>1 DEF Counts
<1>8. g[b] = g[b - 1] + SizeOf(u[b])
    <2>1. b \in 1..m
        BY <1>5
    <2> QED BY <2>1 DEF Counts
<1> QED BY <1>6, <1>7, <1>8

\* The recursive definition has a solution, so it is one.
LEMMA RunningCounts ==
    ASSUME NEW s \in Seq(Record)
    PROVE  Counts(Running(s), s, Len(s))
<1> DEFINE Body(g) == [i \in 0..Len(s) |-> IF i = 0 THEN 0 ELSE g[i - 1] + Size(s[i].key, s[i].version)]
<1>0. Len(s) \in Nat
    OBVIOUS
<1>1. Running(s) = CHOOSE g : g = Body(g)
    BY DEF Running
<1>2. PICK g : Counts(g, s, Len(s))
    BY CountsExist, <1>0
<1>3. g = Body(g)
    BY <1>0, <1>2 DEF Counts, SizeOf
<1>4. Running(s) = Body(Running(s))
    <2> HIDE DEF Body
    <2> QED BY <1>1, <1>3
<1>5. Running(s) = g
    <2> DEFINE f == Running(s)
               Bad == {n \in 0..Len(s) : f[n] # g[n]}
    <2>0. f = Body(f)
        BY <1>4
    <2>1. SUFFICES ASSUME Bad # {}
                   PROVE  FALSE
        <3>1. Bad = {} => f = g
            BY <1>3, <2>0
        <3> QED BY <3>1
    <2>2. PICK n \in Bad : \A m \in Bad : n <= m
        <3>1. Bad \in SUBSET Nat
            BY <1>0
        <3> HIDE DEF Bad
        <3> QED BY <2>1, <3>1, Least
    <2>3. n # 0
        <3>1. f[0] = 0 /\ g[0] = 0
            BY <1>0, <1>3, <2>0
        <3> QED BY <3>1
    <2>4. n \in 1..Len(s) /\ n - 1 \in 0..Len(s) /\ n - 1 \notin Bad
        <3>1. n \in 1..Len(s) /\ n - 1 \in 0..Len(s)
            BY <2>3, <1>0
        <3>2. ~(n <= n - 1)
            BY <3>1
        <3> QED BY <3>1, <3>2, <2>2
    <2>5. f[n - 1] = g[n - 1]
        BY <2>4
    <2>6. f[n] = g[n]
        BY <2>4, <2>5, <2>0, <1>3, <2>3
    <2> QED BY <2>6
<1> QED BY <1>2, <1>5

LEMMA TotalSizeType ==
    ASSUME NEW s \in Seq(Record)
    PROVE  TotalSize(s) \in Nat
<1>1. Len(s) \in 0..Len(s)
    OBVIOUS
<1> QED BY <1>1, RunningCounts DEF Counts, TotalSize

\* A function of running byte counts ends in the total size.
LEMMA TotalIsLastCount ==
    ASSUME NEW s \in Seq(Record), NEW f, Counts(f, s, Len(s))
    PROVE  f[Len(s)] = TotalSize(s)
<1>0. Len(s) \in Nat /\ Len(s) \in 0..Len(s)
    OBVIOUS
<1> DEFINE g == Running(s)
           n == Len(s)
<1>1. Counts(g, s, n)
    BY RunningCounts
<1>2. f[n] = g[n]
    <2>1. n \in Nat /\ n \in 0..n /\ n <= n /\ \A i \in 1..n : s[i] = s[i]
        BY <1>0
    <2>2. Counts(f, s, n)
        OBVIOUS
    <2> HIDE DEF g, n
    <2> QED BY <1>1, <2>1, <2>2, CountsUnique
<1> QED BY <1>2 DEF TotalSize

LEMMA EmptyTotal == TotalSize(<<>>) = 0
<1>1. <<>> \in Seq(Record) /\ Len(<<>>) = 0
    OBVIOUS
<1> QED BY <1>1, RunningCounts DEF Counts, TotalSize

\* The sizes of two sequences in a row add up.
LEMMA ConcatTotal ==
    ASSUME NEW s \in Seq(Record), NEW u \in Seq(Record)
    PROVE  TotalSize(s \o u) = TotalSize(s) + TotalSize(u)
<1> DEFINE w == s \o u
           n == Len(s)
           m == Len(u)
           f == Running(s)
           g == Running(u)
           h == [i \in 0..(n + m) |-> IF i <= n THEN f[i] ELSE f[n] + g[i - n]]
<1>0. n \in Nat /\ m \in Nat
    OBVIOUS
<1>1. w \in Seq(Record) /\ Len(w) = n + m
    OBVIOUS
<1>2. \A i \in 1..(n + m) : w[i] = IF i <= n THEN s[i] ELSE u[i - n]
    OBVIOUS
<1>3. Counts(f, s, n) /\ Counts(g, u, m)
    BY RunningCounts
<1>4. Counts(h, w, n + m)
    <2> HIDE DEF w, n, m, f, g
    <2>1. n \in 0..n /\ f[n] \in Nat
        BY <1>0, <1>3 DEF Counts
    <2>2. h \in [0..(n + m) -> Nat]
        <3>1. ASSUME NEW i \in 0..(n + m)
              PROVE  h[i] \in Nat
            <4>1. CASE i <= n
                <5>1. i \in 0..n
                    BY <4>1, <1>0
                <5> QED BY <5>1, <4>1, <1>3 DEF Counts
            <4>2. CASE ~(i <= n)
                <5>1. i - n \in 0..m
                    BY <4>2, <1>0
                <5>2. g[i - n] \in Nat
                    BY <5>1, <1>3 DEF Counts
                <5> QED BY <5>2, <2>1, <4>2
            <4> QED BY <4>1, <4>2
        <3> QED BY <3>1
    <2>3. h[0] = 0
        <3>1. 0 \in 0..(n + m) /\ 0 <= n
            BY <1>0
        <3> QED BY <3>1, <1>3 DEF Counts
    <2>4. ASSUME NEW i \in 1..(n + m)
          PROVE  h[i] = h[i - 1] + SizeOf(w[i])
        <3>0. i \in 0..(n + m) /\ i - 1 \in 0..(n + m)
            BY <1>0
        <3>1. CASE i <= n
            <4>1. i \in 1..n /\ i - 1 <= n
                BY <3>1, <1>0
            <4>2. f[i] = f[i - 1] + SizeOf(s[i])
                BY <4>1, <1>3 DEF Counts
            <4> QED BY <4>1, <4>2, <3>0, <3>1, <1>2
        <3>2. CASE i = n + 1
            <4>1. i - n = 1 /\ i - 1 = n /\ ~(i <= n) /\ n <= n /\ 1 \in 1..m
                BY <3>2, <1>0
            <4>2. g[1] = g[0] + SizeOf(u[1]) /\ g[0] = 0
                <5>1. g[1] = g[1 - 1] + SizeOf(u[1]) /\ g[0] = 0
                    BY <4>1, <1>3 DEF Counts
                <5>2. 1 - 1 = 0
                    OBVIOUS
                <5> QED BY <5>1, <5>2
            <4>3. g[1] \in Nat
                BY <4>1, <1>3 DEF Counts
            <4>4. h[i] = f[n] + g[1] /\ h[i - 1] = f[n] /\ w[i] = u[1]
                BY <4>1, <3>0, <1>2
            <4>5. SizeOf(u[1]) = g[1]
                BY <4>1, <4>2, SizeOfRecord DEF m
            <4> QED BY <4>4, <4>5
        <3>3. CASE i > n + 1
            <4>1. i - n \in 1..m /\ (i - 1) - n = (i - n) - 1 /\ ~(i <= n) /\ ~(i - 1 <= n)
                BY <3>3, <1>0
            <4>2. g[i - n] = g[(i - n) - 1] + SizeOf(u[i - n])
                BY <4>1, <1>3 DEF Counts
            <4>3. g[(i - n) - 1] \in Nat
                <5>1. (i - n) - 1 \in 0..m
                    BY <4>1, <1>0
                <5> QED BY <5>1, <1>3 DEF Counts
            <4>4. SizeOf(u[i - n]) \in Nat
                BY <4>1, SizeOfRecord DEF m
            <4>5. h[i] = f[n] + g[i - n] /\ h[i - 1] = f[n] + g[(i - n) - 1] /\ w[i] = u[i - n]
                BY <4>1, <3>0, <1>2
            <4> QED BY <4>2, <4>3, <4>4, <4>5, <2>1
        <3> QED BY <3>1, <3>2, <3>3, <1>0
    <2> QED BY <2>2, <2>3, <2>4 DEF Counts
<1>5. h[n + m] = TotalSize(w)
    <2> HIDE DEF h, w, n, m
    <2> QED BY <1>1, <1>4, TotalIsLastCount
<1>6. f[n] = TotalSize(s) /\ g[m] = TotalSize(u)
    BY DEF TotalSize
<1>7. h[n + m] = f[n] + g[m]
    <2> HIDE DEF f, g, n, m
    <2>1. g[0] = 0 /\ f[n] \in Nat /\ n + m \in 0..(n + m)
        BY <1>0, <1>3 DEF Counts
    <2>2. CASE m = 0
        BY <2>2, <2>1, <1>0
    <2>3. CASE m # 0
        <3>1. ~(n + m <= n) /\ (n + m) - n = m
            BY <2>3, <1>0
        <3> QED BY <3>1, <2>1
    <2> QED BY <2>2, <2>3
<1> QED BY <1>5, <1>6, <1>7

LEMMA SingleTotal ==
    ASSUME NEW r \in Record
    PROVE  TotalSize(<<r>>) = SizeOf(r)
<1>1. <<r>> \in Seq(Record) /\ Len(<<r>>) = 1 /\ <<r>>[1] = r
    OBVIOUS
<1> DEFINE s == <<r>>
           g == Running(s)
<1>2. Counts(g, s, 1)
    BY <1>1, RunningCounts
<1>3. g[1] = g[0] + SizeOf(s[1]) /\ g[0] = 0
    <2> HIDE DEF g, s
    <2>1. 1 \in 1..1 /\ 1 - 1 = 0
        OBVIOUS
    <2>2. g[1] = g[1 - 1] + SizeOf(s[1]) /\ g[0] = 0
        BY <1>2, <2>1 DEF Counts
    <2> QED BY <2>1, <2>2
<1> QED BY <1>1, <1>3, SizeOfRecord DEF TotalSize

LEMMA AppendTotal ==
    ASSUME NEW s \in Seq(Record), NEW r \in Record
    PROVE  TotalSize(Append(s, r)) = TotalSize(s) + SizeOf(r)
<1>1. Append(s, r) = s \o <<r>> /\ <<r>> \in Seq(Record)
    BY AppendIsConcat
<1> QED BY <1>1, ConcatTotal, SingleTotal

-----------------------------------------------------------------------------
(***************************************************************************)
(* MemoryDataCacheStore keeps its accounts.                                *)
(***************************************************************************)

\* L1Accounting of one L1.
Accounted(c) ==
    /\ c.bytes = TotalSize(c.entries) /\ c.bytes <= MaxBytes
    /\ Len(c.entries) <= MaxEntries
    /\ \A i, j \in 1..Len(c.entries) : c.entries[i].key = c.entries[j].key => i = j

LEMMA AccountsOfAll == L1Accounting <=> \A p \in Processes : Accounted(l1[p])
BY DEF L1Accounting, Accounted

LEMMA CacheType ==
    ASSUME NEW c \in Cache
    PROVE  /\ c = [entries |-> c.entries, bytes |-> c.bytes]
           /\ c.entries \in Seq(Record) /\ c.bytes \in Nat /\ Len(c.entries) \in Nat
           /\ \A i \in 1..Len(c.entries) : c.entries[i] \in Record
BY DEF Cache

\* Removing position i: what is left, and the bytes of it.
LEMMA Removed ==
    ASSUME NEW s \in Seq(Record), NEW i \in 1..Len(s)
    PROVE  /\ RemoveAt(s, i) \in Seq(Record)
           /\ Len(RemoveAt(s, i)) = Len(s) - 1
           /\ \A j \in 1..(Len(s) - 1) : RemoveAt(s, i)[j] = IF j < i THEN s[j] ELSE s[j + 1]
           /\ TotalSize(s) = TotalSize(RemoveAt(s, i)) + SizeOf(s[i])
<1> DEFINE before == SubSeq(s, 1, i - 1)
           after == SubSeq(s, i + 1, Len(s))
<1>0. Len(s) \in Nat /\ i \in Nat
    OBVIOUS
<1>1. before \in Seq(Record) /\ after \in Seq(Record) /\ s[i] \in Record
    OBVIOUS
<1>2. Len(before) = i - 1 /\ Len(after) = Len(s) - i
    OBVIOUS
<1>3. (\A j \in 1..(i - 1) : before[j] = s[j]) /\ (\A j \in 1..(Len(s) - i) : after[j] = s[i + j])
    <2>1. \A j \in 1..(Len(s) - i) : (i + 1) + j - 1 = i + j
        BY <1>0
    <2> QED BY <2>1
<1>4. RemoveAt(s, i) = before \o after
    BY DEF RemoveAt
<1>5. TotalSize(RemoveAt(s, i)) = TotalSize(before) + TotalSize(after)
    <2> HIDE DEF before, after
    <2> QED BY <1>1, <1>4, ConcatTotal
<1>6. s = Append(before, s[i]) \o after
    <2> DEFINE w == Append(before, s[i]) \o after
    <2>1. w \in Seq(Record) /\ Len(w) = Len(s)
        <3> HIDE DEF before, after
        <3>1. Append(before, s[i]) \in Seq(Record) /\ Len(Append(before, s[i])) = i
            BY <1>0, <1>1, <1>2
        <3>2. w \in Seq(Record) /\ Len(w) = i + (Len(s) - i)
            BY <1>1, <1>2, <3>1
        <3> QED BY <1>0, <3>2
    <2>2. ASSUME NEW j \in 1..Len(s)
          PROVE  w[j] = s[j]
        <3> HIDE DEF before, after
        <3>1. Append(before, s[i]) \in Seq(Record) /\ Len(Append(before, s[i])) = i
            BY <1>0, <1>1, <1>2
        <3>2. CASE j < i
            <4>1. j \in 1..(i - 1)
                BY <3>2, <1>0
            <4> QED BY <4>1, <3>1, <1>0, <1>1, <1>2, <1>3
        <3>3. CASE j = i
            BY <3>3, <3>1, <1>0, <1>1, <1>2
        <3>4. CASE j > i
            <4>1. j - i \in 1..(Len(s) - i) /\ i + (j - i) = j
                BY <3>4, <1>0
            <4>2. w[j] = after[j - i]
                BY <3>4, <3>1, <1>0, <1>1, <1>2
            <4> QED BY <4>1, <4>2, <1>3
        <3>5. j \in Nat
            OBVIOUS
        <3> HIDE DEF w
        <3> QED BY <3>2, <3>3, <3>4, <3>5, <1>0
    <2>3. \A j \in 1..Len(w) : w[j] = s[j]
        BY <2>1, <2>2
    <2> HIDE DEF w
    <2>4. w = s
        BY <2>1, <2>3, SeqEqual
    <2> QED BY <2>4 DEF w
<1>7. TotalSize(s) = (TotalSize(before) + SizeOf(s[i])) + TotalSize(after)
    <2> HIDE DEF before, after
    <2>1. Append(before, s[i]) \in Seq(Record)
        BY <1>1
    <2> QED BY <1>1, <1>6, <2>1, ConcatTotal, AppendTotal
<1>8. \A j \in 1..(Len(s) - 1) : (before \o after)[j] = IF j < i THEN s[j] ELSE s[j + 1]
    <2> TAKE j \in 1..(Len(s) - 1)
    <2> HIDE DEF before, after
    <2>1. CASE j < i
        <3>1. j \in 1..(i - 1)
            BY <2>1, <1>0
        <3> QED BY <3>1, <2>1, <1>0, <1>1, <1>2, <1>3
    <2>2. CASE ~(j < i)
        <3>1. j - (i - 1) \in 1..(Len(s) - i) /\ i + (j - (i - 1)) = j + 1
            BY <2>2, <1>0
        <3>2. (before \o after)[j] = after[j - (i - 1)]
            BY <2>2, <1>0, <1>1, <1>2
        <3> QED BY <3>1, <3>2, <2>2, <1>3
    <2> QED BY <2>1, <2>2
<1>9. TotalSize(before) \in Nat /\ TotalSize(after) \in Nat /\ SizeOf(s[i]) \in Nat
    BY <1>1, TotalSizeType, SizeOfRecord
<1>10. before \o after \in Seq(Record) /\ Len(before \o after) = Len(s) - 1
    <2> HIDE DEF before, after
    <2> QED BY <1>0, <1>1, <1>2
<1> HIDE DEF before, after
<1> QED BY <1>4, <1>5, <1>7, <1>8, <1>9, <1>10

\* Whatever L1 holds comes from an earlier L1 or is the record r.
ComesFrom(c, old, r) ==
    \A i \in 1..Len(c.entries) : c.entries[i] = r \/ \E j \in 1..Len(old.entries) : c.entries[i] = old.entries[j]

\* The entry of a key is where the OrderedDict finds it; without it, the others remain.
LEMMA OthersOf ==
    ASSUME NEW p \in Processes, l1[p] \in Cache, Accounted(l1[p]), NEW k \in Keys
    PROVE  /\ Others(p, k) \in Seq(Record)
           /\ \A i \in 1..Len(Others(p, k)) :
                 /\ Others(p, k)[i].key # k
                 /\ \E j \in 1..Len(l1[p].entries) : Others(p, k)[i] = l1[p].entries[j]
           /\ \A i, j \in 1..Len(Others(p, k)) : Others(p, k)[i].key = Others(p, k)[j].key => i = j
           /\ Has(p, k) => /\ Position(p, k) \in 1..Len(l1[p].entries)
                           /\ Entry(p, k) \in Record /\ Entry(p, k).key = k
                           /\ Len(Others(p, k)) = Len(l1[p].entries) - 1
           /\ Freed(p, k) \in Nat
           /\ l1[p].bytes = TotalSize(Others(p, k)) + Freed(p, k)
           /\ ~ Has(p, k) => Others(p, k) = l1[p].entries
<1> DEFINE s == l1[p].entries
           n == Position(p, k)
           w == RemoveAt(s, n)
<1>0. s \in Seq(Record) /\ Len(s) \in Nat /\ \A i \in 1..Len(s) : s[i] \in Record
    BY CacheType
<1>1. CASE Has(p, k)
    <2>1. n \in 1..Len(s) /\ s[n].key = k
        BY <1>1 DEF Has, Position
    <2>2. Others(p, k) = w /\ Entry(p, k) = s[n] /\ s[n] \in Record
        BY <1>0, <1>1, <2>1 DEF Others, Entry
    <2> HIDE DEF n
    <2>3. /\ w \in Seq(Record) /\ Len(w) = Len(s) - 1
          /\ \A j \in 1..(Len(s) - 1) : w[j] = IF j < n THEN s[j] ELSE s[j + 1]
          /\ TotalSize(s) = TotalSize(w) + SizeOf(s[n])
        <3> HIDE DEF s
        <3> QED BY <1>0, <2>1, Removed
    <2>4. \A i \in 1..Len(w) :
             \E j \in 1..Len(s) : j # n /\ w[i] = s[j] /\ j = IF i < n THEN i ELSE i + 1
        <3> HIDE DEF s, w
        <3> TAKE i \in 1..Len(w)
        <3>1. CASE i < n
            <4>1. i \in 1..Len(s) /\ i # n /\ i \in 1..(Len(s) - 1)
                BY <3>1, <1>0, <2>3
            <4> QED BY <4>1, <3>1, <2>3
        <3>2. CASE ~(i < n)
            <4>1. i + 1 \in 1..Len(s) /\ i + 1 # n /\ i \in 1..(Len(s) - 1)
                BY <3>2, <1>0, <2>1, <2>3
            <4> QED BY <4>1, <3>2, <2>3
        <3> QED BY <3>1, <3>2
    <2>5. \A i, j \in 1..Len(s) : s[i].key = s[j].key => i = j
        BY DEF Accounted
    <2>6. \A i \in 1..Len(w) : w[i].key # k
        BY <2>1, <2>4, <2>5
    <2>7. \A i, j \in 1..Len(w) : w[i].key = w[j].key => i = j
        <3> HIDE DEF s, w
        <3> TAKE i, j \in 1..Len(w)
        <3>1. PICK a \in 1..Len(s) : w[i] = s[a] /\ a = IF i < n THEN i ELSE i + 1
            BY <2>4
        <3>2. PICK b \in 1..Len(s) : w[j] = s[b] /\ b = IF j < n THEN j ELSE j + 1
            BY <2>4
        <3>3. HAVE w[i].key = w[j].key
        <3>4. a = b
            BY <3>1, <3>2, <3>3, <2>5
        <3>5. i \in Nat /\ j \in Nat /\ n \in Nat
            BY <1>0, <2>1, <2>3
        <3> QED BY <3>1, <3>2, <3>4, <3>5
    <2>8. Freed(p, k) = SizeOf(s[n])
        BY <1>1, <2>1, <2>2 DEF Freed, SizeOf
    <2>9. l1[p].bytes = TotalSize(w) + Freed(p, k)
        BY <2>3, <2>8 DEF Accounted
    <2>10. Freed(p, k) \in Nat
        BY <2>2, <2>8, SizeOfRecord
    <2>11. \A i \in 1..Len(w) : \E j \in 1..Len(s) : w[i] = s[j]
        BY <2>4
    <2>12. n = Position(p, k)
        BY DEF n
    <2> HIDE DEF w
    <2> QED BY <1>1, <2>1, <2>2, <2>3, <2>6, <2>7, <2>9, <2>10, <2>11, <2>12
<1>2. CASE ~ Has(p, k)
    <2>1. Others(p, k) = s /\ Freed(p, k) = 0
        BY <1>2 DEF Others, Freed
    <2>2. \A i \in 1..Len(s) : s[i].key # k
        BY <1>2 DEF Has
    <2>3. l1[p].bytes = TotalSize(s) + 0
        BY <1>0, TotalSizeType DEF Accounted
    <2>4. \A i, j \in 1..Len(s) : s[i].key = s[j].key => i = j
        BY DEF Accounted
    <2> QED BY <1>0, <1>2, <2>1, <2>2, <2>3, <2>4
<1> QED BY <1>1, <1>2

\* get only reorders the entries.
LEMMA TouchedKeeps ==
    ASSUME NEW p \in Processes, l1[p] \in Cache, Accounted(l1[p]), NEW k \in Keys, NEW r
    PROVE  Touched(p, k) \in Cache /\ Accounted(Touched(p, k)) /\ ComesFrom(Touched(p, k), l1[p], r)
<1>1. CASE ~ Has(p, k)
    BY <1>1 DEF Touched, ComesFrom
<1>2. CASE Has(p, k)
    <2> DEFINE s == l1[p].entries
               o == Others(p, k)
               e == Entry(p, k)
               w == Append(o, e)
    <2>0. s \in Seq(Record) /\ Len(s) \in Nat /\ l1[p].bytes \in Nat
        BY CacheType
    <2>1. /\ o \in Seq(Record) /\ e \in Record /\ e.key = k /\ Len(o) = Len(s) - 1
          /\ \A i \in 1..Len(o) : o[i].key # k /\ \E j \in 1..Len(s) : o[i] = s[j]
          /\ \A i, j \in 1..Len(o) : o[i].key = o[j].key => i = j
          /\ l1[p].bytes = TotalSize(o) + Freed(p, k)
        BY <1>2, OthersOf
    <2>2. Freed(p, k) = SizeOf(e)
        BY <1>2, <2>1 DEF Freed, SizeOf
    <2>3. \E j \in 1..Len(s) : e = s[j]
        BY <1>2, OthersOf DEF Entry
    <2>4. Touched(p, k) = [entries |-> w, bytes |-> l1[p].bytes]
        BY <1>2 DEF Touched
    <2> HIDE DEF o, e, s
    <2>5. /\ w \in Seq(Record) /\ Len(w) = Len(s) /\ Len(o) \in Nat
          /\ \A i \in 1..Len(w) : w[i] = IF i \in 1..Len(o) THEN o[i] ELSE e
          /\ \A i \in 1..Len(w) : i \in 1..Len(o) \/ i = Len(o) + 1
        BY <2>0, <2>1
    <2>6. TotalSize(w) = l1[p].bytes
        BY <2>1, <2>2, AppendTotal
    <2> HIDE DEF w
    <2>7. \A i \in 1..Len(w) : \E j \in 1..Len(s) : w[i] = s[j]
        BY <2>1, <2>3, <2>5
    <2>8. \A i, j \in 1..Len(w) : w[i].key = w[j].key => i = j
        <3> TAKE i, j \in 1..Len(w)
        <3>1. HAVE w[i].key = w[j].key
        <3>2. CASE i \in 1..Len(o) /\ j \in 1..Len(o)
            <4>1. w[i] = o[i] /\ w[j] = o[j]
                BY <3>2, <2>5
            <4> QED BY <3>1, <3>2, <4>1, <2>1
        <3>3. CASE i \in 1..Len(o) /\ j \notin 1..Len(o)
            <4>1. w[i] = o[i] /\ w[j] = e
                BY <3>3, <2>5
            <4> QED BY <3>1, <3>3, <4>1, <2>1
        <3>4. CASE i \notin 1..Len(o) /\ j \in 1..Len(o)
            <4>1. w[i] = e /\ w[j] = o[j]
                BY <3>4, <2>5
            <4> QED BY <3>1, <3>4, <4>1, <2>1
        <3>5. CASE i \notin 1..Len(o) /\ j \notin 1..Len(o)
            <4>1. i = Len(o) + 1 /\ j = Len(o) + 1
                BY <3>5, <2>5
            <4> QED BY <4>1
        <3> QED BY <3>2, <3>3, <3>4, <3>5
    <2>9. l1[p].bytes <= MaxBytes /\ Len(s) <= MaxEntries
        BY DEF Accounted, s
    <2>10. Accounted(Touched(p, k))
        BY <2>4, <2>5, <2>6, <2>8, <2>9 DEF Accounted
    <2>11. ComesFrom(Touched(p, k), l1[p], r)
        BY <2>4, <2>7 DEF ComesFrom, s
    <2>12. Touched(p, k) \in Cache
        BY <2>0, <2>4, <2>5 DEF Cache
    <2> QED BY <2>10, <2>11, <2>12
<1> QED BY <1>1, <1>2

\* A sequence is its first entries and the rest.
LEMMA SuffixTotal ==
    ASSUME NEW s \in Seq(Record), NEW i \in 1..(Len(s) + 1)
    PROVE  /\ SubSeq(s, i, Len(s)) \in Seq(Record)
           /\ Len(SubSeq(s, i, Len(s))) = Len(s) - i + 1
           /\ \A j \in 1..(Len(s) - i + 1) : SubSeq(s, i, Len(s))[j] = s[i + j - 1]
           /\ TotalSize(SubSeq(s, i, Len(s))) \in Nat
           /\ TotalSize(s) - TotalSize(SubSeq(s, 1, i - 1)) = TotalSize(SubSeq(s, i, Len(s)))
<1> DEFINE before == SubSeq(s, 1, i - 1)
           after == SubSeq(s, i, Len(s))
           w == before \o after
<1>0. Len(s) \in Nat /\ i \in Nat
    OBVIOUS
<1>1. before \in Seq(Record) /\ after \in Seq(Record)
    OBVIOUS
<1>2. Len(before) = i - 1 /\ Len(after) = Len(s) - i + 1
    OBVIOUS
<1>3. \A j \in 1..(i - 1) : before[j] = s[j]
    OBVIOUS
<1>4. \A j \in 1..(Len(s) - i + 1) : after[j] = s[i + j - 1]
    OBVIOUS
<1>5. w \in Seq(Record) /\ Len(w) = Len(s)
    <2> HIDE DEF before, after
    <2>1. w \in Seq(Record) /\ Len(w) = (i - 1) + (Len(s) - i + 1)
        BY <1>1, <1>2
    <2> QED BY <1>0, <2>1
<1>6. \A j \in 1..Len(w) : w[j] = s[j]
    <2> TAKE j \in 1..Len(w)
    <2> HIDE DEF before, after
    <2>0. j \in 1..Len(s)
        BY <1>5
    <2>1. CASE j < i
        <3>1. j \in 1..(i - 1)
            BY <2>0, <2>1, <1>0
        <3> QED BY <3>1, <2>0, <1>0, <1>1, <1>2, <1>3
    <2>2. CASE ~(j < i)
        <3>1. j - (i - 1) \in 1..(Len(s) - i + 1) /\ i + (j - (i - 1)) - 1 = j
            BY <2>0, <2>2, <1>0
        <3>2. w[j] = after[j - (i - 1)]
            BY <2>0, <2>2, <1>0, <1>1, <1>2
        <3> QED BY <3>1, <3>2, <1>4
    <2> QED BY <2>1, <2>2
<1>7. w = s
    <2> HIDE DEF w
    <2> QED BY <1>5, <1>6, SeqEqual
<1>8. TotalSize(s) = TotalSize(before) + TotalSize(after)
    <2>1. TotalSize(w) = TotalSize(before) + TotalSize(after)
        <3> HIDE DEF before, after
        <3> QED BY <1>1, ConcatTotal
    <2> HIDE DEF w
    <2> QED BY <1>7, <2>1
<1>9. TotalSize(before) \in Nat /\ TotalSize(after) \in Nat
    <2> HIDE DEF before, after
    <2> QED BY <1>1, TotalSizeType
<1>10. TotalSize(s) - TotalSize(before) = TotalSize(after)
    <2> HIDE DEF before, after
    <2> QED BY <1>8, <1>9
<1> QED BY <1>1, <1>2, <1>4, <1>9, <1>10

\* Eviction stops, at the first place where both limits hold.
LEMMA EvictedKeeps ==
    ASSUME NEW c \in Cache, c.bytes = TotalSize(c.entries),
           \A i, j \in 1..Len(c.entries) : c.entries[i].key = c.entries[j].key => i = j
    PROVE  /\ Evicted(c) \in Cache /\ Accounted(Evicted(c))
           /\ \A i \in 1..Len(Evicted(c).entries) :
                 \E j \in 1..Len(c.entries) : Evicted(c).entries[i] = c.entries[j]
<1> DEFINE s == c.entries
           n == Len(s)
           Suffix(i) == SubSeq(s, i, n)
           Bytes(i) == c.bytes - TotalSize(SubSeq(s, 1, i - 1))
           Fits(i) == n - i + 1 <= MaxEntries /\ Bytes(i) <= MaxBytes
           First(i) == Fits(i) /\ \A j \in 1..(i - 1) : n - j + 1 > MaxEntries \/ Bytes(j) > MaxBytes
           first == CHOOSE i \in 1..(n + 1) : First(i)
<1>0. s \in Seq(Record) /\ n \in Nat
    BY CacheType
<1>1. \A i \in 1..(n + 1) :
         /\ Suffix(i) \in Seq(Record) /\ Len(Suffix(i)) = n - i + 1
         /\ \A j \in 1..(n - i + 1) : Suffix(i)[j] = s[i + j - 1]
         /\ TotalSize(Suffix(i)) \in Nat
         /\ Bytes(i) = TotalSize(Suffix(i))
    BY <1>0, SuffixTotal
<1>2. Evicted(c) = [entries |-> Suffix(first), bytes |-> Bytes(first)]
    BY DEF Evicted
<1>3. Fits(n + 1)
    <2>1. n + 1 \in 1..(n + 1) /\ n - (n + 1) + 1 = 0
        BY <1>0
    <2>2. Suffix(n + 1) = <<>>
        <3> HIDE DEF s, n, Suffix
        <3>1. Suffix(n + 1) \in Seq(Record) /\ Len(Suffix(n + 1)) = 0
            BY <1>1, <2>1
        <3> QED BY <3>1, EmptySeq
    <2>3. Bytes(n + 1) = 0
        <3> HIDE DEF Suffix, Bytes, n, s
        <3> QED BY <1>1, <2>1, <2>2, EmptyTotal
    <2> HIDE DEF Bytes
    <2> QED BY <2>1, <2>3, Limits
<1>4. \E i \in 1..(n + 1) : First(i)
    <2> DEFINE T == {i \in 1..(n + 1) : Fits(i)}
    <2>1. T \in SUBSET Nat /\ T # {}
        <3> HIDE DEF Fits
        <3> QED BY <1>0, <1>3
    <2>2. PICK i \in T : \A j \in T : i <= j
        <3> HIDE DEF T
        <3> QED BY <2>1, Least
    <2>3. i \in 1..(n + 1) /\ Fits(i)
        OBVIOUS
    <2>4. ASSUME NEW j \in 1..(i - 1)
          PROVE  ~ Fits(j)
        <3>1. j \in 1..(n + 1) /\ ~(i <= j)
            BY <1>0, <2>3
        <3> HIDE DEF Fits
        <3> QED BY <2>2, <3>1
    <2>5. ASSUME NEW j \in 1..(i - 1)
          PROVE  n - j + 1 > MaxEntries \/ Bytes(j) > MaxBytes
        <3> HIDE DEF Bytes, Suffix, n, s
        <3>1. j \in 1..(n + 1)
            BY <1>0, <2>3
        <3>2. Bytes(j) \in Nat
            BY <3>1, <1>1
        <3>4. n - j + 1 \in Int
            BY <3>1, <1>0
        <3>3. ~ (n - j + 1 <= MaxEntries /\ Bytes(j) <= MaxBytes)
            BY <2>4
        <3> QED BY <3>2, <3>3, <3>4, Limits
    <2> HIDE DEF Fits, Bytes, n
    <2> QED BY <2>3, <2>5
<1>5. first \in 1..(n + 1) /\ First(first)
    <2> HIDE DEF First, n
    <2> QED BY <1>4
<1> HIDE DEF first
<1> DEFINE w == Suffix(first)
<1>6. /\ w \in Seq(Record) /\ Len(w) = n - first + 1 /\ TotalSize(w) \in Nat
      /\ \A j \in 1..(n - first + 1) : w[j] = s[first + j - 1]
      /\ Bytes(first) = TotalSize(w)
    <2> HIDE DEF Bytes, Suffix, n, s
    <2> QED BY <1>1, <1>5
<1>7. Evicted(c).entries = w /\ Evicted(c).bytes = TotalSize(w) /\ Evicted(c) \in Cache
    <2> HIDE DEF Bytes, Suffix, n, s
    <2> QED BY <1>2, <1>6 DEF Cache
<1>8. TotalSize(w) <= MaxBytes /\ Len(w) <= MaxEntries
    <2>1. Fits(first)
        BY <1>5
    <2> HIDE DEF w, Bytes, n, s
    <2> QED BY <2>1, <1>6
<1>9. \A i \in 1..Len(w) : first + i - 1 \in 1..n /\ w[i] = s[first + i - 1]
    <2> HIDE DEF w, n, s
    <2> QED BY <1>0, <1>5, <1>6
<1>10. \A i, j \in 1..Len(w) : w[i].key = w[j].key => i = j
    <2> HIDE DEF w
    <2> TAKE i, j \in 1..Len(w)
    <2>1. HAVE w[i].key = w[j].key
    <2>2. first + i - 1 \in 1..n /\ first + j - 1 \in 1..n
        BY <1>9
    <2>3. s[first + i - 1].key = s[first + j - 1].key
        BY <1>9, <2>1
    <2>4. first + i - 1 = first + j - 1
        BY <2>2, <2>3
    <2>5. i \in Nat /\ j \in Nat /\ first \in Nat
        BY <1>0, <1>5, <1>6
    <2> QED BY <2>4, <2>5
<1> HIDE DEF w, n, s
<1>11. Accounted(Evicted(c))
    BY <1>7, <1>8, <1>10 DEF Accounted
<1>12. \A i \in 1..Len(w) : \E j \in 1..n : w[i] = s[j]
    BY <1>9
<1> QED BY <1>7, <1>11, <1>12 DEF s, n

\* put keeps the accounts, and adds no entry but its record.
LEMMA StoredKeeps ==
    ASSUME NEW p \in Processes, l1[p] \in Cache, Accounted(l1[p]), NEW r \in Record
    PROVE  Stored(p, r) \in Cache /\ Accounted(Stored(p, r)) /\ ComesFrom(Stored(p, r), l1[p], r)
<1>0. r.key \in Keys /\ SizeOf(r) \in Nat /\ SizeOf(r) = Size(r.key, r.version)
    BY SizeOfRecord DEF Record, SizeOf
<1>1. CASE Size(r.key, r.version) > MaxBytes
    BY <1>1 DEF Stored, ComesFrom
<1>2. CASE ~(Size(r.key, r.version) > MaxBytes)
    <2> DEFINE o == Others(p, r.key)
               w == Append(o, r)
               b == (l1[p].bytes + Size(r.key, r.version)) - Freed(p, r.key)
               c == [entries |-> w, bytes |-> b]
    <2>1. /\ o \in Seq(Record)
          /\ \A i \in 1..Len(o) : o[i].key # r.key /\ \E j \in 1..Len(l1[p].entries) : o[i] = l1[p].entries[j]
          /\ \A i, j \in 1..Len(o) : o[i].key = o[j].key => i = j
          /\ Freed(p, r.key) \in Nat
          /\ l1[p].bytes = TotalSize(o) + Freed(p, r.key)
        BY <1>0, OthersOf
    <2>2. Stored(p, r) = Evicted(c)
        BY <1>2 DEF Stored
    <2> HIDE DEF o
    <2>3. TotalSize(o) \in Nat
        BY <2>1, TotalSizeType
    <2>4. TotalSize(w) = TotalSize(o) + SizeOf(r)
        BY <2>1, AppendTotal
    <2>5. b = TotalSize(w) /\ b \in Nat
        BY <1>0, <2>1, <2>3, <2>4
    <2>6. /\ w \in Seq(Record) /\ Len(o) \in Nat
          /\ \A i \in 1..Len(w) : w[i] = IF i \in 1..Len(o) THEN o[i] ELSE r
          /\ \A i \in 1..Len(w) : i \in 1..Len(o) \/ i = Len(o) + 1
        <3>1. w \in Seq(Record) /\ Len(o) \in Nat /\ Len(w) = Len(o) + 1
            BY <2>1
        <3>2. \A i \in 1..Len(w) : i \in 1..Len(o) \/ i = Len(o) + 1
            <4> HIDE DEF w
            <4> QED BY <3>1
        <3>3. \A i \in 1..Len(w) : w[i] = IF i \in 1..Len(o) THEN o[i] ELSE r
            <4> TAKE i \in 1..Len(w)
            <4>1. CASE i \in 1..Len(o)
                BY <2>1, <4>1
            <4>2. CASE i = Len(o) + 1
                BY <2>1, <3>1, <4>2
            <4> QED BY <3>2, <4>1, <4>2
        <3> QED BY <3>1, <3>2, <3>3
    <2> HIDE DEF w, b
    <2>7. \A i, j \in 1..Len(w) : w[i].key = w[j].key => i = j
        <3> TAKE i, j \in 1..Len(w)
        <3>1. HAVE w[i].key = w[j].key
        <3>2. CASE i \in 1..Len(o) /\ j \in 1..Len(o)
            <4>1. w[i] = o[i] /\ w[j] = o[j]
                BY <3>2, <2>6
            <4> QED BY <3>1, <3>2, <4>1, <2>1
        <3>3. CASE i \in 1..Len(o) /\ j \notin 1..Len(o)
            <4>1. w[i] = o[i] /\ w[j] = r
                BY <3>3, <2>6
            <4> QED BY <3>1, <3>3, <4>1, <2>1
        <3>4. CASE i \notin 1..Len(o) /\ j \in 1..Len(o)
            <4>1. w[i] = r /\ w[j] = o[j]
                BY <3>4, <2>6
            <4> QED BY <3>1, <3>4, <4>1, <2>1
        <3>5. CASE i \notin 1..Len(o) /\ j \notin 1..Len(o)
            <4>1. i = Len(o) + 1 /\ j = Len(o) + 1
                BY <3>5, <2>6
            <4> QED BY <4>1
        <3> QED BY <3>2, <3>3, <3>4, <3>5
    <2>8. c \in Cache /\ c.entries = w /\ c.bytes = b
        BY <2>5, <2>6 DEF Cache
    <2>9. \A i \in 1..Len(w) : w[i] = r \/ \E j \in 1..Len(l1[p].entries) : w[i] = l1[p].entries[j]
        BY <2>1, <2>6
    <2> HIDE DEF c
    <2>10. /\ Evicted(c) \in Cache /\ Accounted(Evicted(c))
           /\ \A i \in 1..Len(Evicted(c).entries) : \E j \in 1..Len(w) : Evicted(c).entries[i] = w[j]
        BY <2>5, <2>7, <2>8, EvictedKeeps
    <2>11. ComesFrom(Evicted(c), l1[p], r)
        BY <2>9, <2>10 DEF ComesFrom
    <2> QED BY <2>2, <2>10, <2>11
<1> QED BY <1>1, <1>2

-----------------------------------------------------------------------------
(***************************************************************************)
(* Publications and the expiration policy.                                 *)
(***************************************************************************)

LEMMA DayType == Day \in Nat \ {0} /\ Completion \in Nat /\ Completion < Day
BY Times

LEMMA VersionType ==
    ASSUME NEW k \in Keys, NEW t \in Nat
    PROVE  Version(k, t) \in Nat /\ Version(k, t) <= t + 1
<1>1. t \div Day \in Nat /\ t \div Day <= t /\ t % Day \in Nat
    <2>1. t = Day * (t \div Day) + (t % Day) /\ t % Day \in Nat /\ t \div Day \in Nat
        BY DayType, DivMod
    <2>2. Day * (t \div Day) >= t \div Day
        BY <2>1, DayType
    <2> QED BY <2>1, <2>2, DayType
<1>2. CASE KindOf[k] = "dated"
    BY <1>2, DayType DEF Version
<1>3. CASE KindOf[k] = "latest"
    BY <1>3, <1>1, DayType DEF Version
<1>4. CASE KindOf[k] \notin {"dated", "latest"}
    BY <1>4 DEF Version
<1> QED BY <1>2, <1>3, <1>4

\* A publication stays published.
LEMMA VersionMonotone ==
    ASSUME NEW k \in Keys, NEW a \in Nat, NEW b \in Nat, a <= b
    PROVE  Version(k, a) <= Version(k, b)
<1>1. CASE KindOf[k] = "dated"
    BY <1>1, DayType DEF Version
<1>2. CASE KindOf[k] = "latest"
    <2>1. /\ a = Day * (a \div Day) + (a % Day) /\ a % Day \in 0..(Day - 1) /\ a \div Day \in Nat
          /\ b = Day * (b \div Day) + (b % Day) /\ b % Day \in 0..(Day - 1) /\ b \div Day \in Nat
        BY DayType, DivMod
    <2>2. a \div Day <= b \div Day
        BY DayType, DivMonotone
    <2>5. /\ Version(k, a) = (a \div Day) + (IF a % Day >= Completion THEN 1 ELSE 0)
          /\ Version(k, b) = (b \div Day) + (IF b % Day >= Completion THEN 1 ELSE 0)
        BY <1>2 DEF Version
    <2> HIDE DEF Version
    <2>3. CASE a \div Day = b \div Day
        <3>1. a % Day <= b % Day
            BY <2>1, <2>3, DayType
        <3>2. a % Day >= Completion => b % Day >= Completion
            BY <2>1, <3>1, DayType
        <3> QED BY <2>1, <2>3, <2>5, <3>2
    <2>4. CASE a \div Day < b \div Day
        <3> DEFINE x == IF a % Day >= Completion THEN 1 ELSE 0
                   y == IF b % Day >= Completion THEN 1 ELSE 0
        <3>1. x \in 0..1 /\ y \in 0..1
            OBVIOUS
        <3>2. Version(k, a) = (a \div Day) + x /\ Version(k, b) = (b \div Day) + y
            BY <2>5
        <3>3. a \div Day \in Nat /\ b \div Day \in Nat
            BY <2>1
        <3> HIDE DEF x, y
        <3>4. (a \div Day) + 1 <= b \div Day
            BY <2>4, <3>3
        <3> QED BY <3>1, <3>2, <3>3, <3>4
    <2> QED BY <2>1, <2>2, <2>3, <2>4
<1>3. CASE KindOf[k] \notin {"dated", "latest"}
    BY <1>3 DEF Version
<1> QED BY <1>1, <1>2, <1>3

LEMMA PolicyType ==
    ASSUME NEW k \in Keys, NEW t \in Nat
    PROVE  Policy(k, t) \in Nat \cup {None}
<1>0. t \div Day \in Nat /\ (t \div Day) * Day \in Nat
    BY DayType, DivMod
<1>1. CASE KindOf[k] = "realtime"
    BY <1>1 DEF Policy
<1>2. CASE KindOf[k] # "realtime"
    BY <1>0, <1>2, Times DEF Policy, Earlier
<1> QED BY <1>1, <1>2

\* Until a response expires, no publication comes that the provider did not answer with
\* when it was asked.
LEMMA PolicyIsSafe ==
    ASSUME NEW k \in Keys, NEW t \in Nat, Policy(k, t) # None, NEW s \in Nat, s < Policy(k, t)
    PROVE  Version(k, s) <= Version(k, t)
<1>1. CASE KindOf[k] = "dated"
    BY <1>1, Times DEF Policy, Version, Earlier
<1>2. CASE KindOf[k] = "latest"
    <2> DEFINE d == t \div Day
               completion == d * Day + Completion
    <2>1. /\ t = Day * d + (t % Day) /\ t % Day \in 0..(Day - 1) /\ d \in Nat
          /\ s = Day * (s \div Day) + (s % Day) /\ s % Day \in 0..(Day - 1) /\ s \div Day \in Nat
        BY DayType, DivMod
    <2>2. Day * d = d * Day /\ d * Day \in Nat
        BY <2>1, DayType
    <2>3. Version(k, s) = (s \div Day) + (IF s % Day >= Completion THEN 1 ELSE 0)
        BY <1>2 DEF Version
    <2>4. Version(k, t) = d + (IF t % Day >= Completion THEN 1 ELSE 0)
        BY <1>2 DEF Version
    <2>5. Policy(k, t) = IF t >= completion THEN completion + Day
                         ELSE Earlier(t + ShortTTL, completion)
        BY <1>2 DEF Policy
    <2> HIDE DEF d
    <2>6. CASE t >= completion
        <3>1. t % Day >= Completion
            BY <2>1, <2>2, <2>6, DayType
        <3>2. Version(k, t) = d + 1
            BY <2>1, <2>4, <3>1
        <3>3. s < (d + 1) * Day + Completion
            <4>1. (d + 1) * Day = d * Day + Day
                BY <2>1, DayType
            <4> QED BY <2>2, <2>5, <2>6, <4>1, DayType
        <3>4. s \div Day <= d + 1
            <4>1. s < (d + 2) * Day
                <5>1. (d + 2) * Day = (d + 1) * Day + Day /\ (d + 1) * Day \in Nat
                    BY <2>1, DayType
                <5> QED BY <3>3, <5>1, DayType
            <4>2. SUFFICES ASSUME s \div Day >= d + 2
                           PROVE  FALSE
                BY <2>1
            <4>3. Day * (s \div Day) >= (d + 2) * Day
                BY <2>1, <4>2, DayType
            <4> QED BY <2>1, <4>1, <4>3, DayType
        <3>5. CASE s \div Day = d + 1
            <4>1. Day * (s \div Day) = (d + 1) * Day /\ (d + 1) * Day \in Nat
                BY <2>1, <3>5, DayType
            <4>2. ~(s % Day >= Completion)
                BY <2>1, <3>3, <4>1, DayType
            <4> QED BY <2>1, <2>3, <3>2, <3>5, <4>2
        <3>6. CASE s \div Day < d + 1
            BY <2>1, <2>3, <3>2, <3>6
        <3> QED BY <2>1, <3>4, <3>5, <3>6
    <2>7. CASE ~(t >= completion)
        <3>1. t % Day < Completion
            BY <2>1, <2>2, <2>7, DayType
        <3>2. Version(k, t) = d
            BY <2>1, <2>4, <3>1, DayType
        <3>3. s < completion
            BY <2>2, <2>5, <2>7, Times DEF Earlier
        <3>4. s \div Day <= d
            <4>1. s < (d + 1) * Day
                <5>1. (d + 1) * Day = d * Day + Day
                    BY <2>1, DayType
                <5> QED BY <2>2, <3>3, <5>1, DayType
            <4>2. SUFFICES ASSUME s \div Day >= d + 1
                           PROVE  FALSE
                BY <2>1
            <4>3. Day * (s \div Day) >= (d + 1) * Day
                BY <2>1, <4>2, DayType
            <4> QED BY <2>1, <4>1, <4>3, DayType
        <3>5. CASE s \div Day = d
            <4>1. ~(s % Day >= Completion)
                BY <2>1, <2>2, <3>3, <3>5, DayType
            <4> QED BY <2>1, <2>3, <3>2, <3>5, <4>1
        <3>6. CASE s \div Day < d
            BY <2>1, <2>3, <3>2, <3>6
        <3> QED BY <2>1, <3>4, <3>5, <3>6
    <2> QED BY <2>6, <2>7
<1>3. CASE KindOf[k] \notin {"dated", "latest"}
    <2>1. KindOf[k] = "realtime"
        BY <1>3, Requests DEF Kinds
    <2> QED BY <2>1 DEF Policy
<1> QED BY <1>1, <1>2, <1>3

\* A response that is valid at a reading of the clock since the query began answers it.
LEMMA FreshAnswers ==
    ASSUME clock \in 0..MaxTime, NEW r \in Record, Fresh(r), NEW since \in Nat, NEW now \in Nat,
           since <= now, now <= clock, Valid(r, now)
    PROVE  r.version \in Version(r.key, since)..Version(r.key, clock)
<1>1. r.key \in Keys /\ r.version \in Nat /\ r.expires \in Nat
    BY DEF Record
<1>2. since \in 0..MaxTime /\ since < r.expires /\ clock \in Nat
    BY <1>1, Limits DEF Valid
<1>3. Version(r.key, since) <= r.version /\ r.version <= Version(r.key, clock)
    BY <1>2 DEF Fresh
<1>4. Version(r.key, since) \in Nat /\ Version(r.key, clock) \in Nat
    BY <1>1, <1>2, VersionType
<1> QED BY <1>1, <1>3, <1>4

\* Time makes no response stale before it expires.
LEMMA FreshStays ==
    ASSUME clock \in 0..MaxTime, clock' \in 0..MaxTime, clock <= clock', NEW r \in Record, Fresh(r)
    PROVE  Fresh(r)'
<1>1. r.key \in Keys /\ r.version \in Nat /\ clock \in Nat /\ clock' \in Nat
    BY Limits DEF Record
<1>2. Version(r.key, clock) <= Version(r.key, clock')
    BY <1>1, VersionMonotone
<1>3. Version(r.key, clock) \in Nat /\ Version(r.key, clock') \in Nat
    BY <1>1, VersionType
<1> QED BY <1>1, <1>2, <1>3 DEF Fresh

\* What the provider answers is fresh, with the expiration resolved before it was asked.
LEMMA FetchedFresh ==
    ASSUME clock \in 0..MaxTime, NEW k \in Keys, NEW since \in Nat, since <= clock,
           Policy(k, since) # None, NEW r, r.key = k, r.version = Version(k, clock),
           r.expires = Policy(k, since)
    PROVE  Fresh(r)
<1>1. clock \in Nat
    BY Limits
<1>2. Version(k, clock) <= Version(k, clock)
    BY <1>1, VersionType
<1>3. ASSUME NEW s \in 0..MaxTime, s < Policy(k, since)
      PROVE  Version(k, s) <= Version(k, clock)
    <2>1. s \in Nat
        OBVIOUS
    <2>2. Version(k, s) <= Version(k, since)
        BY <1>3, <2>1, PolicyIsSafe
    <2>3. Version(k, since) <= Version(k, clock)
        BY <1>1, VersionMonotone
    <2>4. Version(k, s) \in Nat /\ Version(k, since) \in Nat /\ Version(k, clock) \in Nat
        BY <1>1, <2>1, VersionType
    <2> QED BY <2>2, <2>3, <2>4
<1> QED BY <1>2, <1>3 DEF Fresh

-----------------------------------------------------------------------------
(***************************************************************************)
(* What the steps of a query do to it.                                     *)
(***************************************************************************)

Versions == 0..(MaxTime + 1)
Pcs == Ended \cup Looking \cup Filling \cup {"lock", "bypass"}

\* A query that has ended and forgets what it was.
Over(pc, v) == [NoThread EXCEPT !.pc = pc, !.version = v]

LEMMA OverType ==
    ASSUME NEW pc \in Ended, NEW v \in Versions
    PROVE  /\ Over(pc, v) \in Thread
           /\ Over(pc, v).pc = pc /\ Over(pc, v).proc = None /\ Over(pc, v).key = None
           /\ Over(pc, v).since = 0 /\ Over(pc, v).version = v
BY Limits DEF Over, NoThread, Thread, Versions

LEMMA NoThreadType == NoThread \in Thread /\ NoThread.pc = "idle" /\ NoThread.proc = None
                      /\ NoThread.key = None /\ NoThread.since = 0 /\ NoThread.version = 0
BY Limits DEF NoThread, Thread, Ended

LEMMA ThreadFields ==
    ASSUME TypeOK, NEW t \in Threads
    PROVE  /\ thread[t] \in Thread /\ thread[t].pc \in Pcs
           /\ thread[t].proc \in Processes \cup {None} /\ thread[t].key \in Keys \cup {None}
           /\ thread[t].since \in Nat /\ thread[t].now \in Nat
           /\ thread[t].expires \in Nat \cup {None} /\ thread[t].version \in Versions
           /\ thread[t].record \in Record \cup {None}
BY DEF TypeOK, Thread, Pcs, Versions

LEMMA EndEffect ==
    ASSUME TypeOK, NEW t \in Threads, NEW pc \in Ended, NEW v \in Versions, End(t, pc, v)
    PROVE  /\ thread' = [thread EXCEPT ![t] = Over(pc, v)]
           /\ thread' \in [Threads -> Thread]
           /\ thread'[t] = Over(pc, v)
           /\ \A u \in Threads \ {t} : thread'[u] = thread[u]
           /\ lock' \in [Processes -> [Stripes -> Threads \cup {None}]]
           /\ \A p \in Processes, s \in Stripes : lock'[p][s] = IF lock[p][s] = t THEN None ELSE lock[p][s]
<1>0. thread \in [Threads -> Thread] /\ Over(pc, v) \in Thread
    BY OverType DEF TypeOK
<1>1. thread' = [thread EXCEPT ![t] = Over(pc, v)]
    BY DEF End, Over
<1>2. lock' = [p \in Processes |-> [s \in Stripes |-> IF lock[p][s] = t THEN None ELSE lock[p][s]]]
    BY DEF End, Release
<1>3. lock' \in [Processes -> [Stripes -> Threads \cup {None}]]
    BY <1>2 DEF TypeOK
<1>4. \A p \in Processes, s \in Stripes : lock'[p][s] = IF lock[p][s] = t THEN None ELSE lock[p][s]
    BY <1>2
<1> QED BY <1>0, <1>1, <1>3, <1>4

LEMMA GotoEffect ==
    ASSUME TypeOK, NEW t \in Threads, NEW pc \in Pcs, Goto(t, pc)
    PROVE  /\ thread' \in [Threads -> Thread]
           /\ thread'[t].pc = pc /\ thread'[t].proc = thread[t].proc /\ thread'[t].key = thread[t].key
           /\ thread'[t].since = thread[t].since /\ thread'[t].now = thread[t].now
           /\ thread'[t].expires = thread[t].expires /\ thread'[t].version = thread[t].version
           /\ thread'[t].record = thread[t].record
           /\ \A u \in Threads \ {t} : thread'[u] = thread[u]
<1>0. thread \in [Threads -> Thread]
    BY DEF TypeOK
<1>1. thread' = [thread EXCEPT ![t].pc = pc]
    BY DEF Goto
<1>2. [thread[t] EXCEPT !.pc = pc] \in Thread
    BY <1>0 DEF Thread, Pcs
<1>3. thread'[t] = [thread[t] EXCEPT !.pc = pc]
    BY <1>0, <1>1
<1>4. thread[t] \in Thread
    BY <1>0
<1>5. \A u \in Threads \ {t} : thread'[u] = thread[u]
    BY <1>0, <1>1
<1>6. thread' \in [Threads -> Thread]
    BY <1>0, <1>1, <1>2, <1>3
<1> QED BY <1>3, <1>4, <1>5, <1>6 DEF Thread

LEMMA BeginEffect ==
    ASSUME TypeOK, NEW t \in Threads, NEW p \in Processes, NEW k \in Keys, Begin(t, p, k)
    PROVE  /\ thread[t].pc \in Ended
           /\ thread' \in [Threads -> Thread]
           /\ thread'[t].pc = IF Policy(k, clock) = None THEN "bypass" ELSE "l1"
           /\ thread'[t].proc = p /\ thread'[t].key = k
           /\ thread'[t].since = clock /\ thread'[t].now = clock
           /\ thread'[t].expires = Policy(k, clock) /\ thread'[t].version = 0
           /\ \A u \in Threads \ {t} : thread'[u] = thread[u]
           /\ UNCHANGED <<clock, l1, l2, lock>>
<1> DEFINE pc == IF Policy(k, clock) = None THEN "bypass" ELSE "l1"
           new == [NoThread EXCEPT !.pc = pc, !.proc = p, !.key = k, !.since = clock, !.now = clock,
                                   !.expires = Policy(k, clock)]
<1>0. thread \in [Threads -> Thread] /\ clock \in Nat
    BY Limits DEF TypeOK
<1>1. thread' = [thread EXCEPT ![t] = new]
    BY DEF Begin
<1>2. pc \in Pcs /\ Policy(k, clock) \in Nat \cup {None}
    BY <1>0, PolicyType DEF Pcs, Looking
<1> HIDE DEF pc
<1>3. new \in Thread
    <2>1. 0 \in 0..(MaxTime + 1)
        BY Limits
    <2>2. NoThread \in Thread
        BY NoThreadType
    <2> QED BY <1>0, <1>2, <2>1, <2>2 DEF Thread, Pcs
<1>4. /\ new.pc = pc /\ new.proc = p /\ new.key = k /\ new.since = clock /\ new.now = clock
      /\ new.expires = Policy(k, clock) /\ new.version = 0
    BY DEF NoThread
<1> HIDE DEF new
<1>5. thread'[t] = new /\ thread' \in [Threads -> Thread] /\ \A u \in Threads \ {t} : thread'[u] = thread[u]
    BY <1>0, <1>1, <1>3
<1> QED BY <1>4, <1>5 DEF Begin, pc

\* L2 answers: the record is kept for its promotion.
LEMMA FoundEffect ==
    ASSUME TypeOK, NEW t \in Threads, NEW r \in Record,
           thread' = [thread EXCEPT ![t].pc = "promote", ![t].record = r]
    PROVE  /\ thread' \in [Threads -> Thread]
           /\ thread'[t].pc = "promote" /\ thread'[t].proc = thread[t].proc /\ thread'[t].key = thread[t].key
           /\ thread'[t].since = thread[t].since /\ thread'[t].now = thread[t].now
           /\ thread'[t].expires = thread[t].expires /\ thread'[t].version = thread[t].version
           /\ thread'[t].record = r
           /\ \A u \in Threads \ {t} : thread'[u] = thread[u]
<1>0. thread \in [Threads -> Thread] /\ thread[t] \in Thread
    BY DEF TypeOK
<1> DEFINE new == [thread[t] EXCEPT !.pc = "promote", !.record = r]
<1>1. new \in Thread
    BY <1>0 DEF Thread, Looking
<1>2. /\ new.pc = "promote" /\ new.record = r
      /\ new.proc = thread[t].proc /\ new.key = thread[t].key /\ new.since = thread[t].since
      /\ new.now = thread[t].now /\ new.expires = thread[t].expires /\ new.version = thread[t].version
    BY <1>0 DEF Thread
<1>3. thread' = [thread EXCEPT ![t] = new]
    BY <1>0
<1> HIDE DEF new
<1>4. thread'[t] = new /\ thread' \in [Threads -> Thread] /\ \A u \in Threads \ {t} : thread'[u] = thread[u]
    BY <1>0, <1>1, <1>3
<1> QED BY <1>2, <1>4

LEMMA TakeLockEffect ==
    ASSUME TypeOK, NEW t \in Threads, TakeLock(t), thread[t].proc \in Processes, thread[t].key \in Keys
    PROVE  /\ thread[t].pc = "lock" /\ lock[thread[t].proc][StripeOf[thread[t].key]] = None
           /\ thread' \in [Threads -> Thread]
           /\ thread'[t].pc = "l1" /\ thread'[t].proc = thread[t].proc /\ thread'[t].key = thread[t].key
           /\ thread'[t].since = thread[t].since /\ thread'[t].now = clock
           /\ thread'[t].expires = thread[t].expires /\ thread'[t].version = thread[t].version
           /\ \A u \in Threads \ {t} : thread'[u] = thread[u]
           /\ lock' \in [Processes -> [Stripes -> Threads \cup {None}]]
           /\ \A p \in Processes, s \in Stripes :
                 lock'[p][s] = IF p = thread[t].proc /\ s = StripeOf[thread[t].key] THEN t ELSE lock[p][s]
           /\ UNCHANGED <<clock, l1, l2>>
<1>0. thread \in [Threads -> Thread] /\ thread[t] \in Thread /\ clock \in Nat
    BY Limits DEF TypeOK
<1> DEFINE new == [thread[t] EXCEPT !.pc = "l1", !.now = clock]
           p0 == thread[t].proc
           s0 == StripeOf[thread[t].key]
<1>1. new \in Thread
    BY <1>0 DEF Thread, Looking
<1>2. /\ new.pc = "l1" /\ new.now = clock /\ new.proc = thread[t].proc /\ new.key = thread[t].key
      /\ new.since = thread[t].since /\ new.expires = thread[t].expires /\ new.version = thread[t].version
    BY <1>0 DEF Thread
<1>3. thread' = [thread EXCEPT ![t] = new]
    BY <1>0 DEF TakeLock
<1> HIDE DEF new
<1>4. thread'[t] = new /\ thread' \in [Threads -> Thread] /\ \A u \in Threads \ {t} : thread'[u] = thread[u]
    BY <1>0, <1>1, <1>3
<1>5. lock \in [Processes -> [Stripes -> Threads \cup {None}]] /\ p0 \in Processes /\ s0 \in Stripes
    BY Requests DEF TypeOK
<1>6. lock' = [lock EXCEPT ![p0][s0] = t] /\ thread[t].pc = "lock" /\ lock[p0][s0] = None
      /\ UNCHANGED <<clock, l1, l2>>
    BY DEF TakeLock, At
<1> HIDE DEF p0, s0
<1>7. lock' \in [Processes -> [Stripes -> Threads \cup {None}]]
    BY <1>5, <1>6
<1>8. \A p \in Processes, s \in Stripes : lock'[p][s] = IF p = p0 /\ s = s0 THEN t ELSE lock[p][s]
    BY <1>5, <1>6
<1> QED BY <1>2, <1>4, <1>6, <1>7, <1>8 DEF p0, s0

\* The provider's answer, to be stored.
Answer(t) == [key |-> thread[t].key, version |-> Version(thread[t].key, clock), expires |-> thread[t].expires]

LEMMA AnswerType ==
    ASSUME TypeOK, NEW t \in Threads, thread[t].key \in Keys, thread[t].expires \in Nat
    PROVE  Answer(t) \in Record
<1>1. clock \in Nat /\ clock <= MaxTime /\ MaxTime \in Nat
    BY Limits DEF TypeOK
<1>2. Version(thread[t].key, clock) \in 0..(MaxTime + 1)
    BY <1>1, VersionType
<1> QED BY <1>2 DEF Answer, Record

LEMMA FetchedEffect ==
    ASSUME TypeOK, NEW t \in Threads, thread[t].key \in Keys, thread[t].expires \in Nat,
           thread' = [thread EXCEPT ![t].pc = "put2", ![t].record = Answer(t)]
    PROVE  /\ thread' \in [Threads -> Thread]
           /\ thread'[t].pc = "put2" /\ thread'[t].proc = thread[t].proc /\ thread'[t].key = thread[t].key
           /\ thread'[t].since = thread[t].since /\ thread'[t].now = thread[t].now
           /\ thread'[t].expires = thread[t].expires /\ thread'[t].version = thread[t].version
           /\ thread'[t].record = Answer(t)
           /\ \A u \in Threads \ {t} : thread'[u] = thread[u]
<1>0. thread \in [Threads -> Thread] /\ thread[t] \in Thread /\ Answer(t) \in Record
    BY AnswerType DEF TypeOK
<1> DEFINE r == Answer(t)
           new == [thread[t] EXCEPT !.pc = "put2", !.record = r]
<1> HIDE DEF r
<1>1. new \in Thread
    BY <1>0 DEF Thread, Filling, r
<1>2. /\ new.pc = "put2" /\ new.record = r
      /\ new.proc = thread[t].proc /\ new.key = thread[t].key /\ new.since = thread[t].since
      /\ new.now = thread[t].now /\ new.expires = thread[t].expires /\ new.version = thread[t].version
    BY <1>0 DEF Thread
<1>3. thread' = [thread EXCEPT ![t] = new]
    BY <1>0 DEF r
<1> HIDE DEF new
<1>4. thread'[t] = new /\ thread' \in [Threads -> Thread] /\ \A u \in Threads \ {t} : thread'[u] = thread[u]
    BY <1>0, <1>1, <1>3
<1> QED BY <1>2, <1>4 DEF r

LEMMA RestartEffect ==
    ASSUME TypeOK, NEW p \in Processes, Restart(p)
    PROVE  /\ thread' \in [Threads -> Thread]
           /\ \A t \in Threads : thread'[t] = IF thread[t].proc = p THEN NoThread ELSE thread[t]
           /\ lock' \in [Processes -> [Stripes -> Threads \cup {None}]]
           /\ \A q \in Processes, s \in Stripes : lock'[q][s] = IF q = p THEN None ELSE lock[q][s]
           /\ l1' \in [Processes -> Cache]
           /\ \A q \in Processes : l1'[q] = IF q = p THEN [entries |-> <<>>, bytes |-> 0] ELSE l1[q]
           /\ UNCHANGED <<clock, l2>>
<1>1. thread' = [t \in Threads |-> IF thread[t].proc = p THEN NoThread ELSE thread[t]]
      /\ lock' = [lock EXCEPT ![p] = [s \in Stripes |-> None]]
      /\ l1' = [l1 EXCEPT ![p] = [entries |-> <<>>, bytes |-> 0]]
      /\ UNCHANGED <<clock, l2>>
    BY DEF Restart
<1>2. [entries |-> <<>>, bytes |-> 0] \in Cache
    BY DEF Cache
<1>3. thread \in [Threads -> Thread]
    BY DEF TypeOK
<1>4. lock \in [Processes -> [Stripes -> Threads \cup {None}]]
    BY DEF TypeOK
<1>5. l1 \in [Processes -> Cache]
    BY DEF TypeOK
<1>6. thread' \in [Threads -> Thread] /\ \A t \in Threads : thread'[t] = IF thread[t].proc = p THEN NoThread ELSE thread[t]
    BY <1>1, <1>3, NoThreadType
<1>7. lock' \in [Processes -> [Stripes -> Threads \cup {None}]]
      /\ \A q \in Processes, s \in Stripes : lock'[q][s] = IF q = p THEN None ELSE lock[q][s]
    BY <1>1, <1>4
<1>8. l1' \in [Processes -> Cache]
      /\ \A q \in Processes : l1'[q] = IF q = p THEN [entries |-> <<>>, bytes |-> 0] ELSE l1[q]
    BY <1>1, <1>2, <1>5
<1> QED BY <1>1, <1>6, <1>7, <1>8

-----------------------------------------------------------------------------
(***************************************************************************)
(* The inductive invariant.                                                *)
(***************************************************************************)

AllFresh(c) == \A i \in 1..Len(c.entries) : Fresh(c.entries[i])

LEMMA InL1 ==
    ASSUME IInv, NEW p \in Processes
    PROVE  l1[p] \in Cache /\ Accounted(l1[p]) /\ AllFresh(l1[p])
BY AccountsOfAll DEF IInv, TypeOK, CachedFresh, AllFresh

LEMMA TouchedFresh ==
    ASSUME IInv, NEW p \in Processes, NEW k \in Keys
    PROVE  Touched(p, k) \in Cache /\ Accounted(Touched(p, k)) /\ AllFresh(Touched(p, k))
<1>0. l1[p] \in Cache /\ Accounted(l1[p]) /\ AllFresh(l1[p])
    BY InL1
<1>1. CASE Has(p, k)
    <2>1. Fresh(Entry(p, k))
        <3>1. Position(p, k) \in 1..Len(l1[p].entries)
            BY <1>0, <1>1, OthersOf
        <3> QED BY <1>0, <3>1 DEF AllFresh, Entry
    <2>2. Touched(p, k) \in Cache /\ Accounted(Touched(p, k))
          /\ ComesFrom(Touched(p, k), l1[p], Entry(p, k))
        BY <1>0, TouchedKeeps
    <2>3. AllFresh(Touched(p, k))
        BY <1>0, <2>1, <2>2 DEF AllFresh, ComesFrom
    <2> QED BY <2>2, <2>3
<1>2. CASE ~ Has(p, k)
    BY <1>0, <1>2 DEF Touched
<1> QED BY <1>1, <1>2

LEMMA StoredFresh ==
    ASSUME IInv, NEW p \in Processes, NEW r \in Record, Fresh(r)
    PROVE  Stored(p, r) \in Cache /\ Accounted(Stored(p, r)) /\ AllFresh(Stored(p, r))
<1>0. l1[p] \in Cache /\ Accounted(l1[p]) /\ AllFresh(l1[p])
    BY InL1
<1>1. Stored(p, r) \in Cache /\ Accounted(Stored(p, r)) /\ ComesFrom(Stored(p, r), l1[p], r)
    BY <1>0, StoredKeeps
<1>2. AllFresh(Stored(p, r))
    BY <1>0, <1>1 DEF AllFresh, ComesFrom
<1> QED BY <1>1, <1>2

\* One L1 is replaced by one that keeps its accounts and holds fresh responses.
LEMMA L1Replaced ==
    ASSUME IInv, UNCHANGED <<clock, l2>>, NEW p \in Processes, NEW c, c \in Cache, Accounted(c), AllFresh(c),
           l1' = [l1 EXCEPT ![p] = c]
    PROVE  l1' \in [Processes -> Cache] /\ L1Accounting' /\ CachedFresh'
<1>0. l1 \in [Processes -> Cache]
    BY DEF IInv, TypeOK
<1>1. l1' \in [Processes -> Cache] /\ \A q \in Processes : l1'[q] = IF q = p THEN c ELSE l1[q]
    BY <1>0
<1>2. \A q \in Processes : Accounted(l1'[q]) /\ AllFresh(l1'[q])
    <2> TAKE q \in Processes
    <2>1. CASE q = p
        BY <1>1, <2>1
    <2>2. CASE q # p
        BY <1>1, <2>2, InL1
    <2> QED BY <2>1, <2>2
<1>3. L1Accounting'
    BY <1>2 DEF L1Accounting, Accounted
<1>4. CachedFresh'
    <2>1. \A k \in Keys : l2[k] # None => Fresh(l2[k])
        BY DEF IInv, CachedFresh
    <2>2. \A q \in Processes : \A i \in 1..Len(l1'[q].entries) : Fresh(l1'[q].entries[i])
        BY <1>2 DEF AllFresh
    <2>3. \A q \in Processes : \A i \in 1..Len(l1'[q].entries) : Fresh(l1[q].entries[i])'
        BY <2>2 DEF Fresh
    <2>4. \A k \in Keys : l2'[k] # None => Fresh(l2[k])'
        BY <2>1 DEF Fresh
    <2> QED BY <2>3, <2>4 DEF CachedFresh
<1> QED BY <1>1, <1>3, <1>4

\* A step of the query t leaves the others as they are.
LEMMA OneQuery ==
    ASSUME Queries, clock' = clock, NEW t \in Threads, \A u \in Threads \ {t} : thread'[u] = thread[u],
           QueryOf(thread'[t])
    PROVE  Queries'
<1>1. ASSUME NEW u \in Threads
      PROVE  QueryOf(thread'[u])
    BY DEF Queries
<1>2. ASSUME NEW u \in Threads
      PROVE  QueryOf(thread[u])'
    <2>1. QueryOf(thread'[u])
        BY <1>1
    <2> QED BY <2>1 DEF QueryOf, Fresh, Valid
<1> QED BY <1>2 DEF Queries

LEMMA OverIsQuery ==
    ASSUME NEW pc \in Ended, NEW v \in Versions
    PROVE  QueryOf(Over(pc, v))
<1>1. pc \notin Looking \cup Filling \cup {"lock", "promote", "put2", "put1"}
    BY DEF Ended, Looking, Filling
<1> QED BY <1>1, OverType DEF QueryOf

\* The query t ends and lets go of its lock.
LEMMA EndKeeps ==
    ASSUME IInv, NEW t \in Threads, NEW pc \in Ended, NEW v \in Versions, End(t, pc, v), clock' = clock
    PROVE  /\ thread' \in [Threads -> Thread]
           /\ lock' \in [Processes -> [Stripes -> Threads \cup {None}]]
           /\ Queries' /\ Locking'
<1>0. TypeOK /\ Queries /\ Locking
    BY DEF IInv
<1>1. /\ thread' \in [Threads -> Thread] /\ thread'[t] = Over(pc, v)
      /\ \A u \in Threads \ {t} : thread'[u] = thread[u]
      /\ lock' \in [Processes -> [Stripes -> Threads \cup {None}]]
      /\ \A p \in Processes, s \in Stripes : lock'[p][s] = IF lock[p][s] = t THEN None ELSE lock[p][s]
    BY <1>0, EndEffect
<1>2. QueryOf(thread'[t])
    BY <1>1, OverIsQuery
<1>3. Queries'
    BY <1>0, <1>1, <1>2, OneQuery
<1>4. Locking'
    <2>1. ASSUME NEW p \in Processes, NEW s \in Stripes, NEW u \in Threads, lock'[p][s] = u
          PROVE  /\ thread'[u].proc = p /\ thread'[u].pc \in Looking \cup Filling
                 /\ StripeOf[thread'[u].key] = s
        <3>1. lock[p][s] = u /\ u # t
            BY <1>1, <2>1, NoneIsNew
        <3> QED BY <1>0, <1>1, <3>1 DEF Locking
    <2>2. ASSUME NEW u \in Threads, thread'[u].pc \in Filling
          PROVE  lock'[thread'[u].proc][StripeOf[thread'[u].key]] = u
        <3>1. u # t
            BY <1>1, <2>2, OverType DEF Ended, Filling
        <3>2. thread'[u] = thread[u]
            BY <1>1, <3>1
        <3>3. lock[thread[u].proc][StripeOf[thread[u].key]] = u
            BY <1>0, <2>2, <3>2 DEF Locking
        <3>4. thread[u].proc \in Processes /\ thread[u].key \in Keys
            BY <1>0, <2>2, <3>2 DEF Queries, QueryOf, Ended, Filling
        <3>5. StripeOf[thread[u].key] \in Stripes
            BY <3>4, Requests
        <3> QED BY <1>1, <3>1, <3>2, <3>3, <3>4, <3>5
    <2> QED BY <2>1, <2>2 DEF Locking
<1> QED BY <1>1, <1>3, <1>4

\* Steps that move the query t and no lock.
LEMMA MoveKeepsLocks ==
    ASSUME Locking, NEW t \in Threads, UNCHANGED lock, \A u \in Threads \ {t} : thread'[u] = thread[u],
           thread'[t].proc = thread[t].proc, thread'[t].key = thread[t].key,
           thread'[t].pc \in Looking \cup Filling \/ \A p \in Processes, s \in Stripes : lock[p][s] # t,
           thread'[t].pc \in Filling => lock[thread[t].proc][StripeOf[thread[t].key]] = t
    PROVE  Locking'
<1>1. ASSUME NEW p \in Processes, NEW s \in Stripes, NEW u \in Threads, lock'[p][s] = u
      PROVE  /\ thread'[u].proc = p /\ thread'[u].pc \in Looking \cup Filling
             /\ StripeOf[thread'[u].key] = s
    <2>1. /\ thread[u].proc = p /\ thread[u].pc \in Looking \cup Filling
          /\ StripeOf[thread[u].key] = s
        BY <1>1 DEF Locking
    <2>2. CASE u = t
        BY <1>1, <2>1, <2>2
    <2>3. CASE u # t
        BY <2>1, <2>3
    <2> QED BY <2>2, <2>3
<1>2. ASSUME NEW u \in Threads, thread'[u].pc \in Filling
      PROVE  lock'[thread'[u].proc][StripeOf[thread'[u].key]] = u
    <2>2. CASE u = t
        BY <1>2, <2>2
    <2>3. CASE u # t
        BY <1>2, <2>3 DEF Locking
    <2> QED BY <2>2, <2>3
<1> QED BY <1>1, <1>2 DEF Locking

\* The type invariant, from its parts and what the queries know.
LEMMA TypeParts ==
    ASSUME clock' \in 0..MaxTime, l1' \in [Processes -> Cache], l2' \in [Keys -> Record \cup {None}],
           lock' \in [Processes -> [Stripes -> Threads \cup {None}]], thread' \in [Threads -> Thread],
           \A k \in Keys : l2'[k] # None => l2'[k].key = k, Queries'
    PROVE  TypeOK'
<1>1. \A t \in Threads : thread'[t].pc \in {"put2", "put1"} => thread'[t].record.expires > thread'[t].now
    BY DEF Queries, QueryOf, Valid
<1> QED BY <1>1 DEF TypeOK

LEMMA L2Parts ==
    ASSUME TypeOK, UNCHANGED l2
    PROVE  l2' \in [Keys -> Record \cup {None}] /\ \A k \in Keys : l2'[k] # None => l2'[k].key = k
BY DEF TypeOK

LEMMA CachesStay ==
    ASSUME IInv, UNCHANGED <<clock, l1, l2>>
    PROVE  /\ clock' \in 0..MaxTime /\ l1' \in [Processes -> Cache]
           /\ l2' \in [Keys -> Record \cup {None}] /\ \A k \in Keys : l2'[k] # None => l2'[k].key = k
           /\ L1Accounting' /\ CachedFresh'
<1>1. clock' \in 0..MaxTime /\ l1' \in [Processes -> Cache]
    BY DEF IInv, TypeOK
<1>2. L1Accounting'
    BY DEF IInv, L1Accounting
<1>3. CachedFresh'
    BY DEF IInv, CachedFresh, Fresh
<1> QED BY <1>1, <1>2, <1>3, L2Parts DEF IInv

LEMMA BeginKeeps ==
    ASSUME IInv, NEW t \in Threads, NEW p \in Processes, NEW k \in Keys, Begin(t, p, k)
    PROVE  IInv'
<1>0. TypeOK /\ Queries /\ Locking /\ clock \in Nat
    BY Limits DEF IInv, TypeOK
<1>1. /\ thread[t].pc \in Ended
      /\ thread' \in [Threads -> Thread]
      /\ thread'[t].pc = IF Policy(k, clock) = None THEN "bypass" ELSE "l1"
      /\ thread'[t].proc = p /\ thread'[t].key = k
      /\ thread'[t].since = clock /\ thread'[t].now = clock
      /\ thread'[t].expires = Policy(k, clock)
      /\ \A u \in Threads \ {t} : thread'[u] = thread[u]
      /\ UNCHANGED <<clock, l1, l2, lock>>
    BY <1>0, BeginEffect
<1>2. QueryOf(thread'[t])
    <2>1. thread'[t].pc \in {"bypass", "l1"} /\ (thread'[t].pc = "l1" => thread'[t].expires # None)
        BY <1>1
    <2>2. clock <= clock
        BY <1>0
    <2> QED BY <1>1, <2>1, <2>2 DEF QueryOf, Ended, Looking, Filling
<1>3. Queries'
    BY <1>0, <1>1, <1>2, OneQuery
<1>4. \A q \in Processes, s \in Stripes : lock[q][s] # t
    BY <1>0, <1>1 DEF Locking, Ended, Looking, Filling
<1>5. Locking'
    <2>1. thread'[t].pc \notin Filling
        BY <1>1 DEF Filling
    <2>2. ASSUME NEW q \in Processes, NEW s \in Stripes, NEW u \in Threads, lock'[q][s] = u
          PROVE  /\ thread'[u].proc = q /\ thread'[u].pc \in Looking \cup Filling
                 /\ StripeOf[thread'[u].key] = s
        BY <1>0, <1>1, <1>4, <2>2 DEF Locking
    <2>3. ASSUME NEW u \in Threads, thread'[u].pc \in Filling
          PROVE  lock'[thread'[u].proc][StripeOf[thread'[u].key]] = u
        BY <1>0, <1>1, <2>1, <2>3 DEF Locking
    <2> QED BY <2>2, <2>3 DEF Locking
<1>6. lock' \in [Processes -> [Stripes -> Threads \cup {None}]]
    BY <1>0, <1>1 DEF TypeOK
<1>7. TypeOK' /\ L1Accounting' /\ CachedFresh'
    BY <1>1, <1>3, <1>6, CachesStay, TypeParts
<1> QED BY <1>3, <1>5, <1>7 DEF IInv

\* A query ends, and the caches stay as they are.
LEMMA FailKeeps ==
    ASSUME IInv, NEW t \in Threads, NEW pc \in Ended, NEW v \in Versions, End(t, pc, v),
           UNCHANGED <<clock, l1, l2>>
    PROVE  IInv'
<1>1. /\ thread' \in [Threads -> Thread]
      /\ lock' \in [Processes -> [Stripes -> Threads \cup {None}]]
      /\ Queries' /\ Locking'
    BY EndKeeps
<1>2. TypeOK' /\ L1Accounting' /\ CachedFresh'
    BY <1>1, CachesStay, TypeParts
<1> QED BY <1>1, <1>2 DEF IInv

LEMMA ProviderVersion ==
    ASSUME TypeOK, NEW k \in Keys
    PROVE  Version(k, clock) \in Versions
<1>1. clock \in Nat /\ clock <= MaxTime /\ MaxTime \in Nat
    BY Limits DEF TypeOK
<1> QED BY <1>1, VersionType DEF Versions

LEMMA BypassKeeps ==
    ASSUME IInv, NEW t \in Threads, Bypass(t)
    PROVE  IInv'
<1>1. thread[t].pc = "bypass" /\ UNCHANGED <<clock, l1, l2>>
      /\ (End(t, "idle", 0) \/ End(t, "answered", Version(thread[t].key, clock)))
    BY DEF Bypass, At
<1>2. thread[t].key \in Keys
    BY <1>1 DEF IInv, Queries, QueryOf, Ended
<1>3. 0 \in Versions /\ Version(thread[t].key, clock) \in Versions /\ "idle" \in Ended /\ "answered" \in Ended
    BY <1>2, ProviderVersion, Limits DEF IInv, Versions, Ended
<1> QED BY <1>1, <1>3, FailKeeps

\* What a query that has not ended knows.
LEMMA Asking ==
    ASSUME IInv, NEW t \in Threads, thread[t].pc \notin Ended
    PROVE  /\ thread[t].proc \in Processes /\ thread[t].key \in Keys
           /\ thread[t].since \in Nat /\ thread[t].now \in Nat
           /\ thread[t].since <= thread[t].now /\ thread[t].now <= clock
           /\ thread[t].expires = Policy(thread[t].key, thread[t].since)
           /\ thread[t].pc # "bypass" => thread[t].expires \in Nat
           /\ StripeOf[thread[t].key] \in Stripes
<1>1. TypeOK /\ QueryOf(thread[t])
    BY DEF IInv, Queries
<1>2. thread[t].proc \in Processes /\ thread[t].key \in Keys
      /\ thread[t].since <= thread[t].now /\ thread[t].now <= clock
      /\ thread[t].expires = Policy(thread[t].key, thread[t].since)
      /\ (thread[t].pc \in Looking \cup Filling \cup {"lock"} => thread[t].expires # None)
    BY <1>1 DEF QueryOf
<1>3. /\ thread[t].since \in Nat /\ thread[t].now \in Nat /\ thread[t].expires \in Nat \cup {None}
      /\ thread[t].pc \in Pcs
    BY <1>1, ThreadFields
<1>4. thread[t].pc # "bypass" => thread[t].expires \in Nat
    BY <1>2, <1>3 DEF Pcs
<1> QED BY <1>2, <1>3, <1>4, Requests

LEMMA Keeping ==
    ASSUME IInv, NEW t \in Threads, thread[t].pc \in {"promote", "put2", "put1"}
    PROVE  /\ thread[t].record \in Record /\ thread[t].record.key = thread[t].key
           /\ Valid(thread[t].record, thread[t].now) /\ Fresh(thread[t].record)
           /\ thread[t].record.version \in Versions
<1>1. QueryOf(thread[t])
    BY DEF IInv, Queries
<1>2. thread[t].record \in Record /\ thread[t].record.key = thread[t].key
      /\ Valid(thread[t].record, thread[t].now) /\ Fresh(thread[t].record)
    BY <1>1 DEF QueryOf
<1>3. thread[t].record.version \in Versions
    BY <1>2 DEF Record, Versions
<1> QED BY <1>2, <1>3

LEMMA LookL1Keeps ==
    ASSUME IInv, NEW t \in Threads, LookL1(t)
    PROVE  IInv'
<1> DEFINE p == thread[t].proc
           k == thread[t].key
<1>0. TypeOK /\ Queries /\ Locking
    BY DEF IInv
<1>1. /\ thread[t].pc = "l1" /\ UNCHANGED <<clock, l2>>
      /\ l1' = [l1 EXCEPT ![p] = Touched(p, k)]
      /\ \/ Has(p, k) /\ End(t, "answered", Entry(p, k).version)
         \/ Goto(t, "l2") /\ UNCHANGED lock
    BY DEF LookL1, At
<1>2. p \in Processes /\ k \in Keys
    BY <1>1, Asking DEF Ended
<1> HIDE DEF p, k
<1>3. Touched(p, k) \in Cache /\ Accounted(Touched(p, k)) /\ AllFresh(Touched(p, k))
    BY <1>2, TouchedFresh
<1>4. l1' \in [Processes -> Cache] /\ L1Accounting' /\ CachedFresh'
    BY <1>1, <1>2, <1>3, L1Replaced
<1>5. CASE Has(p, k) /\ End(t, "answered", Entry(p, k).version)
    <2>1. Entry(p, k).version \in Versions /\ "answered" \in Ended
        BY <1>2, <1>5, InL1, OthersOf DEF Record, Versions, Ended
    <2>2. /\ thread' \in [Threads -> Thread]
          /\ lock' \in [Processes -> [Stripes -> Threads \cup {None}]]
          /\ Queries' /\ Locking'
        BY <1>1, <1>5, <2>1, EndKeeps
    <2>3. TypeOK'
        BY <1>0, <1>1, <1>4, <2>2, L2Parts, TypeParts DEF TypeOK
    <2> QED BY <1>4, <2>2, <2>3 DEF IInv
<1>6. CASE Goto(t, "l2") /\ UNCHANGED lock
    <2>1. /\ thread' \in [Threads -> Thread]
          /\ thread'[t].pc = "l2" /\ thread'[t].proc = thread[t].proc /\ thread'[t].key = thread[t].key
          /\ thread'[t].since = thread[t].since /\ thread'[t].now = thread[t].now
          /\ thread'[t].expires = thread[t].expires
          /\ \A u \in Threads \ {t} : thread'[u] = thread[u]
        BY <1>0, <1>6, GotoEffect DEF Pcs, Looking
    <2>2. QueryOf(thread[t])
        BY <1>0 DEF Queries
    <2>3. QueryOf(thread'[t])
        BY <1>1, <2>1, <2>2 DEF QueryOf, Ended, Looking, Filling
    <2>4. Queries'
        BY <1>0, <1>1, <2>1, <2>3, OneQuery
    <2>5. Locking'
        BY <1>0, <1>6, <2>1, MoveKeepsLocks DEF Looking, Filling
    <2>6. lock' \in [Processes -> [Stripes -> Threads \cup {None}]]
        BY <1>0, <1>6 DEF TypeOK
    <2>7. TypeOK'
        BY <1>0, <1>1, <1>4, <2>1, <2>4, <2>6, L2Parts, TypeParts DEF TypeOK
    <2> QED BY <1>4, <2>4, <2>5, <2>7 DEF IInv
<1> QED BY <1>1, <1>5, <1>6

LEMMA LookL2Keeps ==
    ASSUME IInv, NEW t \in Threads, LookL2(t)
    PROVE  IInv'
<1> DEFINE k == thread[t].key
           found == l2[k]
<1>0. TypeOK /\ Queries /\ Locking /\ QueryOf(thread[t])
    BY DEF IInv, Queries
<1>1. /\ thread[t].pc = "l2" /\ UNCHANGED <<clock, l1, l2>>
      /\ \/ End(t, "idle", 0)
         \/ /\ found # None /\ Valid(found, thread[t].now) /\ UNCHANGED lock
            /\ thread' = [thread EXCEPT ![t].pc = "promote", ![t].record = found]
         \/ HasLock(t) /\ Goto(t, "fetch") /\ UNCHANGED lock
         \/ ~ HasLock(t) /\ Goto(t, "lock") /\ UNCHANGED lock
    BY DEF LookL2, At
<1>2. thread[t].proc \in Processes /\ k \in Keys
    BY <1>1, Asking DEF Ended
<1>3. CASE End(t, "idle", 0)
    <2>1. 0 \in Versions /\ "idle" \in Ended
        BY Limits DEF Versions, Ended
    <2> QED BY <1>1, <1>3, <2>1, FailKeeps
<1>4. ASSUME UNCHANGED lock, thread' \in [Threads -> Thread], Queries', Locking'
      PROVE  IInv'
    <2>1. lock' \in [Processes -> [Stripes -> Threads \cup {None}]]
        BY <1>0, <1>4 DEF TypeOK
    <2>2. TypeOK' /\ L1Accounting' /\ CachedFresh'
        BY <1>1, <1>4, <2>1, CachesStay, TypeParts
    <2> QED BY <1>4, <2>2 DEF IInv
<1>5. CASE /\ found # None /\ Valid(found, thread[t].now) /\ UNCHANGED lock
           /\ thread' = [thread EXCEPT ![t].pc = "promote", ![t].record = found]
    <2>1. found \in Record /\ found.key = k /\ Fresh(found)
        BY <1>2, <1>5 DEF IInv, TypeOK, CachedFresh
    <2> HIDE DEF found
    <2>2. /\ thread' \in [Threads -> Thread]
          /\ thread'[t].pc = "promote" /\ thread'[t].proc = thread[t].proc /\ thread'[t].key = thread[t].key
          /\ thread'[t].since = thread[t].since /\ thread'[t].now = thread[t].now
          /\ thread'[t].expires = thread[t].expires /\ thread'[t].record = found
          /\ \A u \in Threads \ {t} : thread'[u] = thread[u]
        BY <1>0, <1>5, <2>1, FoundEffect
    <2>3. QueryOf(thread'[t])
        BY <1>0, <1>1, <1>5, <2>1, <2>2 DEF QueryOf, Ended, Looking, Filling
    <2>4. Queries'
        BY <1>0, <1>1, <2>2, <2>3, OneQuery
    <2>5. Locking'
        BY <1>0, <1>5, <2>2, MoveKeepsLocks DEF Looking, Filling
    <2> QED BY <1>4, <1>5, <2>2, <2>4, <2>5
<1>6. CASE HasLock(t) /\ Goto(t, "fetch") /\ UNCHANGED lock
    <2>1. /\ thread' \in [Threads -> Thread]
          /\ thread'[t].pc = "fetch" /\ thread'[t].proc = thread[t].proc /\ thread'[t].key = thread[t].key
          /\ thread'[t].since = thread[t].since /\ thread'[t].now = thread[t].now
          /\ thread'[t].expires = thread[t].expires
          /\ \A u \in Threads \ {t} : thread'[u] = thread[u]
        BY <1>0, <1>6, GotoEffect DEF Pcs, Filling
    <2>2. QueryOf(thread'[t])
        BY <1>0, <1>1, <2>1 DEF QueryOf, Ended, Looking, Filling
    <2>3. Queries'
        BY <1>0, <1>1, <2>1, <2>2, OneQuery
    <2>4. lock[thread[t].proc][StripeOf[thread[t].key]] = t
        BY <1>0, <1>6 DEF HasLock, Locking
    <2>5. Locking'
        BY <1>0, <1>6, <2>1, <2>4, MoveKeepsLocks DEF Looking, Filling
    <2> QED BY <1>4, <1>6, <2>1, <2>3, <2>5
<1>7. CASE ~ HasLock(t) /\ Goto(t, "lock") /\ UNCHANGED lock
    <2>1. /\ thread' \in [Threads -> Thread]
          /\ thread'[t].pc = "lock" /\ thread'[t].proc = thread[t].proc /\ thread'[t].key = thread[t].key
          /\ thread'[t].since = thread[t].since /\ thread'[t].now = thread[t].now
          /\ thread'[t].expires = thread[t].expires
          /\ \A u \in Threads \ {t} : thread'[u] = thread[u]
        BY <1>0, <1>7, GotoEffect DEF Pcs
    <2>2. QueryOf(thread'[t])
        BY <1>0, <1>1, <2>1 DEF QueryOf, Ended, Looking, Filling
    <2>3. Queries'
        BY <1>0, <1>1, <2>1, <2>2, OneQuery
    <2>4. \A p \in Processes, s \in Stripes : lock[p][s] # t
        BY <1>7 DEF HasLock
    <2>5. Locking'
        BY <1>0, <1>7, <2>1, <2>4, MoveKeepsLocks DEF Filling
    <2> QED BY <1>4, <1>7, <2>1, <2>3, <2>5
<1> QED BY <1>1, <1>3, <1>5, <1>6, <1>7

\* Promote and PutL1: the record is stored in L1 and the query ends.
LEMMA StoreKeeps ==
    ASSUME IInv, NEW t \in Threads, thread[t].pc \in {"promote", "put1"},
           l1' = [l1 EXCEPT ![thread[t].proc] = Stored(thread[t].proc, thread[t].record)],
           End(t, "answered", thread[t].record.version), UNCHANGED <<clock, l2>>
    PROVE  IInv'
<1> DEFINE p == thread[t].proc
           r == thread[t].record
<1>1. p \in Processes
    BY Asking DEF Ended
<1>2. r \in Record /\ Fresh(r) /\ r.version \in Versions /\ "answered" \in Ended
    BY Keeping DEF Ended
<1>3. /\ thread' \in [Threads -> Thread]
      /\ lock' \in [Processes -> [Stripes -> Threads \cup {None}]]
      /\ Queries' /\ Locking'
    BY <1>2, EndKeeps
<1>4. l1' = [l1 EXCEPT ![p] = Stored(p, r)]
    OBVIOUS
<1> HIDE DEF p, r
<1>5. Stored(p, r) \in Cache /\ Accounted(Stored(p, r)) /\ AllFresh(Stored(p, r))
    BY <1>1, <1>2, StoredFresh
<1>6. l1' \in [Processes -> Cache] /\ L1Accounting' /\ CachedFresh'
    BY <1>1, <1>4, <1>5, L1Replaced
<1>7. TypeOK /\ clock' \in 0..MaxTime
    BY DEF IInv, TypeOK
<1>8. TypeOK'
    BY <1>3, <1>6, <1>7, L2Parts, TypeParts
<1> QED BY <1>3, <1>6, <1>8 DEF IInv

LEMMA TakeLockKeeps ==
    ASSUME IInv, NEW t \in Threads, TakeLock(t)
    PROVE  IInv'
<1>0. TypeOK /\ Queries /\ Locking /\ QueryOf(thread[t])
    BY DEF IInv, Queries
<1>1. thread[t].pc = "lock"
    BY DEF TakeLock, At
<1>2. /\ thread[t].proc \in Processes /\ thread[t].key \in Keys /\ StripeOf[thread[t].key] \in Stripes
      /\ thread[t].since \in Nat /\ thread[t].now \in Nat
      /\ thread[t].since <= thread[t].now /\ thread[t].now <= clock
    BY <1>1, Asking DEF Ended
<1>3. /\ lock[thread[t].proc][StripeOf[thread[t].key]] = None
      /\ thread' \in [Threads -> Thread]
      /\ thread'[t].pc = "l1" /\ thread'[t].proc = thread[t].proc /\ thread'[t].key = thread[t].key
      /\ thread'[t].since = thread[t].since /\ thread'[t].now = clock
      /\ thread'[t].expires = thread[t].expires
      /\ \A u \in Threads \ {t} : thread'[u] = thread[u]
      /\ lock' \in [Processes -> [Stripes -> Threads \cup {None}]]
      /\ \A p \in Processes, s \in Stripes :
            lock'[p][s] = IF p = thread[t].proc /\ s = StripeOf[thread[t].key] THEN t ELSE lock[p][s]
      /\ UNCHANGED <<clock, l1, l2>>
    BY <1>0, <1>2, TakeLockEffect
<1>4. QueryOf(thread'[t])
    <2>1. clock \in Nat
        BY <1>0, Limits DEF TypeOK
    <2>2. thread[t].since <= clock /\ clock <= clock
        BY <1>2, <2>1
    <2> QED BY <1>0, <1>1, <1>3, <2>2 DEF QueryOf, Ended, Looking, Filling
<1>5. Queries'
    BY <1>0, <1>3, <1>4, OneQuery
<1>6. Locking'
    <2>0. \A p \in Processes, s \in Stripes : lock[p][s] # t
        BY <1>0, <1>1 DEF Locking, Looking, Filling
    <2>1. ASSUME NEW p \in Processes, NEW s \in Stripes, NEW u \in Threads, lock'[p][s] = u
          PROVE  /\ thread'[u].proc = p /\ thread'[u].pc \in Looking \cup Filling
                 /\ StripeOf[thread'[u].key] = s
        <3>1. CASE p = thread[t].proc /\ s = StripeOf[thread[t].key]
            <4>1. u = t
                BY <1>3, <2>1, <3>1
            <4> QED BY <1>3, <3>1, <4>1 DEF Looking
        <3>2. CASE ~(p = thread[t].proc /\ s = StripeOf[thread[t].key])
            <4>1. lock[p][s] = u
                BY <1>3, <2>1, <3>2
            <4>2. u # t
                BY <2>0, <4>1
            <4> QED BY <1>0, <1>3, <4>1, <4>2 DEF Locking
        <3> QED BY <3>1, <3>2
    <2>2. ASSUME NEW u \in Threads, thread'[u].pc \in Filling
          PROVE  lock'[thread'[u].proc][StripeOf[thread'[u].key]] = u
        <3>1. u # t
            BY <1>3, <2>2 DEF Filling
        <3>2. thread'[u] = thread[u] /\ thread[u].pc \in Filling
            BY <1>3, <2>2, <3>1
        <3>3. lock[thread[u].proc][StripeOf[thread[u].key]] = u
            BY <1>0, <3>2 DEF Locking
        <3>4. thread[u].proc \in Processes /\ StripeOf[thread[u].key] \in Stripes
            BY <3>2, Asking DEF Ended, Filling
        <3>5. ~(thread[u].proc = thread[t].proc /\ StripeOf[thread[u].key] = StripeOf[thread[t].key])
            BY <1>3, <3>3, NoneIsNew
        <3> QED BY <1>3, <3>2, <3>3, <3>4, <3>5
    <2> QED BY <2>1, <2>2 DEF Locking
<1>7. TypeOK' /\ L1Accounting' /\ CachedFresh'
    BY <1>3, <1>5, CachesStay, TypeParts
<1> QED BY <1>5, <1>6, <1>7 DEF IInv

LEMMA FetchKeeps ==
    ASSUME IInv, NEW t \in Threads, Fetch(t)
    PROVE  IInv'
<1>0. TypeOK /\ Queries /\ Locking /\ QueryOf(thread[t])
    BY DEF IInv, Queries
<1>1. /\ thread[t].pc = "fetch" /\ UNCHANGED <<clock, l1, l2>>
      /\ \/ End(t, "idle", 0) \/ End(t, "rejected", 0)
         \/ /\ thread[t].expires > thread[t].now /\ UNCHANGED lock
            /\ thread' = [thread EXCEPT ![t].pc = "put2", ![t].record = Answer(t)]
    BY DEF Fetch, At, Answer
<1>2. CASE End(t, "idle", 0) \/ End(t, "rejected", 0)
    <2>1. 0 \in Versions /\ "idle" \in Ended /\ "rejected" \in Ended
        BY Limits DEF Versions, Ended
    <2> QED BY <1>1, <1>2, <2>1, FailKeeps
<1>3. CASE /\ thread[t].expires > thread[t].now /\ UNCHANGED lock
           /\ thread' = [thread EXCEPT ![t].pc = "put2", ![t].record = Answer(t)]
    <2>1. /\ thread[t].key \in Keys /\ thread[t].expires \in Nat
          /\ thread[t].since \in Nat /\ thread[t].now \in Nat
          /\ thread[t].since <= thread[t].now /\ thread[t].now <= clock
          /\ thread[t].expires = Policy(thread[t].key, thread[t].since)
        BY <1>1, Asking DEF Ended
    <2>2. /\ thread' \in [Threads -> Thread]
          /\ thread'[t].pc = "put2" /\ thread'[t].proc = thread[t].proc /\ thread'[t].key = thread[t].key
          /\ thread'[t].since = thread[t].since /\ thread'[t].now = thread[t].now
          /\ thread'[t].expires = thread[t].expires /\ thread'[t].record = Answer(t)
          /\ \A u \in Threads \ {t} : thread'[u] = thread[u]
        BY <1>0, <1>3, <2>1, FetchedEffect
    <2>3. /\ Answer(t) \in Record /\ Answer(t).key = thread[t].key /\ Answer(t).expires = thread[t].expires
          /\ Answer(t).version = Version(thread[t].key, clock)
        BY <1>0, <2>1, AnswerType DEF Answer
    <2>4. Fresh(Answer(t))
        <3>1. clock \in 0..MaxTime /\ clock \in Nat
            BY <1>0, Limits DEF TypeOK
        <3>2. thread[t].since <= clock
            BY <2>1, <3>1
        <3>3. Policy(thread[t].key, thread[t].since) # None
            BY <1>0, <1>1, <2>1 DEF QueryOf, Filling
        <3> QED BY <2>1, <2>3, <3>1, <3>2, <3>3, FetchedFresh
    <2>5. QueryOf(thread'[t])
        BY <1>0, <1>1, <1>3, <2>2, <2>3, <2>4 DEF QueryOf, Ended, Looking, Filling, Valid
    <2>6. Queries'
        BY <1>0, <1>1, <2>2, <2>5, OneQuery
    <2>7. lock[thread[t].proc][StripeOf[thread[t].key]] = t
        BY <1>0, <1>1 DEF Locking, Filling
    <2>8. Locking'
        BY <1>0, <1>3, <2>2, <2>7, MoveKeepsLocks DEF Looking, Filling
    <2>9. lock' \in [Processes -> [Stripes -> Threads \cup {None}]]
        BY <1>0, <1>3 DEF TypeOK
    <2>10. TypeOK' /\ L1Accounting' /\ CachedFresh'
        BY <1>1, <2>2, <2>6, <2>9, CachesStay, TypeParts
    <2> QED BY <2>6, <2>8, <2>10 DEF IInv
<1> QED BY <1>1, <1>2, <1>3

\* The object in the bucket is replaced by the fetched response, or is not.
LEMMA PutL2Keeps ==
    ASSUME IInv, NEW t \in Threads, PutL2(t)
    PROVE  IInv'
<1> DEFINE k == thread[t].key
           r == thread[t].record
           written == [l2 EXCEPT ![k] = r]
<1>0. TypeOK /\ Queries /\ Locking /\ QueryOf(thread[t])
    BY DEF IInv, Queries
<1>1. /\ thread[t].pc = "put2" /\ UNCHANGED <<clock, l1>>
      /\ \/ l2' = written /\ Goto(t, "put1") /\ UNCHANGED lock
         \/ l2' \in {l2, written} /\ End(t, "idle", 0)
    BY DEF PutL2, At
<1>2. k \in Keys /\ r \in Record /\ r.key = k /\ Fresh(r)
    BY <1>1, Asking, Keeping DEF Ended
<1> HIDE DEF k, r
<1>3. l2 \in [Keys -> Record \cup {None}]
    BY <1>0 DEF TypeOK
<1>4. /\ l2' \in [Keys -> Record \cup {None}]
      /\ \A key \in Keys : l2'[key] = l2[key] \/ (key = k /\ l2'[key] = r)
    <2>1. CASE l2' = written
        BY <1>2, <1>3, <2>1
    <2>2. CASE l2' = l2
        BY <1>3, <2>2
    <2> QED BY <1>1, <2>1, <2>2
<1>5. \A key \in Keys : l2'[key] # None => l2'[key].key = key
    BY <1>0, <1>2, <1>4 DEF TypeOK
<1>6. CachedFresh'
    <2>1. \A p \in Processes : \A i \in 1..Len(l1[p].entries) : Fresh(l1[p].entries[i])
        BY DEF IInv, CachedFresh
    <2>2. \A key \in Keys : l2[key] # None => Fresh(l2[key])
        BY DEF IInv, CachedFresh
    <2>3. \A key \in Keys : l2'[key] # None => Fresh(l2'[key])
        BY <1>2, <1>4, <2>2
    <2>4. \A p \in Processes : \A i \in 1..Len(l1'[p].entries) : Fresh(l1[p].entries[i])'
        BY <1>1, <2>1 DEF Fresh
    <2>5. \A key \in Keys : l2'[key] # None => Fresh(l2[key])'
        BY <1>1, <2>3 DEF Fresh
    <2> QED BY <2>4, <2>5 DEF CachedFresh
<1>7. clock' \in 0..MaxTime /\ l1' \in [Processes -> Cache] /\ L1Accounting'
    BY <1>1 DEF IInv, TypeOK, L1Accounting
<1>8. CASE Goto(t, "put1") /\ UNCHANGED lock
    <2>1. /\ thread' \in [Threads -> Thread]
          /\ thread'[t].pc = "put1" /\ thread'[t].proc = thread[t].proc /\ thread'[t].key = thread[t].key
          /\ thread'[t].since = thread[t].since /\ thread'[t].now = thread[t].now
          /\ thread'[t].expires = thread[t].expires /\ thread'[t].record = thread[t].record
          /\ \A u \in Threads \ {t} : thread'[u] = thread[u]
        BY <1>0, <1>8, GotoEffect DEF Pcs, Filling
    <2>2. QueryOf(thread'[t])
        BY <1>0, <1>1, <2>1 DEF QueryOf, Ended, Looking, Filling
    <2>3. Queries'
        BY <1>0, <1>1, <2>1, <2>2, OneQuery
    <2>4. lock[thread[t].proc][StripeOf[thread[t].key]] = t
        BY <1>0, <1>1 DEF Locking, Filling
    <2>5. Locking'
        BY <1>0, <1>8, <2>1, <2>4, MoveKeepsLocks DEF Looking, Filling
    <2>6. lock' \in [Processes -> [Stripes -> Threads \cup {None}]]
        BY <1>0, <1>8 DEF TypeOK
    <2>7. TypeOK'
        BY <1>4, <1>5, <1>7, <2>1, <2>3, <2>6, TypeParts
    <2> QED BY <1>6, <1>7, <2>3, <2>5, <2>7 DEF IInv
<1>9. CASE End(t, "idle", 0)
    <2>1. 0 \in Versions /\ "idle" \in Ended
        BY Limits DEF Versions, Ended
    <2>2. /\ thread' \in [Threads -> Thread]
          /\ lock' \in [Processes -> [Stripes -> Threads \cup {None}]]
          /\ Queries' /\ Locking'
        BY <1>1, <1>9, <2>1, EndKeeps
    <2>3. TypeOK'
        BY <1>4, <1>5, <1>7, <2>2, TypeParts
    <2> QED BY <1>6, <1>7, <2>2, <2>3 DEF IInv
<1> QED BY <1>1, <1>8, <1>9

LEMMA PromoteKeeps ==
    ASSUME IInv, NEW t \in Threads, Promote(t)
    PROVE  IInv'
<1>1. /\ thread[t].pc = "promote"
      /\ l1' = [l1 EXCEPT ![thread[t].proc] = Stored(thread[t].proc, thread[t].record)]
      /\ End(t, "answered", thread[t].record.version) /\ UNCHANGED <<clock, l2>>
    BY DEF Promote, At
<1> QED BY <1>1, StoreKeeps

LEMMA PutL1Keeps ==
    ASSUME IInv, NEW t \in Threads, PutL1(t)
    PROVE  IInv'
<1>1. /\ thread[t].pc = "put1"
      /\ l1' = [l1 EXCEPT ![thread[t].proc] = Stored(thread[t].proc, thread[t].record)]
      /\ End(t, "answered", thread[t].record.version) /\ UNCHANGED <<clock, l2>>
    BY DEF PutL1, At
<1> QED BY <1>1, StoreKeeps

LEMMA TickKeeps ==
    ASSUME IInv, Tick
    PROVE  IInv'
<1>0. TypeOK /\ L1Accounting /\ CachedFresh /\ Queries /\ Locking
    BY DEF IInv
<1>1. clock < MaxTime /\ clock' = clock + 1 /\ UNCHANGED <<l1, l2, lock, thread>>
    BY DEF Tick
<1>2. clock \in 0..MaxTime /\ clock' \in 0..MaxTime /\ clock <= clock' /\ clock \in Nat /\ clock' \in Nat
    BY <1>0, <1>1, Limits DEF TypeOK
<1>3. CachedFresh'
    <2>1. ASSUME NEW p \in Processes, NEW i \in 1..Len(l1[p].entries)
          PROVE  Fresh(l1[p].entries[i])'
        <3> DEFINE r == l1[p].entries[i]
        <3>1. r \in Record /\ Fresh(r)
            BY <1>0, CacheType DEF TypeOK, CachedFresh
        <3>2. r' = r
            BY <1>1
        <3> HIDE DEF r
        <3>3. Fresh(r)'
            BY <1>2, <3>1, <3>2, FreshStays DEF Fresh
        <3> QED BY <3>3 DEF r
    <2>2. ASSUME NEW k \in Keys, l2[k] # None
          PROVE  Fresh(l2[k])'
        <3> DEFINE r == l2[k]
        <3>1. r \in Record /\ Fresh(r)
            BY <1>0, <2>2 DEF TypeOK, CachedFresh
        <3>2. r' = r
            BY <1>1
        <3> HIDE DEF r
        <3>3. Fresh(r)'
            BY <1>2, <3>1, <3>2, FreshStays DEF Fresh
        <3> QED BY <3>3 DEF r
    <2> QED BY <1>1, <2>1, <2>2 DEF CachedFresh
<1>4. Queries'
    <2>1. ASSUME NEW t \in Threads
          PROVE  QueryOf(thread[t])'
        <3>1. QueryOf(thread[t]) /\ thread'[t] = thread[t]
            BY <1>0, <1>1 DEF Queries
        <3>2. thread[t].now \in Nat
            BY <1>0, ThreadFields
        <3>3. thread[t].now <= clock => thread[t].now <= clock'
            BY <1>2, <3>2
        <3>4. ASSUME thread[t].pc \in {"promote", "put2", "put1"}
              PROVE  Fresh(thread[t].record)'
            <4> DEFINE r == thread[t].record
            <4>1. r \in Record /\ Fresh(r)
                BY <3>1, <3>4 DEF QueryOf
            <4>2. r' = r
                BY <1>1
            <4> HIDE DEF r
            <4>3. Fresh(r)'
                BY <1>2, <4>1, <4>2, FreshStays DEF Fresh
            <4> QED BY <4>3 DEF r
        <3> QED BY <3>1, <3>3, <3>4 DEF QueryOf, Valid
    <2> QED BY <2>1 DEF Queries
<1>5. TypeOK' /\ L1Accounting' /\ Locking'
    <2>1. TypeOK'
        BY <1>0, <1>1, <1>2 DEF TypeOK
    <2>2. L1Accounting'
        BY <1>0, <1>1 DEF L1Accounting
    <2>3. Locking'
        BY <1>0, <1>1 DEF Locking
    <2> QED BY <2>1, <2>2, <2>3
<1> QED BY <1>3, <1>4, <1>5 DEF IInv

LEMMA RestartKeeps ==
    ASSUME IInv, NEW p \in Processes, Restart(p)
    PROVE  IInv'
<1>0. TypeOK /\ L1Accounting /\ CachedFresh /\ Queries /\ Locking
    BY DEF IInv
<1>1. /\ thread' \in [Threads -> Thread]
      /\ \A t \in Threads : thread'[t] = IF thread[t].proc = p THEN NoThread ELSE thread[t]
      /\ lock' \in [Processes -> [Stripes -> Threads \cup {None}]]
      /\ \A q \in Processes, s \in Stripes : lock'[q][s] = IF q = p THEN None ELSE lock[q][s]
      /\ UNCHANGED <<clock, l2>>
    BY <1>0, RestartEffect
<1>2. l1' \in [Processes -> Cache] /\ L1Accounting' /\ CachedFresh'
    <2> DEFINE c == [entries |-> <<>>, bytes |-> 0]
    <2>1. l1' = [l1 EXCEPT ![p] = c] /\ UNCHANGED <<clock, l2>>
        BY DEF Restart
    <2>2. c \in Cache /\ c.entries = <<>> /\ c.bytes = 0 /\ Len(<<>>) = 0
        BY DEF Cache
    <2> HIDE DEF c
    <2>3. Accounted(c) /\ AllFresh(c)
        BY <2>2, EmptyTotal, Limits DEF Accounted, AllFresh
    <2> QED BY <2>1, <2>2, <2>3, L1Replaced
<1>3. Queries'
    <2>1. ASSUME NEW t \in Threads
          PROVE  QueryOf(thread[t])'
        <3>1. QueryOf(thread'[t])
            <4>1. CASE thread[t].proc = p
                <5>1. thread'[t] = NoThread
                    BY <1>1, <4>1
                <5>2. "idle" \in Ended /\ "idle" \notin Looking \cup Filling \cup {"lock", "promote", "put2", "put1"}
                    BY DEF Ended, Looking, Filling
                <5> QED BY <5>1, <5>2, NoThreadType DEF QueryOf
            <4>2. CASE thread[t].proc # p
                BY <1>0, <1>1, <4>2 DEF Queries
            <4> QED BY <4>1, <4>2
        <3> QED BY <1>1, <3>1 DEF QueryOf, Fresh, Valid
    <2> QED BY <2>1 DEF Queries
<1>4. Locking'
    <2>1. ASSUME NEW q \in Processes, NEW s \in Stripes, NEW u \in Threads, lock'[q][s] = u
          PROVE  /\ thread'[u].proc = q /\ thread'[u].pc \in Looking \cup Filling
                 /\ StripeOf[thread'[u].key] = s
        <3>1. q # p /\ lock[q][s] = u
            BY <1>1, <2>1, NoneIsNew
        <3>2. thread[u].proc = q
            BY <1>0, <3>1 DEF Locking
        <3>3. thread'[u] = thread[u]
            BY <1>1, <3>1, <3>2
        <3> QED BY <1>0, <3>1, <3>3 DEF Locking
    <2>2. ASSUME NEW u \in Threads, thread'[u].pc \in Filling
          PROVE  lock'[thread'[u].proc][StripeOf[thread'[u].key]] = u
        <3>1. thread'[u] = thread[u] /\ thread[u].proc # p
            BY <1>1, <2>2, NoThreadType DEF Filling
        <3>2. lock[thread[u].proc][StripeOf[thread[u].key]] = u
            BY <1>0, <2>2, <3>1 DEF Locking
        <3>3. thread[u].proc \in Processes /\ StripeOf[thread[u].key] \in Stripes
            BY <2>2, <3>1, Asking DEF Ended, Filling
        <3> QED BY <1>1, <3>1, <3>2, <3>3
    <2> QED BY <2>1, <2>2 DEF Locking
<1>5. clock' \in 0..MaxTime /\ l2' \in [Keys -> Record \cup {None}]
      /\ \A k \in Keys : l2'[k] # None => l2'[k].key = k
    BY <1>0, <1>1 DEF TypeOK
<1>6. TypeOK'
    BY <1>1, <1>2, <1>3, <1>5, TypeParts
<1> QED BY <1>2, <1>3, <1>4, <1>6 DEF IInv

LEMMA InitInvariant == Init => IInv
<1> SUFFICES ASSUME Init
             PROVE  IInv
    OBVIOUS
<1>0. /\ clock = 0 /\ l1 = [p \in Processes |-> [entries |-> <<>>, bytes |-> 0]]
      /\ l2 = [k \in Keys |-> None] /\ lock = [p \in Processes |-> [s \in Stripes |-> None]]
      /\ thread = [t \in Threads |-> NoThread]
    BY DEF Init
<1>1. l1 \in [Processes -> Cache] /\ \A p \in Processes : l1[p].entries = <<>> /\ l1[p].bytes = 0
    <2>1. [entries |-> <<>>, bytes |-> 0] \in Cache
        BY DEF Cache
    <2> QED BY <1>0, <2>1
<1>2. thread \in [Threads -> Thread] /\ \A t \in Threads : thread[t] = NoThread
    BY <1>0, NoThreadType
<1>3. TypeOK
    <2>1. clock \in 0..MaxTime
        BY <1>0, Limits
    <2>2. \A t \in Threads : thread[t].pc \notin {"put2", "put1"}
        BY <1>2, NoThreadType
    <2> QED BY <1>0, <1>1, <1>2, <2>1, <2>2 DEF TypeOK
<1>4. L1Accounting
    BY <1>1, EmptyTotal, Limits DEF L1Accounting
<1>5. CachedFresh
    BY <1>0, <1>1 DEF CachedFresh
<1>6. Queries
    <2>1. "idle" \in Ended /\ "idle" \notin Looking \cup Filling \cup {"lock", "promote", "put2", "put1"}
        BY DEF Ended, Looking, Filling
    <2> QED BY <1>2, <2>1, NoThreadType DEF Queries, QueryOf
<1>7. Locking
    <2>1. "idle" \notin Filling
        BY DEF Filling
    <2> QED BY <1>0, <1>2, <2>1, NoThreadType, NoneIsNew DEF Locking
<1> QED BY <1>3, <1>4, <1>5, <1>6, <1>7 DEF IInv

LEMMA StepInvariant == IInv /\ [Next]_vars => IInv'
<1> SUFFICES ASSUME IInv, [Next]_vars
             PROVE  IInv'
    OBVIOUS
<1>1. ASSUME NEW t \in Threads, NEW p \in Processes, NEW k \in Keys, Begin(t, p, k)
      PROVE  IInv'
    BY <1>1, BeginKeeps
<1>2. ASSUME NEW t \in Threads, Bypass(t)
      PROVE  IInv'
    BY <1>2, BypassKeeps
<1>3. ASSUME NEW t \in Threads, LookL1(t)
      PROVE  IInv'
    BY <1>3, LookL1Keeps
<1>4. ASSUME NEW t \in Threads, LookL2(t)
      PROVE  IInv'
    BY <1>4, LookL2Keeps
<1>5. ASSUME NEW t \in Threads, Promote(t)
      PROVE  IInv'
    BY <1>5, PromoteKeeps
<1>6. ASSUME NEW t \in Threads, TakeLock(t)
      PROVE  IInv'
    BY <1>6, TakeLockKeeps
<1>7. ASSUME NEW t \in Threads, Fetch(t)
      PROVE  IInv'
    BY <1>7, FetchKeeps
<1>8. ASSUME NEW t \in Threads, PutL2(t)
      PROVE  IInv'
    BY <1>8, PutL2Keeps
<1>9. ASSUME NEW t \in Threads, PutL1(t)
      PROVE  IInv'
    BY <1>9, PutL1Keeps
<1>10. ASSUME NEW p \in Processes, Restart(p)
       PROVE  IInv'
    BY <1>10, RestartKeeps
<1>11. CASE Tick
    BY <1>11, TickKeeps
<1>12. CASE UNCHANGED vars
    <2>1. UNCHANGED <<clock, l1, l2>> /\ UNCHANGED lock /\ UNCHANGED thread
        BY <1>12 DEF vars
    <2>2. L1Accounting' /\ CachedFresh' /\ TypeOK'
        BY <2>1, CachesStay DEF IInv, TypeOK
    <2>3. Queries' /\ Locking'
        BY <2>1 DEF IInv, Queries, QueryOf, Fresh, Valid, Locking
    <2> QED BY <2>2, <2>3 DEF IInv
<1> QED BY <1>1, <1>2, <1>3, <1>4, <1>5, <1>6, <1>7, <1>8, <1>9, <1>10, <1>11, <1>12 DEF Next

\* The strengthening of the properties below, for any number of steps.
THEOREM Invariant == Spec => []IInv
<1>1. Init => IInv
    BY InitInvariant
<1>2. IInv /\ [Next]_vars => IInv'
    BY StepInvariant
<1> QED BY <1>1, <1>2, PTL DEF Spec

\* The variables keep their types, and what is stored was valid when it was fetched.
THEOREM TypeCorrect == Spec => []TypeOK
<1>1. IInv => TypeOK
    BY DEF IInv
<1> QED BY <1>1, Invariant, PTL

\* put, eviction and the skipping of an oversized record keep the byte count that of the
\* entries, within both limits, for responses of any sizes.
THEOREM AccountsBalance == Spec => []L1Accounting
<1>1. IInv => L1Accounting
    BY DEF IInv
<1> QED BY <1>1, Invariant, PTL

-----------------------------------------------------------------------------
(***************************************************************************)
(* One fetch per miss.                                                     *)
(***************************************************************************)

\* Only a look at L2 under the lock leads to a fetch.
LEMMA FetchStarts ==
    ASSUME IInv, [Next]_vars, NEW t \in Threads, thread'[t].pc = "fetch", thread[t].pc # "fetch"
    PROVE  /\ thread[t].pc = "l2" /\ HasLock(t)
           /\ thread'[t].now = thread[t].now
           /\ ~ (l2[thread[t].key] # None /\ Valid(l2[thread[t].key], thread[t].now))
<1>0. TypeOK
    BY DEF IInv
<1>1. ASSUME NEW u \in Threads, NEW pc \in Ended, NEW v \in Versions, End(u, pc, v)
      PROVE  FALSE
    BY <1>0, <1>1, EndEffect, OverType DEF Ended
<1>2. 0 \in Versions /\ "idle" \in Ended /\ "answered" \in Ended /\ "rejected" \in Ended
    BY Limits DEF Versions, Ended
<1>3. ASSUME NEW u \in Threads, NEW p \in Processes, NEW k \in Keys, Begin(u, p, k)
      PROVE  FALSE
    BY <1>0, <1>3, BeginEffect
<1>4. ASSUME NEW u \in Threads, Bypass(u)
      PROVE  FALSE
    <2>1. thread[u].pc = "bypass"
          /\ (End(u, "idle", 0) \/ End(u, "answered", Version(thread[u].key, clock)))
        BY <1>4 DEF Bypass, At
    <2>2. Version(thread[u].key, clock) \in Versions
        BY <1>0, <2>1, Asking, ProviderVersion DEF Ended
    <2> QED BY <1>1, <1>2, <2>1, <2>2
<1>5. ASSUME NEW u \in Threads, LookL1(u)
      PROVE  FALSE
    <2> DEFINE p == thread[u].proc
               k == thread[u].key
    <2>1. /\ thread[u].pc = "l1"
          /\ (Has(p, k) /\ End(u, "answered", Entry(p, k).version)) \/ Goto(u, "l2")
        BY <1>5 DEF LookL1, At
    <2>2. p \in Processes /\ k \in Keys
        BY <2>1, Asking DEF Ended
    <2> HIDE DEF p, k
    <2>3. Has(p, k) => Entry(p, k).version \in Versions
        BY <2>2, InL1, OthersOf DEF Record, Versions
    <2>4. ~ Goto(u, "l2")
        BY <1>0, GotoEffect DEF Pcs, Looking
    <2> QED BY <1>1, <1>2, <2>1, <2>3, <2>4
<1>6. ASSUME NEW u \in Threads, thread[u].pc \in {"promote", "put1"}, End(u, "answered", thread[u].record.version)
      PROVE  FALSE
    BY <1>1, <1>2, <1>6, Keeping
<1>7. ASSUME NEW u \in Threads, TakeLock(u)
      PROVE  FALSE
    <2>1. thread[u].proc \in Processes /\ thread[u].key \in Keys
        BY <1>7, Asking DEF TakeLock, At, Ended
    <2> QED BY <1>0, <1>7, <2>1, TakeLockEffect
<1>8. ASSUME NEW u \in Threads, Fetch(u)
      PROVE  FALSE
    <2>1. /\ thread[u].pc = "fetch"
          /\ \/ End(u, "idle", 0) \/ End(u, "rejected", 0)
             \/ thread' = [thread EXCEPT ![u].pc = "put2", ![u].record = Answer(u)]
        BY <1>8 DEF Fetch, At, Answer
    <2>2. thread[u].key \in Keys /\ thread[u].expires \in Nat
        BY <2>1, Asking DEF Ended
    <2>3. ~ (thread' = [thread EXCEPT ![u].pc = "put2", ![u].record = Answer(u)])
        BY <1>0, <2>2, FetchedEffect
    <2> QED BY <1>1, <1>2, <2>1, <2>3
<1>9. ASSUME NEW u \in Threads, PutL2(u)
      PROVE  FALSE
    <2>1. Goto(u, "put1") \/ End(u, "idle", 0)
        BY <1>9 DEF PutL2
    <2>2. ~ Goto(u, "put1")
        BY <1>0, GotoEffect DEF Pcs, Filling
    <2> QED BY <1>1, <1>2, <2>1, <2>2
<1>10. ASSUME NEW p \in Processes, Restart(p)
       PROVE  FALSE
    BY <1>0, <1>10, RestartEffect, NoThreadType
<1>11. ~ Tick /\ ~ UNCHANGED vars
    BY DEF Tick, vars
<1>12. ASSUME NEW u \in Threads, LookL2(u)
       PROVE  /\ thread[t].pc = "l2" /\ HasLock(t)
              /\ thread'[t].now = thread[t].now
              /\ ~ (l2[thread[t].key] # None /\ Valid(l2[thread[t].key], thread[t].now))
    <2> DEFINE found == l2[thread[u].key]
    <2>1. /\ thread[u].pc = "l2"
          /\ \/ End(u, "idle", 0)
             \/ /\ found # None /\ Valid(found, thread[u].now)
                /\ thread' = [thread EXCEPT ![u].pc = "promote", ![u].record = found]
             \/ /\ ~(found # None /\ Valid(found, thread[u].now))
                /\ (HasLock(u) /\ Goto(u, "fetch")) \/ (~ HasLock(u) /\ Goto(u, "lock"))
        BY <1>12 DEF LookL2, At
    <2>2. ~ End(u, "idle", 0)
        BY <1>1, <1>2
    <2>3. ~ Goto(u, "lock")
        BY <1>0, GotoEffect DEF Pcs
    <2>4. found # None => found \in Record
        <3>1. thread[u].key \in Keys
            BY <2>1, Asking DEF Ended
        <3> QED BY <1>0, <3>1 DEF TypeOK
    <2> HIDE DEF found
    <2>5. ~ (found # None /\ thread' = [thread EXCEPT ![u].pc = "promote", ![u].record = found])
        BY <1>0, <2>4, FoundEffect
    <2>6. ~(found # None /\ Valid(found, thread[u].now)) /\ HasLock(u) /\ Goto(u, "fetch")
        BY <2>1, <2>2, <2>3, <2>5
    <2>7. thread'[u].now = thread[u].now /\ \A w \in Threads \ {u} : thread'[w] = thread[w]
        BY <1>0, <2>6, GotoEffect DEF Pcs, Filling
    <2>8. u = t
        BY <2>7
    <2> QED BY <2>1, <2>6, <2>7, <2>8 DEF found
<1>13. ASSUME NEW u \in Threads, Promote(u) \/ PutL1(u)
       PROVE  FALSE
    <2>1. thread[u].pc \in {"promote", "put1"} /\ End(u, "answered", thread[u].record.version)
        BY <1>13 DEF Promote, PutL1, At
    <2> QED BY <1>6, <2>1
<1> QED BY <1>3, <1>4, <1>5, <1>7, <1>8, <1>9, <1>10, <1>11, <1>12, <1>13 DEF Next

\* cache.py:231: the miss lock and the second look under it leave one query of a process to
\* fetch a key, and that only when the bucket has nothing valid.
THEOREM FetchedOnce == Spec => OneFetchPerMiss
<1> DEFINE Once(t) ==
        LET k == thread[t].key
        IN  thread'[t].pc = "fetch" /\ ~At(t, "fetch") =>
               /\ \A other \in Threads \ {t} :
                     thread[other].proc = thread[t].proc /\ thread[other].key = k
                        => thread[other].pc \notin Filling
               /\ l2[k] # None => ~Valid(l2[k], thread'[t].now)
<1>1. ASSUME IInv, [Next]_vars, NEW t \in Threads
      PROVE  Once(t)
    <2> SUFFICES ASSUME thread'[t].pc = "fetch", ~At(t, "fetch")
                 PROVE  /\ \A other \in Threads \ {t} :
                              thread[other].proc = thread[t].proc /\ thread[other].key = thread[t].key
                                 => thread[other].pc \notin Filling
                        /\ l2[thread[t].key] # None => ~Valid(l2[thread[t].key], thread'[t].now)
        OBVIOUS
    <2>1. /\ thread[t].pc = "l2" /\ HasLock(t) /\ thread'[t].now = thread[t].now
          /\ ~ (l2[thread[t].key] # None /\ Valid(l2[thread[t].key], thread[t].now))
        BY <1>1, FetchStarts DEF At
    <2>2. lock[thread[t].proc][StripeOf[thread[t].key]] = t
        BY <1>1, <2>1 DEF HasLock, IInv, Locking
    <2>3. ASSUME NEW other \in Threads \ {t}, thread[other].proc = thread[t].proc,
                 thread[other].key = thread[t].key, thread[other].pc \in Filling
          PROVE  FALSE
        BY <1>1, <2>2, <2>3 DEF IInv, Locking
    <2> QED BY <2>1, <2>3
<1>2. IInv /\ [Next]_vars => [\A t \in Threads : Once(t)]_vars
    BY <1>1
<1> QED BY <1>2, Invariant, PTL DEF Spec, OneFetchPerMiss

-----------------------------------------------------------------------------
(***************************************************************************)
(* The cache implements FreshReads.                                        *)
(***************************************************************************)

\* What the reader of the abstract specification sees of a query.
Seen(th) ==
    [state |-> CASE th.pc = "answered" -> "answered"
                 [] th.pc \in {"idle", "rejected"} -> "idle"
                 [] OTHER -> "asking",
     key |-> th.key, since |-> th.since,
     version |-> IF th.pc = "answered" THEN th.version ELSE 0]
Readers == [t \in Threads |-> Seen(thread[t])]

Quiet == [state |-> "idle", key |-> None, since |-> 0, version |-> 0]

LEMMA SeenOver ==
    ASSUME NEW v \in Versions
    PROVE  /\ Seen(Over("answered", v)) = [state |-> "answered", key |-> None, since |-> 0, version |-> v]
           /\ Seen(Over("idle", v)) = Quiet /\ Seen(Over("rejected", v)) = Quiet
           /\ Seen(NoThread) = Quiet
<1>1. "answered" \in Ended /\ "idle" \in Ended /\ "rejected" \in Ended
    BY DEF Ended
<1> QED BY <1>1, OverType, NoThreadType DEF Seen, Quiet

LEMMA SeenAsking ==
    ASSUME NEW th, th.pc \notin Ended
    PROVE  Seen(th) = [state |-> "asking", key |-> th.key, since |-> th.since, version |-> 0]
BY DEF Seen, Ended

\* One query moves.
LEMMA ReaderMoves ==
    ASSUME TypeOK, thread' \in [Threads -> Thread], NEW t \in Threads,
           \A u \in Threads \ {t} : thread'[u] = thread[u]
    PROVE  /\ Readers' = [Readers EXCEPT ![t] = Seen(thread'[t])]
           /\ Seen(thread'[t]) = Seen(thread[t]) => Readers' = Readers
<1>1. Readers = [u \in Threads |-> Seen(thread[u])] /\ Readers' = [u \in Threads |-> Seen(thread'[u])]
    BY DEF Readers, Seen
<1>2. \A u \in Threads \ {t} : Seen(thread'[u]) = Seen(thread[u])
    OBVIOUS
<1> QED BY <1>1, <1>2

\* The abstract actions, over what is seen.
LEMMA AbstractAsk ==
    ASSUME NEW t \in Threads, NEW k \in Keys, Readers[t].state \in {"idle", "answered"},
           Readers' = [Readers EXCEPT ![t] = [state |-> "asking", key |-> k, since |-> clock, version |-> 0]],
           UNCHANGED clock
    PROVE  Abstract!Next
<1>1. Abstract!Ask(t, k)
    BY DEF Abstract!Ask, Abstract!Ended, Readers, Seen, At
<1> QED BY <1>1 DEF Abstract!Next

LEMMA AbstractAnswer ==
    ASSUME NEW t \in Threads, Readers[t].state = "asking",
           NEW v \in Version(Readers[t].key, Readers[t].since)..Version(Readers[t].key, clock),
           Readers' = [Readers EXCEPT ![t] = [state |-> "answered", key |-> None, since |-> 0, version |-> v]],
           UNCHANGED clock
    PROVE  Abstract!Next
<1>1. [Abstract!NoQuery EXCEPT !.state = "answered", !.version = v]
        = [state |-> "answered", key |-> None, since |-> 0, version |-> v]
    <2> DEFINE R == [state : {"idle", "answered"}, key : {None}, since : {0}, version : {0, v}]
               a == [Abstract!NoQuery EXCEPT !.state = "answered", !.version = v]
               b == [state |-> "answered", key |-> None, since |-> 0, version |-> v]
    <2>1. Abstract!NoQuery \in R
        BY DEF Abstract!NoQuery
    <2>2. a \in R
        BY <2>1
    <2>3. a.state = b.state /\ a.key = b.key /\ a.since = b.since /\ a.version = b.version
        BY <2>1 DEF Abstract!NoQuery
    <2>4. a = [state |-> a.state, key |-> a.key, since |-> a.since, version |-> a.version]
        <3> HIDE DEF a
        <3> QED BY <2>2
    <2>5. b = [state |-> a.state, key |-> a.key, since |-> a.since, version |-> a.version]
        <3> HIDE DEF a
        <3> QED BY <2>3
    <2> QED BY <2>4, <2>5
<1>2. Readers' = [Readers EXCEPT ![t] = [Abstract!NoQuery EXCEPT !.state = "answered", !.version = v]]
    BY <1>1
<1>3. Abstract!Answer(t)
    BY <1>2 DEF Abstract!Answer, Readers, Seen, At
<1> QED BY <1>3 DEF Abstract!Next

LEMMA AbstractFail ==
    ASSUME NEW t \in Threads, Readers[t].state = "asking", Readers' = [Readers EXCEPT ![t] = Quiet],
           UNCHANGED clock
    PROVE  Abstract!Next
<1>1. Abstract!Fail(t)
    BY DEF Abstract!Fail, Abstract!NoQuery, Quiet, Readers, Seen, At
<1> QED BY <1>1 DEF Abstract!Next

LEMMA AbstractLose ==
    ASSUME NEW lost \in SUBSET Threads, \A t \in lost : Readers[t].state = "asking",
           Readers' = [t \in Threads |-> IF t \in lost THEN Quiet ELSE Readers[t]], UNCHANGED clock
    PROVE  Abstract!Next
<1>1. Abstract!Lose(lost)
    BY DEF Abstract!Lose, Abstract!NoQuery, Quiet, Readers, Seen, At
<1> QED BY <1>1 DEF Abstract!Next

LEMMA AbstractTick ==
    ASSUME clock < MaxTime, clock' = clock + 1, Readers' = Readers
    PROVE  Abstract!Next
<1>1. Abstract!Tick
    BY DEF Abstract!Tick, Readers, Seen, At
<1> QED BY <1>1 DEF Abstract!Next

LEMMA AbstractStutter ==
    ASSUME UNCHANGED clock, Readers' = Readers
    PROVE  UNCHANGED Abstract!absVars
BY DEF Abstract!absVars, Readers, Seen, At

\* A query that ends without an answer has failed.
LEMMA EndFails ==
    ASSUME IInv, NEW t \in Threads, thread[t].pc \notin Ended, NEW pc \in {"idle", "rejected"},
           End(t, pc, 0), UNCHANGED clock
    PROVE  Abstract!Next
<1>1. TypeOK /\ 0 \in Versions /\ pc \in Ended
    BY Limits DEF IInv, Versions, Ended
<1>2. thread' \in [Threads -> Thread] /\ thread'[t] = Over(pc, 0) /\ \A u \in Threads \ {t} : thread'[u] = thread[u]
    BY <1>1, EndEffect
<1>3. Seen(thread'[t]) = Quiet
    BY <1>1, <1>2, SeenOver
<1>4. Readers' = [Readers EXCEPT ![t] = Quiet]
    BY <1>1, <1>2, <1>3, ReaderMoves
<1>5. Readers[t].state = "asking"
    BY SeenAsking DEF Readers
<1> QED BY <1>4, <1>5, AbstractFail

\* An answer is one the provider could have given since the query began.
LEMMA EndAnswers ==
    ASSUME IInv, NEW t \in Threads, thread[t].pc \notin Ended, NEW v \in Versions,
           v \in Version(thread[t].key, thread[t].since)..Version(thread[t].key, clock),
           End(t, "answered", v), UNCHANGED clock
    PROVE  Abstract!Next
<1>1. TypeOK /\ "answered" \in Ended
    BY DEF IInv, Ended
<1>2. thread' \in [Threads -> Thread] /\ thread'[t] = Over("answered", v)
      /\ \A u \in Threads \ {t} : thread'[u] = thread[u]
    BY <1>1, EndEffect
<1>3. Seen(thread'[t]) = [state |-> "answered", key |-> None, since |-> 0, version |-> v]
    BY <1>2, SeenOver
<1>4. Readers' = [Readers EXCEPT ![t] = [state |-> "answered", key |-> None, since |-> 0, version |-> v]]
    BY <1>1, <1>2, <1>3, ReaderMoves
<1>5. Readers[t].state = "asking" /\ Readers[t].key = thread[t].key /\ Readers[t].since = thread[t].since
    BY SeenAsking DEF Readers
<1> QED BY <1>4, <1>5, AbstractAnswer

\* A record that was valid at the query's last reading of the clock is an answer.
LEMMA ValidAnswers ==
    ASSUME IInv, NEW t \in Threads, thread[t].pc \notin Ended, NEW r \in Record, Fresh(r),
           r.key = thread[t].key, Valid(r, thread[t].now)
    PROVE  r.version \in Version(thread[t].key, thread[t].since)..Version(thread[t].key, clock)
           /\ r.version \in Versions
<1>1. clock \in 0..MaxTime
    BY DEF IInv, TypeOK
<1>2. /\ thread[t].since \in Nat /\ thread[t].now \in Nat
      /\ thread[t].since <= thread[t].now /\ thread[t].now <= clock
    BY Asking
<1> QED BY <1>1, <1>2, FreshAnswers DEF Record, Versions

\* A query that goes on is seen to go on.
LEMMA GoesOn ==
    ASSUME IInv, UNCHANGED clock, NEW t \in Threads, thread[t].pc \notin Ended, thread' \in [Threads -> Thread],
           thread'[t].pc \notin Ended, thread'[t].key = thread[t].key, thread'[t].since = thread[t].since,
           \A u \in Threads \ {t} : thread'[u] = thread[u]
    PROVE  UNCHANGED Abstract!absVars
<1>1. Seen(thread'[t]) = Seen(thread[t])
    BY SeenAsking
<1>2. Readers' = Readers
    BY <1>1, ReaderMoves DEF IInv
<1> QED BY <1>2, AbstractStutter

LEMMA InitRefines == Init => Abstract!Init
<1> SUFFICES ASSUME Init
             PROVE  Abstract!Init
    OBVIOUS
<1>1. clock = 0 /\ thread = [t \in Threads |-> NoThread]
    BY DEF Init
<1>2. Readers = [t \in Threads |-> Quiet]
    BY <1>1, SeenOver, Limits DEF Readers, Versions
<1> QED BY <1>1, <1>2 DEF Abstract!Init, Abstract!NoQuery, Quiet, Readers, Seen, At

LEMMA StepRefines ==
    ASSUME IInv, [Next]_vars
    PROVE  Abstract!Next \/ UNCHANGED Abstract!absVars
<1>0. TypeOK /\ clock \in Nat
    BY Limits DEF IInv, TypeOK
<1>1. ASSUME NEW t \in Threads, NEW p \in Processes, NEW k \in Keys, Begin(t, p, k)
      PROVE  Abstract!Next
    <2>1. /\ thread[t].pc \in Ended
          /\ thread' \in [Threads -> Thread]
          /\ thread'[t].pc \in {"bypass", "l1"}
          /\ thread'[t].key = k /\ thread'[t].since = clock
          /\ \A u \in Threads \ {t} : thread'[u] = thread[u]
          /\ UNCHANGED clock
        BY <1>0, <1>1, BeginEffect
    <2>2. Seen(thread'[t]) = [state |-> "asking", key |-> k, since |-> clock, version |-> 0]
        BY <2>1, SeenAsking DEF Ended
    <2>3. Readers' = [Readers EXCEPT ![t] = [state |-> "asking", key |-> k, since |-> clock, version |-> 0]]
        BY <1>0, <2>1, <2>2, ReaderMoves
    <2>4. Readers[t].state \in {"idle", "answered"}
        BY <2>1 DEF Readers, Seen, Ended
    <2> QED BY <2>1, <2>3, <2>4, AbstractAsk
<1>2. ASSUME NEW t \in Threads, Bypass(t)
      PROVE  Abstract!Next
    <2>1. /\ thread[t].pc = "bypass" /\ UNCHANGED clock
          /\ (End(t, "idle", 0) \/ End(t, "answered", Version(thread[t].key, clock)))
        BY <1>2 DEF Bypass, At
    <2>2. CASE End(t, "idle", 0)
        BY <2>1, <2>2, EndFails DEF Ended
    <2>3. CASE End(t, "answered", Version(thread[t].key, clock))
        <3>1. /\ thread[t].key \in Keys /\ thread[t].since \in Nat /\ thread[t].now \in Nat
              /\ thread[t].since <= thread[t].now /\ thread[t].now <= clock
            BY <2>1, Asking DEF Ended
        <3>2. thread[t].since <= clock
            BY <1>0, <3>1
        <3>3. Version(thread[t].key, thread[t].since) <= Version(thread[t].key, clock)
            BY <1>0, <3>1, <3>2, VersionMonotone
        <3>4. Version(thread[t].key, thread[t].since) \in Nat /\ Version(thread[t].key, clock) \in Nat
            BY <1>0, <3>1, VersionType
        <3>5. Version(thread[t].key, clock) \in Version(thread[t].key, thread[t].since)..Version(thread[t].key, clock)
            BY <3>3, <3>4
        <3>6. Version(thread[t].key, clock) \in Versions
            BY <1>0, <3>1, ProviderVersion
        <3> QED BY <2>1, <2>3, <3>5, <3>6, EndAnswers DEF Ended
    <2> QED BY <2>1, <2>2, <2>3
<1>3. ASSUME NEW t \in Threads, LookL1(t)
      PROVE  Abstract!Next \/ UNCHANGED Abstract!absVars
    <2> DEFINE p == thread[t].proc
               k == thread[t].key
               e == Entry(p, k)
    <2>1. /\ thread[t].pc = "l1" /\ UNCHANGED clock
          /\ \/ Has(p, k) /\ Valid(e, thread[t].now) /\ End(t, "answered", e.version)
             \/ Goto(t, "l2")
        BY <1>3 DEF LookL1, At
    <2>2. p \in Processes /\ k \in Keys /\ thread[t].pc \notin Ended
        BY <2>1, Asking DEF Ended
    <2>3. CASE Has(p, k) /\ Valid(e, thread[t].now) /\ End(t, "answered", e.version)
        <3>1. e \in Record /\ e.key = k /\ Position(p, k) \in 1..Len(l1[p].entries)
            <4> HIDE DEF p, k
            <4> QED BY <2>2, <2>3, InL1, OthersOf
        <3>2. Fresh(e)
            BY <2>2, <3>1, InL1 DEF AllFresh, Entry
        <3> HIDE DEF e
        <3>3. e.version \in Version(k, thread[t].since)..Version(k, clock) /\ e.version \in Versions
            BY <2>2, <2>3, <3>1, <3>2, ValidAnswers
        <3> QED BY <2>1, <2>2, <2>3, <3>3, EndAnswers
    <2>4. CASE Goto(t, "l2")
        <3>1. /\ thread' \in [Threads -> Thread] /\ thread'[t].pc = "l2"
              /\ thread'[t].key = thread[t].key /\ thread'[t].since = thread[t].since
              /\ \A u \in Threads \ {t} : thread'[u] = thread[u]
            BY <1>0, <2>4, GotoEffect DEF Pcs, Looking
        <3> QED BY <2>1, <2>2, <3>1, GoesOn DEF Ended
    <2> QED BY <2>1, <2>3, <2>4
<1>4. ASSUME NEW t \in Threads, LookL2(t)
      PROVE  Abstract!Next \/ UNCHANGED Abstract!absVars
    <2> DEFINE found == l2[thread[t].key]
    <2>1. /\ thread[t].pc = "l2" /\ UNCHANGED clock
          /\ \/ End(t, "idle", 0)
             \/ found # None /\ thread' = [thread EXCEPT ![t].pc = "promote", ![t].record = found]
             \/ Goto(t, "fetch") \/ Goto(t, "lock")
        BY <1>4 DEF LookL2, At
    <2>2. thread[t].key \in Keys /\ thread[t].pc \notin Ended
        BY <2>1, Asking DEF Ended
    <2>3. CASE End(t, "idle", 0)
        BY <2>1, <2>2, <2>3, EndFails
    <2>4. CASE found # None /\ thread' = [thread EXCEPT ![t].pc = "promote", ![t].record = found]
        <3>1. found \in Record
            BY <1>0, <2>2, <2>4 DEF TypeOK
        <3> HIDE DEF found
        <3>2. /\ thread' \in [Threads -> Thread] /\ thread'[t].pc = "promote"
              /\ thread'[t].key = thread[t].key /\ thread'[t].since = thread[t].since
              /\ \A u \in Threads \ {t} : thread'[u] = thread[u]
            BY <1>0, <2>4, <3>1, FoundEffect
        <3> QED BY <2>1, <2>2, <3>2, GoesOn DEF Ended
    <2>5. CASE Goto(t, "fetch")
        <3>1. /\ thread' \in [Threads -> Thread] /\ thread'[t].pc = "fetch"
              /\ thread'[t].key = thread[t].key /\ thread'[t].since = thread[t].since
              /\ \A u \in Threads \ {t} : thread'[u] = thread[u]
            BY <1>0, <2>5, GotoEffect DEF Pcs, Filling
        <3> QED BY <2>1, <2>2, <3>1, GoesOn DEF Ended
    <2>6. CASE Goto(t, "lock")
        <3>1. /\ thread' \in [Threads -> Thread] /\ thread'[t].pc = "lock"
              /\ thread'[t].key = thread[t].key /\ thread'[t].since = thread[t].since
              /\ \A u \in Threads \ {t} : thread'[u] = thread[u]
            BY <1>0, <2>6, GotoEffect DEF Pcs
        <3> QED BY <2>1, <2>2, <3>1, GoesOn DEF Ended
    <2> QED BY <2>1, <2>3, <2>4, <2>5, <2>6
<1>5. ASSUME NEW t \in Threads, Promote(t) \/ PutL1(t)
      PROVE  Abstract!Next
    <2>1. thread[t].pc \in {"promote", "put1"} /\ End(t, "answered", thread[t].record.version) /\ UNCHANGED clock
        BY <1>5 DEF Promote, PutL1, At
    <2>2. /\ thread[t].record \in Record /\ thread[t].record.key = thread[t].key
          /\ Valid(thread[t].record, thread[t].now) /\ Fresh(thread[t].record)
        BY <2>1, Keeping
    <2>3. thread[t].pc \notin Ended
        BY <2>1 DEF Ended
    <2>4. /\ thread[t].record.version \in Version(thread[t].key, thread[t].since)..Version(thread[t].key, clock)
          /\ thread[t].record.version \in Versions
        BY <2>2, <2>3, ValidAnswers
    <2> QED BY <2>1, <2>3, <2>4, EndAnswers
<1>6. ASSUME NEW t \in Threads, TakeLock(t)
      PROVE  UNCHANGED Abstract!absVars
    <2>1. thread[t].pc = "lock" /\ thread[t].pc \notin Ended
        BY <1>6 DEF TakeLock, At, Ended
    <2>2. /\ thread' \in [Threads -> Thread] /\ thread'[t].pc = "l1"
          /\ thread'[t].key = thread[t].key /\ thread'[t].since = thread[t].since
          /\ \A u \in Threads \ {t} : thread'[u] = thread[u]
          /\ UNCHANGED clock
        BY <1>0, <1>6, <2>1, Asking, TakeLockEffect
    <2> QED BY <2>1, <2>2, GoesOn DEF Ended
<1>7. ASSUME NEW t \in Threads, Fetch(t)
      PROVE  Abstract!Next \/ UNCHANGED Abstract!absVars
    <2>1. /\ thread[t].pc = "fetch" /\ UNCHANGED clock
          /\ \/ End(t, "idle", 0) \/ End(t, "rejected", 0)
             \/ thread' = [thread EXCEPT ![t].pc = "put2", ![t].record = Answer(t)]
        BY <1>7 DEF Fetch, At, Answer
    <2>2. thread[t].key \in Keys /\ thread[t].expires \in Nat /\ thread[t].pc \notin Ended
        BY <2>1, Asking DEF Ended
    <2>3. CASE End(t, "idle", 0) \/ End(t, "rejected", 0)
        BY <2>1, <2>2, <2>3, EndFails
    <2>4. CASE thread' = [thread EXCEPT ![t].pc = "put2", ![t].record = Answer(t)]
        <3>1. /\ thread' \in [Threads -> Thread] /\ thread'[t].pc = "put2"
              /\ thread'[t].key = thread[t].key /\ thread'[t].since = thread[t].since
              /\ \A u \in Threads \ {t} : thread'[u] = thread[u]
            BY <1>0, <2>2, <2>4, FetchedEffect
        <3> QED BY <2>1, <2>2, <3>1, GoesOn DEF Ended
    <2> QED BY <2>1, <2>3, <2>4
<1>8. ASSUME NEW t \in Threads, PutL2(t)
      PROVE  Abstract!Next \/ UNCHANGED Abstract!absVars
    <2>1. thread[t].pc = "put2" /\ UNCHANGED clock /\ (Goto(t, "put1") \/ End(t, "idle", 0))
        BY <1>8 DEF PutL2, At
    <2>2. thread[t].pc \notin Ended
        BY <2>1 DEF Ended
    <2>3. CASE End(t, "idle", 0)
        BY <2>1, <2>2, <2>3, EndFails
    <2>4. CASE Goto(t, "put1")
        <3>1. /\ thread' \in [Threads -> Thread] /\ thread'[t].pc = "put1"
              /\ thread'[t].key = thread[t].key /\ thread'[t].since = thread[t].since
              /\ \A u \in Threads \ {t} : thread'[u] = thread[u]
            BY <1>0, <2>4, GotoEffect DEF Pcs, Filling
        <3> QED BY <2>1, <2>2, <3>1, GoesOn DEF Ended
    <2> QED BY <2>1, <2>3, <2>4
<1>9. ASSUME NEW p \in Processes, Restart(p)
      PROVE  Abstract!Next
    <2> DEFINE lost == {t \in Threads : thread[t].proc = p}
    <2>1. /\ \A t \in Threads : thread'[t] = IF thread[t].proc = p THEN NoThread ELSE thread[t]
          /\ UNCHANGED clock
        BY <1>0, <1>9, RestartEffect
    <2>2. \A t \in lost : Readers[t].state = "asking"
        <3> TAKE t \in lost
        <3>1. thread[t].pc \notin Ended
            BY NoneIsNew DEF IInv, Queries, QueryOf
        <3> QED BY <3>1, SeenAsking DEF Readers
    <2>3. Readers' = [t \in Threads |-> IF t \in lost THEN Quiet ELSE Readers[t]]
        <3>1. Readers' = [t \in Threads |-> Seen(thread'[t])]
            BY DEF Readers, Seen
        <3>2. Readers = [t \in Threads |-> Seen(thread[t])]
            BY DEF Readers
        <3>3. Seen(NoThread) = Quiet
            BY SeenOver, Limits DEF Versions
        <3>4. \A t \in Threads : Seen(thread'[t]) = IF t \in lost THEN Quiet ELSE Readers[t]
            BY <2>1, <3>2, <3>3
        <3> HIDE DEF lost
        <3> QED BY <3>1, <3>4
    <2> HIDE DEF lost
    <2>4. lost \in SUBSET Threads
        BY DEF lost
    <2> QED BY <2>1, <2>2, <2>3, <2>4, AbstractLose
<1>10. CASE Tick
    <2>1. clock < MaxTime /\ clock' = clock + 1 /\ thread' = thread
        BY <1>10 DEF Tick
    <2>2. Readers' = Readers
        BY <2>1 DEF Readers, Seen
    <2> QED BY <2>1, <2>2, AbstractTick
<1>11. CASE UNCHANGED vars
    <2>1. clock' = clock /\ thread' = thread
        BY <1>11 DEF vars
    <2>2. Readers' = Readers
        BY <2>1 DEF Readers, Seen
    <2> QED BY <2>1, <2>2, AbstractStutter
<1> QED BY <1>1, <1>2, <1>3, <1>4, <1>5, <1>6, <1>7, <1>8, <1>9, <1>10, <1>11 DEF Next

\* contracts.py:2694: through both layers, their locks, evictions, failed uploads and
\* restarts, an answer is one the provider could have given since the query began.
THEOREM CacheRefinesFreshReads == Spec => AnswersAreFresh
<1>1. Init => Abstract!Init
    BY InitRefines
<1>2. IInv /\ [Next]_vars => [Abstract!Next]_Abstract!absVars
    BY StepRefines
<1> QED BY <1>1, <1>2, Invariant, PTL DEF Spec, AnswersAreFresh, Abstract!Spec

=============================================================================
