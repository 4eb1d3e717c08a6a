------------------------------- MODULE FrameOps -------------------------------
(***************************************************************************)
(* The relational steps of result_pipeline.py on small frames.  A frame is *)
(* a set of columns and a sequence of rows; a row has a value for every    *)
(* column and, as a ghost, the source rows it came from.  A step that      *)
(* cannot run leaves a frame whose status says why: "fields" when a column *)
(* it names is missing or would be named twice, "data" when the values or  *)
(* the state of another result do not allow it.                            *)
(*                                                                         *)
(* Values are integers: numbers below Text, texts from Text on, and Null.  *)
(* What means, deviations, quantiles of windows, ratios and normalisations *)
(* compute is Opaque, one number: only where they are null is kept.        *)
(***************************************************************************)
EXTENDS PipelineContract

Text   == 500
Opaque == 1

\* The elements of a finite set by a strict total order: the k-th is the one with k - 1 before it.
Enumerate(S, before(_, _)) ==
    LET place == [x \in S |-> Cardinality({y \in S : before(y, x)})]
    IN  [k \in 1..Cardinality(S) |-> CHOOSE x \in S : place[x] = k - 1]
Pick(s, I) ==                                         \* the entries at the indices I, in their order
    LET index == Enumerate(I, <) IN [k \in 1..Cardinality(I) |-> s[index[k]]]

IsNum(v)   == v < Text
Num(v)     == IF IsNum(v) THEN v ELSE Null            \* pd.to_numeric(errors="coerce")
Known(s)   == Pick(s, {i \in DOMAIN s : s[i] # Null})
Nums(s)    == Known([i \in DOMAIN s |-> Num(s[i])])

OkFrame(cols, rows) == [status |-> "ok", cols |-> cols, rows |-> rows]
IsFrame(f) == DOMAIN f = {"status", "cols", "rows"}
Fails(f, why) == [f EXCEPT !.status = why]

Column(f, c)  == [i \in DOMAIN f.rows |-> f.rows[i].val[c]]
Key(r, g)     == [i \in DOMAIN g |-> r.val[g[i]]]
KeepIndices(f, I)  == [f EXCEPT !.rows = Pick(@, I)]
KeepWhere(f, P(_)) == KeepIndices(f, {i \in DOMAIN f.rows : P(f.rows[i])})
WithColumn(f, c, vals) ==
    OkFrame(f.cols \cup {c}, [i \in DOMAIN f.rows |->
        [f.rows[i] EXCEPT !.val = [d \in f.cols \cup {c} |-> IF d = c THEN vals[i] ELSE @[d]]]])
Project(f, cols) ==
    OkFrame(cols, [i \in DOMAIN f.rows |-> [f.rows[i] EXCEPT !.val = Restrict(@, cols)]])

\* Lexicographic order of keys (Null after everything) and the stable sort by a key.
KeyLess(a, b) == \E i \in DOMAIN a : a[i] < b[i] /\ \A j \in 1..(i - 1) : a[j] = b[j]
SortedBy(f, less(_, _)) ==
    LET before(i, j) == less(f.rows[i], f.rows[j]) \/ (~less(f.rows[j], f.rows[i]) /\ i < j)
        order == Enumerate(DOMAIN f.rows, before)
    IN  [f EXCEPT !.rows = [i \in DOMAIN f.rows |-> f.rows[order[i]]]]
SortBy(f, g) == SortedBy(f, LAMBDA r, t : KeyLess(Key(r, g), Key(t, g)))
SortWithin(f, g, c, dir) ==       \* group keys ascending, then one column either way, nulls last
    SortedBy(f, LAMBDA r, t : \/ KeyLess(Key(r, g), Key(t, g))
                              \/ /\ Key(r, g) = Key(t, g) /\ r.val[c] # Null
                                 /\ \/ t.val[c] = Null
                                    \/ IF dir = "asc" THEN r.val[c] < t.val[c] ELSE r.val[c] > t.val[c])

\* Rows of the group of row i, up to it or all; the groups in the order of their first rows.
Group(f, g, i)   == {j \in DOMAIN f.rows : Key(f.rows[j], g) = Key(f.rows[i], g)}
Firsts(f, g)     == {i \in DOMAIN f.rows : \A j \in Group(f, g, i) : i <= j}
Values(f, c, I)  == Pick(Column(f, c), I)
Origins(f, I)    == UNION {f.rows[i].from : i \in I}

-----------------------------------------------------------------------------
\* COMPARISONS; a missing value satisfies "ne" and "not_contains" only.
Compare(op, a, b) ==
    CASE op = "gt" -> a # Null /\ a > b   [] op = "ge" -> a # Null /\ a >= b
      [] op = "lt" -> a < b               [] op = "le" -> a <= b
      [] op \in {"eq", "contains"} -> a = b
      [] op \in {"ne", "not_contains"} -> a # b
Against(v, w) == IF IsNum(w) THEN Num(v) ELSE v       \* a numeric operand coerces the column
Satisfies(r, s) == Compare(s.comparison, Against(r.val[s.field], s.value), s.value)

Total(s) == LET upto[n \in 0..Len(s)] == IF n = 0 THEN 0 ELSE upto[n - 1] + s[n] IN upto[Len(s)]
\* _aggregate_series: what the opaque functions compute is a number or, without values, null.
Aggregate1(vals, fn) ==
    LET k == Known(vals)  n == Nums(vals)
    IN  CASE fn = "count" -> Len(k)
          [] fn = "count_distinct" -> Cardinality(ToSet(k))
          [] fn = "first" -> IF k = <<>> THEN Null ELSE k[1]
          [] fn = "last"  -> IF k = <<>> THEN Null ELSE k[Len(k)]
          [] fn = "sum"   -> Total(n)
          [] OTHER        -> IF n = <<>> THEN Null
                             ELSE CASE fn = "min" -> Min(ToSet(n))  [] fn = "max" -> Max(ToSet(n))  [] OTHER -> Opaque
AggValues(f, s, I) ==
    [c \in Outputs(s) |-> LET a == CHOOSE a \in ToSet(s.aggregations) : a.out = c
                          IN  Aggregate1(Values(f, a.field, I), a.fn)]

-----------------------------------------------------------------------------
\* Steps that keep, drop or reorder rows.

DropDuplicates(f, g, keep) ==
    KeepIndices(f, {i \in DOMAIN f.rows : \A j \in Group(f, g, i) : IF keep = "last" THEN j <= i ELSE j >= i})
Latest(f, s) == DropDuplicates(SortWithin(f, <<>>, s.order_by, s.direction), s.group_by,
                               IF s.direction = "asc" THEN "last" ELSE "first")
SelectFields(f, s) == Project(f, ToSet(s.fields))
RenameHeader(f, s) == [f EXCEPT !.cols = {IF c \in DOMAIN s.map THEN s.map[c] ELSE c : c \in f.cols}]
RenameFields(f, s) ==
    LET to(c) == IF c \in DOMAIN s.map THEN s.map[c] ELSE c
        cols  == {to(c) : c \in f.cols}
    IN  OkFrame(cols, [i \in DOMAIN f.rows |-> [f.rows[i] EXCEPT !.val =
            [d \in cols |-> @[CHOOSE c \in f.cols : to(c) = d]]]])
DropMissing(f, s) == KeepWhere(f, LAMBDA r : \A c \in ToSet(s.fields) : r.val[c] # Null)
FilterRows(f, s)  == KeepWhere(f, LAMBDA r : Satisfies(r, s))
FilterSet(f, s) ==
    LET allNumbers == \A v \in s.values : IsNum(v)
        member(v) == (IF allNumbers THEN Num(v) ELSE v) \in s.values
    IN  KeepWhere(f, LAMBDA r : member(r.val[s.field]) # s.negate)
FilterRange(f, s) ==
    KeepWhere(f, LAMBDA r : (Num(r.val[s.field]) \in s.lower..s.upper) # s.negate)
FilterNull(f, s)  == KeepWhere(f, LAMBDA r : (r.val[s.field] = Null) # s.negate)
SortRowsAscending(f, s) == SortWithin(f, <<>>, s.field, "asc")
SortRows(f, s)    == SortWithin(f, <<>>, s.field, s.direction)
LimitRows(f, s)   == KeepIndices(f, {i \in DOMAIN f.rows : i <= s.count})
\* The quantile s.value / 2 of the numbers, interpolated, in halves.
QuantileFilter(f, s) ==
    LET n == SortSeq(Nums(Column(f, s.field)), <)
        p == (Len(n) - 1) * s.value
        twice == n[(p \div 2) + 1] + n[((p + 1) \div 2) + 1]
    IN  IF n = <<>> THEN [f EXCEPT !.rows = <<>>]
        ELSE KeepWhere(f, LAMBDA r : LET v == Num(r.val[s.field])
                                     IN  v # Null /\ Compare(s.comparison, 2 * v, twice))
TopK(f, s) ==
    LET o == SortWithin(f, s.group_by, s.field, s.direction)
    IN  KeepIndices(o, {i \in DOMAIN o.rows : Cardinality({j \in Group(o, s.group_by, i) : j < i}) < s.count})

-----------------------------------------------------------------------------
\* Steps that add a column.

DeriveColumn(f, s) ==
    LET operand(r) == IF s.right_field # "" THEN Num(r.val[s.right_field]) ELSE s.value
        result(a, b) == IF a = Null \/ b = Null THEN Null
                        ELSE CASE s.arithmetic = "add" -> a + b       [] s.arithmetic = "subtract" -> a - b
                               [] s.arithmetic = "multiply" -> a * b  [] s.arithmetic = "constant_minus" -> b - a
                               [] OTHER -> Opaque
        zero == \E r \in ToSet(f.rows) : operand(r) = 0
    IN  IF s.arithmetic = "divide" /\ (IF s.right_field = "" THEN s.value = 0 ELSE zero) THEN Fails(f, "data")
        ELSE WithColumn(f, s.output, [i \in DOMAIN f.rows |->
                 result(Num(f.rows[i].val[s.field]), operand(f.rows[i]))])

\* Where a row's group has `back' earlier rows (later ones when negative), and, on request,
\* whether the two are that many market dates apart.
Dates(f, c) == Known(Enumerate(ToSet(Column(f, c)), <))
Rank1(f, c, v) == Cardinality({d \in ToSet(Dates(f, c)) : d < v})
At(f, s, i, back) ==
    {j \in Group(f, s.group_by, i) : IF back > 0 THEN j < i /\ Cardinality({k \in Group(f, s.group_by, i) : j <= k /\ k < i}) = back
                                     ELSE j > i /\ Cardinality({k \in Group(f, s.group_by, i) : i < k /\ k <= j}) = -back}
Apart(f, s, i, j, n) ==
    LET a == f.rows[i].val[s.order_by]  b == f.rows[j].val[s.order_by]
    IN  a # Null /\ b # Null /\ Rank1(f, s.order_by, a) - Rank1(f, s.order_by, b) = n

RollingColumn(f, s) ==
    LET o == SortBy(f, Append(s.group_by, s.order_by))
        last(i) == {j \in Group(o, s.group_by, i) :
                      j <= i /\ Cardinality({k \in Group(o, s.group_by, i) : j <= k /\ k < i}) < s.window}
        full(i) == \E j \in At(o, s, i, s.window - 1) : Apart(o, s, i, j, s.window - 1)
        value(i) == IF /\ Len(Nums(Values(o, s.field, last(i)))) >= s.min_periods
                       /\ s.consecutive => full(i)
                    THEN Opaque ELSE Null
    IN  WithColumn(o, s.output, [i \in DOMAIN o.rows |-> value(i)])

GroupTransform(f, s) ==
    WithColumn(f, s.output, [i \in DOMAIN f.rows |-> Aggregate1(
        [k \in DOMAIN Values(f, s.field, Group(f, s.group_by, i)) |->
            Num(Values(f, s.field, Group(f, s.group_by, i))[k])], s.fn)])
NormalizeColumn(f, s) ==
    LET spread(i) == Cardinality(ToSet(Nums(Values(f, s.field, Group(f, s.group_by, i))))) > 1
    IN  WithColumn(f, s.output, [i \in DOMAIN f.rows |->
            IF Num(f.rows[i].val[s.field]) # Null /\ (s.fn = "percentile" \/ spread(i)) THEN Opaque ELSE Null])
RankColumn(f, s) ==
    LET nums(i) == Nums(Values(f, s.field, Group(f, s.group_by, i)))
        ahead(n, v) == {k \in DOMAIN n : IF s.direction = "asc" THEN n[k] < v ELSE n[k] > v}
        rank(i, v) == IF v = Null THEN Null
                      ELSE 1 + Cardinality(IF s.op = "dense_rank" THEN {nums(i)[k] : k \in ahead(nums(i), v)}
                                           ELSE ahead(nums(i), v))
    IN  WithColumn(f, s.output, [i \in DOMAIN f.rows |-> rank(i, Num(f.rows[i].val[s.field]))])
RowNumber(f, s) ==
    LET o == SortWithin(f, s.group_by, s.order_by, s.direction)
    IN  WithColumn(o, s.output, [i \in DOMAIN o.rows |-> Cardinality({j \in Group(o, s.group_by, i) : j <= i})])

ShiftColumn(f, s) ==
    LET o == SortBy(f, Append(s.group_by, s.order_by))
        other(i) == {j \in At(o, s, i, s.periods) : s.consecutive => Apart(o, s, i, j, s.periods)}
        value(i) == IF other(i) = {} THEN Null
                    ELSE LET v == o.rows[CHOOSE j \in other(i) : TRUE].val[s.field]
                         IN  IF s.op = "shift" THEN v
                             ELSE IF Num(v) = Null \/ Num(o.rows[i].val[s.field]) = Null THEN Null ELSE Opaque
    IN  WithColumn(o, s.output, [i \in DOMAIN o.rows |-> value(i)])
CumulativeColumn(f, s) ==
    LET o == SortBy(f, Append(s.group_by, s.order_by))
        upto(i) == Nums(Values(o, s.field, {j \in Group(o, s.group_by, i) : j <= i}))
        value(i) == IF s.op = "cumulative_sum"
                    THEN IF Num(o.rows[i].val[s.field]) = Null THEN Null ELSE Aggregate1(upto(i), "sum")
                    ELSE IF Len(upto(i)) >= s.min_periods THEN Opaque ELSE Null
    IN  WithColumn(o, s.output, [i \in DOMAIN o.rows |-> value(i)])

\* match_at_offset: the row of the same group on the market date a number of sessions or
\* calendar days after this one; of two such rows the last.
MatchAtOffset(f, s) ==
    LET o == SortBy(f, Append(s.group_by, s.order_by))
        market == Dates(o, s.order_by)
        sessions(d) == Rank1(o, s.order_by, d) + 1 + s.periods
        later(d) == {m \in ToSet(market) : m >= d + s.periods}
        target(d) == IF d = Null THEN Null
                     ELSE IF s.unit = "trading_session"
                     THEN IF sessions(d) \in DOMAIN market THEN market[sessions(d)] ELSE Null
                     ELSE IF later(d) = {} THEN Null ELSE Min(later(d))
        found(i) == {j \in Group(o, s.group_by, i) : o.rows[j].val[s.order_by] = target(o.rows[i].val[s.order_by])}
        take(i, c) == IF found(i) = {} THEN Null ELSE o.rows[Max(found(i))].val[c]
    IN  WithColumn(WithColumn(o, s.output, [i \in DOMAIN o.rows |-> take(i, s.field)]),
                   s.matched, [i \in DOMAIN o.rows |-> take(i, s.order_by)])

CompareColumn(f, s) ==
    LET holds(r) == IF s.op = "compare_fields"
                    THEN LET a == Num(r.val[s.field])  b == Num(r.val[s.right_field])
                         IN  IF a = Null \/ b = Null THEN s.comparison = "ne" ELSE Compare(s.comparison, a, b)
                    ELSE Satisfies(r, s)
    IN  WithColumn(f, s.output, [i \in DOMAIN f.rows |-> IF holds(f.rows[i]) THEN 1 ELSE 0])
CleanColumn(f, s) ==
    LET clipped(v) == IF v = Null THEN Null ELSE IF s.lower # Null /\ v < s.lower THEN s.lower ELSE IF v > s.upper THEN s.upper ELSE v
        value(r) == CASE s.op = "coalesce" -> LET k == Known([i \in DOMAIN s.fields |-> r.val[s.fields[i]]])
                                              IN  IF k = <<>> THEN Null ELSE k[1]
                      [] s.op = "fill_constant" -> IF r.val[s.field] = Null THEN s.value ELSE r.val[s.field]
                      [] s.op = "clip" -> clipped(Num(r.val[s.field]))
                      [] s.op = "conditional_value" -> IF Satisfies(r, s) THEN s.upper ELSE s.lower
    IN  WithColumn(f, s.output, [i \in DOMAIN f.rows |-> value(f.rows[i])])

-----------------------------------------------------------------------------
\* Steps that make one row of many.

\* groupby().agg().reset_index(): a result named like a group key cannot be inserted.
AggregateRows(f, s) ==
    LET rep == SortBy(KeepIndices(f, Firsts(f, s.group_by)), s.group_by).rows
        all(r) == {i \in DOMAIN f.rows : Key(f.rows[i], s.group_by) = Key(r, s.group_by)}
        keys == ToSet(s.group_by)
    IN  IF keys \cap Outputs(s) # {} THEN Fails(f, "fields")
        ELSE OkFrame(keys \cup Outputs(s), [i \in DOMAIN rep |->
                [val |-> [c \in keys \cup Outputs(s) |->
                             IF c \in keys THEN rep[i].val[c] ELSE AggValues(f, s, all(rep[i]))[c]],
                 from |-> Origins(f, all(rep[i]))]])
WeightedMean(f, s) ==
    LET pairs(i) == {j \in Group(f, s.group_by, i) : Num(f.rows[j].val[s.field]) # Null /\ Num(f.rows[j].val[s.weight]) # Null}
        weight(i) == Aggregate1(Values(f, s.weight, pairs(i)), "sum")
        rep == KeepIndices(f, Firsts(f, s.group_by))
        negative == \E i \in DOMAIN f.rows : \E j \in pairs(i) : Num(f.rows[j].val[s.weight]) < 0
        all(r) == {i \in DOMAIN f.rows : Key(f.rows[i], s.group_by) = Key(r, s.group_by)}
        folded == [i \in DOMAIN rep.rows |-> [rep.rows[i] EXCEPT !.from = Origins(f, all(rep.rows[i]))]]
    IN  IF negative \/ \E i \in DOMAIN f.rows : weight(i) <= 0 THEN Fails(f, "data")
        ELSE WithColumn(Project([rep EXCEPT !.rows = folded], ToSet(s.group_by)),
                        s.output, [i \in DOMAIN folded |-> Opaque])
\* A period is two dates long and is named by its last one.
ResampleRows(f, s) ==
    LET ending(d) == 2 * (d \div 2) + 1
        dated == [f EXCEPT !.rows = [i \in DOMAIN f.rows |-> [f.rows[i] EXCEPT !.val[s.order_by] = ending(@)]]]
    IN  IF \E v \in ToSet(Column(f, s.order_by)) : ~IsNum(v) THEN Fails(f, "data")
        ELSE AggregateRows(dated, [s EXCEPT !.group_by = Append(@, s.order_by)])
Summarize(f, s) == OkFrame(Outputs(s), <<[val |-> AggValues(f, s, DOMAIN f.rows), from |-> Origins(f, DOMAIN f.rows)]>>)

-----------------------------------------------------------------------------
\* Steps that read another result; missing keys match missing keys.

Matches(r, right, keys) == {j \in DOMAIN right.rows : \A k \in ToSet(keys) : right.rows[j].val[k] = r.val[k]}
Distinct(f, keys) == \A i, j \in DOMAIN f.rows : i # j => Key(f.rows[i], keys) # Key(f.rows[j], keys)

MarkMatches(f, s, right) ==
    WithColumn(f, s.output, [i \in DOMAIN f.rows |-> IF Matches(f.rows[i], right, s.join_on) = {} THEN 0 ELSE 1])
SemiJoin(f, s, right) == KeepWhere(f, LAMBDA r : (Matches(r, right, s.join_on) # {}) = (s.op = "semi_join"))
KeySet(f, s, right) ==
    LET l == DropDuplicates(Project(f, ToSet(s.join_on)), s.join_on, "first")
    IN  KeepWhere(l, LAMBDA r : (Matches(r, right, s.join_on) # {}) = (s.op = "intersect_keys"))

\* inner_join and join_fields copy columns of every match; the keys are read from the right
\* result under the names the copied columns were given.
JoinColumns(f, s, right) ==
    LET cols == f.cols \cup Range(s.map)
        matches(i) == Matches(f.rows[i], right, s.join_on)
        pairs == {p \in (DOMAIN f.rows) \X (DOMAIN right.rows \cup {0}) :
                      IF p[2] = 0 THEN s.op = "join_fields" /\ matches(p[1]) = {} ELSE p[2] \in matches(p[1])}
        order == Enumerate(pairs, LAMBDA p, q : p[1] < q[1] \/ (p[1] = q[1] /\ p[2] < q[2]))
        value(p, c) == IF c \in f.cols THEN f.rows[p[1]].val[c] ELSE IF p[2] = 0 THEN Null
                       ELSE right.rows[p[2]].val[CHOOSE d \in DOMAIN s.map : s.map[d] = c]
        tooMany == \/ s.cardinality # "many_to_many" /\ ~Distinct(right, s.join_on)
                   \/ s.cardinality = "one_to_one" /\ ~Distinct(f, s.join_on)
    IN  IF tooMany THEN Fails(f, "data")
        ELSE IF ToSet(s.join_on) \cap DOMAIN s.map # {} THEN Fails(f, "fields")
        ELSE OkFrame(cols, [k \in 1..Cardinality(pairs) |->
                [val |-> [c \in cols |-> value(order[k], c)], from |-> f.rows[order[k][1]].from]])

\* asof_join copies columns of the nearest earlier row of the group within a tolerance; the
\* right time column is dropped by its name after the merge.
AsofJoin(f, s, right) ==
    LET cols == f.cols \cup Range(s.map)
        o == SortBy(f, <<s.order_by>> \o s.group_by)
        near(r) == {j \in Matches(r, right, s.group_by) :
                      /\ right.rows[j].val[s.right_order] <= r.val[s.order_by]
                      /\ r.val[s.order_by] - right.rows[j].val[s.right_order] <= s.count}
        best(r) == CHOOSE j \in near(r) : \A k \in near(r) :
                      \/ right.rows[k].val[s.right_order] < right.rows[j].val[s.right_order]
                      \/ right.rows[k].val[s.right_order] = right.rows[j].val[s.right_order] /\ k <= j
        value(r, c) == IF c \in f.cols THEN r.val[c] ELSE IF near(r) = {} THEN Null
                       ELSE right.rows[best(r)].val[CHOOSE d \in DOMAIN s.map : s.map[d] = c]
        untimed == \/ \E v \in ToSet(Column(f, s.order_by)) : ~IsNum(v)
                   \/ \E v \in ToSet(Column(right, s.right_order)) : ~IsNum(v)
        clash == s.right_order # s.order_by /\ s.right_order \in cols
    IN  IF untimed THEN Fails(f, "data") ELSE IF clash THEN Fails(f, "fields")
        ELSE OkFrame(cols, [i \in DOMAIN o.rows |-> [o.rows[i] EXCEPT !.val = [c \in cols |-> value(o.rows[i], c)]]])

\* union_all appends rows that come from no row of the source.
Foreign == 0
UnionRows(f, s, right) ==
    IF right.cols # f.cols THEN Fails(f, "fields")
    ELSE [f EXCEPT !.rows = @ \o [i \in DOMAIN right.rows |-> [right.rows[i] EXCEPT !.from = {Foreign}]]]
=============================================================================
