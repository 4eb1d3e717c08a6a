------------------------- MODULE ResultPipelineProofs -------------------------
(***************************************************************************)
(* Proofs about ResultPipeline, for any results of the queries, any steps  *)
(* a planner may write and pipelines of any length: an accepted step       *)
(* leaves the columns that the validator computed, and none of the columns *)
(* it names is missing; a constraint accepted as strictly enforced         *)
(* restricts every row of the result, as it would have at the source; and  *)
(* the executor's verification of a result refuses none that an accepted   *)
(* pipeline computed.                                                      *)
(***************************************************************************)
EXTENDS ResultPipeline, SequenceTheorems, FiniteSetTheorems, WellFoundedInduction, TLAPS

\* What is to be shown of a step that the validator accepts: its result is a frame, the columns
\* are the validator's, and only a collision of names refuses it for its fields.
Fits(g, s, cols) ==
    /\ IsFrame(g) /\ g.status \in {"ok", "fields", "data"}
    /\ g.status = "ok" => g.cols = cols
    /\ g.status = "fields" => Collides(s)

-----------------------------------------------------------------------------
\* Frames.

LEMMA Made ==
    ASSUME NEW cols, NEW rows
    PROVE  LET g == OkFrame(cols, rows) IN IsFrame(g) /\ g.status = "ok" /\ g.cols = cols /\ g.rows = rows
BY DEF OkFrame, IsFrame

LEMMA Rerowed ==
    ASSUME NEW f, IsFrame(f), NEW rows
    PROVE  LET g == [f EXCEPT !.rows = rows] IN IsFrame(g) /\ g.status = f.status /\ g.cols = f.cols
BY DEF IsFrame

LEMMA Failed ==
    ASSUME NEW f, IsFrame(f), NEW why
    PROVE  LET g == Fails(f, why) IN IsFrame(g) /\ g.status = why
BY DEF IsFrame, Fails

LEMMA KeepsSome ==
    ASSUME NEW f, IsFrame(f), NEW I
    PROVE  LET g == KeepIndices(f, I) IN IsFrame(g) /\ g.status = f.status /\ g.cols = f.cols
BY Rerowed DEF KeepIndices

LEMMA Sorts ==
    ASSUME NEW f, IsFrame(f), NEW g, NEW c, NEW dir
    PROVE  /\ IsFrame(SortBy(f, g)) /\ SortBy(f, g).status = f.status /\ SortBy(f, g).cols = f.cols
           /\ LET o == SortWithin(f, g, c, dir) IN IsFrame(o) /\ o.status = f.status /\ o.cols = f.cols
BY Rerowed DEF SortBy, SortWithin, SortedBy

LEMMA Widened ==
    ASSUME NEW f, NEW c, NEW vals
    PROVE  LET g == WithColumn(f, c, vals) IN IsFrame(g) /\ g.status = "ok" /\ g.cols = f.cols \cup {c}
BY Made DEF WithColumn

LEMMA Narrowed ==
    ASSUME NEW f, NEW cols
    PROVE  LET g == Project(f, cols) IN IsFrame(g) /\ g.status = "ok" /\ g.cols = cols
BY Made DEF Project

-----------------------------------------------------------------------------
\* The validator's fields, by operation.

Plain == RowSteps \ {"select_fields", "rename_fields", "aggregate", "weighted_mean", "resample", "summarize"}

LEMMA PlainKeeps ==
    ASSUME NEW s, NEW cols, s.op \in Plain \cup {"semi_join", "anti_join", "union_all"}
    PROVE  Leaves(s, cols) = cols
<1>1. New(s) = {}
    BY DEF New, Plain, RowSteps, Copies, Adding, Rolling, Shifts, Cumulative, Members
<1>2. Kept(s, cols) = cols
    BY DEF Kept, Plain, RowSteps
<1> QED BY <1>1, <1>2 DEF Leaves, Plain, RowSteps

LEMMA AddingAdds ==
    ASSUME NEW s, NEW cols, s.op \in Adding
    PROVE  Leaves(s, cols) = cols \cup (IF s.op = "match_at_offset" THEN {s.output, s.matched} ELSE {s.output})
<1>1. New(s) = IF s.op = "match_at_offset" THEN {s.output, s.matched} ELSE {s.output}
    <2>1. CASE s.op = "match_at_offset"
        BY <2>1 DEF New, Copies
    <2>2. CASE s.op # "match_at_offset"
        <3>1. s.op \notin Copies \cup {"asof_join"}
            BY DEF Copies, Adding, Rolling, Shifts, Cumulative, Members
        <3>2. s.op \in (Adding \ {"match_at_offset"}) \cup {"weighted_mean"} /\ s.op # "rename_fields"
            BY <2>2 DEF Adding, Rolling, Shifts, Cumulative, Members
        <3> QED BY <2>2, <3>1, <3>2 DEF New
    <2> QED BY <2>1, <2>2
<1>2. Kept(s, cols) = cols
    BY DEF Kept, Adding, Rolling, Shifts, Cumulative, Members
<1> QED BY <1>1, <1>2 DEF Leaves, Adding, Rolling, Shifts, Cumulative, Members

LEMMA CopiesCopy ==
    ASSUME NEW s, NEW cols, s.op \in Copies \cup {"asof_join"}
    PROVE  Leaves(s, cols) = cols \cup Range(s.map)
<1>1. New(s) = Range(s.map)
    <2>1. s.op # "match_at_offset"
        BY DEF Copies
    <2>2. s.op \notin Adding \cup {"weighted_mean", "rename_fields"}
        BY DEF Copies, Adding, Rolling, Shifts, Cumulative, Members
    <2> QED BY <2>1, <2>2 DEF New
<1>2. Kept(s, cols) = cols
    BY DEF Kept, Copies
<1> QED BY <1>1, <1>2 DEF Leaves, Copies

LEMMA OthersLeave ==
    ASSUME NEW s, NEW cols
    PROVE  /\ s.op = "select_fields" => Leaves(s, cols) = ToSet(s.fields)
           /\ s.op \in {"intersect_keys", "except_keys"} => Leaves(s, cols) = ToSet(s.join_on)
           /\ s.op = "weighted_mean" => Leaves(s, cols) = ToSet(s.group_by) \cup {s.output}
           /\ s.op = "aggregate" => Leaves(s, cols) = ToSet(s.group_by) \cup Outputs(s)
           /\ s.op = "resample" => Leaves(s, cols) = ToSet(s.group_by) \cup {s.order_by} \cup Outputs(s)
           /\ s.op = "summarize" => Leaves(s, cols) = Outputs(s)
           /\ s.op = "rename_fields" => Leaves(s, cols) = (cols \ DOMAIN s.map) \cup Range(s.map)
<1>1. s.op = "rename_fields" => New(s) = Range(s.map) /\ Kept(s, cols) = cols \ DOMAIN s.map
    BY DEF New, Kept, Copies, Adding, Rolling, Shifts, Cumulative, Members
<1> QED BY <1>1 DEF Leaves

-----------------------------------------------------------------------------
\* The steps that read one frame.

LEMMA PlainFits ==
    ASSUME NEW f, IsFrame(f), f.status = "ok", NEW s, s.op \in Plain
    PROVE  LET g == Rowwise(f, s) IN IsFrame(g) /\ g.status = "ok" /\ g.cols = f.cols
<1>1. CASE s.op = "latest_by_group"
    <2>1. Rowwise(f, s) = Latest(f, s)
        BY <1>1 DEF Rowwise
    <2> QED BY <2>1, KeepsSome, Sorts DEF Latest, DropDuplicates
<1>2. CASE s.op = "distinct"
    <2>1. Rowwise(f, s) = DropDuplicates(f, s.fields, s.keep)
        BY <1>2 DEF Rowwise
    <2> QED BY <2>1, KeepsSome DEF DropDuplicates
<1>3. CASE s.op = "drop_missing"
    <2>1. Rowwise(f, s) = DropMissing(f, s)
        BY <1>3 DEF Rowwise
    <2> QED BY <2>1, KeepsSome DEF DropMissing, KeepWhere
<1>4. CASE s.op \in {"filter", "having"}
    <2>1. Rowwise(f, s) = FilterRows(f, s)
        BY <1>4 DEF Rowwise
    <2> QED BY <2>1, KeepsSome DEF FilterRows, KeepWhere
<1>5. CASE s.op = "filter_set"
    <2>1. Rowwise(f, s) = FilterSet(f, s)
        BY <1>5 DEF Rowwise
    <2> QED BY <2>1, KeepsSome DEF FilterSet, KeepWhere
<1>6. CASE s.op = "filter_range"
    <2>1. Rowwise(f, s) = FilterRange(f, s)
        BY <1>6 DEF Rowwise
    <2> QED BY <2>1, KeepsSome DEF FilterRange, KeepWhere
<1>7. CASE s.op = "filter_null"
    <2>1. Rowwise(f, s) = FilterNull(f, s)
        BY <1>7 DEF Rowwise
    <2> QED BY <2>1, KeepsSome DEF FilterNull, KeepWhere
<1>8. CASE s.op = "sort"
    <2>1. Rowwise(f, s) = SortRows(f, s)
        BY <1>8 DEF Rowwise
    <2> QED BY <2>1, Sorts DEF SortRows
<1>9. CASE s.op = "limit"
    <2>1. Rowwise(f, s) = LimitRows(f, s)
        BY <1>9 DEF Rowwise
    <2> QED BY <2>1, KeepsSome DEF LimitRows
<1>10. CASE s.op = "quantile_filter"
    <2>1. Rowwise(f, s) = QuantileFilter(f, s)
        BY <1>10 DEF Rowwise
    <2>2. \A rows : LET g == [f EXCEPT !.rows = rows] IN IsFrame(g) /\ g.status = "ok" /\ g.cols = f.cols
        BY Rerowed
    <2>3. \E rows : QuantileFilter(f, s) = [f EXCEPT !.rows = rows]
        BY Zenon DEF QuantileFilter, KeepWhere, KeepIndices
    <2> QED BY <2>1, <2>2, <2>3
<1>11. CASE s.op = "top_k_by_group"
    <2>1. Rowwise(f, s) = TopK(f, s)
        BY <1>11 DEF Rowwise
    <2> QED BY <2>1, KeepsSome, Sorts DEF TopK
<1> QED BY <1>1, <1>2, <1>3, <1>4, <1>5, <1>6, <1>7, <1>8, <1>9, <1>10, <1>11 DEF Plain, RowSteps

LEMMA Aggregates ==
    ASSUME NEW f, IsFrame(f), NEW s
    PROVE  LET g == AggregateRows(f, s)
           IN  /\ IsFrame(g)
               /\ ToSet(s.group_by) \cap Outputs(s) = {} => g.status = "ok" /\ g.cols = ToSet(s.group_by) \cup Outputs(s)
               /\ ToSet(s.group_by) \cap Outputs(s) # {} => g.status = "fields"
<1>1. CASE ToSet(s.group_by) \cap Outputs(s) # {}
    <2>1. AggregateRows(f, s) = Fails(f, "fields")
        BY <1>1 DEF AggregateRows
    <2> QED BY <1>1, <2>1, Failed
<1>2. CASE ToSet(s.group_by) \cap Outputs(s) = {}
    <2>1. \E rows : AggregateRows(f, s) = OkFrame(ToSet(s.group_by) \cup Outputs(s), rows)
        BY <1>2, Zenon DEF AggregateRows
    <2>2. \A rows : LET g == OkFrame(ToSet(s.group_by) \cup Outputs(s), rows)
                    IN  IsFrame(g) /\ g.status = "ok" /\ g.cols = ToSet(s.group_by) \cup Outputs(s)
        BY Made
    <2> QED BY <1>2, <2>1, <2>2
<1> QED BY <1>1, <1>2

\* resample groups by the key columns and the date.
LEMMA DatedStep ==
    ASSUME NEW s \in Steps
    PROVE  LET d == [s EXCEPT !.group_by = Append(@, s.order_by)]
           IN  ToSet(d.group_by) = ToSet(s.group_by) \cup {s.order_by} /\ Outputs(d) = Outputs(s)
<1> DEFINE d == [s EXCEPT !.group_by = Append(@, s.order_by)]
<1>1. s.group_by \in Seq(STRING) /\ "group_by" \in DOMAIN s
    BY StepsAreTyped DEF NoStep
<1>2. d.group_by = Append(s.group_by, s.order_by) /\ d.aggregations = s.aggregations
    BY <1>1
<1>3. ToSet(Append(s.group_by, s.order_by)) = ToSet(s.group_by) \cup {s.order_by}
    <2> DEFINE g == s.group_by
               e == s.order_by
    <2>1. g \in Seq(STRING \cup {e}) /\ e \in STRING \cup {e}
        BY <1>1
    <2>2. /\ Len(Append(g, e)) = Len(g) + 1 /\ Len(g) \in Nat /\ Append(g, e) \in Seq(STRING \cup {e})
          /\ \A i \in 1..Len(g) : Append(g, e)[i] = g[i]
          /\ Append(g, e)[Len(g) + 1] = e
        <3> HIDE DEF g, e
        <3> QED BY <2>1, AppendProperties, LenProperties
    <2>3. DOMAIN Append(g, e) = 1..(Len(g) + 1) /\ DOMAIN g = 1..Len(g)
        <3> HIDE DEF g, e
        <3> QED BY <2>1, <2>2, LenProperties
    <2> HIDE DEF g, e
    <2>4. 1..(Len(g) + 1) = (1..Len(g)) \cup {Len(g) + 1}
        BY <2>2
    <2>5. ToSet(Append(g, e)) = ToSet(g) \cup {e}
        BY <2>2, <2>3, <2>4 DEF ToSet
    <2> QED BY <2>5 DEF g, e
<1> QED BY <1>2, <1>3 DEF Outputs

LEMMA RowsFit ==
    ASSUME NEW f, IsFrame(f), f.status = "ok", NEW s \in Steps, s.op \in RowSteps, WellFormed(s), Read(s) \subseteq f.cols
    PROVE  Fits(Rowwise(f, s), s, Leaves(s, f.cols))
<1>1. CASE s.op \in Plain
    BY <1>1, PlainFits, PlainKeeps DEF Fits
<1>2. CASE s.op = "select_fields"
    <2>1. Rowwise(f, s) = SelectFields(f, s)
        BY <1>2 DEF Rowwise
    <2> QED BY <1>2, <2>1, Narrowed, OthersLeave DEF SelectFields, Fits
<1>3. CASE s.op = "rename_fields"
    <2>1. Rowwise(f, s) = RenameFields(f, s)
        BY <1>3 DEF Rowwise
    <2>2. DOMAIN s.map \subseteq f.cols
        BY <1>3 DEF Read, Copies
    <2> DEFINE cols == {IF c \in DOMAIN s.map THEN s.map[c] ELSE c : c \in f.cols}
    <2>3. \E rows : RenameFields(f, s) = OkFrame(cols, rows)
        BY Zenon DEF RenameFields
    <2>4. cols = (f.cols \ DOMAIN s.map) \cup Range(s.map)
        BY <2>2 DEF Range
    <2>5. Leaves(s, f.cols) = cols
        BY <1>3, <2>4, OthersLeave
    <2> HIDE DEF cols
    <2>6. PICK rows : Rowwise(f, s) = OkFrame(cols, rows)
        BY <2>1, <2>3
    <2> QED BY <2>5, <2>6, Made DEF Fits
<1>4. CASE s.op = "aggregate"
    <2>1. Rowwise(f, s) = AggregateRows(f, s)
        BY <1>4 DEF Rowwise
    <2>2. ToSet(s.group_by) \cap Outputs(s) # {} => Collides(s)
        BY <1>4 DEF Collides
    <2>3. Leaves(s, f.cols) = ToSet(s.group_by) \cup Outputs(s)
        BY <1>4, OthersLeave
    <2> DEFINE g == AggregateRows(f, s)
    <2>4. /\ IsFrame(g)
          /\ ToSet(s.group_by) \cap Outputs(s) = {} => g.status = "ok" /\ g.cols = ToSet(s.group_by) \cup Outputs(s)
          /\ ToSet(s.group_by) \cap Outputs(s) # {} => g.status = "fields"
        BY Aggregates
    <2> HIDE DEF g
    <2> QED BY <2>1, <2>2, <2>3, <2>4 DEF Fits, g
<1>5. CASE s.op = "weighted_mean"
    <2>1. Rowwise(f, s) = WeightedMean(f, s)
        BY <1>5 DEF Rowwise
    <2>2. \/ WeightedMean(f, s) = Fails(f, "data")
          \/ \E g, vals : WeightedMean(f, s) = WithColumn(Project(g, ToSet(s.group_by)), s.output, vals)
        BY Zenon DEF WeightedMean
    <2>3. Leaves(s, f.cols) = ToSet(s.group_by) \cup {s.output}
        BY <1>5, OthersLeave
    <2>4. CASE WeightedMean(f, s) = Fails(f, "data")
        BY <2>1, <2>4, Failed DEF Fits
    <2>5. CASE \E g, vals : WeightedMean(f, s) = WithColumn(Project(g, ToSet(s.group_by)), s.output, vals)
        <3>1. PICK g, vals : WeightedMean(f, s) = WithColumn(Project(g, ToSet(s.group_by)), s.output, vals)
            BY <2>5
        <3>2. Project(g, ToSet(s.group_by)).cols = ToSet(s.group_by)
            BY Narrowed
        <3> QED BY <2>1, <2>3, <3>1, <3>2, Widened DEF Fits
    <2> QED BY <2>2, <2>4, <2>5
<1>6. CASE s.op = "resample"
    <2> DEFINE d == [s EXCEPT !.group_by = Append(@, s.order_by)]
    <2>1. Rowwise(f, s) = ResampleRows(f, s)
        BY <1>6 DEF Rowwise
    <2>2. \/ ResampleRows(f, s) = Fails(f, "data")
          \/ \E rows : ResampleRows(f, s) = AggregateRows([f EXCEPT !.rows = rows], d)
        BY Zenon DEF ResampleRows
    <2>3. (ToSet(s.group_by) \cup {s.order_by}) \cap Outputs(s) = {}
        BY <1>6 DEF WellFormed, Consistent
    <2>4. ToSet(d.group_by) = ToSet(s.group_by) \cup {s.order_by} /\ Outputs(d) = Outputs(s)
        BY DatedStep
    <2>5. \A rows : LET g == AggregateRows([f EXCEPT !.rows = rows], d)
                    IN  IsFrame(g) /\ g.status = "ok" /\ g.cols = ToSet(d.group_by) \cup Outputs(d)
        <3> TAKE rows
        <3>1. IsFrame([f EXCEPT !.rows = rows])
            BY Rerowed
        <3> HIDE DEF d
        <3> QED BY <2>3, <2>4, <3>1, Aggregates
    <2>6. Leaves(s, f.cols) = ToSet(d.group_by) \cup Outputs(d)
        BY <1>6, <2>4, OthersLeave
    <2> HIDE DEF d
    <2>7. CASE ResampleRows(f, s) = Fails(f, "data")
        BY <2>1, <2>7, Failed DEF Fits
    <2>8. CASE \E rows : ResampleRows(f, s) = AggregateRows([f EXCEPT !.rows = rows], d)
        <3>1. PICK rows : ResampleRows(f, s) = AggregateRows([f EXCEPT !.rows = rows], d)
            BY <2>8
        <3> QED BY <2>1, <2>5, <2>6, <3>1 DEF Fits
    <2> QED BY <2>2, <2>7, <2>8
<1>7. CASE s.op = "summarize"
    <2>1. Rowwise(f, s) = Summarize(f, s)
        BY <1>7 DEF Rowwise
    <2> QED BY <1>7, <2>1, Made, OthersLeave DEF Summarize, Fits
<1> QED BY <1>1, <1>2, <1>3, <1>4, <1>5, <1>6, <1>7 DEF Plain, RowSteps

-----------------------------------------------------------------------------
\* The steps that add a column.

LEMMA AddedFits ==
    ASSUME NEW f, NEW s, s.op \in Adding, s.op # "match_at_offset",
           NEW o, o.cols = f.cols, NEW vals
    PROVE  Fits(WithColumn(o, s.output, vals), s, Leaves(s, f.cols))
<1>1. Leaves(s, f.cols) = f.cols \cup {s.output}
    BY AddingAdds
<1>2. LET g == WithColumn(o, s.output, vals) IN IsFrame(g) /\ g.status = "ok" /\ g.cols = o.cols \cup {s.output}
    BY Widened
<1> QED BY <1>1, <1>2 DEF Fits

LEMMA AddsFit ==
    ASSUME NEW f, IsFrame(f), f.status = "ok", NEW s, s.op \in Adding \ Members
    PROVE  Fits(AddColumn(f, s), s, Leaves(s, f.cols))
<1> DEFINE Adds(g) == \E o, vals : o.cols = f.cols /\ g = WithColumn(o, s.output, vals)
           Sorted == SortBy(f, Append(s.group_by, s.order_by))
<1>0. Sorted.cols = f.cols
    BY Sorts
<1>1. ASSUME s.op # "match_at_offset", Adds(AddColumn(f, s))
      PROVE  Fits(AddColumn(f, s), s, Leaves(s, f.cols))
    BY <1>1, AddedFits
<1>2. CASE s.op = "derive"
    <2>1. AddColumn(f, s) = DeriveColumn(f, s)
        BY <1>2 DEF AddColumn, Rolling, Shifts, Cumulative
    <2>2. DeriveColumn(f, s) = Fails(f, "data") \/ Adds(DeriveColumn(f, s))
        BY Zenon DEF DeriveColumn
    <2>3. CASE DeriveColumn(f, s) = Fails(f, "data")
        BY <2>1, <2>3, Failed DEF Fits
    <2> QED BY <1>1, <1>2, <2>1, <2>2, <2>3
<1>3. CASE s.op \in Rolling
    <2>1. AddColumn(f, s) = RollingColumn(f, s)
        BY <1>3 DEF AddColumn, Rolling, Shifts, Cumulative
    <2>2. Adds(RollingColumn(f, s))
        BY <1>0, Zenon DEF RollingColumn
    <2> QED BY <1>1, <1>3, <2>1, <2>2 DEF Rolling
<1>4. CASE s.op = "group_transform"
    <2>1. AddColumn(f, s) = GroupTransform(f, s)
        BY <1>4 DEF AddColumn, Rolling, Shifts, Cumulative
    <2>2. Adds(GroupTransform(f, s))
        BY Zenon DEF GroupTransform
    <2> QED BY <1>1, <1>4, <2>1, <2>2
<1>5. CASE s.op = "normalize"
    <2>1. AddColumn(f, s) = NormalizeColumn(f, s)
        BY <1>5 DEF AddColumn, Rolling, Shifts, Cumulative
    <2>2. Adds(NormalizeColumn(f, s))
        BY Zenon DEF NormalizeColumn
    <2> QED BY <1>1, <1>5, <2>1, <2>2
<1>6. CASE s.op \in {"rank", "dense_rank"}
    <2>1. AddColumn(f, s) = RankColumn(f, s)
        BY <1>6 DEF AddColumn, Rolling, Shifts, Cumulative
    <2>2. Adds(RankColumn(f, s))
        BY Zenon DEF RankColumn
    <2> QED BY <1>1, <1>6, <2>1, <2>2
<1>7. CASE s.op = "row_number"
    <2>1. AddColumn(f, s) = RowNumber(f, s)
        BY <1>7 DEF AddColumn, Rolling, Shifts, Cumulative
    <2>2. Adds(RowNumber(f, s))
        <3>1. SortWithin(f, s.group_by, s.order_by, s.direction).cols = f.cols
            BY Sorts
        <3> QED BY <3>1, Zenon DEF RowNumber
    <2> QED BY <1>1, <1>7, <2>1, <2>2
<1>8. CASE s.op \in Shifts
    <2>1. AddColumn(f, s) = ShiftColumn(f, s)
        BY <1>8 DEF AddColumn, Rolling, Shifts, Cumulative
    <2>2. Adds(ShiftColumn(f, s))
        BY <1>0, Zenon DEF ShiftColumn
    <2> QED BY <1>1, <1>8, <2>1, <2>2 DEF Shifts
<1>9. CASE s.op \in Cumulative
    <2>1. AddColumn(f, s) = CumulativeColumn(f, s)
        BY <1>9 DEF AddColumn, Rolling, Shifts, Cumulative
    <2>2. Adds(CumulativeColumn(f, s))
        BY <1>0, Zenon DEF CumulativeColumn
    <2> QED BY <1>1, <1>9, <2>1, <2>2 DEF Cumulative
<1>10. CASE s.op = "match_at_offset"
    <2>1. AddColumn(f, s) = MatchAtOffset(f, s)
        BY <1>10 DEF AddColumn, Rolling, Shifts, Cumulative
    <2>2. PICK first, second : MatchAtOffset(f, s) = WithColumn(WithColumn(Sorted, s.output, first), s.matched, second)
        BY Zenon DEF MatchAtOffset
    <2>3. WithColumn(Sorted, s.output, first).cols = f.cols \cup {s.output}
        BY <1>0, Widened
    <2>4. Leaves(s, f.cols) = f.cols \cup {s.output, s.matched}
        BY <1>10, AddingAdds
    <2> HIDE DEF Sorted
    <2> QED BY <2>1, <2>2, <2>3, <2>4, Widened DEF Fits
<1>11. CASE s.op \in {"compare_fields", "compare_scalar"}
    <2>1. AddColumn(f, s) = CompareColumn(f, s)
        BY <1>11 DEF AddColumn, Rolling, Shifts, Cumulative
    <2>2. Adds(CompareColumn(f, s))
        BY Zenon DEF CompareColumn
    <2> QED BY <1>1, <1>11, <2>1, <2>2
<1>12. CASE s.op \in {"coalesce", "fill_constant", "clip", "conditional_value"}
    <2>1. AddColumn(f, s) = CleanColumn(f, s)
        BY <1>12 DEF AddColumn, Rolling, Shifts, Cumulative
    <2>2. Adds(CleanColumn(f, s))
        BY Zenon DEF CleanColumn
    <2> QED BY <1>1, <1>12, <2>1, <2>2
<1> QED BY <1>2, <1>3, <1>4, <1>5, <1>6, <1>7, <1>8, <1>9, <1>10, <1>11, <1>12 DEF Adding

-----------------------------------------------------------------------------
\* The steps that read another result.

LEMMA CombinesFit ==
    ASSUME NEW f, IsFrame(f), f.status = "ok", NEW s, s.op \in RightOps,
           NEW right, s.op = "union_all" => right.cols = f.cols
    PROVE  Fits(Combine(f, s, right), s, Leaves(s, f.cols))
<1>1. CASE s.op \in Members
    <2>1. Combine(f, s, right) = MarkMatches(f, s, right)
        BY <1>1 DEF Combine, Members, Copies
    <2>2. s.op \in Adding /\ s.op # "match_at_offset"
        BY <1>1 DEF Adding, Members
    <2>3. \E vals : MarkMatches(f, s, right) = WithColumn(f, s.output, vals)
        BY Zenon DEF MarkMatches
    <2> QED BY <2>1, <2>2, <2>3, AddedFits
<1>2. CASE s.op \in {"semi_join", "anti_join"}
    <2>1. Combine(f, s, right) = SemiJoin(f, s, right)
        BY <1>2 DEF Combine, Members, Copies
    <2>2. Leaves(s, f.cols) = f.cols
        BY <1>2, PlainKeeps
    <2> QED BY <2>1, <2>2, KeepsSome DEF SemiJoin, KeepWhere, Fits
<1>3. CASE s.op \in {"intersect_keys", "except_keys"}
    <2> DEFINE p == Project(f, ToSet(s.join_on))
               l == DropDuplicates(p, s.join_on, "first")
    <2>1. Combine(f, s, right) = KeySet(f, s, right)
        BY <1>3 DEF Combine, Members, Copies
    <2>2. Leaves(s, f.cols) = ToSet(s.join_on)
        BY <1>3, OthersLeave
    <2>3. IsFrame(p) /\ p.status = "ok" /\ p.cols = ToSet(s.join_on)
        BY Narrowed
    <2>4. IsFrame(l) /\ l.status = "ok" /\ l.cols = ToSet(s.join_on)
        <3> HIDE DEF p
        <3> QED BY <2>3, KeepsSome DEF DropDuplicates
    <2>5. \E rows : KeySet(f, s, right) = [l EXCEPT !.rows = rows]
        BY Zenon DEF KeySet, KeepWhere, KeepIndices
    <2> HIDE DEF l
    <2> QED BY <2>1, <2>2, <2>4, <2>5, Rerowed DEF Fits
<1>4. CASE s.op \in Copies
    <2>1. Combine(f, s, right) = JoinColumns(f, s, right)
        BY <1>4 DEF Combine, Members, Copies
    <2>2. \/ JoinColumns(f, s, right) = Fails(f, "data")
          \/ JoinColumns(f, s, right) = Fails(f, "fields") /\ ToSet(s.join_on) \cap DOMAIN s.map # {}
          \/ \E rows : JoinColumns(f, s, right) = OkFrame(f.cols \cup Range(s.map), rows)
        BY Zenon DEF JoinColumns
    <2>3. Leaves(s, f.cols) = f.cols \cup Range(s.map)
        BY <1>4, CopiesCopy
    <2> QED BY <1>4, <2>1, <2>2, <2>3, Failed, Made DEF Fits, Collides
<1>5. CASE s.op = "asof_join"
    <2>1. Combine(f, s, right) = AsofJoin(f, s, right)
        BY <1>5 DEF Combine, Members, Copies
    <2>2. \/ AsofJoin(f, s, right) = Fails(f, "data")
          \/ AsofJoin(f, s, right) = Fails(f, "fields") /\ s.right_order # s.order_by
          \/ \E rows : AsofJoin(f, s, right) = OkFrame(f.cols \cup Range(s.map), rows)
        BY Zenon DEF AsofJoin
    <2>3. Leaves(s, f.cols) = f.cols \cup Range(s.map)
        BY <1>5, CopiesCopy
    <2> QED BY <1>5, <2>1, <2>2, <2>3, Failed, Made DEF Fits, Collides
<1>6. CASE s.op = "union_all"
    <2>1. Combine(f, s, right) = UnionRows(f, s, right)
        BY <1>6 DEF Combine, Members, Copies
    <2>2. Leaves(s, f.cols) = f.cols
        BY <1>6, PlainKeeps
    <2> QED BY <1>6, <2>1, <2>2, Rerowed DEF UnionRows, Fits
<1> QED BY <1>1, <1>2, <1>3, <1>4, <1>5, <1>6 DEF RightOps, KeyJoins

-----------------------------------------------------------------------------
\* An accepted step finds every column it names, so it is refused for its fields only where it
\* collides, and leaves what the validator computed.
LEMMA AcceptedIsReadable ==
    ASSUME NEW f, NEW s, NEW aggregated, Accepts(s, f.cols, aggregated, ResultFields)
    PROVE  ~Unreadable(f, s)
<1>1. Read(s) \subseteq f.cols
    BY DEF Accepts, Needed
<1>2. s.op \in RightOps => RightNeeded(s) \subseteq RightFields(s)
    BY DEF Accepts, ResultFields, RightFields
<1>3. s.op \in Members \cup Copies \cup {"asof_join"} => New(s) \cap f.cols = {}
    <2>1. New(s) \cap Kept(s, f.cols) = {}
        BY DEF Accepts, NewIsNew
    <2>2. s.op \in Members \cup Copies \cup {"asof_join"} => Kept(s, f.cols) = f.cols
        BY DEF Kept, Members, Copies
    <2> QED BY <2>1, <2>2
<1> QED BY <1>1, <1>2, <1>3 DEF Unreadable

LEMMA AcceptedFits ==
    ASSUME NEW f, IsFrame(f), f.status = "ok", NEW s \in Steps, NEW aggregated,
           Accepts(s, f.cols, aggregated, ResultFields)
    PROVE  Fits(Execute(f, s), s, Leaves(s, f.cols))
<1>1. ~Unreadable(f, s)
    BY AcceptedIsReadable
<1>2. s.op \in Operations
    BY StepsAreTyped
<1>3. CASE s.op \in RightOps
    <2>1. CASE s.right \in Succeeded
        <3>1. s.op = "union_all" => Results[s.right].cols = f.cols
            BY <1>3 DEF Accepts, ResultFields
        <3>2. Execute(f, s) = Combine(f, s, Results[s.right])
            BY <1>1, <1>3, <2>1 DEF Execute
        <3> QED BY <1>3, <3>1, <3>2, CombinesFit
    <2>2. CASE s.right \notin Succeeded
        <3>1. Execute(f, s) = Fails(f, "data")
            BY <1>1, <1>3, <2>2 DEF Execute
        <3> QED BY <3>1, Failed DEF Fits
    <2> QED BY <2>1, <2>2
<1>4. CASE s.op \in Adding \ RightOps
    <2>1. Execute(f, s) = AddColumn(f, s)
        BY <1>1, <1>4 DEF Execute
    <2> QED BY <1>4, <2>1, AddsFit DEF RightOps
<1>5. CASE s.op \notin Adding \cup RightOps
    <2>1. Execute(f, s) = Rowwise(f, s)
        BY <1>1, <1>5 DEF Execute
    <2>2. s.op \in RowSteps /\ WellFormed(s) /\ Read(s) \subseteq f.cols
        BY <1>2, <1>5 DEF Operations, Accepts, Needed
    <2> QED BY <2>1, <2>2, RowsFit
<1> QED BY <1>3, <1>4, <1>5

\* The inductive invariant: FieldsAsValidated, of a frame.
IInv ==
    /\ steps \in Seq(Steps)
    /\ IsFrame(frame) /\ frame.status \in {"ok", "fields", "data"}
    /\ FieldsAsValidated

LEMMA Starts == Init => IInv
<1> SUFFICES ASSUME Init PROVE IInv
    OBVIOUS
<1>1. IsFrame(Results[SourceQuery]) /\ Results[SourceQuery].status = "ok"
    BY QueriesArePlanned, ResultsAreFrames
<1>2. IsFrame(Source) /\ Source.status = "ok"
    BY <1>1, Rerowed DEF Source
<1> QED BY <1>2 DEF Init, IInv, FieldsAsValidated

LEMMA Continues == IInv /\ [Next]_vars => IInv'
<1> SUFFICES ASSUME IInv, [Next]_vars PROVE IInv'
    OBVIOUS
<1>1. CASE RunStep
    <2>1. PICK s \in Steps : /\ frame.status = "ok" /\ Accepts(s, available, lineage.aggregated, ResultFields)
                             /\ available' = Leaves(s, available) /\ frame' = Execute(frame, s)
                             /\ steps' = Append(steps, s)
        BY <1>1 DEF RunStep
    <2>2. frame.cols = available /\ IsFrame(frame) /\ steps \in Seq(Steps)
        BY <2>1 DEF IInv, FieldsAsValidated
    <2>3. Fits(frame', s, available')
        BY <2>1, <2>2, AcceptedFits
    <2>4. steps' \in Seq(Steps) /\ steps'[Len(steps')] = s
        BY <2>1, <2>2
    <2> QED BY <2>3, <2>4 DEF IInv, FieldsAsValidated, Fits
<1>2. CASE UNCHANGED vars
    BY <1>2 DEF vars, IInv, FieldsAsValidated, IsFrame
<1> QED BY <1>1, <1>2 DEF Next

\* The frame of an accepted pipeline, of any length, over any results, has exactly the fields
\* that the validator computed for it, and no step is refused at run time for a field, except
\* for the named collisions: _validate_result_pipeline foresees _execute_step.
THEOREM LineageIsExact == Spec => []FieldsAsValidated
<1>1. IInv => FieldsAsValidated
    BY DEF IInv
<1> QED BY <1>1, Starts, Continues, PTL DEF Spec

-----------------------------------------------------------------------------
\* FINITE SETS IN AN ORDER, for Enumerate, Min and Max.

LEMMA Least ==
    ASSUME NEW T \in SUBSET Nat, T # {}
    PROVE  \E x \in T : \A y \in T : x <= y
<1> DEFINE R == StrictSubsetOrdering(Nat)
           U == {1..n : n \in T}
<1>1. \A n \in T : IsFiniteSet(1..n) /\ 1..n \in SUBSET Nat
    <2> TAKE n \in T
    <2>1. n \in Nat
        OBVIOUS
    <2> QED BY <2>1, FS_Interval
<1>2. U \subseteq FiniteSubsetsOf(Nat) /\ U # {}
    BY <1>1 DEF FiniteSubsetsOf
<1>3. IsWellFoundedOn(R, FiniteSubsetsOf(Nat))
    BY FS_StrictSubsetOrderingWellFounded
<1>4. \E x \in U : \A y \in U : ~ (<<y, x>> \in R)
    <2> HIDE DEF R, U
    <2> QED BY <1>2, <1>3, WFMin
<1>5. PICK x \in T : \A y \in T : ~ (<<1..y, 1..x>> \in R)
    BY <1>4
<1>6. ASSUME NEW y \in T
      PROVE  x <= y
    <2>0. x \in Nat /\ y \in Nat
        OBVIOUS
    <2>1. SUFFICES ASSUME y < x
                   PROVE  FALSE
        BY <2>0
    <2>2. 1..y \in SUBSET Nat /\ 1..x \in SUBSET Nat
        BY <1>1
    <2>3. 1..y \subseteq 1..x
        BY <2>0, <2>1
    <2>4. x \in 1..x /\ x \notin 1..y
        BY <2>0, <2>1
    <2> QED BY <1>5, <2>2, <2>3, <2>4 DEF StrictSubsetOrdering
<1> QED BY <1>6

\* R[x] are the elements before x.
StrictTotal(R, S) ==
    /\ R \in [S -> SUBSET S]
    /\ \A x \in S : x \notin R[x]
    /\ \A x, y \in S : x = y \/ x \in R[y] \/ y \in R[x]
    /\ \A x, y, z \in S : x \in R[y] /\ y \in R[z] => x \in R[z]

LEMMA BeforeGrows ==
    ASSUME NEW S, IsFiniteSet(S), NEW R, StrictTotal(R, S), NEW x \in S
    PROVE  /\ Cardinality(R[x]) \in 0..(Cardinality(S) - 1)
           /\ \A y \in S : x \in R[y] => Cardinality(R[x]) < Cardinality(R[y])
<1>1. ASSUME NEW A, NEW B \in SUBSET S, NEW b \in B, A \in SUBSET B, b \notin A
      PROVE  Cardinality(A) \in Nat /\ Cardinality(B) \in Nat /\ Cardinality(A) < Cardinality(B)
    <2>1. IsFiniteSet(B)
        BY FS_Subset
    <2>2. IsFiniteSet(A) /\ Cardinality(A) <= Cardinality(B) /\ (Cardinality(B) = Cardinality(A) => A = B)
        BY <1>1, <2>1, FS_Subset
    <2>3. Cardinality(A) # Cardinality(B)
        BY <1>1, <2>2
    <2> QED BY <2>1, <2>2, <2>3, FS_CardinalityType
<1>2. R[x] \in SUBSET S /\ x \notin R[x]
    BY DEF StrictTotal
<1>3. Cardinality(R[x]) \in 0..(Cardinality(S) - 1)
    <2>1. S \in SUBSET S
        OBVIOUS
    <2>2. /\ Cardinality(R[x]) \in Nat /\ Cardinality(S) \in Nat
          /\ Cardinality(R[x]) < Cardinality(S)
        BY <1>1, <1>2, <2>1
    <2> QED BY <2>2
<1>4. ASSUME NEW y \in S, x \in R[y]
      PROVE  Cardinality(R[x]) < Cardinality(R[y])
    <2>1. R[y] \in SUBSET S /\ x \in R[y] /\ R[x] \in SUBSET R[y]
        BY <1>4 DEF StrictTotal
    <2> QED BY <1>1, <1>2, <2>1
<1> QED BY <1>3, <1>4

\* The places of the elements of a finite set in a strict total order are 0, 1, 2, ...
LEMMA Places ==
    ASSUME NEW S, IsFiniteSet(S), NEW R, StrictTotal(R, S)
    PROVE  /\ Cardinality(S) \in Nat
           /\ \A k \in 1..Cardinality(S) : \E x \in S : Cardinality(R[x]) = k - 1
           /\ \A x, y \in S : Cardinality(R[x]) = Cardinality(R[y]) => x = y
<1> DEFINE n == Cardinality(S)
           place == [x \in S |-> Cardinality(R[x])]
<1>1. n \in Nat
    BY FS_CardinalityType
<1>2. \A x, y \in S : x # y => place[x] # place[y]
    <2> TAKE x, y \in S
    <2>1. Cardinality(R[x]) \in Nat /\ Cardinality(R[y]) \in Nat
        BY <1>1, BeforeGrows
    <2>2. x # y => x \in R[y] \/ y \in R[x]
        BY DEF StrictTotal
    <2>3. \/ x = y
          \/ Cardinality(R[x]) < Cardinality(R[y])
          \/ Cardinality(R[y]) < Cardinality(R[x])
        BY <2>2, BeforeGrows
    <2> QED BY <2>1, <2>3
<1>3. place \in [S -> 0..(n - 1)]
    BY BeforeGrows
<1>4. IsFiniteSet(0..(n - 1)) /\ Cardinality(0..(n - 1)) = n
    BY <1>1, FS_Interval
<1>5. place \in Surjection(S, 0..(n - 1))
    <2>1. place \in Injection(S, 0..(n - 1))
        BY <1>2, <1>3 DEF Injection, IsInjective
    <2> HIDE DEF place
    <2> QED BY <1>4, <2>1, FS_Injection
<1>6. \A k \in 1..n : \E x \in S : place[x] = k - 1
    <2> TAKE k \in 1..n
    <2>1. k - 1 \in 0..(n - 1)
        BY <1>1
    <2> HIDE DEF place, n
    <2> QED BY <1>5, <2>1 DEF Surjection
<1> QED BY <1>1, <1>2, <1>6

LEMMA Foremost ==
    ASSUME NEW S, IsFiniteSet(S), S # {}, NEW R, StrictTotal(R, S)
    PROVE  \E x \in S : \A y \in S : x = y \/ x \in R[y]
<1>1. Cardinality(S) \in Nat /\ Cardinality(S) # 0
    BY FS_CardinalityType, FS_EmptySet
<1>2. 1 \in 1..Cardinality(S)
    BY <1>1
<1>3. PICK x \in S : Cardinality(R[x]) = 0
    BY <1>2, Places
<1>4. R[x] = {}
    <2>1. R[x] \in SUBSET S
        BY DEF StrictTotal
    <2>2. IsFiniteSet(R[x])
        BY <2>1, FS_Subset
    <2> QED BY <1>3, <2>2, FS_EmptySet
<1> QED BY <1>4 DEF StrictTotal

LEMMA Extremes ==
    ASSUME NEW S \in SUBSET Int, IsFiniteSet(S), S # {}
    PROVE  /\ Min(S) \in S /\ \A y \in S : Min(S) <= y
           /\ Max(S) \in S /\ \A y \in S : Max(S) >= y
<1> DEFINE Up == [x \in S |-> {y \in S : y < x}]
           Down == [x \in S |-> {y \in S : y > x}]
<1>1. \A x \in S : x \in Int
    OBVIOUS
<1>2. StrictTotal(Up, S) /\ StrictTotal(Down, S)
    BY <1>1 DEF StrictTotal
<1>3. (\E x \in S : \A y \in S : x = y \/ x \in Up[y]) /\ \E x \in S : \A y \in S : x = y \/ x \in Down[y]
    <2> HIDE DEF Up, Down
    <2> QED BY <1>2, Foremost
<1>4. (\E x \in S : \A y \in S : x <= y) /\ \E x \in S : \A y \in S : x >= y
    <2>1. \A x, y \in S : (x \in Up[y] => x <= y) /\ (x \in Down[y] => x >= y) /\ (x = y => x <= y /\ x >= y)
        BY <1>1
    <2> HIDE DEF Up, Down
    <2> QED BY <1>3, <2>1
<1> QED BY <1>4 DEF Min, Max

\* What Enumerate lists, when its order is R.
Lists(e, S, R) ==
    /\ e \in [1..Cardinality(S) -> S] /\ Cardinality(S) \in Nat
    /\ \A k \in 1..Cardinality(S) : Cardinality(R[e[k]]) = k - 1

Placed(place, S, R) == place = [x \in S |-> Cardinality(R[x])]
ByPlace(e, S, place) == e = [k \in 1..Cardinality(S) |-> CHOOSE x \in S : place[x] = k - 1]

LEMMA Listing ==
    ASSUME NEW S, IsFiniteSet(S), NEW R, StrictTotal(R, S), NEW place, Placed(place, S, R), NEW e, ByPlace(e, S, place)
    PROVE  Lists(e, S, R)
<1>1. \A k \in 1..Cardinality(S) : e[k] \in S /\ Cardinality(R[e[k]]) = k - 1
    <2> TAKE k \in 1..Cardinality(S)
    <2>1. \E x \in S : place[x] = k - 1
        BY Places DEF Placed
    <2>2. e[k] \in S /\ place[e[k]] = k - 1
        BY <2>1 DEF ByPlace
    <2> QED BY <2>2 DEF Placed
<1> QED BY <1>1, Places DEF Lists, ByPlace

LEMMA ListsAll ==
    ASSUME NEW S, IsFiniteSet(S), NEW R, StrictTotal(R, S), NEW e, Lists(e, S, R)
    PROVE  /\ \A x \in S : \E k \in 1..Cardinality(S) : e[k] = x
           /\ \A j, k \in 1..Cardinality(S) : j < k <=> e[j] \in R[e[k]]
<1> DEFINE n == Cardinality(S)
<1>0. n \in Nat
    BY DEF Lists
<1>1. ASSUME NEW x \in S
      PROVE  \E k \in 1..n : e[k] = x
    <2>1. Cardinality(R[x]) \in 0..(n - 1)
        BY BeforeGrows
    <2>2. Cardinality(R[x]) + 1 \in 1..n
        BY <1>0, <2>1
    <2>3. Cardinality(R[e[Cardinality(R[x]) + 1]]) = Cardinality(R[x])
        BY <2>1, <2>2 DEF Lists
    <2> QED BY <2>2, <2>3, Places DEF Lists
<1>2. ASSUME NEW j \in 1..n, NEW k \in 1..n
      PROVE  j < k <=> e[j] \in R[e[k]]
    <2>1. e[j] \in S /\ e[k] \in S /\ Cardinality(R[e[j]]) = j - 1 /\ Cardinality(R[e[k]]) = k - 1
        BY DEF Lists
    <2>2. e[j] = e[k] \/ e[j] \in R[e[k]] \/ e[k] \in R[e[j]]
        BY <2>1 DEF StrictTotal
    <2>3. e[j] \in R[e[k]] => j < k
        BY <2>1, BeforeGrows, <1>0
    <2>4. e[k] \in R[e[j]] => k < j
        BY <2>1, BeforeGrows, <1>0
    <2>5. e[j] = e[k] => j = k
        BY <2>1, <1>0
    <2> QED BY <2>2, <2>3, <2>4, <2>5, <1>0
<1> QED BY <1>1, <1>2

-----------------------------------------------------------------------------
\* SORTED FRAMES.  A frame is typed when every value is an integer.

Lesser(I) == [x \in I |-> {y \in I : y < x}]

LEMMA LesserIsTotal ==
    ASSUME NEW I \in SUBSET Int
    PROVE  StrictTotal(Lesser(I), I)
<1>1. \A x \in I : x \in Int
    OBVIOUS
<1> QED BY <1>1 DEF StrictTotal, Lesser

LEMMA Picks ==
    ASSUME NEW s, NEW I \in SUBSET Int, IsFiniteSet(I)
    PROVE  \E e : Lists(e, I, Lesser(I)) /\ Pick(s, I) = [k \in 1..Cardinality(I) |-> s[e[k]]]
<1> DEFINE place == [x \in I |-> Cardinality({y \in I : y < x})]
           e == [k \in 1..Cardinality(I) |-> CHOOSE x \in I : place[x] = k - 1]
<1>1. Placed(place, I, Lesser(I))
    BY DEF Lesser, Placed
<1>2. Lists(e, I, Lesser(I))
    <2>1. ByPlace(e, I, place)
        BY DEF ByPlace
    <2> HIDE DEF place, e
    <2> QED BY <1>1, <2>1, LesserIsTotal, Listing
<1>3. Pick(s, I) = [k \in 1..Cardinality(I) |-> s[e[k]]]
    BY DEF Pick, Enumerate
<1> HIDE DEF e
<1> QED BY <1>2, <1>3

\* Ties are broken by position.
Stable(L, D) == [x \in D |-> {y \in D : y \in L[x] \/ (x \notin L[y] /\ y < x)}]
Weak(L, D) ==
    /\ \A x, y \in D : ~(x \in L[y] /\ y \in L[x])
    /\ \A x, y, z \in D : x \in L[z] => x \in L[y] \/ y \in L[z]

LEMMA StableIsTotal ==
    ASSUME NEW D \in SUBSET Int, NEW L, Weak(L, D)
    PROVE  StrictTotal(Stable(L, D), D)
<1>1. \A x, y \in D : y \in Stable(L, D)[x] <=> y \in L[x] \/ (x \notin L[y] /\ y < x)
    BY DEF Stable
<1>2. \A x \in D : x \in Int
    OBVIOUS
<1>3. Stable(L, D) \in [D -> SUBSET D]
    BY DEF Stable
<1>4. ASSUME NEW x \in D, NEW y \in D, NEW z \in D, x \in Stable(L, D)[y], y \in Stable(L, D)[z]
      PROVE  x \in Stable(L, D)[z]
    <2>1. CASE x \in L[z]
        BY <1>1, <2>1
    <2>2. CASE x \notin L[z]
        <3>1. z \notin L[x]
            BY <1>1, <1>4 DEF Weak
        <3>2. x < y \/ x \in L[y]
            BY <1>1, <1>4
        <3>3. y < z \/ y \in L[z]
            BY <1>1, <1>4
        <3>4. x \notin L[y] /\ y \notin L[z]
            BY <1>1, <1>4, <2>2 DEF Weak
        <3> QED BY <1>1, <1>2, <3>1, <3>2, <3>3, <3>4
    <2> QED BY <2>1, <2>2
<1>5. /\ \A x \in D : x \notin Stable(L, D)[x]
      /\ \A x, y \in D : x = y \/ x \in Stable(L, D)[y] \/ y \in Stable(L, D)[x]
    BY <1>1, <1>2 DEF Weak
<1> QED BY <1>3, <1>4, <1>5 DEF StrictTotal

LEMMA KeyOrder ==
    ASSUME NEW n \in Nat, NEW a \in [1..n -> Int], NEW b \in [1..n -> Int], NEW c \in [1..n -> Int]
    PROVE  /\ ~(KeyLess(a, b) /\ KeyLess(b, a))
           /\ a = b \/ KeyLess(a, b) \/ KeyLess(b, a)
           /\ KeyLess(a, b) /\ KeyLess(b, c) => KeyLess(a, c)
<1>1. ~(KeyLess(a, b) /\ KeyLess(b, a))
    <2> SUFFICES ASSUME NEW i \in 1..n, a[i] < b[i], \A j \in 1..(i - 1) : a[j] = b[j],
                        NEW k \in 1..n, b[k] < a[k], \A j \in 1..(k - 1) : b[j] = a[j]
                 PROVE  FALSE
        BY DEF KeyLess
    <2>1. a[i] \in Int /\ b[i] \in Int /\ a[k] \in Int /\ b[k] \in Int
        OBVIOUS
    <2>2. i = k \/ i \in 1..(k - 1) \/ k \in 1..(i - 1)
        OBVIOUS
    <2> QED BY <2>1, <2>2
<1>2. a = b \/ KeyLess(a, b) \/ KeyLess(b, a)
    <2> DEFINE T == {i \in 1..n : a[i] # b[i]}
    <2>1. SUFFICES ASSUME T # {} PROVE KeyLess(a, b) \/ KeyLess(b, a)
        <3>1. T = {} => \A i \in 1..n : a[i] = b[i]
            OBVIOUS
        <3>2. a = [i \in 1..n |-> a[i]] /\ b = [i \in 1..n |-> b[i]]
            OBVIOUS
        <3> HIDE DEF T
        <3> QED BY <3>1, <3>2
    <2>2. PICK i \in T : \A j \in T : i <= j
        <3>1. T \in SUBSET Nat
            OBVIOUS
        <3> HIDE DEF T
        <3> QED BY <2>1, <3>1, Least
    <2>3. i \in 1..n /\ a[i] # b[i]
        OBVIOUS
    <2>4. \A j \in 1..(i - 1) : a[j] = b[j]
        <3> TAKE j \in 1..(i - 1)
        <3>1. j \in 1..n /\ ~(i <= j)
            BY <2>3
        <3> QED BY <2>2, <3>1
    <2>5. a[i] < b[i] \/ b[i] < a[i]
        <3>1. a[i] \in Int /\ b[i] \in Int
            BY <2>3
        <3> QED BY <2>3, <3>1
    <2> QED BY <2>3, <2>4, <2>5 DEF KeyLess
<1>3. KeyLess(a, b) /\ KeyLess(b, c) => KeyLess(a, c)
    <2> SUFFICES ASSUME NEW i \in 1..n, a[i] < b[i], \A j \in 1..(i - 1) : a[j] = b[j],
                        NEW k \in 1..n, b[k] < c[k], \A j \in 1..(k - 1) : b[j] = c[j]
                 PROVE  \E m \in 1..n : a[m] < c[m] /\ \A j \in 1..(m - 1) : a[j] = c[j]
        BY DEF KeyLess
    <2>1. /\ a[i] \in Int /\ b[i] \in Int /\ c[i] \in Int
          /\ a[k] \in Int /\ b[k] \in Int /\ c[k] \in Int
        OBVIOUS
    <2>2. CASE i <= k
        <3>1. b[i] = c[i] \/ (i = k /\ b[i] < c[i])
            BY <2>2
        <3>2. a[i] < c[i]
            BY <2>1, <3>1
        <3>3. \A j \in 1..(i - 1) : a[j] = c[j]
            BY <2>2
        <3> QED BY <3>2, <3>3
    <2>3. CASE k < i
        <3>1. a[k] = b[k]
            BY <2>3
        <3>2. a[k] < c[k]
            BY <2>1, <3>1
        <3>3. \A j \in 1..(k - 1) : a[j] = c[j]
            BY <2>3
        <3> QED BY <3>2, <3>3
    <2> QED BY <2>2, <2>3
<1> QED BY <1>1, <1>2, <1>3

Rows(cols) == [val : [cols -> Int], from : SUBSET Int]
Typed(f) == IsFrame(f) /\ f.rows \in Seq(Rows(f.cols))

LEMMA RowsOf ==
    ASSUME NEW f, Typed(f)
    PROVE  /\ Len(f.rows) \in Nat /\ DOMAIN f.rows = 1..Len(f.rows) /\ IsFiniteSet(DOMAIN f.rows)
           /\ \A i \in DOMAIN f.rows : f.rows[i] \in Rows(f.cols) /\ f.rows[i].val \in [f.cols -> Int] /\ f.rows[i].from \in SUBSET Int
<1>1. /\ Len(f.rows) \in Nat /\ DOMAIN f.rows = 1..Len(f.rows)
      /\ \A i \in DOMAIN f.rows : f.rows[i] \in Rows(f.cols)
    BY DEF Typed
<1>2. IsFiniteSet(1..Len(f.rows))
    BY <1>1, FS_Interval
<1> QED BY <1>1, <1>2 DEF Rows

LEMMA RowKeys ==
    ASSUME NEW f, Typed(f), NEW g \in Seq(f.cols), NEW i \in DOMAIN f.rows
    PROVE  Len(g) \in Nat /\ Key(f.rows[i], g) \in [1..Len(g) -> Int]
BY RowsOf DEF Key

ByKey(f, g) ==
    [j \in DOMAIN f.rows |-> {i \in DOMAIN f.rows : KeyLess(Key(f.rows[i], g), Key(f.rows[j], g))}]
ByColumn(f, c, dir) ==
    [j \in DOMAIN f.rows |-> {i \in DOMAIN f.rows :
        /\ f.rows[i].val[c] # Null
        /\ \/ f.rows[j].val[c] = Null
           \/ IF dir = "asc" THEN f.rows[i].val[c] < f.rows[j].val[c] ELSE f.rows[i].val[c] > f.rows[j].val[c]}]
Within(f, g, c, dir) ==
    [j \in DOMAIN f.rows |-> {i \in DOMAIN f.rows :
        \/ i \in ByKey(f, g)[j]
        \/ Key(f.rows[i], g) = Key(f.rows[j], g) /\ i \in ByColumn(f, c, dir)[j]}]

LEMMA KeysAreWeak ==
    ASSUME NEW f, Typed(f), NEW g \in Seq(f.cols)
    PROVE  Weak(ByKey(f, g), DOMAIN f.rows)
<1>1. \A i, j \in DOMAIN f.rows : i \in ByKey(f, g)[j] <=> KeyLess(Key(f.rows[i], g), Key(f.rows[j], g))
    BY DEF ByKey
<1>2. ASSUME NEW i \in DOMAIN f.rows, NEW j \in DOMAIN f.rows, NEW k \in DOMAIN f.rows
      PROVE  /\ ~(i \in ByKey(f, g)[j] /\ j \in ByKey(f, g)[i])
             /\ i \in ByKey(f, g)[k] => i \in ByKey(f, g)[j] \/ j \in ByKey(f, g)[k]
    <2> DEFINE a == Key(f.rows[i], g)
               b == Key(f.rows[j], g)
               c == Key(f.rows[k], g)
    <2>1. Len(g) \in Nat /\ a \in [1..Len(g) -> Int] /\ b \in [1..Len(g) -> Int] /\ c \in [1..Len(g) -> Int]
        BY RowKeys
    <2>2. /\ ~(KeyLess(a, b) /\ KeyLess(b, a))
          /\ a = b \/ KeyLess(a, b) \/ KeyLess(b, a)
          /\ KeyLess(b, a) /\ KeyLess(a, c) => KeyLess(b, c)
        <3> HIDE DEF a, b, c
        <3> QED BY <2>1, KeyOrder
    <2> QED BY <1>1, <2>2
<1> QED BY <1>2 DEF Weak

LEMMA WithinIsWeak ==
    ASSUME NEW f, Typed(f), NEW g \in Seq(f.cols), NEW c \in f.cols, NEW dir
    PROVE  Weak(Within(f, g, c, dir), DOMAIN f.rows)
<1>1. \A i, j \in DOMAIN f.rows :
          i \in Within(f, g, c, dir)[j] <=>
              (KeyLess(Key(f.rows[i], g), Key(f.rows[j], g)) \/ (Key(f.rows[i], g) = Key(f.rows[j], g) /\ i \in ByColumn(f, c, dir)[j]))
    BY DEF ByKey, Within
<1>2. ASSUME NEW i \in DOMAIN f.rows, NEW j \in DOMAIN f.rows, NEW k \in DOMAIN f.rows
      PROVE  /\ ~(i \in ByColumn(f, c, dir)[j] /\ j \in ByColumn(f, c, dir)[i])
             /\ i \in ByColumn(f, c, dir)[k] => i \in ByColumn(f, c, dir)[j] \/ j \in ByColumn(f, c, dir)[k]
    <2> DEFINE x == f.rows[i].val[c]
               y == f.rows[j].val[c]
               z == f.rows[k].val[c]
    <2>1. x \in Int /\ y \in Int /\ z \in Int
        BY RowsOf
    <2>2. /\ i \in ByColumn(f, c, dir)[j] <=> x # Null /\ (y = Null \/ IF dir = "asc" THEN x < y ELSE x > y)
          /\ j \in ByColumn(f, c, dir)[i] <=> y # Null /\ (x = Null \/ IF dir = "asc" THEN y < x ELSE y > x)
          /\ i \in ByColumn(f, c, dir)[k] <=> x # Null /\ (z = Null \/ IF dir = "asc" THEN x < z ELSE x > z)
          /\ j \in ByColumn(f, c, dir)[k] <=> y # Null /\ (z = Null \/ IF dir = "asc" THEN y < z ELSE y > z)
        BY DEF ByColumn
    <2> HIDE DEF x, y, z
    <2> QED BY <2>1, <2>2
<1>3. ASSUME NEW i \in DOMAIN f.rows, NEW j \in DOMAIN f.rows, NEW k \in DOMAIN f.rows
      PROVE  LET L == Within(f, g, c, dir) IN ~(i \in L[j] /\ j \in L[i]) /\ (i \in L[k] => i \in L[j] \/ j \in L[k])
    <2> DEFINE x == Key(f.rows[i], g)
               y == Key(f.rows[j], g)
               z == Key(f.rows[k], g)
    <2>1. Len(g) \in Nat /\ x \in [1..Len(g) -> Int] /\ y \in [1..Len(g) -> Int] /\ z \in [1..Len(g) -> Int]
        BY RowKeys
    <2>2. /\ ~(KeyLess(x, y) /\ KeyLess(y, x)) /\ ~KeyLess(x, x)
          /\ x = y \/ KeyLess(x, y) \/ KeyLess(y, x)
          /\ KeyLess(y, x) /\ KeyLess(x, z) => KeyLess(y, z)
        <3> HIDE DEF x, y, z
        <3> QED BY <2>1, KeyOrder
    <2> QED BY <1>1, <1>2, <2>2
<1> QED BY <1>3 DEF Weak

\* What a stable sort makes of a frame: its rows in another order.
Reorders(o, f, L) ==
    \E e : /\ Lists(e, DOMAIN f.rows, Stable(L, DOMAIN f.rows))
           /\ o = [f EXCEPT !.rows = [i \in DOMAIN f.rows |-> f.rows[e[i]]]]

LEMMA SortByReorders ==
    ASSUME NEW f, Typed(f), NEW g \in Seq(f.cols)
    PROVE  Reorders(SortBy(f, g), f, ByKey(f, g))
<1> DEFINE D == DOMAIN f.rows
           B(i, j) == \/ KeyLess(Key(f.rows[i], g), Key(f.rows[j], g))
                      \/ ~KeyLess(Key(f.rows[j], g), Key(f.rows[i], g)) /\ i < j
           place == [x \in D |-> Cardinality({y \in D : B(y, x)})]
           e == [k \in 1..Cardinality(D) |-> CHOOSE x \in D : place[x] = k - 1]
           R == Stable(ByKey(f, g), D)
<1>1. \A x \in D : {y \in D : B(y, x)} = R[x]
    BY DEF Stable, ByKey
<1>2. Placed(place, D, R)
    BY <1>1 DEF Placed
<1>3. Lists(e, D, R)
    <2>1. StrictTotal(R, D) /\ IsFiniteSet(D)
        BY RowsOf, KeysAreWeak, StableIsTotal
    <2>2. ByPlace(e, D, place)
        BY DEF ByPlace
    <2> HIDE DEF place, e, R, D
    <2> QED BY <1>2, <2>1, <2>2, Listing
<1>4. SortBy(f, g) = [f EXCEPT !.rows = [i \in D |-> f.rows[e[i]]]]
    BY DEF SortBy, SortedBy, Enumerate
<1> HIDE DEF e
<1> QED BY <1>3, <1>4 DEF Reorders

LEMMA SortWithinReorders ==
    ASSUME NEW f, Typed(f), NEW g \in Seq(f.cols), NEW c \in f.cols, NEW dir
    PROVE  Reorders(SortWithin(f, g, c, dir), f, Within(f, g, c, dir))
<1> DEFINE D == DOMAIN f.rows
           less(r, t) == \/ KeyLess(Key(r, g), Key(t, g))
                         \/ /\ Key(r, g) = Key(t, g) /\ r.val[c] # Null
                            /\ \/ t.val[c] = Null
                               \/ IF dir = "asc" THEN r.val[c] < t.val[c] ELSE r.val[c] > t.val[c]
           B(i, j) == less(f.rows[i], f.rows[j]) \/ (~less(f.rows[j], f.rows[i]) /\ i < j)
           place == [x \in D |-> Cardinality({y \in D : B(y, x)})]
           e == [k \in 1..Cardinality(D) |-> CHOOSE x \in D : place[x] = k - 1]
           R == Stable(Within(f, g, c, dir), D)
<1>1. \A x \in D : {y \in D : B(y, x)} = R[x]
    BY DEF Stable, Within, ByKey, ByColumn
<1>2. Placed(place, D, R)
    BY <1>1 DEF Placed
<1>3. Lists(e, D, R)
    <2>1. StrictTotal(R, D) /\ IsFiniteSet(D)
        BY RowsOf, WithinIsWeak, StableIsTotal
    <2>2. ByPlace(e, D, place)
        BY DEF ByPlace
    <2> HIDE DEF place, e, R, D
    <2> QED BY <1>2, <2>1, <2>2, Listing
<1>4. SortWithin(f, g, c, dir) = [f EXCEPT !.rows = [i \in D |-> f.rows[e[i]]]]
    BY DEF SortWithin, SortedBy, Enumerate
<1> HIDE DEF e
<1> QED BY <1>3, <1>4 DEF Reorders

-----------------------------------------------------------------------------
\* VALUES: what Pick, the coercions and the aggregations compute.

LEMMA Tuples ==
    ASSUME NEW n \in Nat, NEW V, NEW t \in [1..n -> V]
    PROVE  t \in Seq(V) /\ Len(t) = n /\ DOMAIN t = 1..n
OBVIOUS

\* The entries of a picked sequence.
LEMMA PickedEntries ==
    ASSUME NEW s, NEW I \in SUBSET Int, IsFiniteSet(I)
    PROVE  /\ Pick(s, I) \in Seq({s[i] : i \in I})
           /\ Len(Pick(s, I)) = Cardinality(I) /\ Cardinality(I) \in Nat /\ DOMAIN Pick(s, I) = 1..Cardinality(I)
           /\ \A k \in 1..Cardinality(I) : \E i \in I : Pick(s, I)[k] = s[i]
<1>1. PICK e : Lists(e, I, Lesser(I)) /\ Pick(s, I) = [k \in 1..Cardinality(I) |-> s[e[k]]]
    BY Picks
<1> DEFINE V == {s[i] : i \in I}
<1>2. Pick(s, I) \in [1..Cardinality(I) -> V] /\ Cardinality(I) \in Nat
    BY <1>1 DEF Lists
<1>3. Pick(s, I) \in Seq(V) /\ Len(Pick(s, I)) = Cardinality(I) /\ DOMAIN Pick(s, I) = 1..Cardinality(I)
    <2> HIDE DEF V
    <2> QED BY <1>2, Tuples
<1>4. \A k \in 1..Cardinality(I) : e[k] \in I /\ Pick(s, I)[k] = s[e[k]]
    BY <1>1 DEF Lists
<1> QED BY <1>2, <1>3, <1>4

LEMMA PickedFrom ==
    ASSUME NEW V, NEW s, NEW I \in SUBSET Int, IsFiniteSet(I), \A i \in I : s[i] \in V
    PROVE  Pick(s, I) \in Seq(V)
<1> DEFINE W == {s[i] : i \in I}
<1>1. W \subseteq V
    OBVIOUS
<1>2. Pick(s, I) \in Seq(W)
    BY PickedEntries
<1> HIDE DEF W
<1> QED BY <1>1, <1>2, SeqMonotonic

LEMMA SubIndices ==
    ASSUME NEW V, NEW s \in Seq(V), NEW I \in SUBSET DOMAIN s
    PROVE  I \in SUBSET Int /\ IsFiniteSet(I) /\ Cardinality(I) <= Len(s) /\ Cardinality(I) \in Nat
<1>1. IsFiniteSet(1..Len(s)) /\ Cardinality(1..Len(s)) = Len(s) /\ Len(s) \in Nat /\ DOMAIN s = 1..Len(s)
    BY FS_Interval
<1>2. IsFiniteSet(I) /\ Cardinality(I) <= Len(s)
    BY <1>1, FS_Subset
<1> QED BY <1>1, <1>2, FS_CardinalityType

LEMMA Images ==
    ASSUME NEW V, NEW s \in Seq(V), NEW I \in SUBSET DOMAIN s
    PROVE  IsFiniteSet({s[i] : i \in I}) /\ Cardinality({s[i] : i \in I}) \in Nat
<1> DEFINE T == {s[i] : i \in I}
           h == [i \in I |-> s[i]]
<1>1. h \in Surjection(I, T)
    BY DEF Surjection
<1>2. IsFiniteSet(T)
    <2> HIDE DEF h, T
    <2> QED BY <1>1, SubIndices, FS_Surjection
<1> QED BY <1>2, FS_CardinalityType

LEMMA KnownIsInt ==
    ASSUME NEW s \in Seq(Int)
    PROVE  Known(s) \in Seq(Int)
<1> DEFINE I == {i \in DOMAIN s : s[i] # Null}
<1>1. I \in SUBSET DOMAIN s /\ \A i \in I : s[i] \in Int
    OBVIOUS
<1>2. I \in SUBSET Int /\ IsFiniteSet(I)
    <2> HIDE DEF I
    <2> QED BY <1>1, SubIndices
<1>3. Pick(s, I) \in Seq(Int)
    <2> HIDE DEF I
    <2> QED BY <1>1, <1>2, PickedFrom
<1> QED BY <1>3 DEF Known

LEMMA NumIsInt ==
    ASSUME NEW v \in Int
    PROVE  Num(v) \in Int
BY DEF Num, IsNum, Null

LEMMA CoercedIsInt ==
    ASSUME NEW s \in Seq(Int)
    PROVE  [i \in DOMAIN s |-> Num(s[i])] \in Seq(Int)
<1>1. Len(s) \in Nat /\ DOMAIN s = 1..Len(s) /\ \A i \in DOMAIN s : s[i] \in Int
    OBVIOUS
<1>2. \A i \in 1..Len(s) : Num(s[i]) \in Int
    BY <1>1, NumIsInt
<1>3. [i \in 1..Len(s) |-> Num(s[i])] \in [1..Len(s) -> Int]
    BY <1>2
<1> QED BY <1>1, <1>3, Tuples

LEMMA NumsIsInt ==
    ASSUME NEW s \in Seq(Int)
    PROVE  Nums(s) \in Seq(Int)
BY CoercedIsInt, KnownIsInt DEF Nums

\* up is the function of sums of the first n entries of s.
Sums(up, s, n) == up \in [0..n -> Int] /\ up[0] = 0 /\ \A i \in 1..n : up[i] = up[i - 1] + s[i]

LEMMA SumsExist ==
    ASSUME NEW s \in Seq(Int)
    PROVE  \A n \in 0..Len(s) : \E up : Sums(up, s, n)
<1> DEFINE Bad == {n \in 0..Len(s) : ~ \E up : Sums(up, s, n)}
<1>1. SUFFICES ASSUME Bad # {}
               PROVE  FALSE
    OBVIOUS
<1>2. PICK n \in Bad : \A m \in Bad : n <= m
    <2>1. Bad \in SUBSET Nat
        OBVIOUS
    <2> HIDE DEF Bad
    <2> QED BY <1>1, <2>1, Least
<1>3. n # 0
    <2>1. Sums([i \in 0..0 |-> 0], s, 0)
        BY DEF Sums
    <2> QED BY <2>1
<1>4. n \in 1..Len(s) /\ n - 1 \in 0..Len(s) /\ n - 1 \notin Bad
    <2>1. n \in 1..Len(s) /\ n - 1 \in 0..Len(s)
        BY <1>3
    <2>2. ~(n <= n - 1)
        BY <2>1
    <2> QED BY <2>1, <2>2, <1>2
<1>5. PICK g : Sums(g, s, n - 1)
    BY <1>4
<1> DEFINE h == [i \in 0..n |-> IF i = n THEN g[n - 1] + s[n] ELSE g[i]]
<1>6. Sums(h, s, n)
    <2>1. s[n] \in Int /\ n \in Nat /\ n - 1 \in 0..(n - 1)
        BY <1>4
    <2>2. g[n - 1] \in Int
        BY <2>1, <1>5 DEF Sums
    <2>3. h \in [0..n -> Int]
        BY <2>1, <2>2, <1>5 DEF Sums
    <2>4. h[0] = 0
        BY <1>3, <1>5, <2>1 DEF Sums
    <2>5. ASSUME NEW i \in 1..n
          PROVE  h[i] = h[i - 1] + s[i]
        <3>1. CASE i = n
            BY <3>1, <2>1
        <3>2. CASE i # n
            <4>1. i \in 1..(n - 1) /\ i \in 0..n /\ i - 1 \in 0..n /\ i - 1 # n
                BY <3>2, <2>1
            <4> QED BY <4>1, <3>2, <1>5 DEF Sums
        <3> QED BY <3>1, <3>2
    <2> QED BY <2>3, <2>4, <2>5 DEF Sums
<1> QED BY <1>6

\* Whatever solves the recursive definition of Total is made of integers.
LEMMA TotalIsInt ==
    ASSUME NEW s \in Seq(Int)
    PROVE  Total(s) \in Int
<1> DEFINE Body(g) == [n \in 0..Len(s) |-> IF n = 0 THEN 0 ELSE g[n - 1] + s[n]]
           up == CHOOSE g : g = Body(g)
<1>0. Len(s) \in Nat
    OBVIOUS
<1>1. Total(s) = up[Len(s)]
    BY DEF Total
<1>2. PICK g : Sums(g, s, Len(s))
    BY SumsExist, <1>0
<1>3. g = Body(g)
    BY <1>0, <1>2 DEF Sums
<1>4. up = Body(up)
    <2> HIDE DEF Body
    <2> QED BY <1>3
<1> DEFINE Bad == {n \in 0..Len(s) : up[n] \notin Int}
<1>5. Bad = {}
    <2>1. SUFFICES ASSUME Bad # {}
                   PROVE  FALSE
        OBVIOUS
    <2>2. PICK n \in Bad : \A m \in Bad : n <= m
        <3>1. Bad \in SUBSET Nat
            BY <1>0
        <3> HIDE DEF Bad
        <3> QED BY <2>1, <3>1, Least
    <2> HIDE DEF up
    <2>3. \A k \in 0..Len(s) : up[k] = IF k = 0 THEN 0 ELSE up[k - 1] + s[k]
        BY <1>4
    <2>4. n # 0
        BY <1>0, <2>3
    <2>5. n \in 1..Len(s) /\ n - 1 \in 0..Len(s) /\ ~(n <= n - 1)
        BY <2>4, <1>0
    <2>6. up[n - 1] \in Int /\ s[n] \in Int
        BY <2>2, <2>5
    <2> QED BY <2>3, <2>4, <2>5, <2>6
<1> HIDE DEF up
<1> QED BY <1>0, <1>1, <1>5

LEMMA AggregateIsInt ==
    ASSUME NEW vals \in Seq(Int), NEW fn
    PROVE  Aggregate1(vals, fn) \in Int
<1> DEFINE k == Known(vals)
           n == Nums(vals)
<1>1. k \in Seq(Int) /\ n \in Seq(Int)
    BY KnownIsInt, NumsIsInt
<1>2. /\ Len(k) \in Nat /\ DOMAIN k = 1..Len(k) /\ DOMAIN n = 1..Len(n) /\ Len(n) \in Nat
      /\ k # <<>> => k[1] \in Int /\ k[Len(k)] \in Int
    <2> HIDE DEF k, n
    <2> QED BY <1>1
<1>3. Cardinality(ToSet(k)) \in Nat
    <2> HIDE DEF k, n
    <2> QED BY <1>1, Images DEF ToSet
<1>4. n # <<>> => Min(ToSet(n)) \in Int /\ Max(ToSet(n)) \in Int
    <2> HIDE DEF k, n
    <2>1. IsFiniteSet(ToSet(n)) /\ ToSet(n) \in SUBSET Int
        <3>1. DOMAIN n \in SUBSET DOMAIN n /\ \A i \in DOMAIN n : n[i] \in Int
            BY <1>1
        <3> QED BY <1>1, <3>1, Images DEF ToSet
    <2>2. n # <<>> => ToSet(n) # {}
        <3>1. n # <<>> => 1 \in DOMAIN n
            BY <1>1, EmptySeq
        <3> QED BY <3>1 DEF ToSet
    <2> QED BY <2>1, <2>2, Extremes
<1>5. Total(n) \in Int /\ Null \in Int /\ Opaque \in Int
    BY <1>1, TotalIsInt DEF Null, Opaque
<1>6. Aggregate1(vals, fn) =
          CASE fn = "count" -> Len(k)
            [] fn = "count_distinct" -> Cardinality(ToSet(k))
            [] fn = "first" -> IF k = <<>> THEN Null ELSE k[1]
            [] fn = "last"  -> IF k = <<>> THEN Null ELSE k[Len(k)]
            [] fn = "sum"   -> Total(n)
            [] OTHER        -> IF n = <<>> THEN Null
                               ELSE CASE fn = "min" -> Min(ToSet(n))  [] fn = "max" -> Max(ToSet(n))  [] OTHER -> Opaque
    BY DEF Aggregate1
<1> HIDE DEF k, n
<1> QED BY <1>2, <1>3, <1>4, <1>5, <1>6

-----------------------------------------------------------------------------
\* WHERE ROWS COME FROM.

\* Where the rows of g come from, in f, the columns T apart: each source row that a row of g
\* came from is one that a row of f with the same values came from, and each value is one of f's.
Comes(g, f, T) ==
    /\ Typed(g) /\ g.cols \ T \subseteq f.cols
    /\ \A k \in DOMAIN g.rows :
        /\ \A i \in g.rows[k].from \ {Foreign} : \E j \in DOMAIN f.rows :
              i \in f.rows[j].from /\ \A c \in g.cols \ T : g.rows[k].val[c] = f.rows[j].val[c]
        /\ g.cols \ T # {} => \E j \in DOMAIN f.rows : \A c \in g.cols \ T : g.rows[k].val[c] = f.rows[j].val[c]
Traces(g, f, T) == Comes(g, f, T) /\ Len(g.rows) <= Len(f.rows)

LEMMA TracesOn ==
    ASSUME NEW f, Typed(f), NEW g, NEW h, NEW T, NEW U
    PROVE  /\ Comes(g, f, T) /\ Comes(h, g, U) => Comes(h, f, T \cup U)
           /\ Traces(g, f, T) /\ Traces(h, g, U) => Traces(h, f, T \cup U)
<1>1. ASSUME Comes(g, f, T), Comes(h, g, U)
      PROVE  Comes(h, f, T \cup U)
    <2>1. h.cols \ (T \cup U) \subseteq h.cols \ U /\ h.cols \ (T \cup U) \subseteq g.cols \ T
        BY <1>1 DEF Comes
    <2>2. ASSUME NEW k \in DOMAIN h.rows, NEW i \in h.rows[k].from \ {Foreign}
          PROVE  \E j \in DOMAIN f.rows :
                    i \in f.rows[j].from /\ \A c \in h.cols \ (T \cup U) : h.rows[k].val[c] = f.rows[j].val[c]
        <3>1. PICK m \in DOMAIN g.rows : i \in g.rows[m].from /\ \A c \in h.cols \ U : h.rows[k].val[c] = g.rows[m].val[c]
            BY <1>1 DEF Comes
        <3>2. PICK j \in DOMAIN f.rows : i \in f.rows[j].from /\ \A c \in g.cols \ T : g.rows[m].val[c] = f.rows[j].val[c]
            BY <1>1, <3>1 DEF Comes
        <3> QED BY <2>1, <3>1, <3>2
    <2>3. ASSUME NEW k \in DOMAIN h.rows, h.cols \ (T \cup U) # {}
          PROVE  \E j \in DOMAIN f.rows : \A c \in h.cols \ (T \cup U) : h.rows[k].val[c] = f.rows[j].val[c]
        <3>1. h.cols \ U # {} /\ g.cols \ T # {}
            BY <2>1, <2>3
        <3>2. PICK m \in DOMAIN g.rows : \A c \in h.cols \ U : h.rows[k].val[c] = g.rows[m].val[c]
            BY <1>1, <3>1 DEF Comes
        <3>3. PICK j \in DOMAIN f.rows : \A c \in g.cols \ T : g.rows[m].val[c] = f.rows[j].val[c]
            BY <1>1, <3>1, <3>2 DEF Comes
        <3> QED BY <2>1, <3>2, <3>3
    <2>4. Typed(h) /\ h.cols \ (T \cup U) \subseteq f.cols
        BY <1>1, <2>1 DEF Comes
    <2> QED BY <2>2, <2>3, <2>4 DEF Comes
<1>2. Traces(g, f, T) /\ Traces(h, g, U) => Len(h.rows) <= Len(f.rows)
    <2>1. Traces(g, f, T) /\ Traces(h, g, U) => Typed(g) /\ Typed(h)
        BY DEF Traces, Comes
    <2>2. Len(f.rows) \in Nat /\ (Typed(g) => Len(g.rows) \in Nat) /\ (Typed(h) => Len(h.rows) \in Nat)
        BY RowsOf
    <2> QED BY <2>1, <2>2 DEF Traces
<1> QED BY <1>1, <1>2 DEF Traces

\* Rows of f in some order.
LEMMA SomeRows ==
    ASSUME NEW f, Typed(f), NEW n \in Nat, NEW rows \in [1..n -> Rows(f.cols)],
           \A k \in 1..n : \E j \in DOMAIN f.rows : rows[k] = f.rows[j]
    PROVE  Comes([f EXCEPT !.rows = rows], f, {})
<1> DEFINE g == [f EXCEPT !.rows = rows]
<1>1. g.rows = rows /\ g.cols = f.cols /\ IsFrame(g)
    BY DEF Typed, IsFrame
<1>2. rows \in Seq(Rows(f.cols)) /\ DOMAIN rows = 1..n
    BY Tuples
<1>3. Typed(g)
    BY <1>1, <1>2 DEF Typed
<1> HIDE DEF g
<1>4. \A k \in DOMAIN g.rows : \E j \in DOMAIN f.rows : g.rows[k] = f.rows[j]
    BY <1>1, <1>2
<1>5. Comes(g, f, {})
    BY <1>1, <1>3, <1>4 DEF Comes
<1> QED BY <1>5 DEF g

LEMMA KeepTraces ==
    ASSUME NEW f, Typed(f), NEW I \in SUBSET DOMAIN f.rows
    PROVE  /\ Traces(KeepIndices(f, I), f, {})
           /\ KeepIndices(f, I).rows = Pick(f.rows, I) /\ Len(KeepIndices(f, I).rows) = Cardinality(I)
           /\ KeepIndices(f, I).status = f.status /\ KeepIndices(f, I).cols = f.cols
<1> DEFINE p == Pick(f.rows, I)
<1>1. I \in SUBSET Int /\ IsFiniteSet(I) /\ Cardinality(I) <= Len(f.rows) /\ Cardinality(I) \in Nat
    BY SubIndices DEF Typed
<1>2. /\ p \in Seq(Rows(f.cols)) /\ Len(p) = Cardinality(I)
      /\ \A k \in DOMAIN p : \E i \in I : p[k] = f.rows[i]
    <2>1. \A i \in I : f.rows[i] \in Rows(f.cols)
        BY RowsOf
    <2>2. p \in Seq(Rows(f.cols))
        BY <1>1, <2>1, PickedFrom
    <2>3. Len(p) = Cardinality(I) /\ DOMAIN p = 1..Cardinality(I) /\ \A k \in 1..Cardinality(I) : \E i \in I : p[k] = f.rows[i]
        BY <1>1, PickedEntries
    <2> QED BY <2>2, <2>3
<1>3. KeepIndices(f, I) = [f EXCEPT !.rows = p]
    BY DEF KeepIndices
<1> HIDE DEF p
<1>4. p \in [1..Cardinality(I) -> Rows(f.cols)] /\ DOMAIN p = 1..Cardinality(I)
    BY <1>2
<1>5. Comes(KeepIndices(f, I), f, {})
    BY <1>1, <1>2, <1>3, <1>4, SomeRows
<1>6. KeepIndices(f, I).rows = p /\ KeepIndices(f, I).status = f.status /\ KeepIndices(f, I).cols = f.cols
    BY <1>3 DEF Typed, IsFrame
<1> QED BY <1>1, <1>2, <1>5, <1>6 DEF Traces, p

LEMMA ReordersTraces ==
    ASSUME NEW f, Typed(f), NEW L, NEW o, Reorders(o, f, L)
    PROVE  Traces(o, f, {}) /\ o.cols = f.cols /\ o.status = f.status /\ Len(o.rows) = Len(f.rows)
<1>1. PICK e : /\ Lists(e, DOMAIN f.rows, Stable(L, DOMAIN f.rows))
               /\ o = [f EXCEPT !.rows = [i \in DOMAIN f.rows |-> f.rows[e[i]]]]
    BY DEF Reorders
<1> DEFINE rows == [i \in DOMAIN f.rows |-> f.rows[e[i]]]
           n == Len(f.rows)
<1>2. n \in Nat /\ DOMAIN f.rows = 1..n /\ Cardinality(DOMAIN f.rows) = n
    <2>1. n \in Nat /\ DOMAIN f.rows = 1..n
        BY RowsOf
    <2> QED BY <2>1, FS_Interval
<1>3. \A k \in 1..n : e[k] \in DOMAIN f.rows
    BY <1>1, <1>2 DEF Lists
<1>4. rows \in [1..n -> Rows(f.cols)] /\ \A k \in 1..n : \E j \in DOMAIN f.rows : rows[k] = f.rows[j]
    BY <1>2, <1>3, RowsOf
<1>5. Comes(o, f, {})
    <2> HIDE DEF rows, n
    <2> QED BY <1>1, <1>2, <1>4, SomeRows DEF rows
<1>6. o.rows = rows /\ o.cols = f.cols /\ o.status = f.status
    BY <1>1 DEF Typed, IsFrame
<1>7. Len(rows) = n
    <2> HIDE DEF rows, n
    <2> QED BY <1>2, <1>4, Tuples
<1> HIDE DEF rows
<1> QED BY <1>2, <1>5, <1>6, <1>7 DEF Traces

LEMMA SortByTraces ==
    ASSUME NEW f, Typed(f), NEW g \in Seq(f.cols)
    PROVE  LET o == SortBy(f, g) IN Traces(o, f, {}) /\ o.cols = f.cols /\ o.status = f.status
BY SortByReorders, ReordersTraces

LEMMA SortWithinTraces ==
    ASSUME NEW f, Typed(f), NEW g \in Seq(f.cols), NEW c \in f.cols, NEW dir
    PROVE  LET o == SortWithin(f, g, c, dir) IN Traces(o, f, {}) /\ o.cols = f.cols /\ o.status = f.status
BY SortWithinReorders, ReordersTraces

\* Every row of f, in place, with a value more.
Widens(g, f, c, vals) ==
    /\ g.cols = f.cols \cup {c} /\ DOMAIN g.rows = DOMAIN f.rows
    /\ \A k \in DOMAIN f.rows : /\ g.rows[k].val[c] = vals[k] /\ g.rows[k].from = f.rows[k].from
                                /\ \A d \in f.cols \ {c} : g.rows[k].val[d] = f.rows[k].val[d]

LEMMA WidenTraces ==
    ASSUME NEW f, Typed(f), NEW c, NEW vals, \A i \in DOMAIN f.rows : vals[i] \in Int
    PROVE  /\ Traces(WithColumn(f, c, vals), f, {c}) /\ WithColumn(f, c, vals).status = "ok"
           /\ WithColumn(f, c, vals).cols = f.cols \cup {c} /\ Len(WithColumn(f, c, vals).rows) = Len(f.rows)
           /\ Widens(WithColumn(f, c, vals), f, c, vals)
<1> DEFINE cols == f.cols \cup {c}
           rows == [i \in DOMAIN f.rows |->
                       [f.rows[i] EXCEPT !.val = [d \in cols |-> IF d = c THEN vals[i] ELSE f.rows[i].val[d]]]]
           g == WithColumn(f, c, vals)
<1>1. g = OkFrame(cols, rows)
    BY DEF WithColumn
<1>2. IsFrame(g) /\ g.status = "ok" /\ g.cols = cols /\ g.rows = rows
    <2> HIDE DEF cols, rows, g
    <2> QED BY <1>1, Made
<1>3. Len(f.rows) \in Nat /\ DOMAIN f.rows = 1..Len(f.rows)
    BY RowsOf
<1>4. ASSUME NEW k \in DOMAIN f.rows
      PROVE  /\ rows[k] \in Rows(cols) /\ rows[k].val[c] = vals[k] /\ rows[k].from = f.rows[k].from
             /\ \A d \in f.cols \ {c} : rows[k].val[d] = f.rows[k].val[d]
    <2>1. f.rows[k] \in Rows(f.cols) /\ f.rows[k].val \in [f.cols -> Int] /\ vals[k] \in Int
        BY RowsOf
    <2>2. [d \in cols |-> IF d = c THEN vals[k] ELSE f.rows[k].val[d]] \in [cols -> Int]
        BY <2>1
    <2>3. /\ rows[k] = [f.rows[k] EXCEPT !.val = [d \in cols |-> IF d = c THEN vals[k] ELSE f.rows[k].val[d]]]
        OBVIOUS
    <2>4. /\ rows[k].val = [d \in cols |-> IF d = c THEN vals[k] ELSE f.rows[k].val[d]]
          /\ rows[k].from = f.rows[k].from /\ rows[k] \in Rows(cols)
        <3> HIDE DEF rows
        <3> QED BY <2>1, <2>2, <2>3 DEF Rows
    <2> HIDE DEF rows
    <2> QED BY <2>4
<1> HIDE DEF g
<1>5. rows \in [1..Len(f.rows) -> Rows(cols)]
    BY <1>3, <1>4
<1>6. rows \in Seq(Rows(cols)) /\ Len(rows) = Len(f.rows) /\ DOMAIN rows = DOMAIN f.rows
    <2> HIDE DEF rows, cols
    <2> QED BY <1>3, <1>5, Tuples
<1> HIDE DEF rows
<1>7. Typed(g)
    BY <1>2, <1>6 DEF Typed
<1>8. Comes(g, f, {c})
    BY <1>2, <1>4, <1>6, <1>7 DEF Comes
<1> QED BY <1>2, <1>3, <1>4, <1>6, <1>8 DEF Traces, Widens, g

LEMMA NarrowTraces ==
    ASSUME NEW f, Typed(f), NEW cols \in SUBSET f.cols
    PROVE  LET g == Project(f, cols) IN Traces(g, f, {}) /\ g.status = "ok" /\ g.cols = cols
<1> DEFINE rows == [i \in DOMAIN f.rows |-> [f.rows[i] EXCEPT !.val = Restrict(f.rows[i].val, cols)]]
           g == Project(f, cols)
<1>1. g = OkFrame(cols, rows)
    BY DEF Project
<1>2. IsFrame(g) /\ g.status = "ok" /\ g.cols = cols /\ g.rows = rows
    <2> HIDE DEF rows, g
    <2> QED BY <1>1, Made
<1>3. Len(f.rows) \in Nat /\ DOMAIN f.rows = 1..Len(f.rows)
    BY RowsOf
<1>4. ASSUME NEW k \in DOMAIN f.rows
      PROVE  rows[k] \in Rows(cols) /\ rows[k].from = f.rows[k].from /\ \A d \in cols : rows[k].val[d] = f.rows[k].val[d]
    <2>1. f.rows[k] \in Rows(f.cols) /\ f.rows[k].val \in [f.cols -> Int]
        BY RowsOf
    <2>2. rows[k] = [f.rows[k] EXCEPT !.val = [d \in cols |-> f.rows[k].val[d]]]
        BY DEF Restrict
    <2>3. [d \in cols |-> f.rows[k].val[d]] \in [cols -> Int]
        BY <2>1
    <2>4. rows[k].val = [d \in cols |-> f.rows[k].val[d]] /\ rows[k].from = f.rows[k].from /\ rows[k] \in Rows(cols)
        <3> HIDE DEF rows
        <3> QED BY <2>1, <2>2, <2>3 DEF Rows
    <2> HIDE DEF rows
    <2> QED BY <2>4
<1> HIDE DEF g
<1>5. rows \in [1..Len(f.rows) -> Rows(cols)]
    BY <1>3, <1>4
<1>6. rows \in Seq(Rows(cols)) /\ Len(rows) = Len(f.rows) /\ DOMAIN rows = DOMAIN f.rows
    BY <1>3, <1>5, Tuples
<1> HIDE DEF rows
<1>7. Typed(g)
    BY <1>2, <1>6 DEF Typed
<1>8. Comes(g, f, {})
    BY <1>2, <1>4, <1>6, <1>7 DEF Comes
<1> QED BY <1>2, <1>3, <1>6, <1>8 DEF Traces, g

-----------------------------------------------------------------------------
\* The steps that keep, drop or reorder rows.

Ordering == {"latest_by_group", "row_number", "match_at_offset", "resample", "asof_join"} \cup Rolling \cup Shifts \cup Cumulative
OnField == {"derive", "filter", "having", "filter_set", "filter_range", "filter_null", "sort", "quantile_filter",
            "top_k_by_group", "group_transform", "normalize", "weighted_mean", "rank", "dense_rank", "match_at_offset",
            "compare_fields", "compare_scalar", "fill_constant", "clip", "conditional_value"}
           \cup Rolling \cup Shifts \cup Cumulative

LEMMA Named ==
    ASSUME NEW g \in Seq(STRING), NEW cols, ToSet(g) \subseteq cols
    PROVE  g \in Seq(cols)
<1>1. \A i \in 1..Len(g) : g[i] \in cols
    BY DEF ToSet
<1>2. g \in [1..Len(g) -> cols] /\ Len(g) \in Nat
    BY <1>1
<1> QED BY <1>2, Tuples

\* The columns that a complete step names are columns of the frame.
LEMMA Arguments ==
    ASSUME NEW cols, NEW s \in Steps, WellFormed(s), Read(s) \subseteq cols
    PROVE  /\ s.group_by \in Seq(cols) /\ s.join_on \in Seq(cols)
           /\ s.op \notin Copies \cup {"asof_join", "union_all"} => s.fields \in Seq(cols)
           /\ s.op \in Ordering => s.order_by \in cols
           /\ s.op \in OnField => s.field \in cols
           /\ s.right_field # "" => s.right_field \in cols
           /\ s.op = "compare_fields" => s.right_field \in cols
           /\ s.op = "weighted_mean" => s.weight \in cols
<1>1. /\ s.group_by \in Seq(STRING) /\ s.join_on \in Seq(STRING) /\ s.fields \in Seq(STRING)
    BY StepsAreTyped
<1>2. /\ ToSet(s.group_by) \subseteq cols /\ ToSet(s.join_on) \subseteq cols
      /\ s.op \notin Copies \cup {"asof_join", "union_all"} => ToSet(s.fields) \subseteq cols
      /\ {s.field, s.right_field, s.weight, s.order_by} \ {""} \subseteq cols
    BY DEF Read
<1>3. Complete(s)
    BY DEF WellFormed
<1>4. \A names : Given(s, names) => /\ "field" \in names => s.field # ""
                                    /\ "order_by" \in names => s.order_by # ""
                                    /\ "right_field" \in names => s.right_field # ""
                                    /\ "weight" \in names => s.weight # ""
    BY DEF Given
<1>5. s.op \in Ordering => s.order_by # ""
    <2>1. s.op \in Ordering => \E names : Given(s, names) /\ "order_by" \in names
        BY <1>3 DEF Complete, Ordering, Rolling, Shifts, Cumulative, Members, KeyJoins, Copies
    <2> QED BY <2>1, <1>4
<1>6. s.op \in OnField => s.field # ""
    <2> DEFINE Has == \E names : Given(s, names) /\ "field" \in names
    <2>1. s.op \in Rolling \cup Shifts \cup Cumulative => Has
        BY <1>3 DEF Complete, Rolling, Shifts, Cumulative, Members, KeyJoins, Copies
    <2>2. s.op \in {"derive", "filter", "having", "filter_set", "filter_range", "filter_null", "sort", "quantile_filter"} => Has
        BY <1>3 DEF Complete, Rolling, Shifts, Cumulative, Members, KeyJoins, Copies
    <2>3. s.op \in {"top_k_by_group", "group_transform", "normalize", "weighted_mean", "rank", "dense_rank"} => Has
        BY <1>3 DEF Complete, Rolling, Shifts, Cumulative, Members, KeyJoins, Copies
    <2>4. s.op \in {"match_at_offset", "compare_fields", "compare_scalar", "fill_constant", "clip", "conditional_value"} => Has
        BY <1>3 DEF Complete, Rolling, Shifts, Cumulative, Members, KeyJoins, Copies
    <2>5. s.op \in OnField => Has
        <3> HIDE DEF Has
        <3> QED BY <2>1, <2>2, <2>3, <2>4 DEF OnField
    <2> QED BY <2>5, <1>4
<1>7. s.op = "compare_fields" => s.right_field # ""
    <2>1. s.op = "compare_fields" => \E names : Given(s, names) /\ "right_field" \in names
        BY <1>3 DEF Complete, OnField, Rolling, Shifts, Cumulative, Members, KeyJoins, Copies
    <2> QED BY <2>1, <1>4
<1>8. s.op = "weighted_mean" => s.weight # ""
    <2>1. s.op = "weighted_mean" => \E names : Given(s, names) /\ "weight" \in names
        BY <1>3 DEF Complete, OnField, Rolling, Shifts, Cumulative, Members, KeyJoins, Copies
    <2> QED BY <2>1, <1>4
<1> QED BY <1>1, <1>2, <1>5, <1>6, <1>7, <1>8, Named

LEMMA PlainTraces ==
    ASSUME NEW f, Typed(f), NEW s \in Steps, s.op \in Plain, WellFormed(s), Read(s) \subseteq f.cols
    PROVE  Traces(Rowwise(f, s), f, {})
<1>1. CASE s.op = "latest_by_group"
    <2> DEFINE o == SortWithin(f, <<>>, s.order_by, s.direction)
    <2>1. Rowwise(f, s) = Latest(f, s)
        BY <1>1 DEF Rowwise
    <2>2. <<>> \in Seq(f.cols) /\ s.order_by \in f.cols
        <3>1. s.op \in Ordering
            BY <1>1 DEF Ordering
        <3> QED BY <3>1, Arguments, EmptySeq
    <2>3. Traces(o, f, {})
        BY <2>2, SortWithinTraces
    <2>4. \E I \in SUBSET DOMAIN o.rows : Latest(f, s) = KeepIndices(o, I)
        BY DEF Latest, DropDuplicates
    <2> HIDE DEF o
    <2>5. Traces(Latest(f, s), o, {})
        BY <2>3, <2>4, KeepTraces DEF Traces, Comes
    <2>6. Traces(Latest(f, s), f, {} \cup {})
        BY <2>3, <2>5, TracesOn
    <2> QED BY <2>1, <2>6
<1>2. CASE s.op = "distinct"
    <2>1. Rowwise(f, s) = DropDuplicates(f, s.fields, s.keep)
        BY <1>2 DEF Rowwise
    <2> QED BY <2>1, KeepTraces DEF DropDuplicates
<1>3. CASE s.op = "drop_missing"
    <2>1. Rowwise(f, s) = DropMissing(f, s)
        BY <1>3 DEF Rowwise
    <2> QED BY <2>1, KeepTraces DEF DropMissing, KeepWhere
<1>4. CASE s.op \in {"filter", "having"}
    <2>1. Rowwise(f, s) = FilterRows(f, s)
        BY <1>4 DEF Rowwise
    <2> QED BY <2>1, KeepTraces DEF FilterRows, KeepWhere
<1>5. CASE s.op = "filter_set"
    <2>1. Rowwise(f, s) = FilterSet(f, s)
        BY <1>5 DEF Rowwise
    <2> QED BY <2>1, KeepTraces DEF FilterSet, KeepWhere
<1>6. CASE s.op = "filter_range"
    <2>1. Rowwise(f, s) = FilterRange(f, s)
        BY <1>6 DEF Rowwise
    <2> QED BY <2>1, KeepTraces DEF FilterRange, KeepWhere
<1>7. CASE s.op = "filter_null"
    <2>1. Rowwise(f, s) = FilterNull(f, s)
        BY <1>7 DEF Rowwise
    <2> QED BY <2>1, KeepTraces DEF FilterNull, KeepWhere
<1>8. CASE s.op = "sort"
    <2>1. Rowwise(f, s) = SortRows(f, s)
        BY <1>8 DEF Rowwise
    <2>2. <<>> \in Seq(f.cols) /\ s.field \in f.cols
        <3>1. s.op \in OnField
            BY <1>8 DEF OnField
        <3> QED BY <3>1, Arguments, EmptySeq
    <2> QED BY <2>1, <2>2, SortWithinTraces DEF SortRows
<1>9. CASE s.op = "limit"
    <2>1. Rowwise(f, s) = LimitRows(f, s)
        BY <1>9 DEF Rowwise
    <2> QED BY <2>1, KeepTraces DEF LimitRows
<1>10. CASE s.op = "quantile_filter"
    <2>1. Rowwise(f, s) = QuantileFilter(f, s)
        BY <1>10 DEF Rowwise
    <2>2. \/ QuantileFilter(f, s) = [f EXCEPT !.rows = <<>>]
          \/ \E I \in SUBSET DOMAIN f.rows : QuantileFilter(f, s) = KeepIndices(f, I)
        BY DEF QuantileFilter, KeepWhere
    <2>3. CASE QuantileFilter(f, s) = [f EXCEPT !.rows = <<>>]
        <3>1. <<>> \in [1..0 -> Rows(f.cols)]
            OBVIOUS
        <3>2. Comes([f EXCEPT !.rows = <<>>], f, {})
            <4>1. 0 \in Nat /\ \A k \in 1..0 : \E j \in DOMAIN f.rows : <<>>[k] = f.rows[j]
                OBVIOUS
            <4> QED BY <3>1, <4>1, SomeRows
        <3>3. Len([f EXCEPT !.rows = <<>>].rows) <= Len(f.rows)
            BY RowsOf DEF Typed, IsFrame
        <3> QED BY <2>1, <2>3, <3>2, <3>3 DEF Traces
    <2>4. CASE \E I \in SUBSET DOMAIN f.rows : QuantileFilter(f, s) = KeepIndices(f, I)
        BY <2>1, <2>4, KeepTraces
    <2> QED BY <2>2, <2>3, <2>4
<1>11. CASE s.op = "top_k_by_group"
    <2> DEFINE o == SortWithin(f, s.group_by, s.field, s.direction)
    <2>1. Rowwise(f, s) = TopK(f, s)
        BY <1>11 DEF Rowwise
    <2>2. s.group_by \in Seq(f.cols) /\ s.field \in f.cols
        BY <1>11, Arguments DEF OnField
    <2>3. Traces(o, f, {})
        BY <2>2, SortWithinTraces
    <2>4. \E I \in SUBSET DOMAIN o.rows : TopK(f, s) = KeepIndices(o, I)
        BY DEF TopK
    <2> HIDE DEF o
    <2>5. Traces(TopK(f, s), o, {})
        BY <2>3, <2>4, KeepTraces DEF Traces, Comes
    <2>6. Traces(TopK(f, s), f, {} \cup {})
        BY <2>3, <2>5, TracesOn
    <2> QED BY <2>1, <2>6
<1> QED BY <1>1, <1>2, <1>3, <1>4, <1>5, <1>6, <1>7, <1>8, <1>9, <1>10, <1>11 DEF Plain, RowSteps

-----------------------------------------------------------------------------
\* The steps that add a column.

LEMMA Added ==
    ASSUME NEW f, Typed(f), NEW o, Traces(o, f, {}), o.cols = f.cols,
           NEW c, NEW vals, \A i \in DOMAIN o.rows : vals[i] \in Int
    PROVE  Traces(WithColumn(o, c, vals), f, {c})
<1> DEFINE g == WithColumn(o, c, vals)
<1>1. Typed(o)
    BY DEF Traces, Comes
<1>2. Traces(g, o, {c})
    BY <1>1, WidenTraces
<1>3. Traces(g, f, {} \cup {c})
    <2> HIDE DEF g
    <2> QED BY <1>2, TracesOn
<1> QED BY <1>2, <1>3

LEMMA Itself ==
    ASSUME NEW f, Typed(f)
    PROVE  Traces(f, f, {})
BY RowsOf DEF Traces, Comes

LEMMA ValuesAreInt ==
    ASSUME NEW f, Typed(f), NEW c \in f.cols, NEW I \in SUBSET DOMAIN f.rows
    PROVE  Values(f, c, I) \in Seq(Int)
<1>1. I \in SUBSET Int /\ IsFiniteSet(I)
    BY SubIndices DEF Typed
<1>2. \A i \in I : Column(f, c)[i] \in Int
    BY RowsOf DEF Column
<1> QED BY <1>1, <1>2, PickedFrom DEF Values

LEMMA ValueIsInt ==
    ASSUME NEW f, Typed(f), NEW c \in f.cols, NEW i \in DOMAIN f.rows
    PROVE  f.rows[i].val[c] \in Int /\ Num(f.rows[i].val[c]) \in Int
BY RowsOf, NumIsInt

LEMMA Counted ==
    ASSUME NEW f, Typed(f), NEW I \in SUBSET DOMAIN f.rows
    PROVE  Cardinality(I) \in Int
BY SubIndices DEF Typed

LEMMA Fixed == Null \in Int /\ Opaque \in Int
BY DEF Null, Opaque

LEMMA AddsTraces ==
    ASSUME NEW f, Typed(f), NEW s \in Steps, s.op \in Adding \ Members, WellFormed(s), Read(s) \subseteq f.cols,
           AddColumn(f, s).status = "ok"
    PROVE  Traces(AddColumn(f, s), f, New(s))
<1> DEFINE T == IF s.op = "match_at_offset" THEN {s.output, s.matched} ELSE {s.output}
           Adds(g) == \E o, vals : /\ Traces(o, f, {}) /\ o.cols = f.cols /\ \A i \in DOMAIN o.rows : vals[i] \in Int
                                   /\ g = WithColumn(o, s.output, vals)
           Sorted == SortBy(f, Append(s.group_by, s.order_by))
<1>0. New(s) = T
    <2>1. s.op \notin Copies \cup {"asof_join"}
        BY DEF Copies, Adding, Rolling, Shifts, Cumulative, Members
    <2>2. CASE s.op = "match_at_offset"
        BY <2>2 DEF New, Copies
    <2>3. CASE s.op # "match_at_offset"
        <3>1. s.op \in (Adding \ {"match_at_offset"}) \cup {"weighted_mean"} /\ s.op # "rename_fields"
            BY <2>3 DEF Adding, Rolling, Shifts, Cumulative, Members
        <3> QED BY <2>1, <2>3, <3>1 DEF New
    <2> QED BY <2>2, <2>3
<1>1. ASSUME s.op # "match_at_offset", Adds(AddColumn(f, s))
      PROVE  Traces(AddColumn(f, s), f, New(s))
    <2>1. New(s) = {s.output}
        BY <1>0, <1>1
    <2>2. PICK o, vals : /\ Traces(o, f, {}) /\ o.cols = f.cols /\ \A i \in DOMAIN o.rows : vals[i] \in Int
                         /\ AddColumn(f, s) = WithColumn(o, s.output, vals)
        BY <1>1
    <2> QED BY <2>1, <2>2, Added
<1>2. Traces(f, f, {})
    BY Itself
<1>3. ASSUME s.order_by \in f.cols
      PROVE  Traces(Sorted, f, {}) /\ Sorted.cols = f.cols /\ Typed(Sorted)
    <2>1. Append(s.group_by, s.order_by) \in Seq(f.cols)
        BY <1>3, Arguments, AppendProperties
    <2> HIDE DEF Sorted
    <2> QED BY <2>1, SortByTraces DEF Traces, Comes, Sorted
<1>4. CASE s.op = "derive"
    <2>1. AddColumn(f, s) = DeriveColumn(f, s)
        BY <1>4 DEF AddColumn, Rolling, Shifts, Cumulative
    <2> DEFINE operand(r) == IF s.right_field # "" THEN Num(r.val[s.right_field]) ELSE s.value
               result(a, b) == IF a = Null \/ b = Null THEN Null
                               ELSE CASE s.arithmetic = "add" -> a + b       [] s.arithmetic = "subtract" -> a - b
                                      [] s.arithmetic = "multiply" -> a * b  [] s.arithmetic = "constant_minus" -> b - a
                                      [] OTHER -> Opaque
               vals == [i \in DOMAIN f.rows |-> result(Num(f.rows[i].val[s.field]), operand(f.rows[i]))]
    <2>2. DeriveColumn(f, s) = Fails(f, "data") \/ DeriveColumn(f, s) = WithColumn(f, s.output, vals)
        BY DEF DeriveColumn
    <2>3. Fails(f, "data").status # "ok"
        BY DEF Fails, Typed, IsFrame
    <2>4. \A i \in DOMAIN f.rows : vals[i] \in Int
        <3> TAKE i \in DOMAIN f.rows
        <3> DEFINE a == Num(f.rows[i].val[s.field])
                   b == operand(f.rows[i])
        <3>1. s.op \in OnField
            BY <1>4 DEF OnField
        <3>2. a \in Int
            BY <3>1, Arguments, ValueIsInt
        <3>3. b \in Int
            BY Arguments, ValueIsInt, StepsAreTyped
        <3>4. vals[i] = result(a, b)
            OBVIOUS
        <3> HIDE DEF a, b, vals
        <3> QED BY <3>2, <3>3, <3>4, Fixed
    <2> HIDE DEF vals
    <2> QED BY <1>1, <1>2, <1>4, <2>1, <2>2, <2>3, <2>4
<1>5. CASE s.op \in Rolling
    <2>1. AddColumn(f, s) = RollingColumn(f, s)
        BY <1>5 DEF AddColumn, Rolling, Shifts, Cumulative
    <2>2. s.order_by \in f.cols
        BY <1>5, Arguments DEF Ordering
    <2> DEFINE o == Sorted
               last(i) == {j \in Group(o, s.group_by, i) :
                              j <= i /\ Cardinality({k \in Group(o, s.group_by, i) : j <= k /\ k < i}) < s.window}
               full(i) == \E j \in At(o, s, i, s.window - 1) : Apart(o, s, i, j, s.window - 1)
               there(i) == Len(Nums(Values(o, s.field, last(i)))) >= s.min_periods /\ (s.consecutive => full(i))
               vals == [i \in DOMAIN o.rows |-> IF there(i) THEN Opaque ELSE Null]
    <2>3. RollingColumn(f, s) = WithColumn(o, s.output, vals)
        BY DEF RollingColumn
    <2>4. \A i \in DOMAIN o.rows : vals[i] \in Int
        <3> HIDE DEF there, Sorted
        <3> QED BY Fixed
    <2> HIDE DEF vals
    <2>5. Adds(AddColumn(f, s))
        <3> HIDE DEF Sorted
        <3> QED BY <1>3, <2>1, <2>2, <2>3, <2>4
    <2> QED BY <1>1, <1>5, <2>5 DEF Rolling
<1>6. CASE s.op = "group_transform"
    <2>1. AddColumn(f, s) = GroupTransform(f, s)
        BY <1>6 DEF AddColumn, Rolling, Shifts, Cumulative
    <2> DEFINE v(i) == Values(f, s.field, Group(f, s.group_by, i))
               vals == [i \in DOMAIN f.rows |-> Aggregate1([k \in DOMAIN v(i) |-> Num(v(i)[k])], s.fn)]
    <2>2. GroupTransform(f, s) = WithColumn(f, s.output, vals)
        BY DEF GroupTransform
    <2>3. \A i \in DOMAIN f.rows : vals[i] \in Int
        <3> TAKE i \in DOMAIN f.rows
        <3>1. s.op \in OnField /\ Group(f, s.group_by, i) \in SUBSET DOMAIN f.rows
            BY <1>6 DEF OnField, Group
        <3>2. v(i) \in Seq(Int)
            BY <3>1, Arguments, ValuesAreInt
        <3>3. [k \in DOMAIN v(i) |-> Num(v(i)[k])] \in Seq(Int)
            BY <3>2, CoercedIsInt
        <3>4. vals[i] = Aggregate1([k \in DOMAIN v(i) |-> Num(v(i)[k])], s.fn)
            OBVIOUS
        <3> HIDE DEF vals, v
        <3> QED BY <3>3, <3>4, AggregateIsInt
    <2> HIDE DEF vals
    <2> QED BY <1>1, <1>2, <1>6, <2>1, <2>2, <2>3
<1>7. CASE s.op = "normalize"
    <2>1. AddColumn(f, s) = NormalizeColumn(f, s)
        BY <1>7 DEF AddColumn, Rolling, Shifts, Cumulative
    <2> DEFINE spread(i) == Cardinality(ToSet(Nums(Values(f, s.field, Group(f, s.group_by, i))))) > 1
               there(i) == Num(f.rows[i].val[s.field]) # Null /\ (s.fn = "percentile" \/ spread(i))
               vals == [i \in DOMAIN f.rows |-> IF there(i) THEN Opaque ELSE Null]
    <2>2. NormalizeColumn(f, s) = WithColumn(f, s.output, vals)
        BY DEF NormalizeColumn
    <2>3. \A i \in DOMAIN f.rows : vals[i] \in Int
        <3> HIDE DEF there
        <3> QED BY Fixed
    <2> HIDE DEF vals
    <2> QED BY <1>1, <1>2, <1>7, <2>1, <2>2, <2>3
<1>8. CASE s.op \in {"rank", "dense_rank"}
    <2>1. AddColumn(f, s) = RankColumn(f, s)
        BY <1>8 DEF AddColumn, Rolling, Shifts, Cumulative
    <2> DEFINE nums(i) == Nums(Values(f, s.field, Group(f, s.group_by, i)))
               ahead(n, v) == {k \in DOMAIN n : IF s.direction = "asc" THEN n[k] < v ELSE n[k] > v}
               rank(i, v) == IF v = Null THEN Null
                             ELSE 1 + Cardinality(IF s.op = "dense_rank" THEN {nums(i)[k] : k \in ahead(nums(i), v)}
                                                  ELSE ahead(nums(i), v))
               vals == [i \in DOMAIN f.rows |-> rank(i, Num(f.rows[i].val[s.field]))]
    <2>2. RankColumn(f, s) = WithColumn(f, s.output, vals)
        BY DEF RankColumn
    <2>3. \A i \in DOMAIN f.rows : vals[i] \in Int
        <3> TAKE i \in DOMAIN f.rows
        <3>1. s.op \in OnField /\ Group(f, s.group_by, i) \in SUBSET DOMAIN f.rows
            BY <1>8 DEF OnField, Group
        <3>2. nums(i) \in Seq(Int)
            BY <3>1, Arguments, ValuesAreInt, NumsIsInt
        <3> DEFINE n == nums(i)
                   v == Num(f.rows[i].val[s.field])
                   I == ahead(n, v)
        <3>3. I \in SUBSET DOMAIN n
            OBVIOUS
        <3>4. Cardinality({n[k] : k \in I}) \in Nat /\ Cardinality(I) \in Nat
            <4>1. n \in Seq(Int)
                BY <3>2
            <4> HIDE DEF n, I
            <4> QED BY <3>3, <4>1, Images, SubIndices
        <3>5. vals[i] = IF v = Null THEN Null ELSE 1 + Cardinality(IF s.op = "dense_rank" THEN {n[k] : k \in I} ELSE I)
            OBVIOUS
        <3> HIDE DEF vals, n, I, v
        <3> QED BY <3>4, <3>5, Fixed
    <2> HIDE DEF vals
    <2> QED BY <1>1, <1>2, <1>8, <2>1, <2>2, <2>3
<1>9. CASE s.op = "row_number"
    <2>1. AddColumn(f, s) = RowNumber(f, s)
        BY <1>9 DEF AddColumn, Rolling, Shifts, Cumulative
    <2> DEFINE o == SortWithin(f, s.group_by, s.order_by, s.direction)
               vals == [i \in DOMAIN o.rows |-> Cardinality({j \in Group(o, s.group_by, i) : j <= i})]
    <2>2. RowNumber(f, s) = WithColumn(o, s.output, vals)
        BY DEF RowNumber
    <2>3. Traces(o, f, {}) /\ o.cols = f.cols /\ Typed(o)
        <3>1. s.group_by \in Seq(f.cols) /\ s.order_by \in f.cols
            BY <1>9, Arguments DEF Ordering
        <3> QED BY <3>1, SortWithinTraces DEF Traces, Comes
    <2> HIDE DEF o
    <2>4. \A i \in DOMAIN o.rows : vals[i] \in Int
        <3> TAKE i \in DOMAIN o.rows
        <3>1. {j \in Group(o, s.group_by, i) : j <= i} \in SUBSET DOMAIN o.rows
            BY DEF Group
        <3> QED BY <2>3, <3>1, Counted
    <2> HIDE DEF vals
    <2> QED BY <1>1, <1>9, <2>1, <2>2, <2>3, <2>4
<1>10. CASE s.op \in Shifts
    <2>1. AddColumn(f, s) = ShiftColumn(f, s)
        BY <1>10 DEF AddColumn, Rolling, Shifts, Cumulative
    <2> DEFINE o == Sorted
               other(i) == {j \in At(o, s, i, s.periods) : s.consecutive => Apart(o, s, i, j, s.periods)}
               v(i) == o.rows[CHOOSE j \in other(i) : TRUE].val[s.field]
               value(i) == IF other(i) = {} THEN Null
                           ELSE IF s.op = "shift" THEN v(i)
                                ELSE IF Num(v(i)) = Null \/ Num(o.rows[i].val[s.field]) = Null THEN Null ELSE Opaque
               vals == [i \in DOMAIN o.rows |-> value(i)]
    <2>2. ShiftColumn(f, s) = WithColumn(o, s.output, vals)
        BY DEF ShiftColumn
    <2>3. s.order_by \in f.cols /\ s.field \in f.cols
        BY <1>10, Arguments DEF Ordering, OnField
    <2>4. Traces(o, f, {}) /\ o.cols = f.cols /\ Typed(o)
        BY <1>3, <2>3
    <2> HIDE DEF Sorted
    <2>5. \A i \in DOMAIN o.rows : vals[i] \in Int
        <3> TAKE i \in DOMAIN o.rows
        <3>1. other(i) \subseteq DOMAIN o.rows
            BY DEF At, Group
        <3>2. other(i) # {} => (CHOOSE j \in other(i) : TRUE) \in other(i)
            OBVIOUS
        <3>3. other(i) # {} => v(i) \in Int
            <4> HIDE DEF other
            <4> QED BY <2>3, <2>4, <3>1, <3>2, ValueIsInt
        <3>4. vals[i] = value(i)
            OBVIOUS
        <3> HIDE DEF other, v, vals
        <3> QED BY <3>3, <3>4, Fixed
    <2> HIDE DEF vals
    <2> QED BY <1>1, <1>10, <2>1, <2>2, <2>4, <2>5 DEF Shifts
<1>11. CASE s.op \in Cumulative
    <2>1. AddColumn(f, s) = CumulativeColumn(f, s)
        BY <1>11 DEF AddColumn, Rolling, Shifts, Cumulative
    <2> DEFINE o == Sorted
               upto(i) == Nums(Values(o, s.field, {j \in Group(o, s.group_by, i) : j <= i}))
               value(i) == IF s.op = "cumulative_sum"
                           THEN IF Num(o.rows[i].val[s.field]) = Null THEN Null ELSE Aggregate1(upto(i), "sum")
                           ELSE IF Len(upto(i)) >= s.min_periods THEN Opaque ELSE Null
               vals == [i \in DOMAIN o.rows |-> value(i)]
    <2>2. CumulativeColumn(f, s) = WithColumn(o, s.output, vals)
        BY DEF CumulativeColumn
    <2>3. s.order_by \in f.cols /\ s.field \in f.cols
        BY <1>11, Arguments DEF Ordering, OnField
    <2>4. Traces(o, f, {}) /\ o.cols = f.cols /\ Typed(o)
        BY <1>3, <2>3
    <2> HIDE DEF Sorted
    <2>5. \A i \in DOMAIN o.rows : vals[i] \in Int
        <3> TAKE i \in DOMAIN o.rows
        <3>1. {j \in Group(o, s.group_by, i) : j <= i} \in SUBSET DOMAIN o.rows
            BY DEF Group
        <3>2. upto(i) \in Seq(Int)
            BY <2>3, <2>4, <3>1, ValuesAreInt, NumsIsInt
        <3>3. Aggregate1(upto(i), "sum") \in Int
            BY <3>2, AggregateIsInt
        <3>4. vals[i] = value(i)
            OBVIOUS
        <3> HIDE DEF upto, vals
        <3> QED BY <3>3, <3>4, Fixed
    <2> HIDE DEF vals
    <2> QED BY <1>1, <1>11, <2>1, <2>2, <2>4, <2>5 DEF Cumulative
<1>12. CASE s.op = "match_at_offset"
    <2>1. AddColumn(f, s) = MatchAtOffset(f, s)
        BY <1>12 DEF AddColumn, Rolling, Shifts, Cumulative
    <2> DEFINE o == Sorted
    <2> DEFINE market == Dates(o, s.order_by)
               sessions(d) == Rank1(o, s.order_by, d) + 1 + s.periods
               later(d) == {m \in ToSet(market) : m >= d + s.periods}
               target(d) == IF d = Null THEN Null
                            ELSE IF s.unit = "trading_session"
                            THEN IF sessions(d) \in DOMAIN market THEN market[sessions(d)] ELSE Null
                            ELSE IF later(d) = {} THEN Null ELSE Min(later(d))
               found(i) == {j \in Group(o, s.group_by, i) : o.rows[j].val[s.order_by] = target(o.rows[i].val[s.order_by])}
               take(i, c) == IF found(i) = {} THEN Null ELSE o.rows[Max(found(i))].val[c]
               first == [i \in DOMAIN o.rows |-> take(i, s.field)]
               second == [i \in DOMAIN o.rows |-> take(i, s.order_by)]
               g == WithColumn(o, s.output, first)
    <2>2. MatchAtOffset(f, s) = WithColumn(g, s.matched, second)
        BY DEF MatchAtOffset
    <2> HIDE DEF target
    <2>3. s.order_by \in f.cols /\ s.field \in f.cols
        BY <1>12, Arguments DEF Ordering, OnField
    <2>4. Traces(o, f, {}) /\ o.cols = f.cols /\ Typed(o)
        BY <1>3, <2>3
    <2> HIDE DEF Sorted
    <2>5. \A i \in DOMAIN o.rows : \A c \in f.cols : take(i, c) \in Int
        <3> TAKE i \in DOMAIN o.rows
        <3> TAKE c \in f.cols
        <3>1. found(i) \in SUBSET DOMAIN o.rows
            BY DEF Group
        <3>2. found(i) # {} => Max(found(i)) \in found(i)
            <4> HIDE DEF found
            <4>1. found(i) \in SUBSET Int /\ IsFiniteSet(found(i))
                BY <2>4, <3>1, SubIndices DEF Typed
            <4> QED BY <4>1, Extremes
        <3> HIDE DEF found
        <3> QED BY <2>4, <3>1, <3>2, ValueIsInt, Fixed
    <2>6. \A i \in DOMAIN o.rows : first[i] \in Int /\ second[i] \in Int
        <3> HIDE DEF take
        <3> QED BY <2>3, <2>5
    <2> HIDE DEF first, second
    <2>8. Traces(g, f, {s.output}) /\ Typed(g) /\ DOMAIN g.rows = DOMAIN o.rows
        <3>1. Traces(g, f, {s.output}) /\ Len(g.rows) = Len(o.rows)
            <4>1. Traces(g, f, {s.output})
                <5> HIDE DEF o
                <5> QED BY <2>4, <2>6, Added
            <4>2. Len(g.rows) = Len(o.rows)
                <5>1. \A i \in DOMAIN o.rows : first[i] \in Int
                    BY <2>6
                <5>2. Typed(o)
                    BY <2>4
                <5>3. Traces(WithColumn(o, s.output, first), o, {s.output}) /\ Len(WithColumn(o, s.output, first).rows) = Len(o.rows)
                    <6> HIDE DEF o
                    <6> QED BY <5>1, <5>2, WidenTraces
                <5> QED BY <5>3
            <4> QED BY <4>1, <4>2
        <3>2. Typed(g)
            BY <3>1 DEF Traces, Comes
        <3> HIDE DEF g
        <3> QED BY <2>4, <3>1, <3>2, RowsOf
    <2> HIDE DEF g, o
    <2>9. Traces(WithColumn(g, s.matched, second), g, {s.matched})
        BY <2>6, <2>8, WidenTraces
    <2>10. Traces(MatchAtOffset(f, s), f, {s.output} \cup {s.matched})
        BY <2>2, <2>8, <2>9, TracesOn
    <2>11. New(s) = {s.output} \cup {s.matched}
        BY <1>0, <1>12
    <2> QED BY <2>1, <2>10, <2>11
<1>13. CASE s.op \in {"compare_fields", "compare_scalar"}
    <2>1. AddColumn(f, s) = CompareColumn(f, s)
        BY <1>13 DEF AddColumn, Rolling, Shifts, Cumulative
    <2> DEFINE holds(r) == IF s.op = "compare_fields"
                           THEN LET a == Num(r.val[s.field])  b == Num(r.val[s.right_field])
                                IN  IF a = Null \/ b = Null THEN s.comparison = "ne" ELSE Compare(s.comparison, a, b)
                           ELSE Satisfies(r, s)
               vals == [i \in DOMAIN f.rows |-> IF holds(f.rows[i]) THEN 1 ELSE 0]
    <2>2. CompareColumn(f, s) = WithColumn(f, s.output, vals)
        BY DEF CompareColumn
    <2>3. \A i \in DOMAIN f.rows : vals[i] \in Int
        <3> HIDE DEF holds
        <3> QED OBVIOUS
    <2> HIDE DEF vals
    <2> QED BY <1>1, <1>2, <1>13, <2>1, <2>2, <2>3
<1>14. CASE s.op \in {"coalesce", "fill_constant", "clip", "conditional_value"}
    <2>1. AddColumn(f, s) = CleanColumn(f, s)
        BY <1>14 DEF AddColumn, Rolling, Shifts, Cumulative
    <2> DEFINE clipped(v) == IF v = Null THEN Null ELSE IF s.lower # Null /\ v < s.lower THEN s.lower ELSE IF v > s.upper THEN s.upper ELSE v
               given(r) == Known([i \in DOMAIN s.fields |-> r.val[s.fields[i]]])
               value(r) == CASE s.op = "coalesce" -> IF given(r) = <<>> THEN Null ELSE given(r)[1]
                             [] s.op = "fill_constant" -> IF r.val[s.field] = Null THEN s.value ELSE r.val[s.field]
                             [] s.op = "clip" -> clipped(Num(r.val[s.field]))
                             [] s.op = "conditional_value" -> IF Satisfies(r, s) THEN s.upper ELSE s.lower
               vals == [i \in DOMAIN f.rows |-> value(f.rows[i])]
    <2>2. CleanColumn(f, s) = WithColumn(f, s.output, vals)
        BY DEF CleanColumn
    <2>3. s.value \in Int /\ s.lower \in Int /\ s.upper \in Int
        BY StepsAreTyped
    <2>4. \A i \in DOMAIN f.rows : vals[i] \in Int
        <3> TAKE i \in DOMAIN f.rows
        <3> DEFINE r == f.rows[i]
        <3>1. CASE s.op = "coalesce"
            <4> DEFINE k == given(r)
            <4>1. s.fields \in Seq(f.cols)
                BY <3>1, Arguments DEF Copies
            <4>2. [j \in DOMAIN s.fields |-> r.val[s.fields[j]]] \in Seq(Int)
                <5>1. [j \in DOMAIN s.fields |-> r.val[s.fields[j]]] \in [1..Len(s.fields) -> Int] /\ Len(s.fields) \in Nat
                    BY <4>1, RowsOf
                <5> QED BY <5>1, Tuples
            <4>3. k \in Seq(Int)
                BY <4>2, KnownIsInt
            <4>4. vals[i] = IF k = <<>> THEN Null ELSE k[1]
                BY <3>1
            <4> HIDE DEF k, vals
            <4> QED BY <4>3, <4>4, Fixed
        <3>2. CASE s.op # "coalesce"
            <4>1. s.op \in OnField
                BY <1>14, <3>2 DEF OnField
            <4>2. s.field \in f.cols
                BY <4>1, Arguments
            <4>3. r.val[s.field] \in Int /\ Num(r.val[s.field]) \in Int
                BY <4>2, ValueIsInt
            <4>4. \/ vals[i] = IF r.val[s.field] = Null THEN s.value ELSE r.val[s.field]
                  \/ vals[i] = clipped(Num(r.val[s.field]))
                  \/ vals[i] = IF Satisfies(r, s) THEN s.upper ELSE s.lower
                BY <1>14, <3>2
            <4> HIDE DEF vals, r
            <4> QED BY <2>3, <4>3, <4>4, Fixed
        <3> QED BY <3>1, <3>2
    <2> HIDE DEF vals
    <2> QED BY <1>1, <1>2, <1>14, <2>1, <2>2, <2>4
<1> QED BY <1>4, <1>5, <1>6, <1>7, <1>8, <1>9, <1>10, <1>11, <1>12, <1>13, <1>14 DEF Adding

-----------------------------------------------------------------------------
\* The steps that make one row of many, and those that choose or rename columns.

LEMMA Looser ==
    ASSUME NEW f, NEW g, NEW T, NEW U, T \subseteq U, Comes(g, f, T)
    PROVE  Comes(g, f, U)
<1>1. g.cols \ U \subseteq g.cols \ T
    OBVIOUS
<1> QED BY <1>1 DEF Comes

\* Where one row comes from, in the columns C.
Stems(r, f, C) ==
    /\ \A i \in r.from \ {Foreign} : \E j \in DOMAIN f.rows : i \in f.rows[j].from /\ \A c \in C : r.val[c] = f.rows[j].val[c]
    /\ C # {} => \E j \in DOMAIN f.rows : \A c \in C : r.val[c] = f.rows[j].val[c]

LEMMA Built ==
    ASSUME NEW f, NEW C, C \subseteq f.cols, NEW cols, NEW T, cols \subseteq C \cup T, NEW rows, rows \in Seq(Rows(cols)),
           \A k \in DOMAIN rows : Stems(rows[k], f, C)
    PROVE  Comes(OkFrame(cols, rows), f, T)
<1> DEFINE g == OkFrame(cols, rows)
<1>1. IsFrame(g) /\ g.status = "ok" /\ g.cols = cols /\ g.rows = rows
    BY Made
<1> HIDE DEF g
<1>2. Comes(g, f, T)
    BY <1>1 DEF Comes, Typed, Stems
<1> QED BY <1>2 DEF g

LEMMA KeyValues ==
    ASSUME NEW r, NEW t, NEW g, Key(r, g) = Key(t, g), NEW c \in ToSet(g)
    PROVE  r.val[c] = t.val[c]
<1>1. PICK i \in DOMAIN g : c = g[i]
    BY DEF ToSet
<1>2. Key(r, g)[i] = r.val[c] /\ Key(t, g)[i] = t.val[c]
    BY <1>1 DEF Key
<1> QED BY <1>2

LEMMA OriginsOf ==
    ASSUME NEW f, Typed(f), NEW I \in SUBSET DOMAIN f.rows
    PROVE  Origins(f, I) \in SUBSET Int /\ \A i \in Origins(f, I) : \E j \in I : i \in f.rows[j].from
BY RowsOf DEF Origins

\* The rows of the group of a row.
Alike(f, g, r) == {j \in DOMAIN f.rows : Key(f.rows[j], g) = Key(r, g)}

\* A row made of a group: it has the keys of a row of the frame, and the origins of the group.
LEMMA GroupStems ==
    ASSUME NEW f, Typed(f), NEW o, Traces(o, f, {}), NEW g \in Seq(f.cols), NEW i \in DOMAIN o.rows, o.cols = f.cols,
           NEW r, \A c \in ToSet(g) : r.val[c] = o.rows[i].val[c],
           r.from = Origins(f, Alike(f, g, o.rows[i]))
    PROVE  Stems(r, f, ToSet(g)) /\ r.from \in SUBSET Int
<1> DEFINE I == Alike(f, g, o.rows[i])
<1>1. ToSet(g) \subseteq f.cols
    BY DEF ToSet
<1>2. ToSet(g) # {} => \E j \in DOMAIN f.rows : \A c \in ToSet(g) : r.val[c] = f.rows[j].val[c]
    <2>1. f.cols # {} => \E j \in DOMAIN f.rows : \A c \in f.cols : o.rows[i].val[c] = f.rows[j].val[c]
        BY DEF Traces, Comes
    <2> QED BY <1>1, <2>1
<1>3. I \in SUBSET DOMAIN f.rows /\ r.from = Origins(f, I)
    BY DEF Alike
<1>4. \A j \in I : \A c \in ToSet(g) : r.val[c] = f.rows[j].val[c]
    BY KeyValues DEF Alike
<1> HIDE DEF I
<1>5. Origins(f, I) \in SUBSET Int /\ \A k \in Origins(f, I) : \E j \in I : k \in f.rows[j].from
    BY <1>3, OriginsOf
<1> QED BY <1>2, <1>3, <1>4, <1>5 DEF Stems

LEMMA AggValuesAreInt ==
    ASSUME NEW f, Typed(f), NEW s, \A i \in DOMAIN s.aggregations : s.aggregations[i].field \in f.cols,
           NEW I \in SUBSET DOMAIN f.rows
    PROVE  AggValues(f, s, I) \in [Outputs(s) -> Int]
<1>1. ASSUME NEW c \in Outputs(s)
      PROVE  AggValues(f, s, I)[c] \in Int
    <2> DEFINE a == CHOOSE a \in ToSet(s.aggregations) : a.out = c
    <2>1. \E b \in ToSet(s.aggregations) : b.out = c
        BY <1>1 DEF Outputs, ToSet
    <2>2. a \in ToSet(s.aggregations)
        BY <2>1
    <2>3. a.field \in f.cols
        BY <2>2 DEF ToSet
    <2>4. AggValues(f, s, I)[c] = Aggregate1(Values(f, a.field, I), a.fn)
        BY <1>1 DEF AggValues
    <2> HIDE DEF a
    <2>5. Values(f, a.field, I) \in Seq(Int)
        BY <2>3, ValuesAreInt
    <2> QED BY <2>4, <2>5, AggregateIsInt
<1>2. AggValues(f, s, I) = [c \in Outputs(s) |-> AggValues(f, s, I)[c]]
    BY DEF AggValues
<1> QED BY <1>1, <1>2

LEMMA AggregateTraces ==
    ASSUME NEW f, Typed(f), NEW s, s.group_by \in Seq(f.cols),
           \A i \in DOMAIN s.aggregations : s.aggregations[i].field \in f.cols,
           ToSet(s.group_by) \cap Outputs(s) = {}
    PROVE  Traces(AggregateRows(f, s), f, Outputs(s))
<1> DEFINE h == KeepIndices(f, Firsts(f, s.group_by))
           o == SortBy(h, s.group_by)
           all(r) == Alike(f, s.group_by, r)
           keys == ToSet(s.group_by)
           cols == keys \cup Outputs(s)
           val(i) == [c \in cols |-> IF c \in keys THEN o.rows[i].val[c] ELSE AggValues(f, s, all(o.rows[i]))[c]]
           rows == [i \in DOMAIN o.rows |-> [val |-> val(i), from |-> Origins(f, all(o.rows[i]))]]
<1>1. AggregateRows(f, s) = OkFrame(cols, rows)
    BY DEF AggregateRows, Alike
<1>2. Traces(h, f, {}) /\ h.cols = f.cols
    <2>1. Firsts(f, s.group_by) \in SUBSET DOMAIN f.rows
        BY DEF Firsts
    <2> QED BY <2>1, KeepTraces
<1>3. Typed(h)
    BY <1>2 DEF Traces, Comes
<1>4. Traces(o, h, {}) /\ o.cols = f.cols
    <2> HIDE DEF h
    <2> QED BY <1>2, <1>3, SortByTraces
<1>5. Traces(o, f, {}) /\ Typed(o)
    <2>1. Traces(o, f, {} \cup {})
        <3> HIDE DEF h, o
        <3> QED BY <1>2, <1>4, TracesOn
    <2> QED BY <2>1 DEF Traces, Comes
<1>6. Len(o.rows) \in Nat /\ DOMAIN o.rows = 1..Len(o.rows)
    <2> HIDE DEF o
    <2> QED BY <1>5, RowsOf
<1> HIDE DEF h, o
<1>7. keys \subseteq f.cols
    BY DEF ToSet
<1>8. ASSUME NEW i \in DOMAIN o.rows
      PROVE  rows[i] \in Rows(cols) /\ Stems(rows[i], f, keys)
    <2>1. rows[i].val = val(i) /\ rows[i].from = Origins(f, all(o.rows[i])) /\ rows[i] = [val |-> rows[i].val, from |-> rows[i].from]
        OBVIOUS
    <2>2. all(o.rows[i]) \in SUBSET DOMAIN f.rows
        BY DEF Alike
    <2>3. AggValues(f, s, all(o.rows[i])) \in [Outputs(s) -> Int]
        <3> HIDE DEF all
        <3> QED BY <2>2, AggValuesAreInt
    <2>4. o.rows[i].val \in [f.cols -> Int]
        BY <1>4, <1>5, RowsOf
    <2>5. val(i) \in [cols -> Int]
        <3> HIDE DEF all
        <3> QED BY <1>7, <2>3, <2>4
    <2>6. \A c \in keys : rows[i].val[c] = o.rows[i].val[c]
        BY <2>1
    <2> DEFINE r == rows[i]
    <2>7. r.val = val(i) /\ r.from = Origins(f, all(o.rows[i])) /\ r = [val |-> r.val, from |-> r.from] /\ \A c \in keys : r.val[c] = o.rows[i].val[c]
        BY <2>1, <2>6
    <2> HIDE DEF r, rows, val
    <2>8. Stems(r, f, keys) /\ r.from \in SUBSET Int
        BY <1>4, <1>5, <2>7, GroupStems
    <2>9. r \in Rows(cols)
        <3> HIDE DEF cols
        <3> QED BY <2>5, <2>7, <2>8 DEF Rows
    <2> QED BY <2>8, <2>9 DEF r
<1>9. rows \in [1..Len(o.rows) -> Rows(cols)]
    BY <1>6, <1>8
<1>11. rows \in Seq(Rows(cols)) /\ Len(rows) = Len(o.rows) /\ DOMAIN rows = DOMAIN o.rows
    <2> HIDE DEF rows, cols
    <2> QED BY <1>6, <1>9, Tuples
<1>12. cols \subseteq keys \cup Outputs(s) /\ keys \subseteq f.cols /\ \A k \in DOMAIN rows : Stems(rows[k], f, keys)
    <2> HIDE DEF rows, keys
    <2> QED BY <1>7, <1>8, <1>11
<1> HIDE DEF rows, cols, keys
<1>13. Comes(AggregateRows(f, s), f, Outputs(s)) /\ AggregateRows(f, s).rows = rows
    <2>0. cols \subseteq keys \cup Outputs(s) /\ keys \subseteq f.cols /\ rows \in Seq(Rows(cols)) /\ \A k \in DOMAIN rows : Stems(rows[k], f, keys)
        BY <1>11, <1>12
    <2>1. Comes(OkFrame(cols, rows), f, Outputs(s))
        BY <2>0, Built
    <2>2. OkFrame(cols, rows).rows = rows
        BY Made
    <2> QED BY <1>1, <2>1, <2>2
<1> QED BY <1>5, <1>11, <1>13 DEF Traces

\* The columns a step writes: Rewrites, as a set.
Touched(s) == New(s) \cup Outputs(s) \cup (IF s.op = "resample" THEN {s.order_by} ELSE {})

LEMMA SelectTraces ==
    ASSUME NEW f, Typed(f), NEW s, s.fields \in Seq(f.cols)
    PROVE  Traces(SelectFields(f, s), f, {})
<1>1. ToSet(s.fields) \in SUBSET f.cols
    BY DEF ToSet
<1> QED BY <1>1, NarrowTraces DEF SelectFields

LEMMA RenameTraces ==
    ASSUME NEW f, Typed(f), NEW s
    PROVE  Traces(RenameFields(f, s), f, Range(s.map))
<1> DEFINE to(c) == IF c \in DOMAIN s.map THEN s.map[c] ELSE c
           cols == {to(c) : c \in f.cols}
           was(d) == CHOOSE c \in f.cols : to(c) = d
           rows == [i \in DOMAIN f.rows |-> [f.rows[i] EXCEPT !.val = [d \in cols |-> f.rows[i].val[was(d)]]]]
           C == cols \ Range(s.map)
<1>1. RenameFields(f, s) = OkFrame(cols, rows)
    BY DEF RenameFields
<1>2. \A d \in cols : was(d) \in f.cols /\ to(was(d)) = d
    OBVIOUS
<1>3. \A d \in C : was(d) = d /\ d \in f.cols
    <2> TAKE d \in C
    <2>1. was(d) \in f.cols /\ to(was(d)) = d
        BY <1>2
    <2> HIDE DEF was
    <2> QED BY <2>1 DEF Range
<1> HIDE DEF was, cols
<1>4. Len(f.rows) \in Nat /\ DOMAIN f.rows = 1..Len(f.rows)
    BY RowsOf
<1>5. ASSUME NEW i \in DOMAIN f.rows
      PROVE  rows[i] \in Rows(cols) /\ Stems(rows[i], f, C)
    <2>1. f.rows[i] \in Rows(f.cols) /\ f.rows[i].val \in [f.cols -> Int]
        BY RowsOf
    <2>2. rows[i] = [f.rows[i] EXCEPT !.val = [d \in cols |-> f.rows[i].val[was(d)]]]
        OBVIOUS
    <2>3. [d \in cols |-> f.rows[i].val[was(d)]] \in [cols -> Int]
        BY <1>2, <2>1
    <2> HIDE DEF rows
    <2>4. rows[i].val = [d \in cols |-> f.rows[i].val[was(d)]] /\ rows[i].from = f.rows[i].from /\ rows[i] \in Rows(cols)
        BY <2>1, <2>2, <2>3 DEF Rows
    <2>5. \A c \in C : rows[i].val[c] = f.rows[i].val[c]
        BY <1>3, <2>4
    <2> QED BY <2>4, <2>5 DEF Stems
<1>6. rows \in [1..Len(f.rows) -> Rows(cols)]
    BY <1>4, <1>5
<1> HIDE DEF rows
<1>7. rows \in Seq(Rows(cols)) /\ Len(rows) = Len(f.rows) /\ DOMAIN rows = DOMAIN f.rows
    BY <1>4, <1>6, Tuples
<1>8. /\ cols \subseteq C \cup Range(s.map) /\ C \subseteq f.cols
      /\ rows \in Seq(Rows(cols)) /\ \A k \in DOMAIN rows : Stems(rows[k], f, C)
    BY <1>3, <1>5, <1>7
<1> HIDE DEF C
<1>9. Comes(OkFrame(cols, rows), f, Range(s.map))
    BY <1>8, Built
<1>10. OkFrame(cols, rows).rows = rows
    BY Made
<1> QED BY <1>1, <1>4, <1>7, <1>9, <1>10 DEF Traces

LEMMA WeightedTraces ==
    ASSUME NEW f, Typed(f), NEW s, s.group_by \in Seq(f.cols), WeightedMean(f, s).status = "ok"
    PROVE  Traces(WeightedMean(f, s), f, {s.output})
<1> DEFINE h == KeepIndices(f, Firsts(f, s.group_by))
           keys == ToSet(s.group_by)
           folded == [i \in DOMAIN h.rows |-> [h.rows[i] EXCEPT !.from = Origins(f, Alike(f, s.group_by, h.rows[i]))]]
           m == [h EXCEPT !.rows = folded]
           p == Project(m, keys)
           rows == [i \in DOMAIN folded |-> [folded[i] EXCEPT !.val = Restrict(folded[i].val, keys)]]
           vals == [i \in DOMAIN folded |-> Opaque]
<1>1. WeightedMean(f, s) = Fails(f, "data") \/ WeightedMean(f, s) = WithColumn(p, s.output, vals)
    BY DEF WeightedMean, Alike
<1>2. WeightedMean(f, s) = WithColumn(p, s.output, vals)
    <2>1. Fails(f, "data").status # "ok"
        BY DEF Fails, Typed, IsFrame
    <2> HIDE DEF p, vals
    <2> QED BY <1>1, <2>1
<1>3. Traces(h, f, {}) /\ h.cols = f.cols
    <2>1. Firsts(f, s.group_by) \in SUBSET DOMAIN f.rows
        BY DEF Firsts
    <2> QED BY <2>1, KeepTraces
<1>4. Typed(h) /\ IsFrame(h)
    BY <1>3 DEF Traces, Comes, Typed
<1>5. Len(h.rows) \in Nat /\ DOMAIN h.rows = 1..Len(h.rows)
    <2> HIDE DEF h
    <2> QED BY <1>4, RowsOf
<1> HIDE DEF h
<1>6. p = OkFrame(keys, rows)
    <2>1. m.rows = folded
        <3> HIDE DEF folded
        <3> QED BY <1>4 DEF IsFrame
    <2> HIDE DEF m, folded
    <2> QED BY <2>1 DEF Project
<1>7. keys \subseteq f.cols
    BY DEF ToSet
<1>8. ASSUME NEW i \in DOMAIN h.rows
      PROVE  rows[i] \in Rows(keys) /\ Stems(rows[i], f, keys)
    <2>1. h.rows[i] \in Rows(f.cols) /\ h.rows[i].val \in [f.cols -> Int]
        BY <1>3, <1>4, RowsOf
    <2>2. folded[i] = [h.rows[i] EXCEPT !.from = Origins(f, Alike(f, s.group_by, h.rows[i]))] /\ i \in DOMAIN folded
        OBVIOUS
    <2>3. rows[i] = [folded[i] EXCEPT !.val = Restrict(folded[i].val, keys)]
        BY <2>2
    <2> HIDE DEF folded, rows
    <2>4. folded[i] = [val |-> h.rows[i].val, from |-> Origins(f, Alike(f, s.group_by, h.rows[i]))]
        BY <2>1, <2>2 DEF Rows
    <2>5. Restrict(folded[i].val, keys) = [c \in keys |-> h.rows[i].val[c]]
        BY <2>4 DEF Restrict
    <2>6. rows[i] = [val |-> [c \in keys |-> h.rows[i].val[c]], from |-> Origins(f, Alike(f, s.group_by, h.rows[i]))]
        BY <2>3, <2>4, <2>5
    <2>7. [c \in keys |-> h.rows[i].val[c]] \in [keys -> Int]
        BY <1>7, <2>1
    <2>8. rows[i].from = Origins(f, Alike(f, s.group_by, h.rows[i])) /\ \A c \in keys : rows[i].val[c] = h.rows[i].val[c]
        BY <2>6
    <2>9. Stems(rows[i], f, keys) /\ rows[i].from \in SUBSET Int
        BY <1>3, <2>8, GroupStems
    <2> HIDE DEF keys
    <2> QED BY <2>6, <2>7, <2>9 DEF Rows
<1>9. rows \in [1..Len(h.rows) -> Rows(keys)]
    BY <1>5, <1>8
<1>10. DOMAIN folded = DOMAIN h.rows
    OBVIOUS
<1> HIDE DEF rows, folded
<1>11. rows \in Seq(Rows(keys)) /\ Len(rows) = Len(h.rows) /\ DOMAIN rows = DOMAIN h.rows
    BY <1>5, <1>9, Tuples
<1>12. Comes(p, f, {})
    <2>1. keys \subseteq keys \cup {} /\ \A k \in DOMAIN rows : Stems(rows[k], f, keys)
        BY <1>8, <1>11
    <2> HIDE DEF keys, p
    <2>2. Comes(OkFrame(keys, rows), f, {})
        BY <1>7, <1>11, <2>1, Built
    <2> QED BY <1>6, <2>2
<1>13. p.rows = rows
    <2> HIDE DEF p
    <2> QED BY <1>6, Made
<1> HIDE DEF p
<1>14. Traces(p, f, {}) /\ Typed(p)
    BY <1>3, <1>11, <1>12, <1>13 DEF Traces, Comes
<1>15. \A i \in DOMAIN p.rows : vals[i] \in Int
    BY <1>10, <1>11, <1>13, Fixed
<1> HIDE DEF vals
<1>16. Traces(WithColumn(p, s.output, vals), p, {s.output})
    BY <1>14, <1>15, WidenTraces
<1>17. Traces(WithColumn(p, s.output, vals), f, {} \cup {s.output})
    BY <1>14, <1>16, TracesOn
<1> QED BY <1>2, <1>17

\* The rows with their dates replaced by the ends of their periods.
Ending(v) == 2 * (v \div 2) + 1
Dated(f, c) == [f EXCEPT !.rows = [i \in DOMAIN f.rows |-> [f.rows[i] EXCEPT !.val[c] = Ending(@)]]]

LEMMA DatedTraces ==
    ASSUME NEW f, Typed(f), NEW c \in f.cols
    PROVE  /\ Traces(Dated(f, c), f, {c}) /\ Typed(Dated(f, c)) /\ Dated(f, c).cols = f.cols
           /\ Dated(f, c).rows = [i \in DOMAIN f.rows |-> [f.rows[i] EXCEPT !.val[c] = Ending(@)]]
           /\ \A i \in DOMAIN f.rows : \A d \in f.cols \ {c} : Dated(f, c).rows[i].val[d] = f.rows[i].val[d]
<1> DEFINE rows == [i \in DOMAIN f.rows |-> [f.rows[i] EXCEPT !.val[c] = Ending(@)]]
           h == [f EXCEPT !.rows = rows]
<1>3. Len(f.rows) \in Nat /\ DOMAIN f.rows = 1..Len(f.rows)
    BY RowsOf
<1>4. ASSUME NEW i \in DOMAIN f.rows
      PROVE  rows[i] \in Rows(f.cols) /\ rows[i].from = f.rows[i].from /\ \A e \in f.cols \ {c} : rows[i].val[e] = f.rows[i].val[e]
    <2>1. f.rows[i] \in Rows(f.cols) /\ f.rows[i].val \in [f.cols -> Int]
        BY RowsOf
    <2> DEFINE w == [f.rows[i].val EXCEPT ![c] = Ending(f.rows[i].val[c])]
    <2>2. rows[i] = [f.rows[i] EXCEPT !.val = w]
        OBVIOUS
    <2>3. Ending(f.rows[i].val[c]) \in Int
        BY <2>1 DEF Ending
    <2>4. w \in [f.cols -> Int] /\ \A e \in f.cols \ {c} : w[e] = f.rows[i].val[e]
        BY <2>1, <2>3
    <2> HIDE DEF w, rows
    <2>5. rows[i].val = w /\ rows[i].from = f.rows[i].from /\ rows[i] \in Rows(f.cols)
        BY <2>1, <2>2, <2>4 DEF Rows
    <2> QED BY <2>4, <2>5
<1>5. rows \in [1..Len(f.rows) -> Rows(f.cols)]
    BY <1>3, <1>4
<1>6. h.rows = rows /\ h.cols = f.cols /\ IsFrame(h)
    <2> HIDE DEF rows
    <2> QED BY DEF Typed, IsFrame
<1>0. Dated(f, c) = h
    BY DEF Dated
<1>a. rows = [i \in DOMAIN f.rows |-> [f.rows[i] EXCEPT !.val[c] = Ending(@)]]
    OBVIOUS
<1> HIDE DEF rows, h
<1>7. rows \in Seq(Rows(f.cols)) /\ Len(rows) = Len(f.rows) /\ DOMAIN rows = DOMAIN f.rows
    BY <1>3, <1>5, Tuples
<1>8. Typed(h)
    BY <1>6, <1>7 DEF Typed
<1>9. Comes(h, f, {c})
    BY <1>4, <1>6, <1>7, <1>8 DEF Comes
<1>10. Traces(h, f, {c})
    BY <1>3, <1>6, <1>7, <1>8, <1>9 DEF Traces
<1> QED BY <1>0, <1>4, <1>6, <1>8, <1>10, <1>a

LEMMA Resamples ==
    ASSUME NEW f, Typed(f), NEW s \in Steps, ResampleRows(f, s).status = "ok"
    PROVE  ResampleRows(f, s) = AggregateRows(Dated(f, s.order_by), [s EXCEPT !.group_by = Append(@, s.order_by)])
<1> DEFINE a == AggregateRows(Dated(f, s.order_by), [s EXCEPT !.group_by = Append(@, s.order_by)])
<1>1. ResampleRows(f, s) = Fails(f, "data") \/ ResampleRows(f, s) = a
    BY DEF ResampleRows, Dated, Ending
<1>2. Fails(f, "data").status # "ok"
    BY DEF Fails, Typed, IsFrame
<1> HIDE DEF a
<1>3. ResampleRows(f, s) = a
    BY <1>1, <1>2
<1> QED BY <1>3 DEF a

LEMMA ResampleTraces ==
    ASSUME NEW f, Typed(f), f.status = "ok", NEW s \in Steps, s.group_by \in Seq(f.cols), s.order_by \in f.cols,
           \A i \in DOMAIN s.aggregations : s.aggregations[i].field \in f.cols,
           (ToSet(s.group_by) \cup {s.order_by}) \cap Outputs(s) = {},
           ResampleRows(f, s).status = "ok"
    PROVE  Traces(ResampleRows(f, s), f, Outputs(s) \cup {s.order_by})
<1> DEFINE c == s.order_by
           h == Dated(f, c)
           d == [s EXCEPT !.group_by = Append(@, s.order_by)]
<1>1. ResampleRows(f, s) = AggregateRows(h, d)
    BY Resamples
<1>2. Traces(h, f, {c}) /\ Typed(h) /\ h.cols = f.cols
    BY DatedTraces
<1>3. ToSet(d.group_by) = ToSet(s.group_by) \cup {s.order_by} /\ Outputs(d) = Outputs(s)
    BY DatedStep
<1>4. d.group_by = Append(s.group_by, s.order_by) /\ d.aggregations = s.aggregations
    BY StepsAreTyped DEF NoStep
<1>5. d.group_by \in Seq(f.cols)
    <2>1. Append(s.group_by, s.order_by) \in Seq(f.cols)
        BY AppendProperties
    <2> HIDE DEF d
    <2> QED BY <1>4, <2>1
<1> HIDE DEF d, h
<1>6. Traces(AggregateRows(h, d), h, Outputs(s))
    <2>1. /\ d.group_by \in Seq(h.cols) /\ \A i \in DOMAIN d.aggregations : d.aggregations[i].field \in h.cols
          /\ ToSet(d.group_by) \cap Outputs(d) = {}
        BY <1>2, <1>3, <1>4, <1>5
    <2> QED BY <1>2, <1>3, <2>1, AggregateTraces
<1>7. Traces(AggregateRows(h, d), f, {c} \cup Outputs(s))
    <2> HIDE DEF c
    <2> QED BY <1>2, <1>6, TracesOn
<1>8. {c} \cup Outputs(s) = Outputs(s) \cup {s.order_by}
    OBVIOUS
<1> QED BY <1>1, <1>7, <1>8

LEMMA SummaryComes ==
    ASSUME NEW f, Typed(f), NEW s, \A i \in DOMAIN s.aggregations : s.aggregations[i].field \in f.cols
    PROVE  Comes(Summarize(f, s), f, Outputs(s)) /\ Len(Summarize(f, s).rows) = 1
<1> DEFINE D == DOMAIN f.rows
           r == [val |-> AggValues(f, s, D), from |-> Origins(f, D)]
           rows == <<r>>
<1>1. Summarize(f, s) = OkFrame(Outputs(s), rows)
    BY DEF Summarize
<1>2. AggValues(f, s, D) \in [Outputs(s) -> Int]
    BY AggValuesAreInt
<1>3. Origins(f, D) \in SUBSET Int /\ \A i \in Origins(f, D) : \E j \in D : i \in f.rows[j].from
    BY OriginsOf
<1>4. r \in Rows(Outputs(s)) /\ Stems(r, f, {})
    BY <1>2, <1>3 DEF Rows, Stems
<1> HIDE DEF r
<1>5. rows \in Seq(Rows(Outputs(s))) /\ Len(rows) = 1 /\ \A k \in DOMAIN rows : Stems(rows[k], f, {})
    BY <1>4
<1> HIDE DEF rows
<1>6. Comes(OkFrame(Outputs(s), rows), f, Outputs(s))
    <2>1. {} \subseteq f.cols /\ Outputs(s) \subseteq {} \cup Outputs(s)
        OBVIOUS
    <2> QED BY <1>5, <2>1, Built
<1>7. OkFrame(Outputs(s), rows).rows = rows
    BY Made
<1> QED BY <1>1, <1>5, <1>6, <1>7

\* The rows of the steps that read one frame.
LEMMA RowStepsTrace ==
    ASSUME NEW f, Typed(f), f.status = "ok", NEW s \in Steps, s.op \in RowSteps, WellFormed(s), Needed(s) \subseteq f.cols,
           Rowwise(f, s).status = "ok"
    PROVE  /\ Comes(Rowwise(f, s), f, Touched(s))
           /\ s.op # "summarize" => Len(Rowwise(f, s).rows) <= Len(f.rows)
           /\ s.op = "summarize" => Len(Rowwise(f, s).rows) = 1
<1>0. /\ Read(s) \subseteq f.cols /\ \A i \in DOMAIN s.aggregations : s.aggregations[i].field \in f.cols
      /\ s.group_by \in Seq(f.cols)
    <2>1. Read(s) \subseteq f.cols
        BY DEF Needed
    <2> QED BY <2>1, Arguments DEF Needed
<1>1. ASSUME NEW T, Traces(Rowwise(f, s), f, T), T \subseteq Touched(s), s.op # "summarize"
      PROVE  /\ Comes(Rowwise(f, s), f, Touched(s))
             /\ s.op # "summarize" => Len(Rowwise(f, s).rows) <= Len(f.rows)
             /\ s.op = "summarize" => Len(Rowwise(f, s).rows) = 1
    BY <1>1, Looser DEF Traces
<1>2. CASE s.op \in Plain
    <2>1. Traces(Rowwise(f, s), f, {})
        BY <1>0, <1>2, PlainTraces
    <2>2. s.op # "summarize"
        BY <1>2 DEF Plain
    <2> QED BY <1>1, <2>1, <2>2
<1>3. CASE s.op = "select_fields"
    <2>1. Rowwise(f, s) = SelectFields(f, s)
        BY <1>3 DEF Rowwise
    <2>2. s.fields \in Seq(f.cols)
        BY <1>0, <1>3, Arguments DEF Copies
    <2>3. Traces(Rowwise(f, s), f, {})
        BY <2>1, <2>2, SelectTraces
    <2> QED BY <1>1, <1>3, <2>3
<1>4. CASE s.op = "rename_fields"
    <2>1. Rowwise(f, s) = RenameFields(f, s)
        BY <1>4 DEF Rowwise
    <2>2. Traces(Rowwise(f, s), f, Range(s.map))
        BY <2>1, RenameTraces
    <2>3. Range(s.map) \subseteq Touched(s)
        BY <1>4 DEF Touched, New, Copies, Adding, Rolling, Shifts, Cumulative, Members
    <2> QED BY <1>1, <1>4, <2>2, <2>3
<1>5. CASE s.op = "aggregate"
    <2>1. Rowwise(f, s) = AggregateRows(f, s)
        BY <1>5 DEF Rowwise
    <2>2. ToSet(s.group_by) \cap Outputs(s) = {}
        <3>1. ToSet(s.group_by) \cap Outputs(s) # {} => AggregateRows(f, s) = Fails(f, "fields")
            BY DEF AggregateRows
        <3>2. Fails(f, "fields").status # "ok"
            BY DEF Fails, Typed, IsFrame
        <3> QED BY <2>1, <3>1, <3>2
    <2>3. Traces(Rowwise(f, s), f, Outputs(s))
        BY <1>0, <2>1, <2>2, AggregateTraces
    <2> QED BY <1>1, <1>5, <2>3 DEF Touched
<1>6. CASE s.op = "weighted_mean"
    <2>1. Rowwise(f, s) = WeightedMean(f, s)
        BY <1>6 DEF Rowwise
    <2>2. Traces(Rowwise(f, s), f, {s.output})
        BY <1>0, <2>1, WeightedTraces
    <2>3. {s.output} \subseteq Touched(s)
        BY <1>6 DEF Touched, New, Copies
    <2> QED BY <1>1, <1>6, <2>2, <2>3
<1>7. CASE s.op = "resample"
    <2>1. Rowwise(f, s) = ResampleRows(f, s)
        BY <1>7 DEF Rowwise
    <2>2. s.order_by \in f.cols
        BY <1>0, <1>7, Arguments DEF Ordering
    <2>3. (ToSet(s.group_by) \cup {s.order_by}) \cap Outputs(s) = {}
        BY <1>7 DEF WellFormed, Consistent
    <2>4. Traces(Rowwise(f, s), f, Outputs(s) \cup {s.order_by})
        BY <1>0, <2>1, <2>2, <2>3, ResampleTraces
    <2>5. Outputs(s) \cup {s.order_by} \subseteq Touched(s)
        BY <1>7 DEF Touched
    <2> QED BY <1>1, <1>7, <2>4, <2>5
<1>8. CASE s.op = "summarize"
    <2>1. Rowwise(f, s) = Summarize(f, s)
        BY <1>8 DEF Rowwise
    <2>2. Comes(Summarize(f, s), f, Outputs(s)) /\ Len(Summarize(f, s).rows) = 1
        BY <1>0, SummaryComes
    <2>3. Outputs(s) \subseteq Touched(s)
        BY DEF Touched
    <2> QED BY <1>8, <2>1, <2>2, <2>3, Looser
<1> QED BY <1>2, <1>3, <1>4, <1>5, <1>6, <1>7, <1>8 DEF Plain, RowSteps

-----------------------------------------------------------------------------
\* The steps that read another result.

\* A marker is 1 only where the row has a match.
Marks(g, f, s, right) ==
    \A k \in DOMAIN g.rows :
        /\ k \in DOMAIN f.rows /\ g.rows[k].from = f.rows[k].from
        /\ \A d \in f.cols \ {s.output} : g.rows[k].val[d] = f.rows[k].val[d]
        /\ g.rows[k].val[s.output] = 1 => Matches(f.rows[k], right, s.join_on) # {}

LEMMA MarksTrace ==
    ASSUME NEW f, Typed(f), NEW s, NEW right
    PROVE  Traces(MarkMatches(f, s, right), f, {s.output}) /\ Marks(MarkMatches(f, s, right), f, s, right)
<1> DEFINE vals == [i \in DOMAIN f.rows |-> IF Matches(f.rows[i], right, s.join_on) = {} THEN 0 ELSE 1]
           g == MarkMatches(f, s, right)
<1>1. g = WithColumn(f, s.output, vals)
    BY DEF MarkMatches
<1>2. \A i \in DOMAIN f.rows : vals[i] \in Int
    OBVIOUS
<1>3. \A i \in DOMAIN f.rows : vals[i] = 1 => Matches(f.rows[i], right, s.join_on) # {}
    OBVIOUS
<1> HIDE DEF vals, g
<1>4. Traces(g, f, {s.output}) /\ Widens(g, f, s.output, vals)
    BY <1>1, <1>2, WidenTraces
<1>5. Marks(g, f, s, right)
    BY <1>3, <1>4 DEF Widens, Marks
<1> QED BY <1>4, <1>5 DEF g

\* Every row of a filtered frame satisfies what it was filtered by.
LEMMA KeptSatisfy ==
    ASSUME NEW f, Typed(f), NEW I \in SUBSET DOMAIN f.rows, NEW k \in DOMAIN KeepIndices(f, I).rows
    PROVE  \E i \in I : KeepIndices(f, I).rows[k] = f.rows[i]
<1>1. KeepIndices(f, I).rows = Pick(f.rows, I)
    BY KeepTraces
<1>2. I \in SUBSET Int /\ IsFiniteSet(I)
    BY SubIndices DEF Typed
<1>3. DOMAIN Pick(f.rows, I) = 1..Cardinality(I) /\ \A m \in 1..Cardinality(I) : \E i \in I : Pick(f.rows, I)[m] = f.rows[i]
    BY <1>2, PickedEntries
<1> QED BY <1>1, <1>3

LEMMA SemiTraces ==
    ASSUME NEW f, Typed(f), NEW s, NEW right
    PROVE  /\ Traces(SemiJoin(f, s, right), f, {})
           /\ s.op = "semi_join" => \A k \in DOMAIN SemiJoin(f, s, right).rows : \E i \in DOMAIN f.rows :
                 SemiJoin(f, s, right).rows[k] = f.rows[i] /\ Matches(f.rows[i], right, s.join_on) # {}
<1> DEFINE I == {i \in DOMAIN f.rows : (Matches(f.rows[i], right, s.join_on) # {}) = (s.op = "semi_join")}
<1>1. SemiJoin(f, s, right) = KeepIndices(f, I)
    BY DEF SemiJoin, KeepWhere
<1>2. I \in SUBSET DOMAIN f.rows /\ (s.op = "semi_join" => \A i \in I : Matches(f.rows[i], right, s.join_on) # {})
    OBVIOUS
<1> HIDE DEF I
<1>3. Traces(KeepIndices(f, I), f, {})
    BY <1>2, KeepTraces
<1>4. \A k \in DOMAIN KeepIndices(f, I).rows : \E i \in I : KeepIndices(f, I).rows[k] = f.rows[i]
    BY <1>2, KeptSatisfy
<1> QED BY <1>1, <1>2, <1>3, <1>4

LEMMA KeySetTraces ==
    ASSUME NEW f, Typed(f), NEW s, NEW right, s.join_on \in Seq(f.cols)
    PROVE  Traces(KeySet(f, s, right), f, {})
<1> DEFINE p == Project(f, ToSet(s.join_on))
           l == DropDuplicates(p, s.join_on, "first")
           g == KeySet(f, s, right)
<1>1. Traces(p, f, {})
    <2>1. ToSet(s.join_on) \in SUBSET f.cols
        BY DEF ToSet
    <2> QED BY <2>1, NarrowTraces
<1>2. Typed(p)
    BY <1>1 DEF Traces, Comes
<1>3. \E I \in SUBSET DOMAIN p.rows : l = KeepIndices(p, I)
    BY DEF DropDuplicates
<1>4. \E J \in SUBSET DOMAIN l.rows : g = KeepIndices(l, J)
    BY DEF KeySet, KeepWhere
<1> HIDE DEF p, l, g
<1>5. Traces(l, p, {})
    BY <1>2, <1>3, KeepTraces
<1>6. Typed(l)
    BY <1>5 DEF Traces, Comes
<1>7. Traces(g, l, {})
    BY <1>4, <1>6, KeepTraces
<1>8. Traces(l, f, {} \cup {})
    BY <1>1, <1>5, TracesOn
<1>9. Traces(g, f, {} \cup {})
    BY <1>7, <1>8, TracesOn
<1> QED BY <1>9 DEF g

\* A pair of rows, in the order of the merge.
Before(P) == [q \in P |-> {p \in P : p[1] < q[1] \/ (p[1] = q[1] /\ p[2] < q[2])}]

LEMMA PairsAreOrdered ==
    ASSUME NEW A \in SUBSET Int, NEW B \in SUBSET Int, NEW P \in SUBSET (A \X B)
    PROVE  StrictTotal(Before(P), P)
<1>1. \A p \in P : p[1] \in Int /\ p[2] \in Int /\ p = <<p[1], p[2]>>
    <2> TAKE p \in P
    <2>1. p \in A \X B
        OBVIOUS
    <2>2. p[1] \in A /\ p[2] \in B /\ p = <<p[1], p[2]>>
        BY <2>1
    <2> QED BY <2>2
<1>2. \A p, q \in P : p \in Before(P)[q] <=> (p[1] < q[1] \/ (p[1] = q[1] /\ p[2] < q[2]))
    BY DEF Before
<1>3. Before(P) \in [P -> SUBSET P]
    BY DEF Before
<1>4. \A p \in P : p \notin Before(P)[p]
    BY <1>1, <1>2
<1>5. \A p, q \in P : p = q \/ p \in Before(P)[q] \/ q \in Before(P)[p]
    BY <1>1, <1>2
<1>6. \A p, q, r \in P : p \in Before(P)[q] /\ q \in Before(P)[r] => p \in Before(P)[r]
    BY <1>1, <1>2
<1> QED BY <1>3, <1>4, <1>5, <1>6 DEF StrictTotal

LEMMA JoinComes ==
    ASSUME NEW f, Typed(f), NEW s, NEW right, Typed(right), DOMAIN s.map \subseteq right.cols,
           JoinColumns(f, s, right).status = "ok"
    PROVE  Comes(JoinColumns(f, s, right), f, Range(s.map))
<1> DEFINE cols == f.cols \cup Range(s.map)
           matches(i) == Matches(f.rows[i], right, s.join_on)
           pairs == {p \in (DOMAIN f.rows) \X (DOMAIN right.rows \cup {0}) :
                         IF p[2] = 0 THEN s.op = "join_fields" /\ matches(p[1]) = {} ELSE p[2] \in matches(p[1])}
           place == [x \in pairs |-> Cardinality({y \in pairs : y[1] < x[1] \/ (y[1] = x[1] /\ y[2] < x[2])})]
           order == [k \in 1..Cardinality(pairs) |-> CHOOSE x \in pairs : place[x] = k - 1]
           named(c) == CHOOSE d \in DOMAIN s.map : s.map[d] = c
           value(p, c) == IF c \in f.cols THEN f.rows[p[1]].val[c] ELSE IF p[2] = 0 THEN Null
                          ELSE right.rows[p[2]].val[named(c)]
           rows == [k \in 1..Cardinality(pairs) |->
                       [val |-> [c \in cols |-> value(order[k], c)], from |-> f.rows[order[k][1]].from]]
<1>1. JoinColumns(f, s, right) \in {Fails(f, "data"), Fails(f, "fields")} \/ JoinColumns(f, s, right) = OkFrame(cols, rows)
    BY DEF JoinColumns, Enumerate
<1>2. JoinColumns(f, s, right) = OkFrame(cols, rows)
    <2>1. Fails(f, "data").status # "ok" /\ Fails(f, "fields").status # "ok"
        BY DEF Fails, Typed, IsFrame
    <2> HIDE DEF cols, rows
    <2> QED BY <1>1, <2>1
<1>3. pairs \in SUBSET ((DOMAIN f.rows) \X (DOMAIN right.rows \cup {0}))
    OBVIOUS
<1>4. \A x \in pairs : Before(pairs)[x] = {y \in pairs : y[1] < x[1] \/ (y[1] = x[1] /\ y[2] < x[2])}
    <2> HIDE DEF pairs
    <2> QED BY DEF Before
<1> HIDE DEF pairs
<1>5. StrictTotal(Before(pairs), pairs) /\ IsFiniteSet(pairs) /\ Cardinality(pairs) \in Nat
    <2> DEFINE A == DOMAIN f.rows
               B == DOMAIN right.rows \cup {0}
    <2>1. A \in SUBSET Int /\ B \in SUBSET Int /\ IsFiniteSet(A) /\ IsFiniteSet(B)
        <3>1. A \in SUBSET Int /\ IsFiniteSet(A)
            BY RowsOf
        <3>2. DOMAIN right.rows \in SUBSET Int /\ IsFiniteSet(DOMAIN right.rows)
            BY RowsOf
        <3> QED BY <3>1, <3>2, FS_AddElement
    <2>2. pairs \in SUBSET (A \X B)
        BY <1>3
    <2> HIDE DEF A, B
    <2>3. StrictTotal(Before(pairs), pairs)
        BY <2>1, <2>2, PairsAreOrdered
    <2>4. IsFiniteSet(A \X B)
        BY <2>1, FS_Product
    <2>5. IsFiniteSet(pairs)
        BY <2>2, <2>4, FS_Subset
    <2> QED BY <2>3, <2>5, FS_CardinalityType
<1>6. Placed(place, pairs, Before(pairs))
    BY <1>4 DEF Placed
<1> HIDE DEF place
<1>7. ByPlace(order, pairs, place)
    BY DEF ByPlace
<1> HIDE DEF order
<1>8. Lists(order, pairs, Before(pairs))
    BY <1>5, <1>6, <1>7, Listing
<1>9. \A k \in 1..Cardinality(pairs) : order[k] \in pairs
    BY <1>8 DEF Lists
<1>10. \A p \in pairs : p[1] \in DOMAIN f.rows /\ (p[2] # 0 => p[2] \in DOMAIN right.rows)
    BY <1>3
<1>11. ASSUME NEW p \in pairs
       PROVE  [c \in cols |-> value(p, c)] \in [cols -> Int]
    <2>1. \A c \in f.cols : f.rows[p[1]].val[c] \in Int
        BY <1>10, RowsOf
    <2>2. ASSUME NEW c \in Range(s.map), p[2] # 0
          PROVE  right.rows[p[2]].val[named(c)] \in Int
        <3>1. named(c) \in DOMAIN s.map
            BY <2>2 DEF Range
        <3> HIDE DEF named
        <3> QED BY <1>10, <2>2, <3>1, RowsOf
    <2> HIDE DEF named
    <2>3. \A c \in cols : value(p, c) \in Int
        BY <2>1, <2>2, Fixed
    <2> HIDE DEF value, cols
    <2> QED BY <2>3
<1>12. ASSUME NEW k \in 1..Cardinality(pairs)
       PROVE  rows[k] \in Rows(cols) /\ Stems(rows[k], f, f.cols)
    <2> DEFINE p == order[k]
               i == p[1]
    <2>1. p \in pairs /\ i \in DOMAIN f.rows
        BY <1>9, <1>10
    <2>2. rows[k] = [val |-> [c \in cols |-> value(p, c)], from |-> f.rows[i].from]
        OBVIOUS
    <2>3. f.rows[i].from \in SUBSET Int
        BY <2>1, RowsOf
    <2>4. [c \in cols |-> value(p, c)] \in [cols -> Int]
        BY <1>11, <2>1
    <2>5. \A c \in f.cols : [e \in cols |-> value(p, e)][c] = f.rows[i].val[c]
        OBVIOUS
    <2> HIDE DEF rows, p, i, value, cols
    <2>6. rows[k].from = f.rows[i].from /\ (\A c \in f.cols : rows[k].val[c] = f.rows[i].val[c]) /\ rows[k] \in Rows(cols)
        BY <2>2, <2>3, <2>4, <2>5 DEF Rows
    <2> QED BY <2>1, <2>6 DEF Stems
<1>13. rows \in [1..Cardinality(pairs) -> Rows(cols)]
    BY <1>12
<1> HIDE DEF rows
<1>14. /\ f.cols \subseteq f.cols /\ cols \subseteq f.cols \cup Range(s.map)
       /\ rows \in Seq(Rows(cols)) /\ \A k \in DOMAIN rows : Stems(rows[k], f, f.cols)
    BY <1>5, <1>12, <1>13, Tuples
<1> HIDE DEF cols
<1>15. Comes(OkFrame(cols, rows), f, Range(s.map))
    BY <1>14, Built
<1> QED BY <1>2, <1>15

LEMMA AsofTraces ==
    ASSUME NEW f, Typed(f), NEW s, s.group_by \in Seq(f.cols), s.order_by \in f.cols,
           NEW right, Typed(right), DOMAIN s.map \subseteq right.cols, s.right_order \in right.cols,
           AsofJoin(f, s, right).status = "ok"
    PROVE  Traces(AsofJoin(f, s, right), f, Range(s.map))
<1> DEFINE cols == f.cols \cup Range(s.map)
           o == SortBy(f, <<s.order_by>> \o s.group_by)
           near(r) == {j \in Matches(r, right, s.group_by) :
                         /\ right.rows[j].val[s.right_order] <= r.val[s.order_by]
                         /\ r.val[s.order_by] - right.rows[j].val[s.right_order] <= s.count}
           best(r) == CHOOSE j \in near(r) : \A k \in near(r) :
                         \/ right.rows[k].val[s.right_order] < right.rows[j].val[s.right_order]
                         \/ right.rows[k].val[s.right_order] = right.rows[j].val[s.right_order] /\ k <= j
           named(c) == CHOOSE d \in DOMAIN s.map : s.map[d] = c
           value(r, c) == IF c \in f.cols THEN r.val[c] ELSE IF near(r) = {} THEN Null
                          ELSE right.rows[best(r)].val[named(c)]
           rows == [i \in DOMAIN o.rows |-> [o.rows[i] EXCEPT !.val = [c \in cols |-> value(o.rows[i], c)]]]
<1>1. AsofJoin(f, s, right) \in {Fails(f, "data"), Fails(f, "fields")} \/ AsofJoin(f, s, right) = OkFrame(cols, rows)
    BY DEF AsofJoin
<1>2. AsofJoin(f, s, right) = OkFrame(cols, rows)
    <2>1. Fails(f, "data").status # "ok" /\ Fails(f, "fields").status # "ok"
        BY DEF Fails, Typed, IsFrame
    <2> HIDE DEF cols, rows
    <2> QED BY <1>1, <2>1
<1>3. Traces(o, f, {}) /\ o.cols = f.cols /\ Typed(o)
    <2>1. <<s.order_by>> \o s.group_by \in Seq(f.cols)
        <3>1. <<s.order_by>> \in Seq(f.cols)
            <4> DEFINE e == s.order_by
                       V == f.cols
            <4>1. e \in V
                OBVIOUS
            <4> HIDE DEF e, V
            <4>2. <<e>> \in Seq(V)
                BY <4>1
            <4> QED BY <4>2 DEF e, V
        <3> QED BY <3>1, ConcatProperties
    <2>2. Traces(o, f, {}) /\ o.cols = f.cols
        BY <2>1, SortByTraces
    <2> HIDE DEF o
    <2> QED BY <2>2 DEF Traces, Comes
<1> HIDE DEF o
<1>4. Len(o.rows) \in Nat /\ DOMAIN o.rows = 1..Len(o.rows)
    BY <1>3, RowsOf
<1>5. ASSUME NEW r, near(r) # {}
      PROVE  best(r) \in DOMAIN right.rows
    <2> DEFINE N == near(r)
               t(j) == right.rows[j].val[s.right_order]
               R == [j \in N |-> {k \in N : t(j) < t(k) \/ (t(j) = t(k) /\ j < k)}]
    <2>1. N \in SUBSET DOMAIN right.rows
        BY DEF Matches
    <2> HIDE DEF N
    <2>2. N \in SUBSET Int /\ IsFiniteSet(N)
        BY <2>1, SubIndices DEF Typed
    <2>3. \A j \in N : t(j) \in Int
        BY <2>1, RowsOf
    <2> HIDE DEF t
    <2>4. StrictTotal(R, N)
        BY <2>2, <2>3 DEF StrictTotal
    <2>5. \E j \in N : \A k \in N : j = k \/ j \in R[k]
        <3> HIDE DEF R
        <3>1. N # {}
            BY <1>5 DEF N
        <3> QED BY <2>2, <2>4, <3>1, Foremost
    <2>6. \E j \in N : \A k \in N : t(k) < t(j) \/ (t(k) = t(j) /\ k <= j)
        <3>1. PICK j \in N : \A k \in N : j = k \/ j \in R[k]
            BY <2>5
        <3>2. \A k \in N : t(k) < t(j) \/ (t(k) = t(j) /\ k <= j)
            BY <2>2, <2>3, <3>1
        <3> QED BY <3>2
    <2>7. best(r) \in N
        BY <2>6 DEF N, t
    <2> HIDE DEF best
    <2> QED BY <2>1, <2>7
<1> HIDE DEF near, best
<1>6. ASSUME NEW i \in DOMAIN o.rows
      PROVE  rows[i] \in Rows(cols) /\ Stems(rows[i], o, f.cols)
    <2> DEFINE r == o.rows[i]
    <2>1. r \in Rows(f.cols) /\ r.val \in [f.cols -> Int] /\ r.from \in SUBSET Int
        BY <1>3, RowsOf
    <2>2. rows[i] = [r EXCEPT !.val = [c \in cols |-> value(r, c)]]
        OBVIOUS
    <2>3. ASSUME NEW c \in Range(s.map), near(r) # {}
          PROVE  right.rows[best(r)].val[named(c)] \in Int
        <3>1. named(c) \in DOMAIN s.map
            BY <2>3 DEF Range
        <3> HIDE DEF named
        <3>2. named(c) \in right.cols /\ best(r) \in DOMAIN right.rows
            BY <1>5, <2>3, <3>1
        <3> HIDE DEF r
        <3> QED BY <3>2, RowsOf
    <2> HIDE DEF named, rows, r
    <2>4. \A c \in cols : value(r, c) \in Int
        BY <2>1, <2>3, Fixed
    <2>5. \A c \in f.cols : value(r, c) = r.val[c]
        OBVIOUS
    <2> HIDE DEF value
    <2>6. [c \in cols |-> value(r, c)] \in [cols -> Int] /\ \A c \in f.cols : [e \in cols |-> value(r, e)][c] = r.val[c]
        BY <2>4, <2>5
    <2> HIDE DEF cols
    <2>7. rows[i].val = [c \in cols |-> value(r, c)] /\ rows[i].from = r.from /\ rows[i] \in Rows(cols)
        BY <2>1, <2>2, <2>6 DEF Rows
    <2>8. \A c \in f.cols : rows[i].val[c] = o.rows[i].val[c]
        BY <2>6, <2>7 DEF r
    <2> QED BY <2>7, <2>8 DEF Stems, r
<1>7. rows \in [1..Len(o.rows) -> Rows(cols)]
    BY <1>4, <1>6
<1> HIDE DEF rows
<1>8. rows \in Seq(Rows(cols)) /\ Len(rows) = Len(o.rows) /\ DOMAIN rows = DOMAIN o.rows
    BY <1>4, <1>7, Tuples
<1>9. /\ f.cols \subseteq o.cols /\ cols \subseteq f.cols \cup Range(s.map)
      /\ \A k \in DOMAIN rows : Stems(rows[k], o, f.cols)
    BY <1>3, <1>6, <1>8
<1> HIDE DEF cols
<1>10. Comes(OkFrame(cols, rows), o, Range(s.map))
    BY <1>8, <1>9, Built
<1>11. OkFrame(cols, rows).rows = rows
    BY Made
<1>12. Traces(OkFrame(cols, rows), o, Range(s.map))
    BY <1>4, <1>8, <1>10, <1>11 DEF Traces
<1>13. Traces(OkFrame(cols, rows), f, {} \cup Range(s.map))
    BY <1>3, <1>12, TracesOn
<1> QED BY <1>2, <1>13

\* Comes, of the origins only: a union appends rows whose values are not the frame's.
Stays(g, f, T) ==
    /\ Typed(g) /\ g.cols \ T \subseteq f.cols
    /\ \A k \in DOMAIN g.rows : \A i \in g.rows[k].from \ {Foreign} : \E j \in DOMAIN f.rows :
          i \in f.rows[j].from /\ \A c \in g.cols \ T : g.rows[k].val[c] = f.rows[j].val[c]

LEMMA UnionStays ==
    ASSUME NEW f, Typed(f), f.status = "ok", NEW s, NEW right, Typed(right), right.cols = f.cols
    PROVE  Stays(UnionRows(f, s, right), f, {}) /\ UnionRows(f, s, right).status = "ok"
<1> DEFINE added == [i \in DOMAIN right.rows |-> [right.rows[i] EXCEPT !.from = {Foreign}]]
           rows == f.rows \o added
           g == UnionRows(f, s, right)
<1>1. g = [f EXCEPT !.rows = rows]
    BY DEF UnionRows
<1>2. Len(right.rows) \in Nat /\ DOMAIN right.rows = 1..Len(right.rows)
    BY RowsOf
<1>3. ASSUME NEW i \in DOMAIN right.rows
      PROVE  added[i] \in Rows(f.cols) /\ added[i].from = {Foreign}
    <2>1. right.rows[i] \in Rows(f.cols)
        BY RowsOf
    <2>2. added[i] = [right.rows[i] EXCEPT !.from = {Foreign}]
        OBVIOUS
    <2>3. {Foreign} \in SUBSET Int
        BY DEF Foreign
    <2> HIDE DEF added
    <2> QED BY <2>1, <2>2, <2>3 DEF Rows
<1>4. added \in [1..Len(right.rows) -> Rows(f.cols)]
    BY <1>2, <1>3
<1> HIDE DEF added, g
<1>5. added \in Seq(Rows(f.cols)) /\ DOMAIN added = 1..Len(added) /\ DOMAIN added = DOMAIN right.rows
    BY <1>2, <1>4, Tuples
<1>6. f.rows \in Seq(Rows(f.cols)) /\ Len(f.rows) \in Nat /\ Len(added) \in Nat
    BY <1>5, RowsOf DEF Typed
<1>7. /\ rows \in Seq(Rows(f.cols)) /\ Len(rows) = Len(f.rows) + Len(added)
      /\ \A k \in 1..(Len(f.rows) + Len(added)) : rows[k] = IF k <= Len(f.rows) THEN f.rows[k] ELSE added[k - Len(f.rows)]
    BY <1>5, <1>6, ConcatProperties
<1> HIDE DEF rows
<1>8. g.rows = rows /\ g.cols = f.cols /\ g.status = "ok" /\ IsFrame(g)
    BY <1>1 DEF Typed, IsFrame
<1>9. Typed(g)
    BY <1>7, <1>8 DEF Typed
<1>10. ASSUME NEW k \in DOMAIN g.rows, NEW i \in g.rows[k].from \ {Foreign}
       PROVE  \E j \in DOMAIN f.rows : i \in f.rows[j].from /\ \A c \in g.cols \ {} : g.rows[k].val[c] = f.rows[j].val[c]
    <2>1. k \in 1..(Len(f.rows) + Len(added))
        BY <1>7, <1>8
    <2>2. CASE k <= Len(f.rows)
        <3>1. k \in DOMAIN f.rows /\ g.rows[k] = f.rows[k]
            BY <1>6, <1>7, <1>8, <2>1, <2>2
        <3> QED BY <3>1
    <2>3. CASE ~(k <= Len(f.rows))
        <3>1. g.rows[k] = added[k - Len(f.rows)] /\ k - Len(f.rows) \in DOMAIN added
            BY <1>5, <1>6, <1>7, <1>8, <2>1, <2>3
        <3>2. g.rows[k].from = {Foreign}
            BY <1>3, <1>5, <3>1
        <3> QED BY <3>2
    <2> QED BY <2>2, <2>3
<1> QED BY <1>8, <1>9, <1>10 DEF Stays, g

LEMMA ComesStays ==
    ASSUME NEW f, NEW g, NEW T, Comes(g, f, T)
    PROVE  Stays(g, f, T)
BY DEF Comes, Stays

LEMMA ResultsAreTyped ==
    ASSUME NEW q \in DOMAIN Results
    PROVE  Typed(Results[q]) /\ Results[q].status = "ok"
BY ResultsAreFrames DEF Typed, Rows

LEMMA StaysLooser ==
    ASSUME NEW f, NEW g, NEW T, NEW U, T \subseteq U, Stays(g, f, T)
    PROVE  Stays(g, f, U)
<1>1. g.cols \ U \subseteq g.cols \ T
    OBVIOUS
<1> QED BY <1>1 DEF Stays

\* The rows of an accepted step, and how many there are.
Follows(g, f, s) ==
    /\ Stays(g, f, Touched(s))
    /\ s.op # "union_all" => Comes(g, f, Touched(s))
    /\ s.op \notin Copies \cup {"union_all", "summarize"} => Len(g.rows) <= Len(f.rows)
    /\ s.op = "summarize" => Len(g.rows) = 1

LEMMA CopiedColumns ==
    ASSUME NEW s, s.op \in Copies \cup {"asof_join"}
    PROVE  New(s) = Range(s.map)
<1>1. s.op # "match_at_offset"
    BY DEF Copies
<1>2. s.op \notin Adding \cup {"weighted_mean", "rename_fields"}
    BY DEF Copies, Adding, Rolling, Shifts, Cumulative, Members
<1> QED BY <1>1, <1>2 DEF New

LEMMA MarkedColumns ==
    ASSUME NEW s, s.op \in Members
    PROVE  New(s) = {s.output}
<1>1. s.op \in Adding \ {"match_at_offset"} /\ s.op \notin Copies \cup {"asof_join", "rename_fields"} /\ s.op # "match_at_offset"
    BY DEF Adding, Members, Copies
<1> QED BY <1>1 DEF New

LEMMA CombineFollows ==
    ASSUME NEW f, Typed(f), f.status = "ok", NEW s \in Steps, s.op \in RightOps, WellFormed(s), Read(s) \subseteq f.cols,
           NEW right, Typed(right), RightNeeded(s) \subseteq right.cols, s.op = "union_all" => right.cols = f.cols,
           Combine(f, s, right).status = "ok"
    PROVE  Follows(Combine(f, s, right), f, s)
<1>0. s.group_by \in Seq(f.cols) /\ s.join_on \in Seq(f.cols)
    BY Arguments
<1>1. ASSUME NEW g, NEW T, Traces(g, f, T), T \subseteq Touched(s), s.op \notin {"union_all", "summarize"}
      PROVE  Follows(g, f, s)
    <2>1. Comes(g, f, Touched(s)) /\ Len(g.rows) <= Len(f.rows)
        BY <1>1, Looser DEF Traces
    <2> QED BY <1>1, <2>1, ComesStays DEF Follows
<1>2. CASE s.op \in Members
    <2>1. Combine(f, s, right) = MarkMatches(f, s, right)
        BY <1>2 DEF Combine, Members, Copies
    <2>2. Traces(MarkMatches(f, s, right), f, {s.output})
        BY MarksTrace
    <2>3. {s.output} \subseteq Touched(s)
        BY <1>2, MarkedColumns DEF Touched
    <2>4. s.op \notin {"union_all", "summarize"}
        BY <1>2 DEF Members
    <2> QED BY <1>1, <2>1, <2>2, <2>3, <2>4
<1>3. CASE s.op \in {"semi_join", "anti_join"}
    <2>1. Combine(f, s, right) = SemiJoin(f, s, right)
        BY <1>3 DEF Combine, Members, Copies
    <2>2. Traces(SemiJoin(f, s, right), f, {})
        BY SemiTraces
    <2> QED BY <1>1, <1>3, <2>1, <2>2
<1>4. CASE s.op \in {"intersect_keys", "except_keys"}
    <2>1. Combine(f, s, right) = KeySet(f, s, right)
        BY <1>4 DEF Combine, Members, Copies
    <2>2. Traces(KeySet(f, s, right), f, {})
        BY <1>0, KeySetTraces
    <2> QED BY <1>1, <1>4, <2>1, <2>2
<1>5. CASE s.op \in Copies
    <2>1. Combine(f, s, right) = JoinColumns(f, s, right)
        BY <1>5 DEF Combine, Members, Copies
    <2>2. DOMAIN s.map \subseteq right.cols
        BY <1>5 DEF RightNeeded, Members, KeyJoins, Copies
    <2>3. Comes(JoinColumns(f, s, right), f, Range(s.map))
        BY <2>1, <2>2, JoinComes
    <2>4. Range(s.map) \subseteq Touched(s)
        BY <1>5, CopiedColumns DEF Touched
    <2>5. Comes(JoinColumns(f, s, right), f, Touched(s))
        BY <2>3, <2>4, Looser
    <2>6. s.op \notin {"union_all", "summarize"}
        BY <1>5 DEF Copies
    <2> QED BY <1>5, <2>1, <2>5, <2>6, ComesStays DEF Follows
<1>6. CASE s.op = "asof_join"
    <2>1. Combine(f, s, right) = AsofJoin(f, s, right)
        BY <1>6 DEF Combine, Members, Copies
    <2>2. s.order_by \in f.cols
        BY <1>6, Arguments DEF Ordering
    <2>3. DOMAIN s.map \subseteq right.cols /\ s.right_order \in right.cols
        BY <1>6 DEF RightNeeded, Members, KeyJoins, Copies
    <2>4. Traces(AsofJoin(f, s, right), f, Range(s.map))
        BY <1>0, <2>1, <2>2, <2>3, AsofTraces
    <2>5. Range(s.map) \subseteq Touched(s)
        BY <1>6, CopiedColumns DEF Touched
    <2> QED BY <1>1, <1>6, <2>1, <2>4, <2>5
<1>7. CASE s.op = "union_all"
    <2>1. Combine(f, s, right) = UnionRows(f, s, right)
        BY <1>7 DEF Combine, Members, Copies
    <2>2. Stays(UnionRows(f, s, right), f, {})
        BY <1>7, UnionStays
    <2>3. Stays(UnionRows(f, s, right), f, Touched(s))
        BY <2>2, StaysLooser
    <2> QED BY <1>7, <2>1, <2>3 DEF Follows
<1> QED BY <1>2, <1>3, <1>4, <1>5, <1>6, <1>7 DEF RightOps, KeyJoins

LEMMA ExecuteFollows ==
    ASSUME NEW f, Typed(f), f.status = "ok", NEW s \in Steps, NEW aggregated,
           Accepts(s, f.cols, aggregated, ResultFields), Execute(f, s).status = "ok"
    PROVE  Follows(Execute(f, s), f, s)
<1>1. ~Unreadable(f, s)
    BY AcceptedIsReadable
<1>2. s.op \in Operations
    BY StepsAreTyped
<1>3. WellFormed(s) /\ Needed(s) \subseteq f.cols /\ Read(s) \subseteq f.cols
    BY DEF Accepts, Needed
<1>4. CASE s.op \in RightOps
    <2>1. s.right \in DOMAIN Results /\ RightNeeded(s) \subseteq Results[s.right].cols
        BY <1>4 DEF Accepts, ResultFields
    <2>2. s.op = "union_all" => Results[s.right].cols = f.cols
        BY <2>1 DEF Accepts, ResultFields
    <2>3. Execute(f, s) = Combine(f, s, Results[s.right])
        <3>1. Fails(f, "data").status # "ok"
            BY DEF Fails, Typed, IsFrame
        <3> QED BY <1>1, <1>4, <3>1 DEF Execute
    <2>4. Typed(Results[s.right])
        BY <2>1, ResultsAreTyped
    <2> QED BY <1>3, <1>4, <2>1, <2>2, <2>3, <2>4, CombineFollows
<1>5. CASE s.op \in Adding \ RightOps
    <2>1. Execute(f, s) = AddColumn(f, s)
        BY <1>1, <1>5 DEF Execute
    <2>2. s.op \in Adding \ Members /\ s.op \notin Copies \cup {"union_all", "summarize"}
        BY <1>5 DEF RightOps, KeyJoins, Adding, Rolling, Shifts, Cumulative, Members
    <2>3. Traces(AddColumn(f, s), f, New(s))
        BY <1>3, <2>1, <2>2, AddsTraces
    <2>4. Comes(AddColumn(f, s), f, Touched(s)) /\ Len(AddColumn(f, s).rows) <= Len(f.rows)
        <3>1. New(s) \subseteq Touched(s)
            BY DEF Touched
        <3> QED BY <2>3, <3>1, Looser DEF Traces
    <2> QED BY <2>1, <2>2, <2>4, ComesStays DEF Follows
<1>6. CASE s.op \notin Adding \cup RightOps
    <2>1. Execute(f, s) = Rowwise(f, s)
        BY <1>1, <1>6 DEF Execute
    <2>2. s.op \in RowSteps
        BY <1>2, <1>6 DEF Operations
    <2>3. /\ Comes(Rowwise(f, s), f, Touched(s))
          /\ s.op # "summarize" => Len(Rowwise(f, s).rows) <= Len(f.rows)
          /\ s.op = "summarize" => Len(Rowwise(f, s).rows) = 1
        BY <1>3, <2>1, <2>2, RowStepsTrace
    <2> QED BY <2>1, <2>3, ComesStays DEF Follows
<1> QED BY <1>4, <1>5, <1>6

-----------------------------------------------------------------------------
\* THE SECURITIES OF THE ROWS.

\* What the rows of a frame keep of the securities they came from: the security column, the
\* markers and, after a strict enforcement, that they are admitted.
SecurityOf(i) == Source.rows[i].val[Security]
SecureRow(r, cols, l) ==
    \A i \in r.from \ {Foreign} :
        /\ Security \in cols \ l.loose => r.val[Security] = SecurityOf(i)
        /\ \A m \in (l.markers \ l.loose) \cap cols : r.val[m] = 1 => Admitted(SecurityOf(i))
        /\ l.strict => Admitted(SecurityOf(i))
Secure(f, l) == \A k \in DOMAIN f.rows : SecureRow(f.rows[k], f.cols, l)

\* A row with a match in the members has an admitted security, when it has its own.
LEMMA MatchedIsAdmitted ==
    ASSUME NEW r, NEW keys, Security \in ToSet(keys), Matches(r, Results[MemberQuery], keys) # {}
    PROVE  Admitted(r.val[Security])
<1>1. PICK j \in DOMAIN Results[MemberQuery].rows : \A k \in ToSet(keys) : Results[MemberQuery].rows[j].val[k] = r.val[k]
    BY DEF Matches
<1>2. Results[MemberQuery].rows[j] \in ToSet(Results[MemberQuery].rows)
    BY DEF ToSet
<1> QED BY <1>1, <1>2 DEF Admitted

\* What a step that marks the members does to the lineage.
LEMMA MarkSecures ==
    ASSUME NEW f, Typed(f), f.status = "ok", NEW s \in Steps, Accepts(s, f.cols, lineage.aggregated, ResultFields),
           Execute(f, s).status = "ok", Secure(f, lineage), MarksSecurities(s)
    PROVE  Secure(Execute(f, s), NewLineage(s))
<1> DEFINE g == Execute(f, s)
           right == Results[MemberQuery]
<1>1. s.op \in Members /\ s.right = MemberQuery /\ Security \in ToSet(s.join_on) \ lineage.loose
    BY DEF MarksSecurities
<1>2. g = MarkMatches(f, s, right)
    <2>1. s.op \in RightOps
        BY <1>1 DEF RightOps
    <2>2. Fails(f, "data").status # "ok"
        BY DEF Fails, Typed, IsFrame
    <2>3. g = Combine(f, s, right)
        BY <1>1, <2>1, <2>2, AcceptedIsReadable DEF Execute
    <2> QED BY <1>1, <2>3 DEF Combine, Members, Copies
<1>3. Security \in f.cols /\ s.output \notin f.cols
    <2>1. Read(s) \subseteq f.cols /\ NewIsNew(s, f.cols)
        BY DEF Accepts, Needed
    <2>2. Kept(s, f.cols) = f.cols
        BY <1>1 DEF Kept, Members
    <2> QED BY <1>1, <2>1, <2>2, MarkedColumns DEF Read, NewIsNew
<1>4. ~Enforces(s)
    BY <1>1 DEF Enforces, ByJoin, ByMarker, Members
<1> DEFINE l == NewLineage(s)
<1>5. l.loose = lineage.loose \ {s.output} /\ l.markers = lineage.markers \cup {s.output} /\ (l.strict => lineage.strict)
    BY <1>1, <1>4 DEF NewLineage, Strict
<1>6. Typed(g) /\ g.cols \ {s.output} \subseteq f.cols
    BY <1>2, MarksTrace DEF Traces, Comes
<1>7. ASSUME NEW k \in DOMAIN g.rows
      PROVE  /\ k \in DOMAIN f.rows /\ g.rows[k].from = f.rows[k].from
             /\ \A d \in f.cols \ {s.output} : g.rows[k].val[d] = f.rows[k].val[d]
             /\ g.rows[k].val[s.output] = 1 => Matches(f.rows[k], right, s.join_on) # {}
    <2> HIDE DEF right, g
    <2>1. Marks(g, f, s, right)
        BY <1>2, MarksTrace
    <2> QED BY <1>7, <2>1 DEF Marks
<1> HIDE DEF g, l
<1>8. ASSUME NEW k \in DOMAIN g.rows, NEW i \in g.rows[k].from \ {Foreign}
      PROVE  /\ Security \in g.cols \ l.loose => g.rows[k].val[Security] = SecurityOf(i)
             /\ \A m \in (l.markers \ l.loose) \cap g.cols : g.rows[k].val[m] = 1 => Admitted(SecurityOf(i))
             /\ l.strict => Admitted(SecurityOf(i))
    <2>1. k \in DOMAIN f.rows /\ i \in f.rows[k].from \ {Foreign}
        BY <1>7
    <2>2. SecureRow(f.rows[k], f.cols, lineage)
        BY <2>1 DEF Secure
    <2>3. f.rows[k].val[Security] = SecurityOf(i)
        BY <1>1, <1>3, <2>1, <2>2 DEF SecureRow
    <2>4. g.rows[k].val[Security] = SecurityOf(i)
        BY <1>3, <1>7, <2>3
    <2>5. ASSUME NEW m \in (l.markers \ l.loose) \cap g.cols, g.rows[k].val[m] = 1
          PROVE  Admitted(SecurityOf(i))
        <3>1. CASE m = s.output
            <4>1. Matches(f.rows[k], right, s.join_on) # {}
                BY <1>7, <2>5, <3>1
            <4>2. Admitted(f.rows[k].val[Security])
                BY <1>1, <4>1, MatchedIsAdmitted
            <4> QED BY <2>3, <4>2
        <3>2. CASE m # s.output
            <4>1. m \in (lineage.markers \ lineage.loose) \cap f.cols
                BY <1>5, <1>6, <3>2
            <4>2. f.rows[k].val[m] = 1
                BY <1>7, <2>5, <3>2, <4>1
            <4> QED BY <2>1, <2>2, <4>1, <4>2 DEF SecureRow
        <3> QED BY <3>1, <3>2
    <2>6. l.strict => Admitted(SecurityOf(i))
        BY <1>5, <2>1, <2>2 DEF SecureRow
    <2> QED BY <2>4, <2>5, <2>6
<1>9. Secure(g, l)
    BY <1>8 DEF Secure, SecureRow
<1> QED BY <1>9 DEF g, l

\* A strict enforcement keeps rows of admitted securities only.
LEMMA EnforcedIsAdmitted ==
    ASSUME NEW f, Typed(f), f.status = "ok", NEW s \in Steps, Accepts(s, f.cols, lineage.aggregated, ResultFields),
           Execute(f, s).status = "ok", Secure(f, lineage), Strict(s),
           NEW k \in DOMAIN Execute(f, s).rows, NEW i \in Execute(f, s).rows[k].from \ {Foreign}
    PROVE  Admitted(SecurityOf(i))
<1> DEFINE g == Execute(f, s)
           right == Results[MemberQuery]
<1>0. Fails(f, "data").status # "ok" /\ ~Unreadable(f, s)
    <2>1. Fails(f, "data").status # "ok"
        BY DEF Fails, Typed, IsFrame
    <2> QED BY <2>1, AcceptedIsReadable
<1>1. Read(s) \subseteq f.cols /\ WellFormed(s)
    BY DEF Accepts, Needed
<1>2. CASE ByJoin(s)
    <2>1. s.op = "semi_join" /\ s.right = MemberQuery /\ Security \in ToSet(s.join_on) /\ Security \notin lineage.loose
        BY <1>2 DEF ByJoin, Strict
    <2>2. s.op \in RightOps
        BY <2>1 DEF RightOps, KeyJoins
    <2>3. g = Combine(f, s, right)
        BY <1>0, <2>1, <2>2 DEF Execute
    <2>4. g = SemiJoin(f, s, right)
        BY <2>1, <2>3 DEF Combine, Members, Copies
    <2>5. PICK j \in DOMAIN f.rows : g.rows[k] = f.rows[j] /\ Matches(f.rows[j], right, s.join_on) # {}
        <3> HIDE DEF g, right
        <3>1. k \in DOMAIN g.rows
            BY DEF g
        <3> QED BY <2>1, <2>4, <3>1, SemiTraces
    <2>6. Security \in f.cols
        BY <1>1, <2>1 DEF Read
    <2>7. Admitted(f.rows[j].val[Security])
        BY <2>1, <2>5, MatchedIsAdmitted
    <2>8. i \in f.rows[j].from \ {Foreign}
        BY <2>5
    <2>9. f.rows[j].val[Security] = SecurityOf(i)
        BY <2>1, <2>6, <2>8 DEF Secure, SecureRow
    <2> QED BY <2>7, <2>9
<1>3. CASE ~ByJoin(s)
    <2>1. ByMarker(s) /\ s.field \notin lineage.loose
        BY <1>3 DEF Strict, Enforces
    <2>2. s.op = "filter" /\ s.comparison = "eq" /\ s.value = 1 /\ s.field \in lineage.markers \ lineage.loose
        BY <2>1 DEF ByMarker
    <2>3. s.field \in f.cols
        BY <1>1, <2>2, Arguments DEF OnField
    <2> DEFINE I == {j \in DOMAIN f.rows : Satisfies(f.rows[j], s)}
    <2>4. g = KeepIndices(f, I)
        <3>1. s.op \notin RightOps \cup Adding
            BY <2>2 DEF RightOps, KeyJoins, Copies, Adding, Rolling, Shifts, Cumulative, Members
        <3>2. g = Rowwise(f, s)
            BY <1>0, <3>1 DEF Execute
        <3>3. g = FilterRows(f, s)
            BY <2>2, <3>2 DEF Rowwise
        <3> QED BY <3>3 DEF FilterRows, KeepWhere
    <2>5. PICK j \in I : g.rows[k] = f.rows[j]
        <3> HIDE DEF g
        <3>1. k \in DOMAIN g.rows
            BY DEF g
        <3>2. I \in SUBSET DOMAIN f.rows
            OBVIOUS
        <3> HIDE DEF I
        <3> QED BY <2>4, <3>1, <3>2, KeptSatisfy
    <2>6. Satisfies(f.rows[j], s) /\ j \in DOMAIN f.rows
        OBVIOUS
    <2>7. f.rows[j].val[s.field] = 1
        <3>1. f.rows[j].val[s.field] \in Int
            BY <2>3, <2>6, RowsOf
        <3>2. Compare("eq", Against(f.rows[j].val[s.field], 1), 1)
            BY <2>2, <2>6 DEF Satisfies
        <3>3. Against(f.rows[j].val[s.field], 1) = 1
            BY <3>2 DEF Compare
        <3> QED BY <3>1, <3>3 DEF Against, IsNum, Num, Text, Null
    <2>8. i \in f.rows[j].from \ {Foreign}
        BY <2>5
    <2> HIDE DEF I
    <2> QED BY <2>2, <2>3, <2>6, <2>7, <2>8 DEF Secure, SecureRow
<1> QED BY <1>2, <1>3

LEMMA OthersSecure ==
    ASSUME NEW f, Typed(f), f.status = "ok", NEW s \in Steps, Accepts(s, f.cols, lineage.aggregated, ResultFields),
           Execute(f, s).status = "ok", Secure(f, lineage), ~MarksSecurities(s)
    PROVE  Secure(Execute(f, s), NewLineage(s))
<1> DEFINE g == Execute(f, s)
           l == NewLineage(s)
           T == Touched(s)
<1>1. Stays(g, f, T)
    BY ExecuteFollows DEF Follows
<1>2. \A c : Rewrites(s, c) <=> c \in T
    BY DEF Rewrites, Touched
<1>3. /\ l.loose = lineage.loose \cup Loosened(s)
      /\ l.markers = lineage.markers \cup (IF s.op \in Members /\ s.right = MemberQuery THEN {s.output} ELSE {})
      /\ l.strict <=> lineage.strict \/ Strict(s)
    BY DEF NewLineage
<1>4. \A c \in lineage.markers \cup {Security, s.output} : c \notin l.loose => c \notin lineage.loose /\ c \notin T
    BY <1>2, <1>3 DEF Loosened
<1>5. s.op \in Members => s.output \in T
    BY MarkedColumns DEF Touched
<1>6. ASSUME Strict(s), NEW k \in DOMAIN g.rows, NEW i \in g.rows[k].from \ {Foreign}
      PROVE  Admitted(SecurityOf(i))
    BY <1>6, EnforcedIsAdmitted
<1> HIDE DEF g, l, T
<1>7. ASSUME NEW k \in DOMAIN g.rows, NEW i \in g.rows[k].from \ {Foreign}
      PROVE  /\ Security \in g.cols \ l.loose => g.rows[k].val[Security] = SecurityOf(i)
             /\ \A m \in (l.markers \ l.loose) \cap g.cols : g.rows[k].val[m] = 1 => Admitted(SecurityOf(i))
             /\ l.strict => Admitted(SecurityOf(i))
    <2>1. PICK j \in DOMAIN f.rows : i \in f.rows[j].from /\ \A c \in g.cols \ T : g.rows[k].val[c] = f.rows[j].val[c]
        BY <1>1 DEF Stays
    <2>2. SecureRow(f.rows[j], f.cols, lineage) /\ i \in f.rows[j].from \ {Foreign} /\ g.cols \ T \subseteq f.cols
        BY <1>1, <2>1 DEF Secure, Stays
    <2>3. ASSUME Security \in g.cols \ l.loose
          PROVE  g.rows[k].val[Security] = SecurityOf(i)
        <3>1. Security \in g.cols \ T /\ Security \in f.cols \ lineage.loose
            BY <1>4, <2>2, <2>3
        <3> QED BY <2>1, <2>2, <3>1 DEF SecureRow
    <2>4. ASSUME NEW m \in (l.markers \ l.loose) \cap g.cols, g.rows[k].val[m] = 1
          PROVE  Admitted(SecurityOf(i))
        <3>1. m \in lineage.markers
            BY <1>3, <1>4, <1>5
        <3>2. m \in g.cols \ T /\ m \in (lineage.markers \ lineage.loose) \cap f.cols
            BY <1>4, <2>2, <3>1
        <3> QED BY <2>1, <2>2, <2>4, <3>2 DEF SecureRow
    <2>5. ASSUME l.strict
          PROVE  Admitted(SecurityOf(i))
        BY <1>3, <1>6, <2>2, <2>5 DEF SecureRow
    <2> QED BY <2>3, <2>4, <2>5
<1>8. Secure(g, l)
    BY <1>7 DEF Secure, SecureRow
<1> QED BY <1>8 DEF g, l

\* The source: every row is its own origin.
LEMMA SourceSecure ==
    /\ Typed(Source) /\ Source.status = "ok" /\ Source.cols = Results[SourceQuery].cols
    /\ \A k \in DOMAIN Source.rows : Source.rows[k].from = {k}
<1> DEFINE f == Results[SourceQuery]
           rows == [i \in DOMAIN f.rows |-> [f.rows[i] EXCEPT !.from = {i}]]
<1>1. Typed(f) /\ f.status = "ok"
    BY QueriesArePlanned, ResultsAreTyped
<1>2. Source = [f EXCEPT !.rows = rows]
    BY DEF Source, SourceRows
<1>3. Len(f.rows) \in Nat /\ DOMAIN f.rows = 1..Len(f.rows)
    <2> HIDE DEF f
    <2> QED BY <1>1, RowsOf
<1>4. ASSUME NEW i \in DOMAIN f.rows
      PROVE  rows[i] \in Rows(f.cols) /\ rows[i].from = {i}
    <2>1. f.rows[i] \in Rows(f.cols)
        <3> HIDE DEF f
        <3> QED BY <1>1, <1>4, RowsOf
    <2>2. rows[i] = [f.rows[i] EXCEPT !.from = {i}]
        OBVIOUS
    <2>3. {i} \in SUBSET Int
        BY <1>3
    <2> HIDE DEF rows, f
    <2> QED BY <2>1, <2>2, <2>3 DEF Rows
<1>5. rows \in [1..Len(f.rows) -> Rows(f.cols)]
    BY <1>3, <1>4
<1> HIDE DEF rows
<1>6. rows \in Seq(Rows(f.cols)) /\ DOMAIN rows = DOMAIN f.rows
    <2> HIDE DEF f
    <2> QED BY <1>3, <1>5, Tuples
<1> HIDE DEF f
<1>7. Source.rows = rows /\ Source.cols = f.cols /\ Source.status = "ok" /\ IsFrame(Source)
    BY <1>1, <1>2 DEF Typed, IsFrame
<1>8. Typed(Source)
    BY <1>6, <1>7 DEF Typed
<1> QED BY <1>4, <1>6, <1>7, <1>8 DEF f

-----------------------------------------------------------------------------
\* THE ORDER OF THE ROWS.

\* No row stands after one that the order of the column puts behind it.
Arranged(f, c, dir) ==
    \A j, k \in DOMAIN f.rows : j < k =>
        LET a == f.rows[j].val[c]  b == f.rows[k].val[c]
        IN  b # Null => a # Null /\ ~(IF dir = "asc" THEN b < a ELSE b > a)

\* The rows of f, some of them, in the order of f.
Thins(g, f) ==
    /\ g.cols = f.cols /\ DOMAIN g.rows \in SUBSET Int
    /\ \E e : \A k \in DOMAIN g.rows : /\ e[k] \in DOMAIN f.rows /\ g.rows[k] = f.rows[e[k]]
                                       /\ \A j \in DOMAIN g.rows : j < k => e[j] < e[k]

LEMMA KeepThins ==
    ASSUME NEW f, Typed(f), NEW I \in SUBSET DOMAIN f.rows
    PROVE  Thins(KeepIndices(f, I), f)
<1>1. I \in SUBSET Int /\ IsFiniteSet(I)
    BY SubIndices DEF Typed
<1>2. PICK e : Lists(e, I, Lesser(I)) /\ Pick(f.rows, I) = [k \in 1..Cardinality(I) |-> f.rows[e[k]]]
    BY <1>1, Picks
<1> DEFINE n == Cardinality(I)
           g == KeepIndices(f, I)
<1>3. g.rows = Pick(f.rows, I) /\ g.cols = f.cols
    BY KeepTraces
<1>4. DOMAIN g.rows = 1..n /\ n \in Nat /\ \A k \in 1..n : e[k] \in I /\ g.rows[k] = f.rows[e[k]]
    BY <1>2, <1>3 DEF Lists
<1>5. \A j, k \in 1..n : j < k => e[j] < e[k]
    <2>1. StrictTotal(Lesser(I), I)
        BY <1>1, LesserIsTotal
    <2>2. \A j, k \in 1..n : j < k <=> e[j] \in Lesser(I)[e[k]]
        BY <1>1, <1>2, <2>1, ListsAll
    <2> HIDE DEF g, n
    <2> QED BY <1>4, <2>2 DEF Lesser
<1> HIDE DEF g, n
<1>6. Thins(g, f)
    BY <1>3, <1>4, <1>5 DEF Thins
<1> QED BY <1>6 DEF g

LEMMA ThinsArranged ==
    ASSUME NEW f, NEW g, Thins(g, f), NEW c, NEW dir, Arranged(f, c, dir)
    PROVE  Arranged(g, c, dir)
<1>1. PICK e : \A k \in DOMAIN g.rows : /\ e[k] \in DOMAIN f.rows /\ g.rows[k] = f.rows[e[k]]
                                        /\ \A j \in DOMAIN g.rows : j < k => e[j] < e[k]
    BY DEF Thins
<1>2. ASSUME NEW j \in DOMAIN g.rows, NEW k \in DOMAIN g.rows, j < k
      PROVE  LET a == g.rows[j].val[c]  b == g.rows[k].val[c]
             IN  b # Null => a # Null /\ ~(IF dir = "asc" THEN b < a ELSE b > a)
    <2>1. e[j] \in DOMAIN f.rows /\ e[k] \in DOMAIN f.rows /\ e[j] < e[k] /\ g.rows[j] = f.rows[e[j]] /\ g.rows[k] = f.rows[e[k]]
        BY <1>1, <1>2
    <2> QED BY <2>1 DEF Arranged
<1> QED BY <1>2 DEF Arranged

\* A sort with no group keys arranges the frame.
LEMMA SortArranges ==
    ASSUME NEW f, Typed(f), NEW c \in f.cols, NEW dir
    PROVE  Arranged(SortWithin(f, <<>>, c, dir), c, dir)
<1> DEFINE o == SortWithin(f, <<>>, c, dir)
           D == DOMAIN f.rows
           L == Within(f, <<>>, c, dir)
<1>1. <<>> \in Seq(f.cols)
    BY EmptySeq
<1>2. Reorders(o, f, L) /\ Weak(L, D)
    BY <1>1, SortWithinReorders, WithinIsWeak
<1> HIDE DEF o, L
<1>3. PICK e : Lists(e, D, Stable(L, D)) /\ o = [f EXCEPT !.rows = [i \in D |-> f.rows[e[i]]]]
    BY <1>2 DEF Reorders
<1>4. o.rows = [i \in D |-> f.rows[e[i]]]
    BY <1>3 DEF Typed, IsFrame
<1>5. D \in SUBSET Int /\ IsFiniteSet(D) /\ Len(f.rows) \in Nat /\ D = 1..Len(f.rows) /\ Cardinality(D) = Len(f.rows)
    <2>1. Len(f.rows) \in Nat /\ D = 1..Len(f.rows)
        BY RowsOf
    <2> QED BY <2>1, FS_Interval
<1>6. \A k \in D : e[k] \in D
    BY <1>3, <1>5 DEF Lists
<1> HIDE DEF D
<1>7. ASSUME NEW j \in D, NEW k \in D, j < k
      PROVE  e[k] \notin L[e[j]]
    <2>1. StrictTotal(Stable(L, D), D)
        BY <1>2, <1>5, StableIsTotal
    <2>2. \A x, y \in 1..Cardinality(D) : x < y <=> e[x] \in Stable(L, D)[e[y]]
        BY <1>3, <1>5, <2>1, ListsAll
    <2>3. e[j] \in Stable(L, D)[e[k]]
        BY <1>5, <1>7, <2>2
    <2>4. e[j] \in L[e[k]] \/ e[k] \notin L[e[j]]
        BY <1>6, <2>3 DEF Stable
    <2> QED BY <1>2, <1>6, <2>4 DEF Weak
<1>8. ASSUME NEW x \in D, NEW y \in D, x \notin L[y]
      PROVE  f.rows[x].val[c] # Null =>
                f.rows[y].val[c] # Null /\ ~(IF dir = "asc" THEN f.rows[x].val[c] < f.rows[y].val[c] ELSE f.rows[x].val[c] > f.rows[y].val[c])
    <2>1. Key(f.rows[x], <<>>) = Key(f.rows[y], <<>>)
        BY DEF Key
    <2>2. x \notin ByColumn(f, c, dir)[y]
        BY <1>8, <2>1 DEF L, Within, D
    <2> QED BY <2>2 DEF ByColumn, D
<1>9. ASSUME NEW j \in D, NEW k \in D, j < k
      PROVE  LET a == o.rows[j].val[c]  b == o.rows[k].val[c]
             IN  b # Null => a # Null /\ ~(IF dir = "asc" THEN b < a ELSE b > a)
    <2>1. e[j] \in D /\ e[k] \in D /\ e[k] \notin L[e[j]] /\ o.rows[j] = f.rows[e[j]] /\ o.rows[k] = f.rows[e[k]]
        BY <1>4, <1>6, <1>7, <1>9
    <2> QED BY <1>8, <2>1
<1>10. DOMAIN o.rows = D
    BY <1>4
<1>11. Arranged(o, c, dir)
    BY <1>9, <1>10 DEF Arranged
<1> QED BY <1>11 DEF o

\* What the executor verifies of the result, of one accepted step.

LEMMA LimitsTo ==
    ASSUME NEW f, Typed(f), NEW s, s.count \in Nat
    PROVE  Len(LimitRows(f, s).rows) <= s.count /\ Thins(LimitRows(f, s), f)
<1> DEFINE I == {i \in DOMAIN f.rows : i <= s.count}
<1>1. LimitRows(f, s) = KeepIndices(f, I)
    BY DEF LimitRows
<1>2. I \in SUBSET DOMAIN f.rows /\ I \subseteq 1..s.count
    <2>1. DOMAIN f.rows = 1..Len(f.rows) /\ Len(f.rows) \in Nat
        BY RowsOf
    <2> QED BY <2>1
<1> HIDE DEF I
<1>3. Len(KeepIndices(f, I).rows) = Cardinality(I)
    BY <1>2, KeepTraces
<1>4. IsFiniteSet(1..s.count) /\ Cardinality(1..s.count) = s.count
    <2> DEFINE n == s.count
    <2>1. 1 \in Int /\ n \in Int /\ ~(1 > n + 1) /\ n - 1 + 1 = n
        OBVIOUS
    <2>2. /\ IsFiniteSet(1..n)
          /\ Cardinality(1..n) = IF 1 > n THEN 0 ELSE n - 1 + 1
        <3> HIDE DEF n
        <3> QED BY <2>1, FS_Interval
    <2> QED BY <2>1, <2>2
<1>5. Cardinality(I) <= s.count
    BY <1>2, <1>4, FS_Subset
<1> QED BY <1>1, <1>2, <1>3, <1>5, KeepThins

LEMMA FilterLeaves ==
    ASSUME NEW f, Typed(f), NEW s
    PROVE  \A r \in ToSet(FilterRows(f, s).rows) : Satisfies(r, s)
<1> DEFINE I == {j \in DOMAIN f.rows : Satisfies(f.rows[j], s)}
           g == KeepIndices(f, I)
<1>1. FilterRows(f, s) = g
    BY DEF FilterRows, KeepWhere
<1>2. I \in SUBSET DOMAIN f.rows /\ \A j \in I : Satisfies(f.rows[j], s)
    OBVIOUS
<1> HIDE DEF I
<1>3. \A k \in DOMAIN g.rows : \E j \in I : g.rows[k] = f.rows[j]
    BY <1>2, KeptSatisfy
<1> HIDE DEF g
<1>4. \A k \in DOMAIN g.rows : Satisfies(g.rows[k], s)
    BY <1>2, <1>3
<1> QED BY <1>1, <1>4 DEF ToSet

-----------------------------------------------------------------------------
\* THE INVARIANTS AND THE THEOREMS.

\* The inductive part of ConstraintsRestrict: Secure, of the frame, while it is one.
Restricts == frame.status = "ok" => Typed(frame) /\ Secure(frame, lineage)

LEMMA RestrictsAtFirst == Init => Restricts
<1> SUFFICES ASSUME Init PROVE Restricts
    OBVIOUS
<1>1. frame = Source /\ lineage.markers = {} /\ ~lineage.strict
    BY DEF Init
<1>2. Typed(frame)
    BY <1>1, SourceSecure
<1>3. ASSUME NEW k \in DOMAIN frame.rows, NEW i \in frame.rows[k].from
      PROVE  i = k
    BY <1>1, <1>3, SourceSecure
<1>4. Secure(frame, lineage)
    BY <1>1, <1>3 DEF Secure, SecureRow, SecurityOf
<1> QED BY <1>2, <1>4 DEF Restricts

LEMMA RestrictsThen == IInv /\ Restricts /\ [Next]_vars => Restricts'
<1> SUFFICES ASSUME IInv, Restricts, [Next]_vars PROVE Restricts'
    OBVIOUS
<1>1. CASE RunStep
    <2>1. PICK s \in Steps : /\ frame.status = "ok" /\ Accepts(s, available, lineage.aggregated, ResultFields)
                             /\ frame' = Execute(frame, s) /\ lineage' = NewLineage(s)
        BY <1>1 DEF RunStep
    <2>2. Accepts(s, frame.cols, lineage.aggregated, ResultFields) /\ Typed(frame) /\ Secure(frame, lineage)
        BY <2>1 DEF IInv, FieldsAsValidated, Restricts
    <2>3. ASSUME Execute(frame, s).status = "ok"
          PROVE  Typed(Execute(frame, s)) /\ Secure(Execute(frame, s), NewLineage(s))
        <3>1. Typed(Execute(frame, s))
            BY <2>1, <2>2, <2>3, ExecuteFollows DEF Follows, Stays
        <3>2. Secure(Execute(frame, s), NewLineage(s))
            BY <2>1, <2>2, <2>3, MarkSecures, OthersSecure
        <3> QED BY <3>1, <3>2
    <2>4. (Typed(frame) /\ Secure(frame, lineage))' <=> Typed(frame') /\ Secure(frame', lineage')
        BY DEF Typed, IsFrame, Secure, SecureRow, SecurityOf, Source, SourceRows, Admitted
    <2> QED BY <2>1, <2>3, <2>4 DEF Restricts
<1>2. CASE UNCHANGED vars
    <2>1. frame' = frame /\ lineage' = lineage
        BY <1>2 DEF vars
    <2>2. (Typed(frame) /\ Secure(frame, lineage))' <=> Typed(frame') /\ Secure(frame', lineage')
        BY DEF Typed, IsFrame, Secure, SecureRow, SecurityOf, Source, SourceRows, Admitted
    <2> QED BY <2>1, <2>2 DEF Restricts
<1> QED BY <1>1, <1>2 DEF Next

\* A constraint whose strict enforcement the validator accepted restricts the result, for any
\* results, any members and any steps: every row that a pipeline returns comes from securities
\* that the constraint admits, whatever was joined, aggregated or recomputed before and after
\* it (_validate_constraint_lineage against _execute_step).
THEOREM ConstraintsHold == Spec => []ConstraintsRestrict
<1>1. ASSUME Restricts
      PROVE  ConstraintsRestrict
    <2>1. \A r \in ToSet(frame.rows) : \E k \in DOMAIN frame.rows : r = frame.rows[k]
        BY DEF ToSet
    <2> QED BY <1>1, <2>1 DEF Restricts, Secure, SecureRow, SecurityOf, ConstraintsRestrict
<1> QED BY <1>1, Starts, Continues, RestrictsAtFirst, RestrictsThen, PTL DEF Spec

-----------------------------------------------------------------------------
\* WHAT THE EXECUTOR VERIFIES.

\* The inductive part of ChecksAcceptTheResult; a frame that was sorted and then only limited
\* is still arranged.
LimitKept ==
    \/ LimitHolds
    \/ \E i \in DOMAIN steps : i > Min(With("limit")) /\ steps[i].op \in Copies \cup {"union_all"}
FiltersKept ==
    \A i \in With("filter") :
        \/ FilterHolds(i)
        \/ \E j \in DOMAIN steps : j > i /\ (steps[j].op = "union_all" \/ Rewrites(steps[j], steps[i].field))
SortKept == \A i \in FinalSort : steps[i].field \in frame.cols /\ Arranged(frame, steps[i].field, steps[i].direction)
Verified ==
    /\ \A i \in DOMAIN steps : steps[i].op = "limit" => steps[i].count # 0
    /\ frame.status = "ok" => LimitKept /\ FiltersKept /\ SortKept

\* The accepted steps, one more.
LEMMA OneMore ==
    ASSUME steps \in Seq(Steps), NEW s \in Steps, steps' = Append(steps, s)
    PROVE  /\ Len(steps) \in Nat /\ DOMAIN steps = 1..Len(steps) /\ DOMAIN steps' = 1..(Len(steps) + 1)
           /\ \A i \in DOMAIN steps : i # Len(steps) + 1 /\ i < Len(steps) + 1 /\ i \in DOMAIN steps' /\ steps'[i] = steps[i]
           /\ steps'[Len(steps) + 1] = s
           /\ \A i \in DOMAIN steps' : i \in DOMAIN steps \/ i = Len(steps) + 1
<1>1. /\ Len(steps') = Len(steps) + 1 /\ steps' \in Seq(Steps)
      /\ \A i \in 1..Len(steps) : steps'[i] = steps[i]
      /\ steps'[Len(steps) + 1] = s
    BY AppendProperties
<1>2. Len(steps) \in Nat /\ DOMAIN steps = 1..Len(steps) /\ DOMAIN steps' = 1..(Len(steps) + 1)
    BY <1>1, LenProperties
<1> QED BY <1>1, <1>2

LEMMA LimitKeptThen ==
    ASSUME IInv, Restricts, Verified, frame.status = "ok", NEW s \in Steps,
           Accepts(s, frame.cols, lineage.aggregated, ResultFields), frame' = Execute(frame, s), steps' = Append(steps, s),
           frame'.status = "ok"
    PROVE  LimitKept'
<1> DEFINE n == Len(steps)
           W == With("limit")
           X == {i \in DOMAIN steps' : steps'[i].op = "limit"}
<1>1. /\ n \in Nat /\ DOMAIN steps = 1..n /\ DOMAIN steps' = 1..(n + 1) /\ steps'[n + 1] = s
      /\ \A i \in DOMAIN steps : i < n + 1 /\ i \in DOMAIN steps' /\ steps'[i] = steps[i]
      /\ \A i \in DOMAIN steps' : i \in DOMAIN steps \/ i = n + 1
    BY OneMore DEF IInv
<1>2. W = {i \in DOMAIN steps : steps[i].op = "limit"} /\ With("limit")' = X
    BY DEF With
<1>3. Follows(frame', frame, s) /\ Typed(frame) /\ Typed(frame')
    <2>1. Typed(frame)
        BY DEF Restricts
    <2>2. Follows(Execute(frame, s), frame, s)
        BY <2>1, ExecuteFollows
    <2> QED BY <2>1, <2>2 DEF Follows, Stays
<1>4. Len(frame.rows) \in Nat /\ Len(frame'.rows) \in Nat
    BY <1>3, RowsOf
<1>5. SUFFICES ASSUME X # {}
               PROVE  \/ Len(frame'.rows) <= steps'[Min(X)].count
                      \/ \E i \in DOMAIN steps' : i > Min(X) /\ steps'[i].op \in Copies \cup {"union_all"}
    BY <1>2 DEF LimitKept, LimitHolds
<1>6. X \in SUBSET Int /\ IsFiniteSet(X) /\ W \in SUBSET Int /\ IsFiniteSet(W)
    <2>1. IsFiniteSet(1..n) /\ IsFiniteSet(1..(n + 1))
        BY <1>1, FS_Interval
    <2>2. W \subseteq 1..n /\ X \subseteq 1..(n + 1)
        BY <1>1, <1>2
    <2> HIDE DEF n, W, X
    <2>3. 1..n \subseteq Int /\ 1..(n + 1) \subseteq Int
        BY <1>1
    <2> QED BY <2>1, <2>2, <2>3, FS_Subset
<1>7. CASE W = {}
    <2>1. X = {n + 1} /\ s.op = "limit"
        BY <1>1, <1>2, <1>5, <1>7
    <2>2. Min(X) = n + 1
        <3> HIDE DEF X
        <3>1. Min(X) \in X
            BY <1>5, <1>6, Extremes
        <3> QED BY <2>1, <3>1
    <2>3. frame' = LimitRows(frame, s)
        <3>1. s.op \notin RightOps \cup Adding
            BY <2>1 DEF RightOps, KeyJoins, Copies, Adding, Rolling, Shifts, Cumulative, Members
        <3>2. Execute(frame, s) = Rowwise(frame, s)
            BY <3>1, AcceptedIsReadable DEF Execute
        <3> QED BY <2>1, <3>2 DEF Rowwise
    <2>4. Len(LimitRows(frame, s).rows) <= s.count
        BY <1>3, LimitsTo, StepsAreTyped
    <2> QED BY <1>1, <2>2, <2>3, <2>4
<1>8. CASE W # {}
    <2> DEFINE m == Min(W)
    <2>1. m \in W /\ \A y \in W : m <= y
        BY <1>6, <1>8, Extremes
    <2> HIDE DEF m
    <2>2. m \in DOMAIN steps /\ m \in Int /\ m < n + 1 /\ m \in X /\ steps'[m] = steps[m] /\ steps[m].op = "limit"
        BY <1>1, <1>2, <1>6, <2>1
    <2>3. Min(X) = m
        <3>1. Min(X) \in X /\ \A y \in X : Min(X) <= y
            BY <1>5, <1>6, Extremes
        <3>2. \A y \in X : y \in W \/ y = n + 1
            BY <1>1, <1>2
        <3> HIDE DEF X, W, n
        <3>3. Min(X) \in Int /\ Min(X) <= m
            BY <1>6, <2>2, <3>1
        <3>4. m <= Min(X)
            BY <2>1, <2>2, <3>1, <3>2, <3>3, <1>1
        <3> QED BY <2>2, <3>3, <3>4
    <2>4. Len(frame.rows) <= steps[m].count \/ \E i \in DOMAIN steps : i > m /\ steps[i].op \in Copies \cup {"union_all"}
        BY <1>2, <1>8 DEF Verified, LimitKept, LimitHolds, m
    <2>5. CASE \E i \in DOMAIN steps : i > m /\ steps[i].op \in Copies \cup {"union_all"}
        BY <1>1, <2>3, <2>5
    <2>6. CASE s.op \in Copies \cup {"union_all"}
        <3> HIDE DEF X
        <3>1. n + 1 \in DOMAIN steps' /\ n + 1 > m /\ steps'[n + 1].op \in Copies \cup {"union_all"}
            BY <1>1, <2>2, <2>6
        <3> QED BY <2>3, <3>1
    <2>7. CASE Len(frame.rows) <= steps[m].count /\ s.op \notin Copies \cup {"union_all"}
        <3>1. steps[m].count \in Nat /\ steps[m].count # 0
            <4>1. steps[m] \in Steps
                BY <2>2 DEF IInv
            <4> QED BY <2>2, <4>1, StepsAreTyped DEF Verified
        <3>2. Len(frame'.rows) <= Len(frame.rows) \/ Len(frame'.rows) = 1
            BY <1>3, <2>7 DEF Follows
        <3> HIDE DEF X, n
        <3> DEFINE most == steps[m].count
                   now == Len(frame'.rows)
                   then == Len(frame.rows)
        <3>3. most \in Nat /\ most # 0 /\ now \in Nat /\ then \in Nat /\ then <= most /\ (now <= then \/ now = 1)
            BY <1>4, <2>7, <3>1, <3>2
        <3>4. now <= most
            <4> HIDE DEF most, now, then
            <4> QED BY <3>3
        <3>5. steps'[Min(X)] = steps[m]
            BY <2>2, <2>3
        <3> QED BY <3>4, <3>5
    <2> QED BY <2>4, <2>5, <2>6, <2>7
<1> QED BY <1>7, <1>8

LEMMA FiltersKeptThen ==
    ASSUME IInv, Restricts, Verified, frame.status = "ok", NEW s \in Steps,
           Accepts(s, frame.cols, lineage.aggregated, ResultFields), frame' = Execute(frame, s), steps' = Append(steps, s),
           frame'.status = "ok"
    PROVE  FiltersKept'
<1> DEFINE n == Len(steps)
           Holds(f, t) == t.field \in f.cols => \A r \in ToSet(f.rows) : Satisfies(r, t)
<1>1. /\ n \in Nat /\ DOMAIN steps = 1..n /\ DOMAIN steps' = 1..(n + 1) /\ steps'[n + 1] = s
      /\ \A i \in DOMAIN steps : i < n + 1 /\ i \in DOMAIN steps' /\ steps'[i] = steps[i]
      /\ \A i \in DOMAIN steps' : i \in DOMAIN steps \/ i = n + 1
    BY OneMore DEF IInv
<1>2. Follows(frame', frame, s) /\ Typed(frame)
    <2>1. Typed(frame)
        BY DEF Restricts
    <2>2. Follows(Execute(frame, s), frame, s)
        BY <2>1, ExecuteFollows
    <2> QED BY <2>1, <2>2
<1>3. SUFFICES ASSUME NEW i \in DOMAIN steps', steps'[i].op = "filter"
               PROVE  \/ Holds(frame', steps'[i])
                      \/ \E j \in DOMAIN steps' : j > i /\ (steps'[j].op = "union_all" \/ Rewrites(steps'[j], steps'[i].field))
    BY DEF FiltersKept, FilterHolds, With, Satisfies, Rewrites, New, Outputs
<1>4. CASE i = n + 1
    <2>1. s.op = "filter" /\ steps'[i] = s
        BY <1>1, <1>3, <1>4
    <2>2. frame' = FilterRows(frame, s)
        <3>1. s.op \notin RightOps \cup Adding
            BY <2>1 DEF RightOps, KeyJoins, Copies, Adding, Rolling, Shifts, Cumulative, Members
        <3>2. Execute(frame, s) = Rowwise(frame, s)
            BY <3>1, AcceptedIsReadable DEF Execute
        <3> QED BY <2>1, <3>2 DEF Rowwise
    <2> QED BY <1>2, <2>1, <2>2, FilterLeaves
<1>5. CASE i \in DOMAIN steps
    <2> DEFINE t == steps[i]
    <2>1. steps'[i] = t /\ t.op = "filter" /\ i < n + 1 /\ i \in Int
        BY <1>1, <1>3, <1>5
    <2>2. Holds(frame, t) \/ \E j \in DOMAIN steps : j > i /\ (steps[j].op = "union_all" \/ Rewrites(steps[j], t.field))
        BY <1>5, <2>1 DEF Verified, FiltersKept, FilterHolds, With
    <2>3. CASE \E j \in DOMAIN steps : j > i /\ (steps[j].op = "union_all" \/ Rewrites(steps[j], t.field))
        BY <1>1, <2>1, <2>3
    <2>4. CASE s.op = "union_all" \/ Rewrites(s, t.field)
        BY <1>1, <2>1, <2>4
    <2>5. CASE Holds(frame, t) /\ s.op # "union_all" /\ ~Rewrites(s, t.field)
        <3> DEFINE c == t.field
                   T == Touched(s)
        <3>1. c \notin T /\ Comes(frame', frame, T)
            BY <1>2, <2>5 DEF Rewrites, Touched, Follows
        <3>2. ASSUME c \in frame'.cols, NEW r \in ToSet(frame'.rows)
              PROVE  Satisfies(r, t)
            <4>1. PICK k \in DOMAIN frame'.rows : r = frame'.rows[k]
                BY <3>2 DEF ToSet
            <4> HIDE DEF T, c
            <4>2. c \in frame'.cols \ T /\ c \in frame.cols
                BY <3>1, <3>2 DEF Comes
            <4>3. PICK j \in DOMAIN frame.rows : r.val[c] = frame.rows[j].val[c]
                BY <3>1, <4>1, <4>2 DEF Comes
            <4>4. Satisfies(frame.rows[j], t)
                BY <2>5, <4>2 DEF ToSet, c
            <4> QED BY <4>3, <4>4 DEF Satisfies, c
        <3> HIDE DEF t
        <3> QED BY <2>1, <3>2
    <2> QED BY <2>2, <2>3, <2>4, <2>5
<1> QED BY <1>1, <1>3, <1>4, <1>5

LEMMA SortKeptThen ==
    ASSUME IInv, Restricts, Verified, frame.status = "ok", NEW s \in Steps,
           Accepts(s, frame.cols, lineage.aggregated, ResultFields), frame' = Execute(frame, s), steps' = Append(steps, s),
           frame'.status = "ok"
    PROVE  SortKept'
<1> DEFINE n == Len(steps)
           Has(f, t) == t.field \in f.cols /\ Arranged(f, t.field, t.direction)
<1>1. /\ n \in Nat /\ DOMAIN steps = 1..n /\ DOMAIN steps' = 1..(n + 1) /\ steps'[n + 1] = s
      /\ \A i \in DOMAIN steps : i < n + 1 /\ i \in DOMAIN steps' /\ steps'[i] = steps[i]
      /\ \A i \in DOMAIN steps' : i \in DOMAIN steps \/ i = n + 1
    BY OneMore DEF IInv
<1>2. Typed(frame) /\ ~Unreadable(frame, s)
    BY AcceptedIsReadable DEF Restricts
<1>3. SUFFICES ASSUME NEW i \in DOMAIN steps', steps'[i].op = "sort",
                      \A j \in DOMAIN steps' : j > i => steps'[j].op = "limit"
               PROVE  Has(frame', steps'[i])
    BY DEF SortKept, FinalSort, With, Arranged
<1>4. CASE i = n + 1
    <2>1. s.op = "sort" /\ steps'[i] = s
        BY <1>1, <1>3, <1>4
    <2>2. frame' = SortWithin(frame, <<>>, s.field, s.direction)
        <3>1. s.op \notin RightOps \cup Adding
            BY <2>1 DEF RightOps, KeyJoins, Copies, Adding, Rolling, Shifts, Cumulative, Members
        <3>2. Execute(frame, s) = Rowwise(frame, s)
            BY <1>2, <3>1 DEF Execute
        <3> QED BY <2>1, <3>2 DEF Rowwise, SortRows
    <2>3. s.field \in frame.cols
        <3>1. Read(s) \subseteq frame.cols /\ WellFormed(s) /\ s.op \in OnField
            BY <2>1 DEF Accepts, Needed, OnField
        <3> QED BY <3>1, Arguments
    <2>4. Arranged(frame', s.field, s.direction)
        BY <1>2, <2>2, <2>3, SortArranges
    <2>5. frame'.cols = frame.cols
        <3>1. IsFrame(frame)
            BY DEF IInv
        <3> QED BY <2>2, <3>1, Sorts
    <2> QED BY <2>1, <2>3, <2>4, <2>5
<1>5. CASE i \in DOMAIN steps
    <2> DEFINE t == steps[i]
    <2>1. steps'[i] = t /\ i < n + 1 /\ i \in Int
        BY <1>1, <1>5
    <2>2. s.op = "limit"
        BY <1>1, <1>3, <2>1
    <2>3. frame' = LimitRows(frame, s)
        <3>1. s.op \notin RightOps \cup Adding
            BY <2>2 DEF RightOps, KeyJoins, Copies, Adding, Rolling, Shifts, Cumulative, Members
        <3>2. Execute(frame, s) = Rowwise(frame, s)
            BY <1>2, <3>1 DEF Execute
        <3> QED BY <2>2, <3>2 DEF Rowwise
    <2>4. i \in FinalSort
        <3>1. \A j \in DOMAIN steps : j > i => steps[j].op = "limit"
            BY <1>1, <1>3
        <3> QED BY <1>3, <1>5, <2>1, <3>1 DEF FinalSort, With
    <2>5. Has(frame, t)
        BY <2>4 DEF Verified, SortKept
    <2>6. Thins(frame', frame)
        BY <1>2, <2>3, LimitsTo, StepsAreTyped
    <2>7. Arranged(frame', t.field, t.direction) /\ frame'.cols = frame.cols
        <3> HIDE DEF t
        <3> QED BY <2>5, <2>6, ThinsArranged DEF Thins
    <2> QED BY <2>1, <2>5, <2>7
<1> QED BY <1>1, <1>3, <1>4, <1>5

LEMMA VerifiedAtFirst == Init => Verified
<1> SUFFICES ASSUME Init PROVE Verified
    OBVIOUS
<1>1. steps = <<>> /\ DOMAIN steps = {}
    BY DEF Init
<1>2. \A op : With(op) = {}
    BY <1>1 DEF With
<1> QED BY <1>1, <1>2 DEF Verified, LimitKept, LimitHolds, FiltersKept, SortKept, FinalSort

LEMMA VerifiedThen == IInv /\ Restricts /\ Verified /\ [Next]_vars => Verified'
<1> SUFFICES ASSUME IInv, Restricts, Verified, [Next]_vars PROVE Verified'
    OBVIOUS
<1>1. CASE RunStep
    <2>1. PICK s \in Steps : /\ frame.status = "ok" /\ Accepts(s, available, lineage.aggregated, ResultFields)
                             /\ frame' = Execute(frame, s) /\ steps' = Append(steps, s)
        BY <1>1 DEF RunStep
    <2>2. Accepts(s, frame.cols, lineage.aggregated, ResultFields)
        BY <2>1 DEF IInv, FieldsAsValidated
    <2>3. \A i \in DOMAIN steps' : steps'[i].op = "limit" => steps'[i].count # 0
        <3>1. s.op = "limit" => s.count # 0
            <4>1. s.op = "limit" => Given(s, {"count"})
                BY <2>2 DEF Accepts, WellFormed, Complete, Rolling, Shifts, Cumulative, Members, KeyJoins, Copies
            <4> QED BY <4>1 DEF Given
        <3>2. /\ steps'[Len(steps) + 1] = s /\ \A i \in DOMAIN steps : steps'[i] = steps[i]
              /\ \A i \in DOMAIN steps' : i \in DOMAIN steps \/ i = Len(steps) + 1
            BY <2>1, OneMore DEF IInv
        <3> QED BY <3>1, <3>2 DEF Verified
    <2>4. ASSUME frame'.status = "ok"
          PROVE  LimitKept' /\ FiltersKept' /\ SortKept'
        BY <2>1, <2>2, <2>4, LimitKeptThen, FiltersKeptThen, SortKeptThen
    <2> QED BY <2>3, <2>4 DEF Verified
<1>2. CASE UNCHANGED vars
    BY <1>2 DEF vars, Verified, LimitKept, LimitHolds, FiltersKept, FilterHolds, SortKept, FinalSort, With, Arranged, Satisfies, Rewrites, New, Outputs
<1> QED BY <1>1, <1>2 DEF Next

\* An arranged frame with a number in every row passes the executor's check of the order.
LEMMA ArrangedIsOrdered ==
    ASSUME Typed(frame), NEW i \in FinalSort, steps[i].field \in frame.cols,
           Arranged(frame, steps[i].field, steps[i].direction), ~Missing(i)
    PROVE  SortHolds(i)
<1> DEFINE c == steps[i].field
           dir == steps[i].direction
           v(k) == frame.rows[k].val[c]
<1>1. Len(frame.rows) \in Nat /\ DOMAIN frame.rows = 1..Len(frame.rows)
    BY RowsOf
<1>2. \A k \in DOMAIN frame.rows : v(k) \in Int
    BY RowsOf
<1>3. \A k \in DOMAIN frame.rows : Num(v(k)) # Null
    <2>1. Null \notin ToSet([k \in DOMAIN frame.rows |-> Num(v(k))])
        BY DEF Missing
    <2> QED BY <2>1 DEF ToSet
<1>4. \A k \in DOMAIN frame.rows : Num(v(k)) = v(k) /\ v(k) # Null
    BY <1>3 DEF Num, IsNum, Null, Text
<1>5. ASSUME NEW k \in 1..(Len(frame.rows) - 1)
      PROVE  Ordered(Num(v(k)), Num(v(k + 1)), dir)
    <2>1. k \in DOMAIN frame.rows /\ k + 1 \in DOMAIN frame.rows /\ k < k + 1
        BY <1>1
    <2>2. v(k + 1) # Null => v(k) # Null /\ ~(IF dir = "asc" THEN v(k + 1) < v(k) ELSE v(k + 1) > v(k))
        BY <2>1 DEF Arranged
    <2>3. v(k) \in Int /\ v(k + 1) \in Int /\ Num(v(k)) = v(k) /\ Num(v(k + 1)) = v(k + 1) /\ v(k + 1) # Null
        BY <1>2, <1>4, <2>1
    <2> HIDE DEF v, dir
    <2> QED BY <2>2, <2>3 DEF Ordered
<1> QED BY <1>5 DEF SortHolds

\* The executor's verification of a result never refuses what an accepted pipeline computed,
\* but for the named cases: no limit, filter or final sort of the plan is found broken in the
\* rows that the steps leave (_validate_result_invariants against _execute_step).
THEOREM VerificationAccepts == Spec => []ChecksAcceptTheResult
<1>1. ASSUME Restricts, Verified
      PROVE  ChecksAcceptTheResult
    <2>1. frame.status = "ok" => \A i \in FinalSort : SortHolds(i) \/ Missing(i)
        BY <1>1, ArrangedIsOrdered DEF Restricts, Verified, SortKept
    <2> QED BY <1>1, <2>1 DEF Verified, LimitKept, FiltersKept, ChecksAcceptTheResult
<1> QED BY <1>1, Starts, Continues, RestrictsAtFirst, RestrictsThen, VerifiedAtFirst, VerifiedThen, PTL DEF Spec

-----------------------------------------------------------------------------
\* TWO FRAMES THAT AGREE ON SOME ROWS.

\* e takes the places I onto the places J, in their order.
Moves(e, I, J) ==
    /\ e \in [I -> J] /\ \A y \in J : \E x \in I : e[x] = y
    /\ \A x, y \in I : x < y <=> e[x] < e[y]
\* The rows of f with a value of V in the column c.
Kin(f, c, V) == {i \in DOMAIN f.rows : f.rows[i].val[c] \in V}
\* Those rows are the same, in the same order, in g.
Ties(e, f, g, c, V) ==
    /\ Moves(e, Kin(f, c, V), Kin(g, c, V))
    /\ \A i \in Kin(f, c, V) : g.rows[e[i]] = f.rows[i]
Same(f, g, c, V) == \E e : Ties(e, f, g, c, V)

LEMMA MovesSome ==
    ASSUME NEW I, NEW J, NEW e, Moves(e, I, J), NEW A \in SUBSET I, NEW B \in SUBSET J,
           \A x \in I : x \in A <=> e[x] \in B
    PROVE  Moves([x \in A |-> e[x]], A, B)
<1> DEFINE h == [x \in A |-> e[x]]
<1>1. h \in [A -> B]
    BY DEF Moves
<1>2. ASSUME NEW y \in B
      PROVE  \E x \in A : h[x] = y
    <2>1. PICK x \in I : e[x] = y
        BY DEF Moves
    <2> QED BY <2>1
<1>3. ASSUME NEW x \in A, NEW y \in A
      PROVE  x < y <=> h[x] < h[y]
    BY DEF Moves
<1> HIDE DEF h
<1> QED BY <1>1, <1>2, <1>3 DEF Moves

LEMMA MovesCount ==
    ASSUME NEW I \in SUBSET Int, IsFiniteSet(I), NEW J, NEW e, Moves(e, I, J)
    PROVE  IsFiniteSet(J) /\ Cardinality(J) = Cardinality(I)
<1>1. ASSUME NEW x \in I, NEW y \in I, e[x] = e[y]
      PROVE  x = y
    <2>1. ~(e[x] < e[x])
        BY DEF Moves
    <2>2. ~(x < y) /\ ~(y < x)
        BY <1>1, <2>1 DEF Moves
    <2> QED BY <2>2
<1>2. e \in Bijection(I, J)
    BY <1>1 DEF Moves, Bijection, Injection, Surjection, IsInjective
<1> QED BY <1>2, FS_Bijection DEF ExistsBijection

LEMMA PicksAlike ==
    ASSUME NEW I \in SUBSET Int, IsFiniteSet(I), NEW J \in SUBSET Int, NEW e, Moves(e, I, J),
           NEW s, NEW t, \A i \in I : t[e[i]] = s[i]
    PROVE  Pick(s, I) = Pick(t, J)
<1>1. IsFiniteSet(J) /\ Cardinality(J) = Cardinality(I)
    BY MovesCount
<1>2. PICK a : Lists(a, I, Lesser(I)) /\ Pick(s, I) = [k \in 1..Cardinality(I) |-> s[a[k]]]
    BY Picks
<1>3. PICK b : Lists(b, J, Lesser(J)) /\ Pick(t, J) = [k \in 1..Cardinality(J) |-> t[b[k]]]
    BY <1>1, Picks
<1>4. ASSUME NEW k \in 1..Cardinality(I)
      PROVE  b[k] = e[a[k]]
    <2>1. a[k] \in I /\ Cardinality(Lesser(I)[a[k]]) = k - 1
        BY <1>2 DEF Lists
    <2>2. b[k] \in J /\ Cardinality(Lesser(J)[b[k]]) = k - 1
        BY <1>1, <1>3 DEF Lists
    <2>3. e[a[k]] \in J
        BY <2>1 DEF Moves
    <2>4. Cardinality(Lesser(J)[e[a[k]]]) = Cardinality(Lesser(I)[a[k]])
        <3> DEFINE A == Lesser(I)[a[k]]
                   B == Lesser(J)[e[a[k]]]
        <3>1. A \in SUBSET I /\ B \in SUBSET J /\ \A x \in I : x \in A <=> e[x] \in B
            BY <2>1, <2>3 DEF Lesser, Moves
        <3>2. A \in SUBSET Int /\ IsFiniteSet(A)
            BY <3>1, FS_Subset
        <3> HIDE DEF A, B
        <3>3. Moves([x \in A |-> e[x]], A, B)
            BY <3>1, MovesSome
        <3>4. Cardinality(B) = Cardinality(A)
            BY <3>2, <3>3, MovesCount
        <3> QED BY <3>4 DEF A, B
    <2>5. StrictTotal(Lesser(J), J)
        BY LesserIsTotal
    <2> QED BY <1>1, <2>1, <2>2, <2>3, <2>4, <2>5, Places
<1>5. \A k \in 1..Cardinality(I) : s[a[k]] = t[b[k]]
    <2> TAKE k \in 1..Cardinality(I)
    <2>1. a[k] \in I
        BY <1>2 DEF Lists
    <2> QED BY <1>4, <2>1
<1> QED BY <1>1, <1>2, <1>3, <1>5

\* The rows of p are u[x], for the x of S in the order R.
Laid(p, S, R, u) ==
    /\ IsFiniteSet(S) /\ StrictTotal(R, S)
    /\ \E a : /\ Lists(a, S, R) /\ DOMAIN p.rows = 1..Cardinality(S)
              /\ \A k \in 1..Cardinality(S) : p.rows[k] = u[a[k]]
Among(S, u, c, V) == {x \in S : u[x].val[c] \in V}
\* Two such orders agree on the rows with a value of V in the column c.
Agree(e, A, R, u, B, Q, w) ==
    /\ e \in [A -> B] /\ \A y \in B : \E x \in A : e[x] = y
    /\ \A x, y \in A : x \in R[y] <=> e[x] \in Q[e[y]]
    /\ \A x \in A : w[e[x]] = u[x]

LEMMA Arrangement ==
    ASSUME NEW c, NEW V, NEW p, NEW S, NEW R, NEW u, Laid(p, S, R, u), NEW q, NEW T, NEW Q, NEW w, Laid(q, T, Q, w),
           NEW e, Agree(e, Among(S, u, c, V), R, u, Among(T, w, c, V), Q, w)
    PROVE  Same(p, q, c, V)
<1> DEFINE A == Among(S, u, c, V)
           B == Among(T, w, c, V)
<1>a. PICK a : /\ Lists(a, S, R) /\ DOMAIN p.rows = 1..Cardinality(S)
               /\ \A k \in 1..Cardinality(S) : p.rows[k] = u[a[k]]
    BY DEF Laid
<1>b. PICK b : /\ Lists(b, T, Q) /\ DOMAIN q.rows = 1..Cardinality(T)
               /\ \A k \in 1..Cardinality(T) : q.rows[k] = w[b[k]]
    BY DEF Laid
<1>c. /\ IsFiniteSet(S) /\ StrictTotal(R, S) /\ IsFiniteSet(T) /\ StrictTotal(Q, T)
      /\ A = {x \in S : u[x].val[c] \in V} /\ B = {y \in T : w[y].val[c] \in V}
    BY DEF Laid, Among
<1>d. /\ e \in [A -> B] /\ \A y \in B : \E x \in A : e[x] = y
      /\ \A x, y \in A : x \in R[y] <=> e[x] \in Q[e[y]]
      /\ \A x \in A : w[e[x]] = u[x]
    BY DEF Agree
<1> HIDE DEF A, B
<1> DEFINE n == Cardinality(S)
           m == Cardinality(T)
           K == Kin(p, c, V)
           L == Kin(q, c, V)
           h == [k \in K |-> CHOOSE l \in 1..m : b[l] = e[a[k]]]
<1>1. /\ \A x \in S : \E k \in 1..n : a[k] = x
      /\ \A j, k \in 1..n : j < k <=> a[j] \in R[a[k]]
      /\ \A y \in T : \E k \in 1..m : b[k] = y
      /\ \A j, k \in 1..m : j < k <=> b[j] \in Q[b[k]]
    BY <1>a, <1>b, <1>c, ListsAll
<1>2. n \in Nat /\ m \in Nat /\ a \in [1..n -> S] /\ b \in [1..m -> T]
    BY <1>a, <1>b DEF Lists
<1>3. \A k : k \in K <=> k \in 1..n /\ a[k] \in A
    BY <1>2, <1>a, <1>c DEF Kin
<1>4. \A l : l \in L <=> l \in 1..m /\ b[l] \in B
    BY <1>2, <1>b, <1>c DEF Kin
<1>5. ASSUME NEW k \in K
      PROVE  h[k] \in 1..m /\ b[h[k]] = e[a[k]] /\ h[k] \in L
    <2>1. e[a[k]] \in T /\ e[a[k]] \in B
        BY <1>3, <1>c, <1>d
    <2>2. \E l \in 1..m : b[l] = e[a[k]]
        BY <1>1, <2>1
    <2>3. h[k] \in 1..m /\ b[h[k]] = e[a[k]]
        BY <2>2
    <2> HIDE DEF h
    <2> QED BY <1>4, <2>1, <2>3
<1> HIDE DEF h
<1>6. \A j, k \in 1..m : b[j] = b[k] => j = k
    <2> TAKE j, k \in 1..m
    <2>1. b[j] \notin Q[b[j]]
        BY <1>2, <1>c DEF StrictTotal
    <2>2. b[j] = b[k] => ~(j < k) /\ ~(k < j)
        BY <1>1, <2>1
    <2> QED BY <1>2, <2>2
<1>7. h \in [K -> L]
    BY <1>5 DEF h
<1>8. ASSUME NEW l \in L
      PROVE  \E k \in K : h[k] = l
    <2>1. l \in 1..m /\ b[l] \in B
        BY <1>4
    <2>2. PICK x \in A : e[x] = b[l]
        BY <2>1, <1>d
    <2>3. PICK k \in 1..n : a[k] = x
        BY <1>1, <1>c
    <2>4. k \in K
        BY <1>3, <2>3
    <2> QED BY <1>5, <1>6, <2>1, <2>2, <2>3, <2>4
<1>9. ASSUME NEW j \in K, NEW k \in K
      PROVE  j < k <=> h[j] < h[k]
    <2>1. a[j] \in A /\ a[k] \in A /\ j \in 1..n /\ k \in 1..n
        BY <1>3
    <2>2. j < k <=> e[a[j]] \in Q[e[a[k]]]
        BY <1>1, <2>1, <1>d
    <2>3. h[j] < h[k] <=> b[h[j]] \in Q[b[h[k]]]
        BY <1>1, <1>5
    <2> QED BY <1>5, <2>2, <2>3
<1>10. ASSUME NEW k \in K
       PROVE  q.rows[h[k]] = p.rows[k]
    <2>1. a[k] \in A /\ k \in 1..n
        BY <1>3
    <2> QED BY <1>5, <2>1, <1>a, <1>b, <1>d
<1>11. Ties(h, p, q, c, V)
    BY <1>7, <1>8, <1>9, <1>10 DEF Ties, Moves
<1> QED BY <1>11 DEF Same

LEMMA KinRows ==
    ASSUME NEW f, NEW g, NEW c, NEW V, NEW e, Ties(e, f, g, c, V)
    PROVE  /\ \A i \in Kin(f, c, V) : i \in DOMAIN f.rows /\ e[i] \in Kin(g, c, V) /\ e[i] \in DOMAIN g.rows /\ g.rows[e[i]] = f.rows[i]
           /\ \A j \in Kin(g, c, V) : \E i \in Kin(f, c, V) : e[i] = j
           /\ \A i, j \in Kin(f, c, V) : i < j <=> e[i] < e[j]
BY DEF Ties, Moves, Kin

LEMMA KeptAlike ==
    ASSUME NEW f, Typed(f), NEW g, Typed(g), NEW c, NEW V, NEW e, Ties(e, f, g, c, V),
           NEW I \in SUBSET DOMAIN f.rows, NEW J \in SUBSET DOMAIN g.rows,
           \A i \in Kin(f, c, V) : i \in I <=> e[i] \in J
    PROVE  Same(KeepIndices(f, I), KeepIndices(g, J), c, V)
<1> DEFINE p == KeepIndices(f, I)
           q == KeepIndices(g, J)
           A == Among(I, f.rows, c, V)
           B == Among(J, g.rows, c, V)
           h == [x \in A |-> e[x]]
<1>1. /\ IsFiniteSet(I) /\ I \in SUBSET Int /\ StrictTotal(Lesser(I), I)
      /\ IsFiniteSet(J) /\ J \in SUBSET Int /\ StrictTotal(Lesser(J), J)
    <2>1. I \in SUBSET Int /\ IsFiniteSet(I) /\ J \in SUBSET Int /\ IsFiniteSet(J)
        BY SubIndices DEF Typed
    <2> QED BY <2>1, LesserIsTotal
<1>2. PICK a : Lists(a, I, Lesser(I)) /\ Pick(f.rows, I) = [k \in 1..Cardinality(I) |-> f.rows[a[k]]]
    BY <1>1, Picks
<1>3. PICK b : Lists(b, J, Lesser(J)) /\ Pick(g.rows, J) = [k \in 1..Cardinality(J) |-> g.rows[b[k]]]
    BY <1>1, Picks
<1>4. p.rows = Pick(f.rows, I) /\ q.rows = Pick(g.rows, J)
    BY KeepTraces
<1>5. /\ DOMAIN p.rows = 1..Cardinality(I) /\ \A k \in 1..Cardinality(I) : p.rows[k] = f.rows[a[k]]
      /\ DOMAIN q.rows = 1..Cardinality(J) /\ \A k \in 1..Cardinality(J) : q.rows[k] = g.rows[b[k]]
    BY <1>2, <1>3, <1>4
<1>11. A = {x \in I : f.rows[x].val[c] \in V} /\ B = {y \in J : g.rows[y].val[c] \in V}
    BY DEF Among
<1> HIDE DEF A, B
<1>6. A \subseteq Kin(f, c, V) /\ \A x \in A : e[x] \in B
    <2>1. A \subseteq Kin(f, c, V)
        BY <1>11 DEF Kin
    <2>2. \A x \in A : e[x] \in J /\ g.rows[e[x]] = f.rows[x]
        BY <1>11, <2>1, KinRows
    <2> QED BY <1>11, <2>1, <2>2
<1>7. h \in [A -> B]
    BY <1>6
<1>8. ASSUME NEW y \in B
      PROVE  \E x \in A : h[x] = y
    <2>1. y \in Kin(g, c, V) /\ y \in J
        BY <1>11 DEF Kin
    <2>2. PICK x \in Kin(f, c, V) : e[x] = y
        BY <2>1, KinRows
    <2>3. x \in A
        BY <1>11, <2>1, <2>2 DEF Kin
    <2> QED BY <2>2, <2>3
<1>9. ASSUME NEW x \in A, NEW y \in A
      PROVE  x \in Lesser(I)[y] <=> h[x] \in Lesser(J)[h[y]]
    <2>1. x < y <=> e[x] < e[y]
        BY <1>6, KinRows
    <2>2. h[x] = e[x] /\ h[y] = e[y] /\ e[x] \in J /\ e[y] \in J /\ x \in I /\ y \in I
        BY <1>6, <1>11
    <2> QED BY <2>1, <2>2 DEF Lesser
<1>10. ASSUME NEW x \in A
       PROVE  g.rows[h[x]] = f.rows[x]
    BY <1>6, KinRows
<1> HIDE DEF p, q, h
<1>12. Agree(h, A, Lesser(I), f.rows, B, Lesser(J), g.rows)
    BY <1>7, <1>8, <1>9, <1>10 DEF Agree
<1>13. Laid(p, I, Lesser(I), f.rows) /\ Laid(q, J, Lesser(J), g.rows)
    BY <1>1, <1>2, <1>3, <1>5 DEF Laid
<1>14. Same(p, q, c, V)
    BY <1>12, <1>13, Arrangement DEF A, B
<1> QED BY <1>14 DEF p, q

\* A stable sort by what the rows hold.
LEMMA SortsAlike ==
    ASSUME NEW f, Typed(f), NEW g, Typed(g), NEW c, NEW V, NEW e, Ties(e, f, g, c, V),
           NEW L, Weak(L, DOMAIN f.rows), NEW o, Reorders(o, f, L),
           NEW M, Weak(M, DOMAIN g.rows), NEW p, Reorders(p, g, M),
           \A i, j \in Kin(f, c, V) : i \in L[j] <=> e[i] \in M[e[j]]
    PROVE  Same(o, p, c, V)
<1> DEFINE D == DOMAIN f.rows
           E == DOMAIN g.rows
           R == Stable(L, D)
           Q == Stable(M, E)
           A == Kin(f, c, V)
           B == Kin(g, c, V)
<1>1. /\ IsFiniteSet(D) /\ D \in SUBSET Int /\ StrictTotal(R, D)
      /\ IsFiniteSet(E) /\ E \in SUBSET Int /\ StrictTotal(Q, E)
    <2>1. D \in SUBSET Int /\ IsFiniteSet(D) /\ E \in SUBSET Int /\ IsFiniteSet(E)
        BY RowsOf
    <2> QED BY <2>1, StableIsTotal
<1>2. PICK a : Lists(a, D, R) /\ o = [f EXCEPT !.rows = [i \in D |-> f.rows[a[i]]]]
    BY DEF Reorders
<1>3. PICK b : Lists(b, E, Q) /\ p = [g EXCEPT !.rows = [i \in E |-> g.rows[b[i]]]]
    BY DEF Reorders
<1>4. D = 1..Cardinality(D) /\ E = 1..Cardinality(E)
    <2>1. D = 1..Len(f.rows) /\ Len(f.rows) \in Nat /\ E = 1..Len(g.rows) /\ Len(g.rows) \in Nat
        BY RowsOf
    <2>2. Cardinality(1..Len(f.rows)) = Len(f.rows) /\ Cardinality(1..Len(g.rows)) = Len(g.rows)
        <3> DEFINE n == Len(f.rows)
                   m == Len(g.rows)
        <3>1. n \in Nat /\ m \in Nat
            BY <2>1
        <3> HIDE DEF n, m
        <3>2. Cardinality(1..n) = n /\ Cardinality(1..m) = m
            BY <3>1, FS_Interval
        <3> QED BY <3>2 DEF n, m
    <2> QED BY <2>1, <2>2
<1>5. /\ DOMAIN o.rows = 1..Cardinality(D) /\ \A k \in 1..Cardinality(D) : o.rows[k] = f.rows[a[k]]
      /\ DOMAIN p.rows = 1..Cardinality(E) /\ \A k \in 1..Cardinality(E) : p.rows[k] = g.rows[b[k]]
    <2>1. o.rows = [i \in D |-> f.rows[a[i]]] /\ p.rows = [i \in E |-> g.rows[b[i]]]
        BY <1>2, <1>3 DEF Typed, IsFrame
    <2> HIDE DEF D, E
    <2> QED BY <1>4, <2>1
<1>6. e \in [A -> B] /\ \A y \in B : \E x \in A : e[x] = y
    BY DEF Ties, Moves
<1>7. ASSUME NEW x \in A, NEW y \in A
      PROVE  x \in R[y] <=> e[x] \in Q[e[y]]
    <2>1. x \in D /\ y \in D /\ e[x] \in E /\ e[y] \in E /\ (x < y <=> e[x] < e[y])
        BY KinRows
    <2>2. (x \in L[y] <=> e[x] \in M[e[y]]) /\ (y \in L[x] <=> e[y] \in M[e[x]])
        OBVIOUS
    <2>3. x \in R[y] <=> x \in L[y] \/ (y \notin L[x] /\ x < y)
        BY <2>1 DEF Stable
    <2>4. e[x] \in Q[e[y]] <=> e[x] \in M[e[y]] \/ (e[y] \notin M[e[x]] /\ e[x] < e[y])
        BY <2>1 DEF Stable
    <2> QED BY <2>1, <2>2, <2>3, <2>4
<1>8. ASSUME NEW x \in A
      PROVE  g.rows[e[x]] = f.rows[x]
    BY KinRows
<1>9. A = Among(D, f.rows, c, V) /\ B = Among(E, g.rows, c, V)
    BY DEF Kin, Among
<1> HIDE DEF D, E, R, Q, A, B
<1>10. Agree(e, A, R, f.rows, B, Q, g.rows)
    BY <1>6, <1>7, <1>8 DEF Agree
<1>11. Laid(o, D, R, f.rows) /\ Laid(p, E, Q, g.rows)
    BY <1>1, <1>2, <1>3, <1>5 DEF Laid
<1> QED BY <1>9, <1>10, <1>11, Arrangement

LEMMA SortByAlike ==
    ASSUME NEW f, Typed(f), NEW g, Typed(g), f.cols = g.cols, NEW c, NEW V, Same(f, g, c, V), NEW k \in Seq(f.cols)
    PROVE  Same(SortBy(f, k), SortBy(g, k), c, V)
<1>1. PICK e : Ties(e, f, g, c, V)
    BY DEF Same
<1>2. \A i, j \in Kin(f, c, V) : i \in ByKey(f, k)[j] <=> e[i] \in ByKey(g, k)[e[j]]
    BY <1>1, KinRows DEF ByKey
<1>3. Weak(ByKey(f, k), DOMAIN f.rows) /\ Weak(ByKey(g, k), DOMAIN g.rows)
    BY KeysAreWeak
<1>4. Reorders(SortBy(f, k), f, ByKey(f, k)) /\ Reorders(SortBy(g, k), g, ByKey(g, k))
    BY SortByReorders
<1> QED BY <1>1, <1>2, <1>3, <1>4, SortsAlike

LEMMA SortWithinAlike ==
    ASSUME NEW f, Typed(f), NEW g, Typed(g), f.cols = g.cols, NEW c, NEW V, Same(f, g, c, V), NEW k \in Seq(f.cols),
           NEW d \in f.cols, NEW dir
    PROVE  Same(SortWithin(f, k, d, dir), SortWithin(g, k, d, dir), c, V)
<1>1. PICK e : Ties(e, f, g, c, V)
    BY DEF Same
<1>2. \A i, j \in Kin(f, c, V) : i \in Within(f, k, d, dir)[j] <=> e[i] \in Within(g, k, d, dir)[e[j]]
    <2> TAKE i, j \in Kin(f, c, V)
    <2>1. /\ i \in DOMAIN f.rows /\ e[i] \in DOMAIN g.rows /\ g.rows[e[i]] = f.rows[i]
          /\ j \in DOMAIN f.rows /\ e[j] \in DOMAIN g.rows /\ g.rows[e[j]] = f.rows[j]
        BY <1>1, KinRows
    <2>2. i \in ByKey(f, k)[j] <=> e[i] \in ByKey(g, k)[e[j]]
        BY <2>1 DEF ByKey
    <2>3. i \in ByColumn(f, d, dir)[j] <=> e[i] \in ByColumn(g, d, dir)[e[j]]
        BY <2>1 DEF ByColumn
    <2> QED BY <2>1, <2>2, <2>3 DEF Within
<1>3. Weak(Within(f, k, d, dir), DOMAIN f.rows) /\ Weak(Within(g, k, d, dir), DOMAIN g.rows)
    BY WithinIsWeak
<1>4. Reorders(SortWithin(f, k, d, dir), f, Within(f, k, d, dir)) /\ Reorders(SortWithin(g, k, d, dir), g, Within(g, k, d, dir))
    BY SortWithinReorders
<1> QED BY <1>1, <1>2, <1>3, <1>4, SortsAlike

\* The rows changed in place, and not in the column.
LEMMA MapsAlike ==
    ASSUME NEW f, NEW g, NEW c, NEW V, NEW e, Ties(e, f, g, c, V),
           NEW p, DOMAIN p.rows = DOMAIN f.rows, \A i \in DOMAIN f.rows : p.rows[i].val[c] = f.rows[i].val[c],
           NEW q, DOMAIN q.rows = DOMAIN g.rows, \A i \in DOMAIN g.rows : q.rows[i].val[c] = g.rows[i].val[c],
           \A i \in Kin(f, c, V) : q.rows[e[i]] = p.rows[i]
    PROVE  Ties(e, p, q, c, V)
<1>1. Kin(p, c, V) = Kin(f, c, V) /\ Kin(q, c, V) = Kin(g, c, V)
    BY DEF Kin
<1> QED BY <1>1 DEF Ties

\* A group of such rows, when the column is one of its keys.
LEMMA GroupsAlike ==
    ASSUME NEW f, NEW g, NEW c, NEW V, NEW e, Ties(e, f, g, c, V), NEW k, c \in ToSet(k), NEW r, r.val[c] \in V
    PROVE  /\ Alike(f, k, r) \subseteq Kin(f, c, V)
           /\ Moves([x \in Alike(f, k, r) |-> e[x]], Alike(f, k, r), Alike(g, k, r))
<1>1. Alike(f, k, r) \subseteq Kin(f, c, V) /\ Alike(g, k, r) \subseteq Kin(g, c, V)
    BY KeyValues DEF Alike, Kin
<1>2. \A x \in Kin(f, c, V) : x \in Alike(f, k, r) <=> e[x] \in Alike(g, k, r)
    BY KinRows DEF Alike
<1>3. Moves(e, Kin(f, c, V), Kin(g, c, V))
    BY DEF Ties
<1> QED BY <1>1, <1>2, <1>3, MovesSome

LEMMA KinOrder ==
    ASSUME NEW f, Typed(f), NEW g, Typed(g), NEW c, NEW V, NEW e, Ties(e, f, g, c, V),
           NEW x \in Kin(f, c, V), NEW y \in Kin(f, c, V)
    PROVE  (x < y <=> e[x] < e[y]) /\ (x <= y <=> e[x] <= e[y]) /\ (x = y <=> e[x] = e[y])
<1>1. x \in Int /\ y \in Int /\ e[x] \in Int /\ e[y] \in Int
    <2>1. x \in DOMAIN f.rows /\ y \in DOMAIN f.rows /\ e[x] \in DOMAIN g.rows /\ e[y] \in DOMAIN g.rows
        BY KinRows
    <2> QED BY <2>1, RowsOf
<1>2. (x < y <=> e[x] < e[y]) /\ (y < x <=> e[y] < e[x])
    BY KinRows
<1> QED BY <1>1, <1>2

LEMMA PartsAlike ==
    ASSUME NEW f, Typed(f), NEW g, Typed(g), NEW c, NEW V, NEW e, Ties(e, f, g, c, V),
           NEW I \in SUBSET Kin(f, c, V), NEW J \in SUBSET Kin(g, c, V), \A x \in Kin(f, c, V) : x \in I <=> e[x] \in J,
           NEW d
    PROVE  Cardinality(I) = Cardinality(J) /\ Values(f, d, I) = Values(g, d, J)
<1> DEFINE h == [x \in I |-> e[x]]
<1>1. Moves(h, I, J)
    BY MovesSome DEF Ties
<1>2. I \in SUBSET Int /\ IsFiniteSet(I) /\ J \in SUBSET Int
    <2>1. I \in SUBSET DOMAIN f.rows /\ J \in SUBSET DOMAIN g.rows
        BY DEF Kin
    <2> QED BY <2>1, SubIndices DEF Typed
<1>3. \A i \in I : Column(g, d)[h[i]] = Column(f, d)[i]
    <2> TAKE i \in I
    <2>1. i \in DOMAIN f.rows /\ e[i] \in DOMAIN g.rows /\ g.rows[e[i]] = f.rows[i]
        BY KinRows
    <2> QED BY <2>1 DEF Column
<1> HIDE DEF h
<1>4. Cardinality(I) = Cardinality(J)
    BY <1>1, <1>2, MovesCount
<1>5. Pick(Column(f, d), I) = Pick(Column(g, d), J)
    BY <1>1, <1>2, <1>3, PicksAlike
<1> QED BY <1>4, <1>5 DEF Values

LEMMA GroupMoves ==
    ASSUME NEW f, NEW g, NEW c, NEW V, NEW e, Ties(e, f, g, c, V), NEW k, c \in ToSet(k), NEW i \in Kin(f, c, V)
    PROVE  /\ Group(f, k, i) \subseteq Kin(f, c, V) /\ Group(g, k, e[i]) \subseteq Kin(g, c, V) /\ i \in Group(f, k, i)
           /\ \A x \in Kin(f, c, V) : x \in Group(f, k, i) <=> e[x] \in Group(g, k, e[i])
<1>1. i \in DOMAIN f.rows /\ e[i] \in DOMAIN g.rows /\ g.rows[e[i]] = f.rows[i] /\ f.rows[i].val[c] \in V
    BY KinRows DEF Kin
<1>2. \A x \in Group(f, k, i) : f.rows[x].val[c] = f.rows[i].val[c]
    BY KeyValues DEF Group
<1>3. \A x \in Group(g, k, e[i]) : g.rows[x].val[c] = f.rows[i].val[c]
    BY <1>1, KeyValues DEF Group
<1>4. \A x \in Kin(f, c, V) : x \in Group(f, k, i) <=> e[x] \in Group(g, k, e[i])
    BY <1>1, KinRows DEF Group
<1> QED BY <1>1, <1>2, <1>3, <1>4 DEF Kin, Group

\* A column added to both.
LEMMA WidensAlike ==
    ASSUME NEW f, NEW g, f.cols = g.cols, NEW c \in f.cols, NEW V, NEW e, Ties(e, f, g, c, V), NEW n, n # c,
           NEW x, NEW y, \A i \in Kin(f, c, V) : x[i] = y[e[i]]
    PROVE  Ties(e, WithColumn(f, n, x), WithColumn(g, n, y), c, V)
<1> DEFINE p == WithColumn(f, n, x)
           q == WithColumn(g, n, y)
<1>1. DOMAIN p.rows = DOMAIN f.rows /\ DOMAIN q.rows = DOMAIN g.rows
    BY DEF WithColumn, OkFrame
<1>2. \A i \in DOMAIN f.rows : p.rows[i].val[c] = f.rows[i].val[c]
    BY DEF WithColumn, OkFrame
<1>3. \A i \in DOMAIN g.rows : q.rows[i].val[c] = g.rows[i].val[c]
    BY DEF WithColumn, OkFrame
<1>4. ASSUME NEW i \in Kin(f, c, V)
      PROVE  q.rows[e[i]] = p.rows[i]
    <2>1. i \in DOMAIN f.rows /\ e[i] \in DOMAIN g.rows /\ g.rows[e[i]] = f.rows[i] /\ x[i] = y[e[i]]
        BY KinRows
    <2> QED BY <2>1 DEF WithColumn, OkFrame
<1> HIDE DEF p, q
<1>5. Ties(e, p, q, c, V)
    BY <1>1, <1>2, <1>3, <1>4, MapsAlike
<1> QED BY <1>5 DEF p, q

-----------------------------------------------------------------------------
\* The steps that compute a column over groups of such rows.

Twins(f, g, c, V) == Typed(f) /\ Typed(g) /\ f.cols = g.cols /\ c \in f.cols /\ Same(f, g, c, V)
\* A step whose groups hold one value of the column each, and that compares no market dates.
GroupsBy(s, f, c) == s.group_by \in Seq(f.cols) /\ c \in ToSet(s.group_by) /\ ~s.consecutive /\ s.output # c

LEMMA TransformAlike ==
    ASSUME NEW f, NEW g, NEW c, NEW V, Twins(f, g, c, V), NEW s, GroupsBy(s, f, c)
    PROVE  /\ Same(GroupTransform(f, s), GroupTransform(g, s), c, V)
           /\ Same(NormalizeColumn(f, s), NormalizeColumn(g, s), c, V)
           /\ Same(RankColumn(f, s), RankColumn(g, s), c, V)
<1>1. PICK e : Ties(e, f, g, c, V)
    BY DEF Twins, Same
<1>2. ASSUME NEW i \in Kin(f, c, V)
      PROVE  /\ Values(f, s.field, Group(f, s.group_by, i)) = Values(g, s.field, Group(g, s.group_by, e[i]))
             /\ f.rows[i].val[s.field] = g.rows[e[i]].val[s.field] /\ i \in DOMAIN f.rows /\ e[i] \in DOMAIN g.rows
    <2>1. Typed(f) /\ Typed(g) /\ c \in ToSet(s.group_by)
        BY DEF Twins, GroupsBy
    <2>2. /\ Group(f, s.group_by, i) \subseteq Kin(f, c, V) /\ Group(g, s.group_by, e[i]) \subseteq Kin(g, c, V)
          /\ \A x \in Kin(f, c, V) : x \in Group(f, s.group_by, i) <=> e[x] \in Group(g, s.group_by, e[i])
        BY <1>1, <2>1, GroupMoves
    <2>3. Values(f, s.field, Group(f, s.group_by, i)) = Values(g, s.field, Group(g, s.group_by, e[i]))
        BY <1>1, <2>1, <2>2, PartsAlike
    <2> QED BY <1>1, <2>3, KinRows
<1>3. f.cols = g.cols /\ c \in f.cols /\ s.output # c
    BY DEF Twins, GroupsBy
<1>4. Same(GroupTransform(f, s), GroupTransform(g, s), c, V)
    <2> DEFINE x == [i \in DOMAIN f.rows |-> Aggregate1(
                        [k \in DOMAIN Values(f, s.field, Group(f, s.group_by, i)) |->
                            Num(Values(f, s.field, Group(f, s.group_by, i))[k])], s.fn)]
               y == [i \in DOMAIN g.rows |-> Aggregate1(
                        [k \in DOMAIN Values(g, s.field, Group(g, s.group_by, i)) |->
                            Num(Values(g, s.field, Group(g, s.group_by, i))[k])], s.fn)]
    <2>1. \A i \in Kin(f, c, V) : x[i] = y[e[i]]
        BY <1>2
    <2>2. GroupTransform(f, s) = WithColumn(f, s.output, x) /\ GroupTransform(g, s) = WithColumn(g, s.output, y)
        BY DEF GroupTransform
    <2> HIDE DEF x, y
    <2>3. Ties(e, WithColumn(f, s.output, x), WithColumn(g, s.output, y), c, V)
        BY <1>1, <1>3, <2>1, WidensAlike
    <2> QED BY <2>2, <2>3 DEF Same
<1>5. Same(NormalizeColumn(f, s), NormalizeColumn(g, s), c, V)
    <2> DEFINE spread(h, i) == Cardinality(ToSet(Nums(Values(h, s.field, Group(h, s.group_by, i))))) > 1
               value(h, i) == IF Num(h.rows[i].val[s.field]) # Null /\ (s.fn = "percentile" \/ spread(h, i)) THEN Opaque ELSE Null
               x == [i \in DOMAIN f.rows |-> value(f, i)]
               y == [i \in DOMAIN g.rows |-> value(g, i)]
    <2>1. \A i \in Kin(f, c, V) : x[i] = y[e[i]]
        BY <1>2
    <2>2. NormalizeColumn(f, s) = WithColumn(f, s.output, x) /\ NormalizeColumn(g, s) = WithColumn(g, s.output, y)
        BY DEF NormalizeColumn
    <2> HIDE DEF x, y
    <2>3. Ties(e, WithColumn(f, s.output, x), WithColumn(g, s.output, y), c, V)
        BY <1>1, <1>3, <2>1, WidensAlike
    <2> QED BY <2>2, <2>3 DEF Same
<1>6. Same(RankColumn(f, s), RankColumn(g, s), c, V)
    <2> DEFINE nums(h, i) == Nums(Values(h, s.field, Group(h, s.group_by, i)))
               ahead(n, v) == {k \in DOMAIN n : IF s.direction = "asc" THEN n[k] < v ELSE n[k] > v}
               rank(h, i, v) == IF v = Null THEN Null
                                ELSE 1 + Cardinality(IF s.op = "dense_rank" THEN {nums(h, i)[k] : k \in ahead(nums(h, i), v)}
                                                     ELSE ahead(nums(h, i), v))
               x == [i \in DOMAIN f.rows |-> rank(f, i, Num(f.rows[i].val[s.field]))]
               y == [i \in DOMAIN g.rows |-> rank(g, i, Num(g.rows[i].val[s.field]))]
    <2>1. ASSUME NEW i \in Kin(f, c, V)
          PROVE  x[i] = y[e[i]]
        <3>1. nums(f, i) = nums(g, e[i])
            BY <1>2
        <3> HIDE DEF nums
        <3>2. \A v : rank(f, i, v) = rank(g, e[i], v)
            BY <3>1
        <3> HIDE DEF rank
        <3> QED BY <1>2, <3>2
    <2>2. RankColumn(f, s) = WithColumn(f, s.output, x) /\ RankColumn(g, s) = WithColumn(g, s.output, y)
        BY DEF RankColumn
    <2> HIDE DEF x, y
    <2>3. Ties(e, WithColumn(f, s.output, x), WithColumn(g, s.output, y), c, V)
        BY <1>1, <1>3, <2>1, WidensAlike
    <2> QED BY <2>2, <2>3 DEF Same
<1> QED BY <1>4, <1>5, <1>6

\* Both frames sorted by the groups and a time.
LEMMA OrderedTwins ==
    ASSUME NEW f, NEW g, NEW c, NEW V, Twins(f, g, c, V), NEW k \in Seq(f.cols), NEW d \in f.cols
    PROVE  Twins(SortBy(f, Append(k, d)), SortBy(g, Append(k, d)), c, V)
<1> DEFINE a == Append(k, d)
<1>1. a \in Seq(f.cols)
    BY AppendProperties
<1> HIDE DEF a
<1>2. Typed(f) /\ Typed(g) /\ f.cols = g.cols /\ c \in f.cols /\ Same(f, g, c, V)
    BY DEF Twins
<1>3. Traces(SortBy(f, a), f, {}) /\ SortBy(f, a).cols = f.cols
    BY <1>1, <1>2, SortByTraces
<1>4. Traces(SortBy(g, a), g, {}) /\ SortBy(g, a).cols = g.cols
    BY <1>1, <1>2, SortByTraces
<1>5. Same(SortBy(f, a), SortBy(g, a), c, V)
    BY <1>1, <1>2, SortByAlike
<1>6. Typed(SortBy(f, a)) /\ Typed(SortBy(g, a))
    BY <1>3, <1>4 DEF Traces, Comes
<1>7. Twins(SortBy(f, a), SortBy(g, a), c, V)
    BY <1>2, <1>3, <1>4, <1>5, <1>6 DEF Twins
<1> QED BY <1>7 DEF a

LEMMA RankedTwins ==
    ASSUME NEW f, NEW g, NEW c, NEW V, Twins(f, g, c, V), NEW k \in Seq(f.cols), NEW d \in f.cols, NEW dir
    PROVE  Twins(SortWithin(f, k, d, dir), SortWithin(g, k, d, dir), c, V)
<1>2. Typed(f) /\ Typed(g) /\ f.cols = g.cols /\ c \in f.cols /\ Same(f, g, c, V)
    BY DEF Twins
<1>3. Traces(SortWithin(f, k, d, dir), f, {}) /\ SortWithin(f, k, d, dir).cols = f.cols
    BY <1>2, SortWithinTraces
<1>4. Traces(SortWithin(g, k, d, dir), g, {}) /\ SortWithin(g, k, d, dir).cols = g.cols
    BY <1>2, SortWithinTraces
<1>5. Same(SortWithin(f, k, d, dir), SortWithin(g, k, d, dir), c, V)
    BY <1>2, SortWithinAlike
<1>6. Typed(SortWithin(f, k, d, dir)) /\ Typed(SortWithin(g, k, d, dir))
    BY <1>3, <1>4 DEF Traces, Comes
<1> QED BY <1>2, <1>3, <1>4, <1>5, <1>6 DEF Twins

\* The rows of a group up to a row, and those between two.
LEMMA UptoAlike ==
    ASSUME NEW f, Typed(f), NEW g, Typed(g), NEW c, NEW V, NEW e, Ties(e, f, g, c, V), NEW k, c \in ToSet(k),
           NEW i \in Kin(f, c, V), NEW d
    PROVE  /\ Cardinality({j \in Group(f, k, i) : j <= i}) = Cardinality({j \in Group(g, k, e[i]) : j <= e[i]})
           /\ Values(f, d, {j \in Group(f, k, i) : j <= i}) = Values(g, d, {j \in Group(g, k, e[i]) : j <= e[i]})
<1> DEFINE G == Group(f, k, i)
           H == Group(g, k, e[i])
           I == {j \in G : j <= i}
           J == {j \in H : j <= e[i]}
<1>1. G \subseteq Kin(f, c, V) /\ H \subseteq Kin(g, c, V) /\ \A x \in Kin(f, c, V) : x \in G <=> e[x] \in H
    BY GroupMoves
<1> HIDE DEF G, H
<1>2. I \subseteq Kin(f, c, V) /\ J \subseteq Kin(g, c, V) /\ \A x \in Kin(f, c, V) : x \in I <=> e[x] \in J
    BY <1>1, KinOrder
<1> HIDE DEF I, J
<1>3. Cardinality(I) = Cardinality(J) /\ Values(f, d, I) = Values(g, d, J)
    BY <1>2, PartsAlike
<1> QED BY <1>3 DEF G, H, I, J

From(G, j, i) == {m \in G : j <= m /\ m < i}
Until(G, i, j) == {m \in G : i < m /\ m <= j}
Window(G, i, w) == {j \in G : j <= i /\ Cardinality(From(G, j, i)) < w}

LEMMA BetweenAlike ==
    ASSUME NEW f, Typed(f), NEW g, Typed(g), NEW c, NEW V, NEW e, Ties(e, f, g, c, V), NEW k, c \in ToSet(k),
           NEW i \in Kin(f, c, V), NEW j \in Group(f, k, i)
    PROVE  /\ Cardinality(From(Group(f, k, i), j, i)) = Cardinality(From(Group(g, k, e[i]), e[j], e[i]))
           /\ Cardinality(Until(Group(f, k, i), i, j)) = Cardinality(Until(Group(g, k, e[i]), e[i], e[j]))
<1> DEFINE G == Group(f, k, i)
           H == Group(g, k, e[i])
           I == {m \in G : j <= m /\ m < i}
           J == {m \in H : e[j] <= m /\ m < e[i]}
           K == {m \in G : i < m /\ m <= j}
           L == {m \in H : e[i] < m /\ m <= e[j]}
<1>1. G \subseteq Kin(f, c, V) /\ H \subseteq Kin(g, c, V) /\ \A x \in Kin(f, c, V) : x \in G <=> e[x] \in H
    BY GroupMoves
<1>2. j \in Kin(f, c, V)
    BY <1>1
<1> HIDE DEF G, H
<1>3. I \subseteq Kin(f, c, V) /\ J \subseteq Kin(g, c, V) /\ \A x \in Kin(f, c, V) : x \in I <=> e[x] \in J
    BY <1>1, <1>2, KinOrder
<1>4. K \subseteq Kin(f, c, V) /\ L \subseteq Kin(g, c, V) /\ \A x \in Kin(f, c, V) : x \in K <=> e[x] \in L
    BY <1>1, <1>2, KinOrder
<1> HIDE DEF I, J, K, L
<1>5. Cardinality(I) = Cardinality(J)
    BY <1>3, PartsAlike
<1>6. Cardinality(K) = Cardinality(L)
    BY <1>4, PartsAlike
<1>7. /\ I = From(Group(f, k, i), j, i) /\ J = From(Group(g, k, e[i]), e[j], e[i])
      /\ K = Until(Group(f, k, i), i, j) /\ L = Until(Group(g, k, e[i]), e[i], e[j])
    BY DEF From, Until, G, H, I, J, K, L
<1> QED BY <1>5, <1>6, <1>7

LEMMA WindowAlike ==
    ASSUME NEW f, Typed(f), NEW g, Typed(g), NEW c, NEW V, NEW e, Ties(e, f, g, c, V), NEW k, c \in ToSet(k),
           NEW i \in Kin(f, c, V), NEW w, NEW d
    PROVE  Values(f, d, Window(Group(f, k, i), i, w)) = Values(g, d, Window(Group(g, k, e[i]), e[i], w))
<1> DEFINE G == Group(f, k, i)
           H == Group(g, k, e[i])
           I == Window(G, i, w)
           J == Window(H, e[i], w)
<1>1. G \subseteq Kin(f, c, V) /\ H \subseteq Kin(g, c, V) /\ \A x \in Kin(f, c, V) : x \in G <=> e[x] \in H
    BY GroupMoves
<1>2. ASSUME NEW j \in G
      PROVE  Cardinality(From(G, j, i)) = Cardinality(From(H, e[j], e[i]))
    BY BetweenAlike
<1> HIDE DEF G, H
<1>3. \A x \in Kin(f, c, V) : x <= i <=> e[x] <= e[i]
    BY KinOrder
<1>4. I \subseteq Kin(f, c, V) /\ J \subseteq Kin(g, c, V)
    BY <1>1 DEF Window
<1>5. ASSUME NEW x \in Kin(f, c, V)
      PROVE  x \in I <=> e[x] \in J
    <2>1. CASE x \in G
        <3> DEFINE a == Cardinality(From(G, x, i))
                   b == Cardinality(From(H, e[x], e[i]))
        <3>1. a = b
            BY <1>2, <2>1
        <3>2. (x \in I <=> x <= i /\ a < w) /\ (e[x] \in J <=> e[x] <= e[i] /\ b < w)
            BY <1>1, <2>1 DEF Window
        <3> HIDE DEF a, b, I, J
        <3> QED BY <1>3, <3>1, <3>2
    <2>2. CASE x \notin G
        BY <1>1, <2>2 DEF Window
    <2> QED BY <2>1, <2>2
<1> HIDE DEF I, J
<1>6. Values(f, d, I) = Values(g, d, J)
    BY <1>4, <1>5, PartsAlike
<1> QED BY <1>6 DEF G, H, I, J

LEMMA RowNumberAlike ==
    ASSUME NEW f, NEW g, NEW c, NEW V, Twins(f, g, c, V), NEW s, GroupsBy(s, f, c), s.order_by \in f.cols
    PROVE  Same(RowNumber(f, s), RowNumber(g, s), c, V)
<1> DEFINE o == SortWithin(f, s.group_by, s.order_by, s.direction)
           p == SortWithin(g, s.group_by, s.order_by, s.direction)
           x == [i \in DOMAIN o.rows |-> Cardinality({j \in Group(o, s.group_by, i) : j <= i})]
           y == [i \in DOMAIN p.rows |-> Cardinality({j \in Group(p, s.group_by, i) : j <= i})]
<1>1. Twins(o, p, c, V)
    BY RankedTwins DEF GroupsBy
<1>2. RowNumber(f, s) = WithColumn(o, s.output, x) /\ RowNumber(g, s) = WithColumn(p, s.output, y)
    BY DEF RowNumber
<1> HIDE DEF o, p
<1>3. PICK e : Ties(e, o, p, c, V)
    BY <1>1 DEF Twins, Same
<1>4. ASSUME NEW i \in Kin(o, c, V)
      PROVE  x[i] = y[e[i]]
    <2>1. Typed(o) /\ Typed(p) /\ c \in ToSet(s.group_by)
        BY <1>1 DEF Twins, GroupsBy
    <2>2. i \in DOMAIN o.rows /\ e[i] \in DOMAIN p.rows
        BY <1>3, KinRows
    <2>3. Cardinality({j \in Group(o, s.group_by, i) : j <= i}) = Cardinality({j \in Group(p, s.group_by, e[i]) : j <= e[i]})
        BY <1>3, <2>1, UptoAlike
    <2> DEFINE a(k) == Cardinality({j \in Group(o, s.group_by, k) : j <= k})
               b(k) == Cardinality({j \in Group(p, s.group_by, k) : j <= k})
    <2>4. x = [k \in DOMAIN o.rows |-> a(k)] /\ y = [k \in DOMAIN p.rows |-> b(k)] /\ a(i) = b(e[i])
        BY <2>3
    <2> HIDE DEF a, b, x, y
    <2> QED BY <2>2, <2>4
<1> HIDE DEF x, y
<1>5. o.cols = p.cols /\ c \in o.cols /\ s.output # c
    BY <1>1 DEF Twins, GroupsBy
<1>6. Ties(e, WithColumn(o, s.output, x), WithColumn(p, s.output, y), c, V)
    BY <1>3, <1>4, <1>5, WidensAlike
<1> QED BY <1>2, <1>6 DEF Same

LEMMA CumulativeAlike ==
    ASSUME NEW f, NEW g, NEW c, NEW V, Twins(f, g, c, V), NEW s, GroupsBy(s, f, c), s.order_by \in f.cols
    PROVE  Same(CumulativeColumn(f, s), CumulativeColumn(g, s), c, V)
<1> DEFINE o == SortBy(f, Append(s.group_by, s.order_by))
           p == SortBy(g, Append(s.group_by, s.order_by))
           upto(h, i) == Nums(Values(h, s.field, {j \in Group(h, s.group_by, i) : j <= i}))
           value(h, i) == IF s.op = "cumulative_sum"
                          THEN IF Num(h.rows[i].val[s.field]) = Null THEN Null ELSE Aggregate1(upto(h, i), "sum")
                          ELSE IF Len(upto(h, i)) >= s.min_periods THEN Opaque ELSE Null
           x == [i \in DOMAIN o.rows |-> value(o, i)]
           y == [i \in DOMAIN p.rows |-> value(p, i)]
<1>1. Twins(o, p, c, V)
    BY OrderedTwins DEF GroupsBy
<1>2. CumulativeColumn(f, s) = WithColumn(o, s.output, x) /\ CumulativeColumn(g, s) = WithColumn(p, s.output, y)
    BY DEF CumulativeColumn
<1> HIDE DEF o, p
<1>3. PICK e : Ties(e, o, p, c, V)
    BY <1>1 DEF Twins, Same
<1>4. ASSUME NEW i \in Kin(o, c, V)
      PROVE  x[i] = y[e[i]]
    <2>1. Typed(o) /\ Typed(p) /\ c \in ToSet(s.group_by)
        BY <1>1 DEF Twins, GroupsBy
    <2>2. i \in DOMAIN o.rows /\ e[i] \in DOMAIN p.rows /\ p.rows[e[i]] = o.rows[i]
        BY <1>3, KinRows
    <2>3. Values(o, s.field, {j \in Group(o, s.group_by, i) : j <= i}) = Values(p, s.field, {j \in Group(p, s.group_by, e[i]) : j <= e[i]})
        BY <1>3, <2>1, UptoAlike
    <2>4. upto(o, i) = upto(p, e[i])
        BY <2>3
    <2> HIDE DEF upto
    <2> QED BY <2>2, <2>4
<1> HIDE DEF x, y
<1>5. o.cols = p.cols /\ c \in o.cols /\ s.output # c
    BY <1>1 DEF Twins, GroupsBy
<1>6. Ties(e, WithColumn(o, s.output, x), WithColumn(p, s.output, y), c, V)
    BY <1>3, <1>4, <1>5, WidensAlike
<1> QED BY <1>2, <1>6 DEF Same

LEMMA RollingAlike ==
    ASSUME NEW f, NEW g, NEW c, NEW V, Twins(f, g, c, V), NEW s, GroupsBy(s, f, c), s.order_by \in f.cols
    PROVE  Same(RollingColumn(f, s), RollingColumn(g, s), c, V)
<1> DEFINE o == SortBy(f, Append(s.group_by, s.order_by))
           p == SortBy(g, Append(s.group_by, s.order_by))
           last(h, i) == {j \in Group(h, s.group_by, i) :
                            j <= i /\ Cardinality({k \in Group(h, s.group_by, i) : j <= k /\ k < i}) < s.window}
           full(h, i) == \E j \in At(h, s, i, s.window - 1) : Apart(h, s, i, j, s.window - 1)
           value(h, i) == IF /\ Len(Nums(Values(h, s.field, last(h, i)))) >= s.min_periods
                             /\ s.consecutive => full(h, i)
                          THEN Opaque ELSE Null
           x == [i \in DOMAIN o.rows |-> value(o, i)]
           y == [i \in DOMAIN p.rows |-> value(p, i)]
<1>1. Twins(o, p, c, V)
    BY OrderedTwins DEF GroupsBy
<1>2. RollingColumn(f, s) = WithColumn(o, s.output, x) /\ RollingColumn(g, s) = WithColumn(p, s.output, y)
    BY DEF RollingColumn
<1> HIDE DEF o, p
<1>3. PICK e : Ties(e, o, p, c, V)
    BY <1>1 DEF Twins, Same
<1>4. ASSUME NEW i \in Kin(o, c, V)
      PROVE  x[i] = y[e[i]]
    <2>1. Typed(o) /\ Typed(p) /\ c \in ToSet(s.group_by) /\ ~s.consecutive
        BY <1>1 DEF Twins, GroupsBy
    <2>2. i \in DOMAIN o.rows /\ e[i] \in DOMAIN p.rows /\ p.rows[e[i]] = o.rows[i]
        BY <1>3, KinRows
    <2>7. Values(o, s.field, last(o, i)) = Values(p, s.field, last(p, e[i]))
        <3>1. last(o, i) = Window(Group(o, s.group_by, i), i, s.window) /\ last(p, e[i]) = Window(Group(p, s.group_by, e[i]), e[i], s.window)
            BY DEF Window, From
        <3>2. Values(o, s.field, Window(Group(o, s.group_by, i), i, s.window)) = Values(p, s.field, Window(Group(p, s.group_by, e[i]), e[i], s.window))
            BY <1>3, <2>1, WindowAlike
        <3> HIDE DEF last
        <3> QED BY <3>1, <3>2
    <2> HIDE DEF last
    <2> QED BY <2>1, <2>2, <2>7
<1> HIDE DEF x, y
<1>5. o.cols = p.cols /\ c \in o.cols /\ s.output # c
    BY <1>1 DEF Twins, GroupsBy
<1>6. Ties(e, WithColumn(o, s.output, x), WithColumn(p, s.output, y), c, V)
    BY <1>3, <1>4, <1>5, WidensAlike
<1> QED BY <1>2, <1>6 DEF Same

\* A group has at most one row that many places before or after a row of it.
LEMMA OneAt ==
    ASSUME NEW f, Typed(f), NEW s, NEW i \in DOMAIN f.rows, NEW back, NEW a \in At(f, s, i, back), NEW b \in At(f, s, i, back)
    PROVE  a = b
<1> DEFINE G == Group(f, s.group_by, i)
           before(j) == {k \in G : j <= k /\ k < i}
           after(j) == {k \in G : i < k /\ k <= j}
<1>1. G \in SUBSET DOMAIN f.rows /\ DOMAIN f.rows \in SUBSET Int
    BY RowsOf DEF Group
<1>2. /\ \A j : before(j) \in SUBSET G /\ after(j) \in SUBSET G
      /\ IsFiniteSet(G) /\ a \in G /\ b \in G /\ a \in Int /\ b \in Int /\ i \in Int
    BY <1>1, SubIndices DEF At, Typed
<1>3. ASSUME NEW S, NEW T \in SUBSET G, S \subseteq T, S # T
      PROVE  Cardinality(S) # Cardinality(T)
    BY <1>2, <1>3, FS_Subset
<1>4. back > 0 => /\ a < i /\ Cardinality(before(a)) = back
                  /\ b < i /\ Cardinality(before(b)) = back
    BY DEF At
<1>5. ~(back > 0) => /\ a > i /\ Cardinality(after(a)) = -back
                     /\ b > i /\ Cardinality(after(b)) = -back
    BY DEF At
<1>6. ASSUME NEW j \in G, NEW k \in G, j \in Int, k \in Int, j < k
      PROVE  /\ k <= i => before(k) \subseteq before(j) /\ before(k) # before(j)
             /\ i < j => after(j) \subseteq after(k) /\ after(j) # after(k)
    <2>1. j < i /\ k <= i => j \in before(j) /\ j \notin before(k)
        BY <1>6
    <2>2. i < j => k \in after(k) /\ k \notin after(j)
        BY <1>2, <1>6
    <2>3. before(k) \subseteq before(j) /\ after(j) \subseteq after(k)
        BY <1>1, <1>6
    <2> QED BY <1>2, <1>6, <2>1, <2>2, <2>3
<1> HIDE DEF G, before, after
<1>7. ~(a < b)
    BY <1>2, <1>3, <1>4, <1>5, <1>6
<1>8. ~(b < a)
    BY <1>2, <1>3, <1>4, <1>5, <1>6
<1> QED BY <1>2, <1>7, <1>8

LEMMA AtAlike ==
    ASSUME NEW f, Typed(f), NEW g, Typed(g), NEW c, NEW V, NEW e, Ties(e, f, g, c, V), NEW s, c \in ToSet(s.group_by),
           NEW i \in Kin(f, c, V), NEW back
    PROVE  /\ At(f, s, i, back) \subseteq Kin(f, c, V) /\ At(g, s, e[i], back) \subseteq Kin(g, c, V)
           /\ \A x \in Kin(f, c, V) : x \in At(f, s, i, back) <=> e[x] \in At(g, s, e[i], back)
<1> DEFINE G == Group(f, s.group_by, i)
           H == Group(g, s.group_by, e[i])
<1>1. G \subseteq Kin(f, c, V) /\ H \subseteq Kin(g, c, V) /\ \A x \in Kin(f, c, V) : x \in G <=> e[x] \in H
    BY GroupMoves
<1>2. ASSUME NEW j \in G
      PROVE  /\ Cardinality(From(G, j, i)) = Cardinality(From(H, e[j], e[i]))
             /\ Cardinality(Until(G, i, j)) = Cardinality(Until(H, e[i], e[j]))
    BY BetweenAlike
<1>3. ASSUME NEW x \in Kin(f, c, V)
      PROVE  (x < i <=> e[x] < e[i]) /\ (i < x <=> e[i] < e[x])
    BY KinOrder
<1>4. /\ At(f, s, i, back) = {j \in G : IF back > 0 THEN j < i /\ Cardinality(From(G, j, i)) = back
                                        ELSE j > i /\ Cardinality(Until(G, i, j)) = -back}
      /\ At(g, s, e[i], back) = {j \in H : IF back > 0 THEN j < e[i] /\ Cardinality(From(H, j, e[i])) = back
                                           ELSE j > e[i] /\ Cardinality(Until(H, e[i], j)) = -back}
    BY DEF At, From, Until
<1> HIDE DEF G, H
<1>5. At(f, s, i, back) \subseteq Kin(f, c, V) /\ At(g, s, e[i], back) \subseteq Kin(g, c, V)
    BY <1>1, <1>4
<1>6. ASSUME NEW x \in Kin(f, c, V)
      PROVE  x \in At(f, s, i, back) <=> e[x] \in At(g, s, e[i], back)
    <2> DEFINE a == Cardinality(From(G, x, i))
               b == Cardinality(Until(G, i, x))
               a1 == Cardinality(From(H, e[x], e[i]))
               b1 == Cardinality(Until(H, e[i], e[x]))
    <2>1. x \in At(f, s, i, back) <=> x \in G /\ IF back > 0 THEN x < i /\ a = back ELSE x > i /\ b = -back
        BY <1>4
    <2>2. e[x] \in At(g, s, e[i], back) <=> e[x] \in H /\ IF back > 0 THEN e[x] < e[i] /\ a1 = back ELSE e[x] > e[i] /\ b1 = -back
        BY <1>4
    <2>3. x \in G => a = a1 /\ b = b1
        BY <1>2
    <2>4. (x > i <=> e[x] > e[i]) /\ (x < i <=> e[x] < e[i])
        BY <1>3
    <2> HIDE DEF a, b, a1, b1
    <2> QED BY <1>1, <2>1, <2>2, <2>3, <2>4
<1> QED BY <1>5, <1>6

LEMMA ShiftAlike ==
    ASSUME NEW f, NEW g, NEW c, NEW V, Twins(f, g, c, V), NEW s, GroupsBy(s, f, c), s.order_by \in f.cols
    PROVE  Same(ShiftColumn(f, s), ShiftColumn(g, s), c, V)
<1> DEFINE o == SortBy(f, Append(s.group_by, s.order_by))
           p == SortBy(g, Append(s.group_by, s.order_by))
           other(h, i) == {j \in At(h, s, i, s.periods) : s.consecutive => Apart(h, s, i, j, s.periods)}
           at(h, i) == CHOOSE j \in other(h, i) : TRUE
           value(h, i) == IF other(h, i) = {} THEN Null
                          ELSE LET v == h.rows[at(h, i)].val[s.field]
                               IN  IF s.op = "shift" THEN v
                                   ELSE IF Num(v) = Null \/ Num(h.rows[i].val[s.field]) = Null THEN Null ELSE Opaque
           x == [i \in DOMAIN o.rows |-> value(o, i)]
           y == [i \in DOMAIN p.rows |-> value(p, i)]
<1>1. Twins(o, p, c, V)
    BY OrderedTwins DEF GroupsBy
<1>2. ShiftColumn(f, s) = WithColumn(o, s.output, x) /\ ShiftColumn(g, s) = WithColumn(p, s.output, y)
    BY DEF ShiftColumn
<1> HIDE DEF o, p
<1>3. PICK e : Ties(e, o, p, c, V)
    BY <1>1 DEF Twins, Same
<1>4. ASSUME NEW i \in Kin(o, c, V)
      PROVE  x[i] = y[e[i]]
    <2>1. Typed(o) /\ Typed(p) /\ c \in ToSet(s.group_by) /\ ~s.consecutive
        BY <1>1 DEF Twins, GroupsBy
    <2>2. i \in DOMAIN o.rows /\ e[i] \in DOMAIN p.rows /\ p.rows[e[i]] = o.rows[i]
        BY <1>3, KinRows
    <2> DEFINE I == At(o, s, i, s.periods)
               J == At(p, s, e[i], s.periods)
    <2>3. other(o, i) = I /\ other(p, e[i]) = J
        BY <2>1
    <2> HIDE DEF other
    <2>4. I \subseteq Kin(o, c, V) /\ J \subseteq Kin(p, c, V) /\ \A z \in Kin(o, c, V) : z \in I <=> e[z] \in J
        BY <1>3, <2>1, AtAlike
    <2>5. I = {} <=> J = {}
        BY <1>3, <2>4, KinRows
    <2>6. ASSUME I # {}
          PROVE  p.rows[at(p, e[i])] = o.rows[at(o, i)]
        <3>1. at(o, i) \in I /\ at(p, e[i]) \in J
            BY <2>3, <2>5, <2>6
        <3>2. e[at(o, i)] \in J /\ p.rows[e[at(o, i)]] = o.rows[at(o, i)]
            BY <1>3, <2>4, <3>1, KinRows
        <3> HIDE DEF at
        <3>3. at(p, e[i]) = e[at(o, i)]
            BY <2>1, <2>2, <3>1, <3>2, OneAt
        <3> QED BY <3>2, <3>3
    <2> HIDE DEF at, I, J
    <2>7. value(o, i) = value(p, e[i])
        BY <2>2, <2>3, <2>5, <2>6
    <2> QED BY <2>2, <2>7
<1> HIDE DEF x, y
<1>5. o.cols = p.cols /\ c \in o.cols /\ s.output # c
    BY <1>1 DEF Twins, GroupsBy
<1>6. Ties(e, WithColumn(o, s.output, x), WithColumn(p, s.output, y), c, V)
    BY <1>3, <1>4, <1>5, WidensAlike
<1> QED BY <1>2, <1>6 DEF Same

-----------------------------------------------------------------------------
\* The other steps, one by one.

\* The steps that look at one row at a time.
LEMMA FiltersAlike ==
    ASSUME NEW f, NEW g, NEW c, NEW V, Twins(f, g, c, V), NEW s
    PROVE  /\ Same(FilterRows(f, s), FilterRows(g, s), c, V)
           /\ Same(FilterSet(f, s), FilterSet(g, s), c, V)
           /\ Same(FilterRange(f, s), FilterRange(g, s), c, V)
           /\ Same(FilterNull(f, s), FilterNull(g, s), c, V)
           /\ Same(DropMissing(f, s), DropMissing(g, s), c, V)
<1>1. PICK e : Ties(e, f, g, c, V)
    BY DEF Twins, Same
<1>2. Typed(f) /\ Typed(g)
    BY DEF Twins
<1>3. ASSUME NEW I \in SUBSET DOMAIN f.rows, NEW J \in SUBSET DOMAIN g.rows, \A i \in Kin(f, c, V) : i \in I <=> e[i] \in J
      PROVE  Same(KeepIndices(f, I), KeepIndices(g, J), c, V)
    BY <1>1, <1>2, <1>3, KeptAlike
<1>4. \A i \in Kin(f, c, V) : i \in DOMAIN f.rows /\ e[i] \in DOMAIN g.rows /\ g.rows[e[i]] = f.rows[i]
    BY <1>1, KinRows
<1>5. Same(FilterRows(f, s), FilterRows(g, s), c, V)
    <2> DEFINE I(h) == {i \in DOMAIN h.rows : Satisfies(h.rows[i], s)}
    <2>1. \A i \in Kin(f, c, V) : i \in I(f) <=> e[i] \in I(g)
        BY <1>4
    <2>2. FilterRows(f, s) = KeepIndices(f, I(f)) /\ FilterRows(g, s) = KeepIndices(g, I(g))
        BY DEF FilterRows, KeepWhere
    <2>3. I(f) \in SUBSET DOMAIN f.rows /\ I(g) \in SUBSET DOMAIN g.rows
        OBVIOUS
    <2> HIDE DEF I
    <2> QED BY <1>3, <2>1, <2>2, <2>3
<1>6. Same(FilterSet(f, s), FilterSet(g, s), c, V)
    <2> DEFINE member(v) == (IF \A w \in s.values : IsNum(w) THEN Num(v) ELSE v) \in s.values
               I(h) == {i \in DOMAIN h.rows : member(h.rows[i].val[s.field]) # s.negate}
    <2>1. \A i \in Kin(f, c, V) : i \in I(f) <=> e[i] \in I(g)
        BY <1>4
    <2>2. FilterSet(f, s) = KeepIndices(f, I(f)) /\ FilterSet(g, s) = KeepIndices(g, I(g))
        BY DEF FilterSet, KeepWhere
    <2>3. I(f) \in SUBSET DOMAIN f.rows /\ I(g) \in SUBSET DOMAIN g.rows
        OBVIOUS
    <2> HIDE DEF I
    <2> QED BY <1>3, <2>1, <2>2, <2>3
<1>7. Same(FilterRange(f, s), FilterRange(g, s), c, V)
    <2> DEFINE I(h) == {i \in DOMAIN h.rows : (Num(h.rows[i].val[s.field]) \in s.lower..s.upper) # s.negate}
    <2>1. \A i \in Kin(f, c, V) : i \in I(f) <=> e[i] \in I(g)
        BY <1>4
    <2>2. FilterRange(f, s) = KeepIndices(f, I(f)) /\ FilterRange(g, s) = KeepIndices(g, I(g))
        BY DEF FilterRange, KeepWhere
    <2>3. I(f) \in SUBSET DOMAIN f.rows /\ I(g) \in SUBSET DOMAIN g.rows
        OBVIOUS
    <2> HIDE DEF I
    <2> QED BY <1>3, <2>1, <2>2, <2>3
<1>8. Same(FilterNull(f, s), FilterNull(g, s), c, V)
    <2> DEFINE I(h) == {i \in DOMAIN h.rows : (h.rows[i].val[s.field] = Null) # s.negate}
    <2>1. \A i \in Kin(f, c, V) : i \in I(f) <=> e[i] \in I(g)
        BY <1>4
    <2>2. FilterNull(f, s) = KeepIndices(f, I(f)) /\ FilterNull(g, s) = KeepIndices(g, I(g))
        BY DEF FilterNull, KeepWhere
    <2>3. I(f) \in SUBSET DOMAIN f.rows /\ I(g) \in SUBSET DOMAIN g.rows
        OBVIOUS
    <2> HIDE DEF I
    <2> QED BY <1>3, <2>1, <2>2, <2>3
<1>9. Same(DropMissing(f, s), DropMissing(g, s), c, V)
    <2> DEFINE I(h) == {i \in DOMAIN h.rows : \A d \in ToSet(s.fields) : h.rows[i].val[d] # Null}
    <2>1. \A i \in Kin(f, c, V) : i \in I(f) <=> e[i] \in I(g)
        BY <1>4
    <2>2. DropMissing(f, s) = KeepIndices(f, I(f)) /\ DropMissing(g, s) = KeepIndices(g, I(g))
        BY DEF DropMissing, KeepWhere
    <2>3. I(f) \in SUBSET DOMAIN f.rows /\ I(g) \in SUBSET DOMAIN g.rows
        OBVIOUS
    <2> HIDE DEF I
    <2> QED BY <1>3, <2>1, <2>2, <2>3
<1> QED BY <1>5, <1>6, <1>7, <1>8, <1>9

LEMMA MembersAlike ==
    ASSUME NEW f, NEW g, NEW c, NEW V, Twins(f, g, c, V), NEW s, NEW right
    PROVE  /\ Same(SemiJoin(f, s, right), SemiJoin(g, s, right), c, V)
           /\ s.output # c => Same(MarkMatches(f, s, right), MarkMatches(g, s, right), c, V)
<1>1. PICK e : Ties(e, f, g, c, V)
    BY DEF Twins, Same
<1>2. Typed(f) /\ Typed(g) /\ f.cols = g.cols /\ c \in f.cols
    BY DEF Twins
<1>4. \A i \in Kin(f, c, V) : i \in DOMAIN f.rows /\ e[i] \in DOMAIN g.rows /\ g.rows[e[i]] = f.rows[i]
    BY <1>1, KinRows
<1>5. Same(SemiJoin(f, s, right), SemiJoin(g, s, right), c, V)
    <2> DEFINE I(h) == {i \in DOMAIN h.rows : (Matches(h.rows[i], right, s.join_on) # {}) = (s.op = "semi_join")}
    <2>1. \A i \in Kin(f, c, V) : i \in I(f) <=> e[i] \in I(g)
        BY <1>4
    <2>2. SemiJoin(f, s, right) = KeepIndices(f, I(f)) /\ SemiJoin(g, s, right) = KeepIndices(g, I(g))
        BY DEF SemiJoin, KeepWhere
    <2>3. I(f) \in SUBSET DOMAIN f.rows /\ I(g) \in SUBSET DOMAIN g.rows
        OBVIOUS
    <2> HIDE DEF I
    <2> QED BY <1>1, <1>2, <2>1, <2>2, <2>3, KeptAlike
<1>6. ASSUME s.output # c
      PROVE  Same(MarkMatches(f, s, right), MarkMatches(g, s, right), c, V)
    <2> DEFINE x(h) == [i \in DOMAIN h.rows |-> IF Matches(h.rows[i], right, s.join_on) = {} THEN 0 ELSE 1]
    <2>1. \A i \in Kin(f, c, V) : x(f)[i] = x(g)[e[i]]
        BY <1>4
    <2>2. MarkMatches(f, s, right) = WithColumn(f, s.output, x(f)) /\ MarkMatches(g, s, right) = WithColumn(g, s.output, x(g))
        BY DEF MarkMatches
    <2> HIDE DEF x
    <2>3. Ties(e, WithColumn(f, s.output, x(f)), WithColumn(g, s.output, x(g)), c, V)
        BY <1>1, <1>2, <1>6, <2>1, WidensAlike
    <2> QED BY <2>2, <2>3 DEF Same
<1> QED BY <1>5, <1>6

LEMMA ComparesAlike ==
    ASSUME NEW f, NEW g, NEW c, NEW V, Twins(f, g, c, V), NEW s, s.output # c
    PROVE  /\ Same(CompareColumn(f, s), CompareColumn(g, s), c, V)
           /\ Same(CleanColumn(f, s), CleanColumn(g, s), c, V)
<1>1. PICK e : Ties(e, f, g, c, V)
    BY DEF Twins, Same
<1>2. Typed(f) /\ Typed(g) /\ f.cols = g.cols /\ c \in f.cols
    BY DEF Twins
<1>4. \A i \in Kin(f, c, V) : i \in DOMAIN f.rows /\ e[i] \in DOMAIN g.rows /\ g.rows[e[i]] = f.rows[i]
    BY <1>1, KinRows
<1>5. Same(CompareColumn(f, s), CompareColumn(g, s), c, V)
    <2> DEFINE holds(r) == IF s.op = "compare_fields"
                           THEN LET a == Num(r.val[s.field])  b == Num(r.val[s.right_field])
                                IN  IF a = Null \/ b = Null THEN s.comparison = "ne" ELSE Compare(s.comparison, a, b)
                           ELSE Satisfies(r, s)
               x(h) == [i \in DOMAIN h.rows |-> IF holds(h.rows[i]) THEN 1 ELSE 0]
    <2>2. CompareColumn(f, s) = WithColumn(f, s.output, x(f)) /\ CompareColumn(g, s) = WithColumn(g, s.output, x(g))
        BY DEF CompareColumn
    <2> HIDE DEF holds
    <2>1. \A i \in Kin(f, c, V) : x(f)[i] = x(g)[e[i]]
        BY <1>4
    <2> HIDE DEF x
    <2>3. Ties(e, WithColumn(f, s.output, x(f)), WithColumn(g, s.output, x(g)), c, V)
        BY <1>1, <1>2, <2>1, WidensAlike
    <2> QED BY <2>2, <2>3 DEF Same
<1>6. Same(CleanColumn(f, s), CleanColumn(g, s), c, V)
    <2> DEFINE clipped(v) == IF v = Null THEN Null ELSE IF s.lower # Null /\ v < s.lower THEN s.lower ELSE IF v > s.upper THEN s.upper ELSE v
               value(r) == CASE s.op = "coalesce" -> LET k == Known([i \in DOMAIN s.fields |-> r.val[s.fields[i]]])
                                                     IN  IF k = <<>> THEN Null ELSE k[1]
                             [] s.op = "fill_constant" -> IF r.val[s.field] = Null THEN s.value ELSE r.val[s.field]
                             [] s.op = "clip" -> clipped(Num(r.val[s.field]))
                             [] s.op = "conditional_value" -> IF Satisfies(r, s) THEN s.upper ELSE s.lower
               x(h) == [i \in DOMAIN h.rows |-> value(h.rows[i])]
    <2>2. CleanColumn(f, s) = WithColumn(f, s.output, x(f)) /\ CleanColumn(g, s) = WithColumn(g, s.output, x(g))
        BY DEF CleanColumn
    <2> HIDE DEF value
    <2>1. \A i \in Kin(f, c, V) : x(f)[i] = x(g)[e[i]]
        BY <1>4
    <2> HIDE DEF x
    <2>3. Ties(e, WithColumn(f, s.output, x(f)), WithColumn(g, s.output, x(g)), c, V)
        BY <1>1, <1>2, <2>1, WidensAlike
    <2> QED BY <2>2, <2>3 DEF Same
<1> QED BY <1>5, <1>6

LEMMA DerivesAlike ==
    ASSUME NEW f, NEW g, NEW c, NEW V, Twins(f, g, c, V), NEW s, s.output # c,
           DeriveColumn(f, s).status = "ok", DeriveColumn(g, s).status = "ok"
    PROVE  Same(DeriveColumn(f, s), DeriveColumn(g, s), c, V)
<1>1. PICK e : Ties(e, f, g, c, V)
    BY DEF Twins, Same
<1>2. Typed(f) /\ Typed(g) /\ f.cols = g.cols /\ c \in f.cols
    BY DEF Twins
<1>4. \A i \in Kin(f, c, V) : i \in DOMAIN f.rows /\ e[i] \in DOMAIN g.rows /\ g.rows[e[i]] = f.rows[i]
    BY <1>1, KinRows
<1> DEFINE operand(r) == IF s.right_field # "" THEN Num(r.val[s.right_field]) ELSE s.value
           result(a, b) == IF a = Null \/ b = Null THEN Null
                           ELSE CASE s.arithmetic = "add" -> a + b       [] s.arithmetic = "subtract" -> a - b
                                  [] s.arithmetic = "multiply" -> a * b  [] s.arithmetic = "constant_minus" -> b - a
                                  [] OTHER -> Opaque
           x(h) == [i \in DOMAIN h.rows |-> result(Num(h.rows[i].val[s.field]), operand(h.rows[i]))]
<1>5. /\ DeriveColumn(f, s) \in {Fails(f, "data"), WithColumn(f, s.output, x(f))}
      /\ DeriveColumn(g, s) \in {Fails(g, "data"), WithColumn(g, s.output, x(g))}
    BY DEF DeriveColumn
<1>6. Fails(f, "data").status # "ok" /\ Fails(g, "data").status # "ok"
    BY <1>2 DEF Fails, Typed, IsFrame
<1> HIDE DEF operand, result
<1>7. \A i \in Kin(f, c, V) : x(f)[i] = x(g)[e[i]]
    BY <1>4
<1> HIDE DEF x
<1>8. Ties(e, WithColumn(f, s.output, x(f)), WithColumn(g, s.output, x(g)), c, V)
    BY <1>1, <1>2, <1>7, WidensAlike
<1>9. DeriveColumn(f, s) = WithColumn(f, s.output, x(f)) /\ DeriveColumn(g, s) = WithColumn(g, s.output, x(g))
    BY <1>5, <1>6
<1> QED BY <1>8, <1>9 DEF Same

LEMMA SelectsAlike ==
    ASSUME NEW f, NEW g, NEW c, NEW V, Twins(f, g, c, V), NEW cols, c \in cols, cols \subseteq f.cols
    PROVE  Same(Project(f, cols), Project(g, cols), c, V)
<1>1. PICK e : Ties(e, f, g, c, V)
    BY DEF Twins, Same
<1>2. \A i \in Kin(f, c, V) : i \in DOMAIN f.rows /\ e[i] \in DOMAIN g.rows /\ g.rows[e[i]] = f.rows[i]
    BY <1>1, KinRows
<1> DEFINE p == Project(f, cols)
           q == Project(g, cols)
<1>3. /\ p.rows = [i \in DOMAIN f.rows |-> [f.rows[i] EXCEPT !.val = [d \in cols |-> f.rows[i].val[d]]]]
      /\ q.rows = [i \in DOMAIN g.rows |-> [g.rows[i] EXCEPT !.val = [d \in cols |-> g.rows[i].val[d]]]]
    BY DEF Project, OkFrame, Restrict
<1>4. ASSUME NEW h, Typed(h), NEW i \in DOMAIN h.rows
      PROVE  [h.rows[i] EXCEPT !.val = [d \in cols |-> h.rows[i].val[d]]].val[c] = h.rows[i].val[c]
    <2>1. h.rows[i] \in Rows(h.cols)
        BY <1>4, RowsOf
    <2> QED BY <2>1 DEF Rows
<1> HIDE DEF p, q
<1>5. DOMAIN p.rows = DOMAIN f.rows /\ DOMAIN q.rows = DOMAIN g.rows
    BY <1>3
<1>6. /\ \A i \in DOMAIN f.rows : p.rows[i].val[c] = f.rows[i].val[c]
      /\ \A i \in DOMAIN g.rows : q.rows[i].val[c] = g.rows[i].val[c]
    BY <1>3, <1>4 DEF Twins
<1>7. \A i \in Kin(f, c, V) : q.rows[e[i]] = p.rows[i]
    <2> DEFINE cut(r) == [r EXCEPT !.val = [d \in cols |-> r.val[d]]]
    <2>1. p.rows = [i \in DOMAIN f.rows |-> cut(f.rows[i])] /\ q.rows = [i \in DOMAIN g.rows |-> cut(g.rows[i])]
        BY <1>3
    <2> HIDE DEF cut
    <2> QED BY <1>2, <2>1
<1>8. Ties(e, p, q, c, V)
    BY <1>1, <1>5, <1>6, <1>7, MapsAlike
<1> QED BY <1>8 DEF Same, p, q

LEMMA RenamesAlike ==
    ASSUME NEW f, NEW g, NEW c, NEW V, Twins(f, g, c, V), NEW s, c \notin DOMAIN s.map, c \notin Range(s.map)
    PROVE  Same(RenameFields(f, s), RenameFields(g, s), c, V)
<1> DEFINE to(x) == IF x \in DOMAIN s.map THEN s.map[x] ELSE x
           cols == {to(x) : x \in f.cols}
           was(d) == CHOOSE x \in f.cols : to(x) = d
           rows(h) == [i \in DOMAIN h.rows |-> [h.rows[i] EXCEPT !.val = [d \in cols |-> h.rows[i].val[was(d)]]]]
<1>1. PICK e : Ties(e, f, g, c, V)
    BY DEF Twins, Same
<1>2. \A i \in Kin(f, c, V) : i \in DOMAIN f.rows /\ e[i] \in DOMAIN g.rows /\ g.rows[e[i]] = f.rows[i]
    BY <1>1, KinRows
<1>3. RenameFields(f, s) = OkFrame(cols, rows(f)) /\ RenameFields(g, s) = OkFrame(cols, rows(g))
    BY DEF RenameFields, Twins
<1>4. c \in cols /\ was(c) = c
    <2>1. c \in f.cols /\ to(c) = c
        BY DEF Twins
    <2>2. was(c) \in f.cols /\ to(was(c)) = c
        BY <2>1
    <2> HIDE DEF was
    <2> QED BY <2>1, <2>2 DEF Range
<1> HIDE DEF was, cols
<1>5. ASSUME NEW h, Typed(h), NEW i \in DOMAIN h.rows
      PROVE  [h.rows[i] EXCEPT !.val = [d \in cols |-> h.rows[i].val[was(d)]]].val[c] = h.rows[i].val[c]
    <2>1. h.rows[i] \in Rows(h.cols)
        BY <1>5, RowsOf
    <2> QED BY <1>4, <2>1 DEF Rows
<1> DEFINE p == RenameFields(f, s)
           q == RenameFields(g, s)
<1>6. p.rows = rows(f) /\ q.rows = rows(g)
    <2> HIDE DEF rows
    <2> QED BY <1>3, Made
<1> HIDE DEF p, q
<1>7. DOMAIN p.rows = DOMAIN f.rows /\ DOMAIN q.rows = DOMAIN g.rows
    BY <1>6
<1>8. /\ \A i \in DOMAIN f.rows : p.rows[i].val[c] = f.rows[i].val[c]
      /\ \A i \in DOMAIN g.rows : q.rows[i].val[c] = g.rows[i].val[c]
    <2>1. Typed(f) /\ Typed(g)
        BY DEF Twins
    <2>2. ASSUME NEW h, Typed(h)
          PROVE  \A i \in DOMAIN h.rows : rows(h)[i].val[c] = h.rows[i].val[c]
        BY <1>5, <2>2
    <2> HIDE DEF rows
    <2> QED BY <1>6, <2>1, <2>2
<1>9. \A i \in Kin(f, c, V) : q.rows[e[i]] = p.rows[i]
    <2> DEFINE named(r) == [r EXCEPT !.val = [d \in cols |-> r.val[was(d)]]]
    <2>1. p.rows = [i \in DOMAIN f.rows |-> named(f.rows[i])] /\ q.rows = [i \in DOMAIN g.rows |-> named(g.rows[i])]
        BY <1>6
    <2> HIDE DEF named
    <2> QED BY <1>2, <2>1
<1>10. Ties(e, p, q, c, V)
    BY <1>1, <1>7, <1>8, <1>9, MapsAlike
<1> QED BY <1>10 DEF Same, p, q

\* The pairs of a join and the row each gives.
Pairings(f, s, right) ==
    {p \in (DOMAIN f.rows) \X (DOMAIN right.rows \cup {0}) :
        IF p[2] = 0 THEN s.op = "join_fields" /\ Matches(f.rows[p[1]], right, s.join_on) = {}
        ELSE p[2] \in Matches(f.rows[p[1]], right, s.join_on)}
Joined(r, cols, s, right, n) ==
    [val |-> [c \in cols \cup Range(s.map) |->
                 IF c \in cols THEN r.val[c] ELSE IF n = 0 THEN Null
                 ELSE right.rows[n].val[CHOOSE d \in DOMAIN s.map : s.map[d] = c]],
     from |-> r.from]

LEMMA JoinLaid ==
    ASSUME NEW f, Typed(f), NEW s, NEW right, Typed(right), JoinColumns(f, s, right).status = "ok"
    PROVE  LET S == Pairings(f, s, right)
           IN  Laid(JoinColumns(f, s, right), S, Before(S), [p \in S |-> Joined(f.rows[p[1]], f.cols, s, right, p[2])])
<1> DEFINE pairs == Pairings(f, s, right)
           u == [p \in pairs |-> Joined(f.rows[p[1]], f.cols, s, right, p[2])]
           cols == f.cols \cup Range(s.map)
           place == [x \in pairs |-> Cardinality({y \in pairs : y[1] < x[1] \/ (y[1] = x[1] /\ y[2] < x[2])})]
           order == [k \in 1..Cardinality(pairs) |-> CHOOSE x \in pairs : place[x] = k - 1]
           named(c) == CHOOSE d \in DOMAIN s.map : s.map[d] = c
           value(p, c) == IF c \in f.cols THEN f.rows[p[1]].val[c] ELSE IF p[2] = 0 THEN Null
                          ELSE right.rows[p[2]].val[named(c)]
           rows == [k \in 1..Cardinality(pairs) |->
                       [val |-> [c \in cols |-> value(order[k], c)], from |-> f.rows[order[k][1]].from]]
<1>1. JoinColumns(f, s, right) \in {Fails(f, "data"), Fails(f, "fields")} \/ JoinColumns(f, s, right) = OkFrame(cols, rows)
    BY DEF JoinColumns, Enumerate, Pairings
<1>2. JoinColumns(f, s, right) = OkFrame(cols, rows)
    <2>1. Fails(f, "data").status # "ok" /\ Fails(f, "fields").status # "ok"
        BY DEF Fails, Typed, IsFrame
    <2> HIDE DEF cols, rows
    <2> QED BY <1>1, <2>1
<1>3. pairs \in SUBSET ((DOMAIN f.rows) \X (DOMAIN right.rows \cup {0}))
    BY DEF Pairings
<1>4. \A x \in pairs : Before(pairs)[x] = {y \in pairs : y[1] < x[1] \/ (y[1] = x[1] /\ y[2] < x[2])}
    <2> HIDE DEF pairs
    <2> QED BY DEF Before
<1> HIDE DEF pairs
<1>5. StrictTotal(Before(pairs), pairs) /\ IsFiniteSet(pairs) /\ Cardinality(pairs) \in Nat
    <2> DEFINE A == DOMAIN f.rows
               B == DOMAIN right.rows \cup {0}
    <2>1. A \in SUBSET Int /\ B \in SUBSET Int /\ IsFiniteSet(A) /\ IsFiniteSet(B)
        <3>1. A \in SUBSET Int /\ IsFiniteSet(A)
            BY RowsOf
        <3>2. DOMAIN right.rows \in SUBSET Int /\ IsFiniteSet(DOMAIN right.rows)
            BY RowsOf
        <3> QED BY <3>1, <3>2, FS_AddElement
    <2>2. pairs \in SUBSET (A \X B)
        BY <1>3
    <2> HIDE DEF A, B
    <2>3. StrictTotal(Before(pairs), pairs)
        BY <2>1, <2>2, PairsAreOrdered
    <2>4. IsFiniteSet(A \X B)
        BY <2>1, FS_Product
    <2>5. IsFiniteSet(pairs)
        BY <2>2, <2>4, FS_Subset
    <2> QED BY <2>3, <2>5, FS_CardinalityType
<1>6. Placed(place, pairs, Before(pairs))
    BY <1>4 DEF Placed
<1> HIDE DEF place
<1>7. ByPlace(order, pairs, place)
    BY DEF ByPlace
<1> HIDE DEF order
<1>8. Lists(order, pairs, Before(pairs))
    BY <1>5, <1>6, <1>7, Listing
<1>9. \A k \in 1..Cardinality(pairs) : order[k] \in pairs
    BY <1>8 DEF Lists
<1>10. ASSUME NEW p \in pairs
       PROVE  u[p] = [val |-> [c \in cols |-> value(p, c)], from |-> f.rows[p[1]].from]
    BY DEF Joined
<1> HIDE DEF u, cols, value
<1>11. \A k \in 1..Cardinality(pairs) : rows[k] = u[order[k]]
    BY <1>9, <1>10
<1>12. DOMAIN rows = 1..Cardinality(pairs)
    OBVIOUS
<1> HIDE DEF rows
<1>13. JoinColumns(f, s, right).rows = rows
    BY <1>2, Made
<1>14. Laid(JoinColumns(f, s, right), pairs, Before(pairs), u)
    BY <1>5, <1>8, <1>11, <1>12, <1>13 DEF Laid
<1> QED BY <1>14 DEF u, pairs

LEMMA JoinsAlike ==
    ASSUME NEW f, NEW g, NEW c, NEW V, Twins(f, g, c, V), NEW s, NEW right, Typed(right),
           JoinColumns(f, s, right).status = "ok", JoinColumns(g, s, right).status = "ok"
    PROVE  Same(JoinColumns(f, s, right), JoinColumns(g, s, right), c, V)
<1> DEFINE S == Pairings(f, s, right)
           T == Pairings(g, s, right)
           u == [p \in S |-> Joined(f.rows[p[1]], f.cols, s, right, p[2])]
           w == [p \in T |-> Joined(g.rows[p[1]], g.cols, s, right, p[2])]
           A == Among(S, u, c, V)
           B == Among(T, w, c, V)
<1>1. PICK e : Ties(e, f, g, c, V)
    BY DEF Twins, Same
<1>2. Typed(f) /\ Typed(g) /\ f.cols = g.cols /\ c \in f.cols
    BY DEF Twins
<1>3. /\ Laid(JoinColumns(f, s, right), S, Before(S), u)
      /\ Laid(JoinColumns(g, s, right), T, Before(T), w)
    BY <1>2, JoinLaid
<1>4. \A r, n : Joined(r, f.cols, s, right, n).val[c] = r.val[c]
    BY <1>2 DEF Joined
<1>5. /\ \A p : p \in A <=> p \in S /\ f.rows[p[1]].val[c] \in V
      /\ \A p : p \in B <=> p \in T /\ g.rows[p[1]].val[c] \in V
    BY <1>2, <1>4 DEF Among
<1>6. /\ \A p : p \in S <=> \E i \in DOMAIN f.rows, n \in DOMAIN right.rows \cup {0} :
                   p = <<i, n>> /\ IF n = 0 THEN s.op = "join_fields" /\ Matches(f.rows[i], right, s.join_on) = {}
                                   ELSE n \in Matches(f.rows[i], right, s.join_on)
      /\ \A p : p \in T <=> \E i \in DOMAIN g.rows, n \in DOMAIN right.rows \cup {0} :
                   p = <<i, n>> /\ IF n = 0 THEN s.op = "join_fields" /\ Matches(g.rows[i], right, s.join_on) = {}
                                   ELSE n \in Matches(g.rows[i], right, s.join_on)
    BY DEF Pairings
<1>7. /\ \A p \in S : u[p] = Joined(f.rows[p[1]], f.cols, s, right, p[2])
      /\ \A p \in T : w[p] = Joined(g.rows[p[1]], f.cols, s, right, p[2])
    BY <1>2
<1>8. /\ \A p \in S : p = <<p[1], p[2]>> /\ p[1] \in DOMAIN f.rows /\ p[2] \in DOMAIN right.rows \cup {0}
      /\ \A p \in T : p = <<p[1], p[2]>> /\ p[1] \in DOMAIN g.rows /\ p[2] \in DOMAIN right.rows \cup {0}
    BY <1>6
<1> HIDE DEF S, T, u, w, A, B
<1> DEFINE h == [p \in A |-> <<e[p[1]], p[2]>>]
<1>9. ASSUME NEW i \in Kin(f, c, V), NEW n
      PROVE  <<i, n>> \in S <=> <<e[i], n>> \in T
    <2>1. i \in DOMAIN f.rows /\ e[i] \in DOMAIN g.rows /\ g.rows[e[i]] = f.rows[i]
        BY <1>1, KinRows
    <2> QED BY <1>6, <2>1
<1>10. ASSUME NEW p \in A
       PROVE  p[1] \in Kin(f, c, V) /\ h[p] \in B /\ w[h[p]] = u[p]
    <2>1. p \in S /\ p = <<p[1], p[2]>> /\ p[1] \in DOMAIN f.rows /\ p[1] \in Kin(f, c, V)
        BY <1>5, <1>8 DEF Kin
    <2>2. h[p] = <<e[p[1]], p[2]>> /\ h[p] \in T
        BY <1>9, <2>1
    <2>3. g.rows[e[p[1]]] = f.rows[p[1]]
        BY <1>1, <2>1, KinRows
    <2>4. h[p][1] = e[p[1]] /\ h[p][2] = p[2]
        BY <2>2
    <2> HIDE DEF h
    <2>5. h[p] \in B
        BY <1>5, <2>1, <2>2, <2>3, <2>4
    <2> QED BY <1>7, <2>1, <2>2, <2>3, <2>4, <2>5
<1>11. h \in [A -> B]
    BY <1>10
<1>12. ASSUME NEW q \in B
       PROVE  \E p \in A : h[p] = q
    <2>1. q \in T /\ q = <<q[1], q[2]>> /\ q[1] \in Kin(g, c, V)
        BY <1>5, <1>8 DEF Kin
    <2>2. PICK i \in Kin(f, c, V) : e[i] = q[1]
        BY <1>1, <2>1, KinRows
    <2>3. <<i, q[2]>> \in S /\ f.rows[i].val[c] \in V
        BY <1>9, <2>1, <2>2 DEF Kin
    <2>4. <<i, q[2]>> \in A
        BY <1>5, <2>3
    <2>5. h[<<i, q[2]>>] = q
        BY <2>1, <2>2, <2>4
    <2> QED BY <2>4, <2>5
<1>13. ASSUME NEW p \in A, NEW q \in A
       PROVE  p \in Before(S)[q] <=> h[p] \in Before(T)[h[q]]
    <2>1. p \in S /\ q \in S /\ h[p] \in T /\ h[q] \in T
        BY <1>5, <1>10
    <2>2. h[p] = <<e[p[1]], p[2]>> /\ h[q] = <<e[q[1]], q[2]>>
        OBVIOUS
    <2>3. h[p][1] = e[p[1]] /\ h[p][2] = p[2] /\ h[q][1] = e[q[1]] /\ h[q][2] = q[2]
        BY <2>2
    <2> HIDE DEF h
    <2>4. p \in Before(S)[q] <=> (p[1] < q[1] \/ (p[1] = q[1] /\ p[2] < q[2]))
        BY <2>1 DEF Before
    <2>5. h[p] \in Before(T)[h[q]] <=> (e[p[1]] < e[q[1]] \/ (e[p[1]] = e[q[1]] /\ p[2] < q[2]))
        BY <2>1, <2>3 DEF Before
    <2>6. (p[1] < q[1] <=> e[p[1]] < e[q[1]]) /\ (p[1] = q[1] <=> e[p[1]] = e[q[1]])
        BY <1>1, <1>2, <1>10, KinOrder
    <2> QED BY <2>4, <2>5, <2>6
<1> HIDE DEF h
<1>14. Agree(h, A, Before(S), u, B, Before(T), w)
    BY <1>10, <1>11, <1>12, <1>13 DEF Agree
<1>15. Agree(h, Among(S, u, c, V), Before(S), u, Among(T, w, c, V), Before(T), w)
    BY <1>14 DEF A, B
<1> QED BY <1>3, <1>15, Arrangement

LEMMA AsofsAlike ==
    ASSUME NEW f, NEW g, NEW c, NEW V, Twins(f, g, c, V), NEW s, s.group_by \in Seq(f.cols), s.order_by \in f.cols, NEW right,
           AsofJoin(f, s, right).status = "ok", AsofJoin(g, s, right).status = "ok"
    PROVE  Same(AsofJoin(f, s, right), AsofJoin(g, s, right), c, V)
<1> DEFINE all(C) == C \cup Range(s.map)
           k == <<s.order_by>> \o s.group_by
           near(r) == {j \in Matches(r, right, s.group_by) :
                         /\ right.rows[j].val[s.right_order] <= r.val[s.order_by]
                         /\ r.val[s.order_by] - right.rows[j].val[s.right_order] <= s.count}
           best(r) == CHOOSE j \in near(r) : \A m \in near(r) :
                         \/ right.rows[m].val[s.right_order] < right.rows[j].val[s.right_order]
                         \/ right.rows[m].val[s.right_order] = right.rows[j].val[s.right_order] /\ m <= j
           value(C, r, d) == IF d \in C THEN r.val[d] ELSE IF near(r) = {} THEN Null
                          ELSE right.rows[best(r)].val[CHOOSE b \in DOMAIN s.map : s.map[b] = d]
           made(C, h) == [i \in DOMAIN h.rows |-> [h.rows[i] EXCEPT !.val = [d \in all(C) |-> value(C, h.rows[i], d)]]]
<1>1. Typed(f) /\ Typed(g) /\ f.cols = g.cols /\ c \in f.cols /\ Same(f, g, c, V)
    BY DEF Twins
<1>a. ASSUME NEW h
      PROVE  AsofJoin(h, s, right) \in {Fails(h, "data"), Fails(h, "fields")} \/ AsofJoin(h, s, right) = OkFrame(all(h.cols), made(h.cols, SortBy(h, k)))
    BY DEF AsofJoin
<1> DEFINE cols == all(f.cols)
           rows(h) == made(f.cols, h)
           new(r) == [r EXCEPT !.val = [d \in cols |-> value(f.cols, r, d)]]
<1>b. \A r : [d \in cols |-> value(f.cols, r, d)][c] = r.val[c]
    BY <1>1
<1>c. \A h : rows(h) = [i \in DOMAIN h.rows |-> new(h.rows[i])]
    OBVIOUS
<1> HIDE DEF all, made, value
<1>2. /\ AsofJoin(f, s, right) \in {Fails(f, "data"), Fails(f, "fields")} \/ AsofJoin(f, s, right) = OkFrame(cols, rows(SortBy(f, k)))
      /\ AsofJoin(g, s, right) \in {Fails(g, "data"), Fails(g, "fields")} \/ AsofJoin(g, s, right) = OkFrame(cols, rows(SortBy(g, k)))
    BY <1>1, <1>a
<1>3. /\ Fails(f, "data").status # "ok" /\ Fails(f, "fields").status # "ok"
      /\ Fails(g, "data").status # "ok" /\ Fails(g, "fields").status # "ok"
    BY <1>1 DEF Fails, Typed, IsFrame
<1>5. ASSUME NEW h, Typed(h), NEW i \in DOMAIN h.rows
      PROVE  new(h.rows[i]).val[c] = h.rows[i].val[c]
    <2>1. h.rows[i] \in Rows(h.cols)
        BY <1>5, RowsOf
    <2> HIDE DEF cols
    <2> QED BY <1>b, <2>1 DEF Rows
<1> HIDE DEF rows, new, cols
<1>7. k \in Seq(f.cols)
    <2>1. <<s.order_by>> \in Seq(f.cols)
        <3> DEFINE e == s.order_by
                   W == f.cols
        <3>1. e \in W
            OBVIOUS
        <3> HIDE DEF e, W
        <3>2. <<e>> \in Seq(W)
            BY <3>1
        <3> QED BY <3>2 DEF e, W
    <2> QED BY <2>1, ConcatProperties
<1> HIDE DEF k
<1> DEFINE o == SortBy(f, k)
           p == SortBy(g, k)
<1>8. Same(o, p, c, V)
    BY <1>1, <1>7, SortByAlike
<1>9. Typed(o) /\ Typed(p)
    BY <1>1, <1>7, SortByTraces DEF Traces, Comes
<1> HIDE DEF o, p
<1>10. PICK e : Ties(e, o, p, c, V)
    BY <1>8 DEF Same
<1>11. \A i \in Kin(o, c, V) : i \in DOMAIN o.rows /\ e[i] \in DOMAIN p.rows /\ p.rows[e[i]] = o.rows[i]
    BY <1>10, KinRows
<1> DEFINE x == AsofJoin(f, s, right)
           y == AsofJoin(g, s, right)
<1>12. x = OkFrame(cols, rows(o)) /\ y = OkFrame(cols, rows(p))
    BY <1>2, <1>3 DEF o, p
<1>13. x.rows = rows(o) /\ y.rows = rows(p)
    <2> HIDE DEF x, y
    <2> QED BY <1>12, Made
<1> HIDE DEF x, y
<1>14. DOMAIN x.rows = DOMAIN o.rows /\ DOMAIN y.rows = DOMAIN p.rows
    BY <1>c, <1>13
<1>15. \A i \in DOMAIN o.rows : x.rows[i].val[c] = o.rows[i].val[c]
    BY <1>5, <1>c, <1>9, <1>13
<1>16. \A i \in DOMAIN p.rows : y.rows[i].val[c] = p.rows[i].val[c]
    BY <1>5, <1>c, <1>9, <1>13
<1>17. \A i \in Kin(o, c, V) : y.rows[e[i]] = x.rows[i]
    <2>1. x.rows = [i \in DOMAIN o.rows |-> new(o.rows[i])] /\ y.rows = [i \in DOMAIN p.rows |-> new(p.rows[i])]
        BY <1>c, <1>13
    <2> QED BY <1>11, <2>1
<1>18. Ties(e, x, y, c, V)
    BY <1>10, <1>14, <1>15, <1>16, <1>17, MapsAlike
<1> QED BY <1>18 DEF Same, x, y

\* The same rows appended to both.
LEMMA UnionsAlike ==
    ASSUME NEW f, NEW g, NEW c, NEW V, Twins(f, g, c, V), NEW s, NEW right, Typed(right), right.cols = f.cols
    PROVE  Same(UnionRows(f, s, right), UnionRows(g, s, right), c, V)
<1> DEFINE added == [i \in DOMAIN right.rows |-> [right.rows[i] EXCEPT !.from = {Foreign}]]
           p == UnionRows(f, s, right)
           q == UnionRows(g, s, right)
           n == Len(f.rows)
           m == Len(g.rows)
           l == Len(right.rows)
<1>0. Typed(f) /\ Typed(g) /\ f.cols = g.cols /\ Same(f, g, c, V)
    BY DEF Twins
<1>1. PICK e : Ties(e, f, g, c, V)
    BY <1>0 DEF Same
<1>2. /\ n \in Nat /\ DOMAIN f.rows = 1..n /\ m \in Nat /\ DOMAIN g.rows = 1..m /\ l \in Nat /\ DOMAIN right.rows = 1..l
    BY <1>0, RowsOf
<1>3. ASSUME NEW h, Typed(h), right.cols = h.cols
      PROVE  /\ DOMAIN UnionRows(h, s, right).rows = 1..(Len(h.rows) + l)
             /\ \A k \in 1..(Len(h.rows) + l) : UnionRows(h, s, right).rows[k] = IF k <= Len(h.rows) THEN h.rows[k] ELSE added[k - Len(h.rows)]
    <2>1. UnionRows(h, s, right) = [h EXCEPT !.rows = h.rows \o added]
        BY <1>3 DEF UnionRows
    <2>2. DOMAIN added = 1..l
        BY <1>2
    <2>3. \A i \in DOMAIN right.rows : right.rows[i] \in Rows(h.cols) /\ {Foreign} \in SUBSET Int
        BY <1>3, RowsOf DEF Foreign
    <2>4. \A i \in DOMAIN right.rows : added[i] \in Rows(h.cols)
        BY <2>3 DEF Rows
    <2>5. added \in [1..l -> Rows(h.cols)]
        BY <2>2, <2>4, <1>2
    <2> HIDE DEF added
    <2>6. added \in Seq(Rows(h.cols)) /\ Len(added) = l
        BY <1>2, <2>5, Tuples
    <2>7. h.rows \in Seq(Rows(h.cols)) /\ Len(h.rows) \in Nat
        BY <1>3, RowsOf DEF Typed
    <2> DEFINE rows == h.rows \o added
    <2>8. /\ rows \in Seq(Rows(h.cols)) /\ Len(rows) = Len(h.rows) + l
          /\ \A k \in 1..(Len(h.rows) + l) : rows[k] = IF k <= Len(h.rows) THEN h.rows[k] ELSE added[k - Len(h.rows)]
        <3> HIDE DEF l
        <3>1. /\ rows \in Seq(Rows(h.cols)) /\ Len(rows) = Len(h.rows) + Len(added)
              /\ \A k \in 1..(Len(h.rows) + Len(added)) : rows[k] = IF k <= Len(h.rows) THEN h.rows[k] ELSE added[k - Len(h.rows)]
            BY <2>6, <2>7, ConcatProperties
        <3> QED BY <2>6, <3>1
    <2> HIDE DEF rows
    <2>9. UnionRows(h, s, right).rows = rows
        BY <1>3, <2>1 DEF Typed, IsFrame, rows
    <2>10. DOMAIN rows = 1..(Len(h.rows) + l)
        BY <2>7, <2>8, <1>2
    <2> QED BY <2>8, <2>9, <2>10
<1>4. /\ DOMAIN p.rows = 1..(n + l) /\ \A k \in 1..(n + l) : p.rows[k] = IF k <= n THEN f.rows[k] ELSE added[k - n]
      /\ DOMAIN q.rows = 1..(m + l) /\ \A k \in 1..(m + l) : q.rows[k] = IF k <= m THEN g.rows[k] ELSE added[k - m]
    BY <1>0, <1>3
<1> DEFINE A == Kin(f, c, V)
           B == Kin(g, c, V)
           C == {i \in 1..l : added[i].val[c] \in V}
           K == Kin(p, c, V)
           L == Kin(q, c, V)
           h == [k \in K |-> IF k <= n THEN e[k] ELSE m + (k - n)]
<1>5. /\ \A k : k \in K <=> k \in A \/ (k \in n + 1..(n + l) /\ k - n \in C)
      /\ \A k : k \in L <=> k \in B \/ (k \in m + 1..(m + l) /\ k - m \in C)
    <2> HIDE DEF added, p, q, n, m, l
    <2>1. \A k : k \in K <=> k \in 1..(n + l) /\ (IF k <= n THEN f.rows[k].val[c] \in V ELSE added[k - n].val[c] \in V)
        BY <1>4 DEF Kin
    <2>2. \A k : k \in L <=> k \in 1..(m + l) /\ (IF k <= m THEN g.rows[k].val[c] \in V ELSE added[k - m].val[c] \in V)
        BY <1>4 DEF Kin
    <2>3. (\A k : k \in A <=> k \in 1..n /\ f.rows[k].val[c] \in V) /\ (\A k : k \in B <=> k \in 1..m /\ g.rows[k].val[c] \in V)
        BY <1>2 DEF Kin
    <2> HIDE DEF K, L, A, B
    <2>4. ASSUME NEW k
          PROVE  k \in K <=> k \in A \/ (k \in n + 1..(n + l) /\ k - n \in C)
        BY <1>2, <2>1, <2>3
    <2>5. ASSUME NEW k
          PROVE  k \in L <=> k \in B \/ (k \in m + 1..(m + l) /\ k - m \in C)
        BY <1>2, <2>2, <2>3
    <2> QED BY <2>4, <2>5
<1>6. A \subseteq 1..n /\ B \subseteq 1..m /\ C \subseteq 1..l
    BY <1>2 DEF Kin
<1>7. /\ \A i \in A : e[i] \in B /\ g.rows[e[i]] = f.rows[i]
      /\ \A j \in B : \E i \in A : e[i] = j
      /\ \A i, j \in A : i < j <=> e[i] < e[j]
    BY <1>1, KinRows
<1> HIDE DEF added, p, q, n, m, l, A, B, C, K, L
<1>8. ASSUME NEW k \in K
      PROVE  \/ k \in A /\ k <= n /\ h[k] = e[k] /\ h[k] \in B /\ h[k] <= m
             \/ k \in n + 1..(n + l) /\ ~(k <= n) /\ k - n \in C /\ h[k] = m + (k - n) /\ h[k] \in m + 1..(m + l) /\ h[k] - m = k - n /\ ~(h[k] <= m)
    <2>1. CASE k \in A
        <3>1. k <= n
            BY <1>2, <1>6, <2>1
        <3>2. h[k] = e[k]
            BY <3>1
        <3> HIDE DEF h
        <3>3. e[k] \in B /\ e[k] \in 1..m
            BY <1>6, <1>7, <2>1
        <3>4. e[k] <= m
            BY <1>2, <3>3
        <3> QED BY <2>1, <3>1, <3>2, <3>3, <3>4
    <2>2. CASE k \in n + 1..(n + l) /\ k - n \in C
        <3>1. ~(k <= n) /\ k - n \in 1..l
            BY <1>2, <2>2
        <3>2. h[k] = m + (k - n)
            BY <3>1
        <3> HIDE DEF h
        <3> QED BY <1>2, <2>2, <3>1, <3>2
    <2> QED BY <1>5, <2>1, <2>2
<1>9. h \in [K -> L]
    <2>1. \A k \in K : h[k] \in L
        BY <1>5, <1>8
    <2> QED BY <2>1
<1>10. ASSUME NEW y \in L
       PROVE  \E k \in K : h[k] = y
    <2>1. CASE y \in B
        <3>1. PICK i \in A : e[i] = y
            BY <1>7, <2>1
        <3>2. i \in K /\ i <= n
            BY <1>2, <1>5, <1>6, <3>1
        <3> QED BY <3>1, <3>2
    <2>2. CASE y \in m + 1..(m + l) /\ y - m \in C
        <3> DEFINE k == n + (y - m)
        <3>1. k \in n + 1..(n + l) /\ k - n = y - m /\ ~(k <= n) /\ m + (k - n) = y
            BY <1>2, <2>2
        <3>2. k \in K
            BY <1>5, <2>2, <3>1
        <3> QED BY <3>1, <3>2
    <2> QED BY <1>5, <2>1, <2>2
<1>11. ASSUME NEW j \in K, NEW k \in K
       PROVE  j < k <=> h[j] < h[k]
    <2>1. j \in A /\ k \in A => (e[j] < e[k] <=> j < k)
        BY <1>7
    <2>2. h[j] \in Int /\ h[k] \in Int /\ j \in Int /\ k \in Int
        <3>1. \A z \in K : z \in Int /\ h[z] \in Int
            <4> TAKE z \in K
            <4> HIDE DEF h
            <4>1. CASE z \in A /\ h[z] \in B
                <5>1. z \in 1..n /\ h[z] \in 1..m
                    BY <1>6, <4>1
                <5> QED BY <1>2, <5>1
            <4>2. CASE z \in n + 1..(n + l) /\ h[z] \in m + 1..(m + l)
                BY <1>2, <4>2
            <4> QED BY <1>8, <4>1, <4>2
        <3> QED BY <3>1
    <2> HIDE DEF h
    <2> QED BY <1>2, <1>8, <2>1, <2>2
<1>12. ASSUME NEW k \in K
       PROVE  q.rows[h[k]] = p.rows[k]
    <2>1. k \in 1..(n + l) /\ h[k] \in 1..(m + l)
        <3> HIDE DEF h
        <3>1. CASE k \in A /\ h[k] \in B
            <4>1. k \in 1..n /\ h[k] \in 1..m
                BY <1>6, <3>1
            <4> QED BY <1>2, <4>1
        <3>2. CASE k \in n + 1..(n + l) /\ h[k] \in m + 1..(m + l)
            BY <1>2, <3>2
        <3> QED BY <1>8, <3>1, <3>2
    <2> HIDE DEF h
    <2>2. CASE k \in A /\ k <= n /\ h[k] = e[k] /\ h[k] \in B /\ h[k] <= m
        BY <1>4, <1>7, <2>1, <2>2
    <2>3. CASE ~(k <= n) /\ h[k] - m = k - n /\ ~(h[k] <= m)
        BY <1>4, <2>1, <2>3
    <2> QED BY <1>8, <2>2, <2>3
<1> HIDE DEF h
<1>13. Ties(h, p, q, c, V)
    BY <1>9, <1>10, <1>11, <1>12 DEF Ties, Moves, K, L
<1> QED BY <1>13 DEF Same, p, q

\* From the rows of the admitted securities to those that a marker marks.
LEMMA SameWithin ==
    ASSUME NEW f, NEW g, NEW c, NEW V, Same(f, g, c, V), NEW d, NEW W,
           \A i \in DOMAIN f.rows : f.rows[i].val[d] \in W => f.rows[i].val[c] \in V,
           \A i \in DOMAIN g.rows : g.rows[i].val[d] \in W => g.rows[i].val[c] \in V
    PROVE  Same(f, g, d, W)
<1>1. PICK e : Ties(e, f, g, c, V)
    BY DEF Same
<1> DEFINE A == Kin(f, d, W)
           B == Kin(g, d, W)
           h == [x \in A |-> e[x]]
<1>2. A \in SUBSET Kin(f, c, V) /\ B \in SUBSET Kin(g, c, V)
    BY DEF Kin
<1>3. \A x \in Kin(f, c, V) : x \in A <=> e[x] \in B
    BY <1>1, KinRows DEF Kin
<1>4. Moves(h, A, B)
    BY <1>1, <1>2, <1>3, MovesSome DEF Ties
<1>5. \A x \in A : g.rows[h[x]] = f.rows[x]
    BY <1>1, <1>2, KinRows
<1>6. Ties(h, f, g, d, W)
    <2> HIDE DEF h
    <2> QED BY <1>4, <1>5 DEF Ties
<1> QED BY <1>6 DEF Same

LEMMA PickedAll ==
    ASSUME NEW f, Typed(f)
    PROVE  f.rows = Pick(f.rows, DOMAIN f.rows)
<1> DEFINE D == DOMAIN f.rows
           n == Len(f.rows)
<1>1. n \in Nat /\ D = 1..n /\ D \in SUBSET Int /\ IsFiniteSet(D)
    BY RowsOf
<1>2. f.rows \in [D -> Rows(f.cols)]
    BY DEF Typed
<1> HIDE DEF D, n
<1>3. Cardinality(D) = n
    BY <1>1, FS_Interval
<1>a. D \in SUBSET Int /\ IsFiniteSet(D)
    BY <1>1
<1>4. PICK a : Lists(a, D, Lesser(D)) /\ Pick(f.rows, D) = [k \in 1..Cardinality(D) |-> f.rows[a[k]]]
    BY <1>a, Picks
<1>5. ASSUME NEW k \in 1..n
      PROVE  a[k] = k
    <2>1. a[k] \in D /\ Cardinality(Lesser(D)[a[k]]) = k - 1
        BY <1>3, <1>4 DEF Lists
    <2> DEFINE b == a[k] - 1
    <2>2. b \in Nat /\ k \in Int /\ a[k] \in Int
        BY <1>1, <2>1
    <2>3. ASSUME NEW y
          PROVE  y \in D /\ y < a[k] <=> y \in 1..b
        BY <1>1, <2>1
    <2>4. Lesser(D)[a[k]] = {y \in D : y < a[k]}
        BY <2>1 DEF Lesser
    <2>5. Lesser(D)[a[k]] = 1..b
        <3> HIDE DEF b
        <3> QED BY <2>3, <2>4
    <2>6. Cardinality(1..b) = b
        <3> HIDE DEF b
        <3> QED BY <2>2, FS_Interval
    <2> QED BY <2>1, <2>2, <2>5, <2>6
<1>6. f.rows = [k \in 1..n |-> f.rows[k]]
    BY <1>1, <1>2
<1>7. Pick(f.rows, D) = [k \in 1..n |-> f.rows[k]]
    BY <1>3, <1>4, <1>5
<1> QED BY <1>6, <1>7 DEF D

\* When every row is such a row, the frames have the same rows.
LEMMA SameRows ==
    ASSUME NEW f, Typed(f), NEW g, Typed(g), NEW c, NEW V, Same(f, g, c, V),
           Kin(f, c, V) = DOMAIN f.rows, Kin(g, c, V) = DOMAIN g.rows
    PROVE  f.rows = g.rows
<1>1. PICK e : Ties(e, f, g, c, V)
    BY DEF Same
<1> DEFINE I == DOMAIN f.rows
           J == DOMAIN g.rows
<1>2. I \in SUBSET Int /\ IsFiniteSet(I) /\ J \in SUBSET Int /\ IsFiniteSet(J)
    BY RowsOf
<1>3. Moves(e, I, J) /\ \A i \in I : g.rows[e[i]] = f.rows[i]
    BY <1>1 DEF Ties
<1> HIDE DEF I, J
<1>4. Pick(f.rows, I) = Pick(g.rows, J)
    BY <1>2, <1>3, PicksAlike
<1>5. f.rows = Pick(f.rows, DOMAIN f.rows) /\ g.rows = Pick(g.rows, DOMAIN g.rows)
    BY PickedAll
<1> QED BY <1>4, <1>5 DEF I, J

-----------------------------------------------------------------------------
\* The steps that make one row of a group of such rows.

\* One row for every group, in the order of the groups' first rows.
LEMMA FirstsAlike ==
    ASSUME NEW f, NEW g, NEW c, NEW V, Twins(f, g, c, V), NEW k, c \in ToSet(k)
    PROVE  Same(KeepIndices(f, Firsts(f, k)), KeepIndices(g, Firsts(g, k)), c, V)
<1>1. Typed(f) /\ Typed(g)
    BY DEF Twins
<1>2. PICK e : Ties(e, f, g, c, V)
    BY DEF Twins, Same
<1>3. ASSUME NEW i \in Kin(f, c, V)
      PROVE  i \in Firsts(f, k) <=> e[i] \in Firsts(g, k)
    <2> DEFINE G == Group(f, k, i)
               H == Group(g, k, e[i])
    <2>1. G \subseteq Kin(f, c, V) /\ H \subseteq Kin(g, c, V) /\ \A x \in Kin(f, c, V) : x \in G <=> e[x] \in H
        BY <1>2, GroupMoves
    <2>2. i \in DOMAIN f.rows /\ e[i] \in DOMAIN g.rows
        BY <1>2, KinRows
    <2>3. (i \in Firsts(f, k) <=> \A j \in G : i <= j) /\ (e[i] \in Firsts(g, k) <=> \A j \in H : e[i] <= j)
        BY <2>2 DEF Firsts
    <2> HIDE DEF G, H
    <2>4. \A j \in G : e[j] \in H /\ (i <= j <=> e[i] <= e[j])
        BY <1>1, <1>2, <2>1, KinOrder
    <2>5. \A y \in H : \E j \in G : e[j] = y
        BY <1>2, <2>1, KinRows
    <2> QED BY <2>3, <2>4, <2>5
<1>4. Firsts(f, k) \in SUBSET DOMAIN f.rows /\ Firsts(g, k) \in SUBSET DOMAIN g.rows
    BY DEF Firsts
<1> QED BY <1>1, <1>2, <1>3, <1>4, KeptAlike

\* What a group of such rows comes from and what is computed of it.
LEMMA FoldsAlike ==
    ASSUME NEW f, Typed(f), NEW g, Typed(g), NEW c, NEW V, Same(f, g, c, V), NEW k, c \in ToSet(k), NEW r, r.val[c] \in V, NEW s
    PROVE  /\ Origins(f, Alike(f, k, r)) = Origins(g, Alike(g, k, r))
           /\ AggValues(f, s, Alike(f, k, r)) = AggValues(g, s, Alike(g, k, r))
<1>1. PICK e : Ties(e, f, g, c, V)
    BY DEF Same
<1> DEFINE I == Alike(f, k, r)
           J == Alike(g, k, r)
           h == [x \in I |-> e[x]]
<1>2. I \subseteq Kin(f, c, V) /\ Moves(h, I, J)
    BY <1>1, GroupsAlike
<1>3. I \in SUBSET Int /\ IsFiniteSet(I) /\ J \in SUBSET Int
    <2>1. I \in SUBSET DOMAIN f.rows /\ J \in SUBSET DOMAIN g.rows
        BY DEF Alike
    <2> HIDE DEF I, J
    <2> QED BY <2>1, SubIndices DEF Typed
<1>4. \A i \in I : h[i] \in J /\ h[i] \in DOMAIN g.rows /\ i \in DOMAIN f.rows /\ g.rows[h[i]] = f.rows[i]
    <2> TAKE i \in I
    <2>1. i \in Kin(f, c, V) /\ h[i] = e[i]
        BY <1>2
    <2> HIDE DEF h, I, J
    <2> QED BY <1>1, <1>2, <2>1, KinRows DEF Moves
<1> HIDE DEF I, J, h
<1>5. \A j \in J : \E i \in I : h[i] = j
    BY <1>2 DEF Moves
<1>6. Origins(f, I) = Origins(g, J)
    <2>1. \A x : x \in Origins(f, I) <=> \E i \in I : x \in f.rows[i].from
        BY DEF Origins
    <2>2. \A x : x \in Origins(g, J) <=> \E j \in J : x \in g.rows[j].from
        BY DEF Origins
    <2>3. \A x : (\E i \in I : x \in f.rows[i].from) <=> (\E j \in J : x \in g.rows[j].from)
        BY <1>4, <1>5
    <2> QED BY <2>1, <2>2, <2>3
<1>7. ASSUME NEW d
      PROVE  Values(f, d, I) = Values(g, d, J)
    <2>1. \A i \in I : Column(g, d)[h[i]] = Column(f, d)[i]
        BY <1>4 DEF Column
    <2>2. Pick(Column(f, d), I) = Pick(Column(g, d), J)
        BY <1>2, <1>3, <2>1, PicksAlike
    <2> QED BY <2>2 DEF Values
<1>8. AggValues(f, s, I) = AggValues(g, s, J)
    BY <1>7 DEF AggValues
<1> QED BY <1>6, <1>8 DEF I, J

Heads(f, k) == KeepIndices(f, Firsts(f, k))
Folded(f, k, h, cols) ==
    [i \in DOMAIN h.rows |-> [val |-> [c \in cols |-> h.rows[i].val[c]], from |-> Origins(f, Alike(f, k, h.rows[i]))]]

LEMMA HeadsKept ==
    ASSUME NEW f, Typed(f), NEW k
    PROVE  Typed(Heads(f, k)) /\ Heads(f, k).cols = f.cols
<1>1. Firsts(f, k) \in SUBSET DOMAIN f.rows
    BY DEF Firsts
<1>2. Traces(Heads(f, k), f, {}) /\ Heads(f, k).cols = f.cols
    BY <1>1, KeepTraces DEF Heads
<1> QED BY <1>2 DEF Traces, Comes

LEMMA WeightedRows ==
    ASSUME NEW f, Typed(f), NEW s, s.group_by \in Seq(f.cols), WeightedMean(f, s).status = "ok"
    PROVE  LET h == Heads(f, s.group_by)
           IN  WeightedMean(f, s) = WithColumn(OkFrame(ToSet(s.group_by), Folded(f, s.group_by, h, ToSet(s.group_by))),
                                               s.output, [i \in DOMAIN h.rows |-> Opaque])
<1> DEFINE h == Heads(f, s.group_by)
           keys == ToSet(s.group_by)
           folded == [i \in DOMAIN h.rows |-> [h.rows[i] EXCEPT !.from = Origins(f, Alike(f, s.group_by, h.rows[i]))]]
           m == [h EXCEPT !.rows = folded]
           p == Project(m, keys)
           rows == [i \in DOMAIN folded |-> [folded[i] EXCEPT !.val = Restrict(folded[i].val, keys)]]
           vals == [i \in DOMAIN folded |-> Opaque]
<1>1. WeightedMean(f, s) = Fails(f, "data") \/ WeightedMean(f, s) = WithColumn(p, s.output, vals)
    BY DEF WeightedMean, Alike, Heads
<1>2. WeightedMean(f, s) = WithColumn(p, s.output, vals)
    <2>1. Fails(f, "data").status # "ok"
        BY DEF Fails, Typed, IsFrame
    <2> HIDE DEF p, vals
    <2> QED BY <1>1, <2>1
<1>4. Typed(h) /\ IsFrame(h) /\ h.cols = f.cols
    BY HeadsKept DEF Typed
<1> HIDE DEF h
<1>6. p = OkFrame(keys, rows)
    <2>1. m.rows = folded
        <3> HIDE DEF folded
        <3> QED BY <1>4 DEF IsFrame
    <2> HIDE DEF m, folded
    <2> QED BY <2>1 DEF Project
<1>7. DOMAIN folded = DOMAIN h.rows
    OBVIOUS
<1>8. ASSUME NEW i \in DOMAIN h.rows
      PROVE  rows[i] = [val |-> [c \in keys |-> h.rows[i].val[c]], from |-> Origins(f, Alike(f, s.group_by, h.rows[i]))]
    <2>1. h.rows[i] \in Rows(f.cols)
        BY <1>4, RowsOf
    <2>2. folded[i] = [h.rows[i] EXCEPT !.from = Origins(f, Alike(f, s.group_by, h.rows[i]))] /\ i \in DOMAIN folded
        OBVIOUS
    <2>3. rows[i] = [folded[i] EXCEPT !.val = Restrict(folded[i].val, keys)]
        BY <2>2
    <2> HIDE DEF folded, rows
    <2>4. folded[i] = [val |-> h.rows[i].val, from |-> Origins(f, Alike(f, s.group_by, h.rows[i]))]
        BY <2>1, <2>2 DEF Rows
    <2>5. Restrict(folded[i].val, keys) = [c \in keys |-> h.rows[i].val[c]]
        BY <2>4 DEF Restrict
    <2> QED BY <2>3, <2>4, <2>5
<1>9. DOMAIN rows = DOMAIN h.rows /\ rows = [i \in DOMAIN rows |-> rows[i]]
    OBVIOUS
<1> HIDE DEF rows, p, folded
<1>10. rows = Folded(f, s.group_by, h, keys)
    BY <1>8, <1>9 DEF Folded
<1> QED BY <1>2, <1>6, <1>7, <1>10 DEF h

LEMMA WeightsAlike ==
    ASSUME NEW f, NEW g, NEW c, NEW V, Twins(f, g, c, V), NEW s, s.group_by \in Seq(f.cols), c \in ToSet(s.group_by), s.output # c,
           WeightedMean(f, s).status = "ok", WeightedMean(g, s).status = "ok"
    PROVE  Same(WeightedMean(f, s), WeightedMean(g, s), c, V)
<1> DEFINE k == s.group_by
           keys == ToSet(k)
           x == Heads(f, k)
           y == Heads(g, k)
           p == OkFrame(keys, Folded(f, k, x, keys))
           q == OkFrame(keys, Folded(g, k, y, keys))
<1>1. Typed(f) /\ Typed(g) /\ f.cols = g.cols /\ Same(f, g, c, V)
    BY DEF Twins
<1>2. PICK e : Ties(e, x, y, c, V)
    BY FirstsAlike DEF Heads, Same
<1>3. /\ WeightedMean(f, s) = WithColumn(p, s.output, [i \in DOMAIN x.rows |-> Opaque])
      /\ WeightedMean(g, s) = WithColumn(q, s.output, [i \in DOMAIN y.rows |-> Opaque])
    BY <1>1, WeightedRows
<1>4. p.rows = Folded(f, k, x, keys) /\ q.rows = Folded(g, k, y, keys) /\ p.cols = keys /\ q.cols = keys
    BY Made
<1> HIDE DEF p, q, x, y
<1>5. /\ DOMAIN p.rows = DOMAIN x.rows /\ \A i \in DOMAIN x.rows : p.rows[i].val[c] = x.rows[i].val[c]
      /\ DOMAIN q.rows = DOMAIN y.rows /\ \A i \in DOMAIN y.rows : q.rows[i].val[c] = y.rows[i].val[c]
    BY <1>4 DEF Folded
<1>6. ASSUME NEW i \in Kin(x, c, V)
      PROVE  q.rows[e[i]] = p.rows[i] /\ e[i] \in DOMAIN y.rows /\ i \in DOMAIN x.rows
    <2>1. i \in DOMAIN x.rows /\ e[i] \in DOMAIN y.rows /\ y.rows[e[i]] = x.rows[i] /\ x.rows[i].val[c] \in V
        BY <1>2, KinRows DEF Kin
    <2>2. /\ Origins(f, Alike(f, k, x.rows[i])) = Origins(g, Alike(g, k, x.rows[i]))
          /\ AggValues(f, s, Alike(f, k, x.rows[i])) = AggValues(g, s, Alike(g, k, x.rows[i]))
        BY <1>1, <2>1, FoldsAlike
    <2> QED BY <1>4, <2>1, <2>2 DEF Folded
<1>7. Ties(e, p, q, c, V)
    BY <1>2, <1>5, <1>6, MapsAlike
<1> DEFINE u == [i \in DOMAIN x.rows |-> Opaque]
           w == [i \in DOMAIN y.rows |-> Opaque]
<1>8. \A i \in Kin(p, c, V) : u[i] = w[e[i]]
    <2> TAKE i \in Kin(p, c, V)
    <2>1. i \in DOMAIN p.rows /\ e[i] \in DOMAIN q.rows
        BY <1>7, KinRows
    <2> QED BY <1>5, <2>1
<1> HIDE DEF u, w
<1>9. Ties(e, WithColumn(p, s.output, u), WithColumn(q, s.output, w), c, V)
    BY <1>4, <1>7, <1>8, WidensAlike
<1> QED BY <1>3, <1>9 DEF Same, u, w

Summed(f, s, o, keys) ==
    [i \in DOMAIN o.rows |->
        [val |-> [c \in keys \cup Outputs(s) |->
                     IF c \in keys THEN o.rows[i].val[c] ELSE AggValues(f, s, Alike(f, s.group_by, o.rows[i]))[c]],
         from |-> Origins(f, Alike(f, s.group_by, o.rows[i]))]]

LEMMA AggregatesAlike ==
    ASSUME NEW f, NEW g, NEW c, NEW V, Twins(f, g, c, V), NEW s, s.group_by \in Seq(f.cols), c \in ToSet(s.group_by),
           ToSet(s.group_by) \cap Outputs(s) = {}
    PROVE  Same(AggregateRows(f, s), AggregateRows(g, s), c, V)
<1> DEFINE k == s.group_by
           keys == ToSet(k)
           cols == keys \cup Outputs(s)
           x == SortBy(Heads(f, k), k)
           y == SortBy(Heads(g, k), k)
           p == AggregateRows(f, s)
           q == AggregateRows(g, s)
<1>1. Typed(f) /\ Typed(g) /\ f.cols = g.cols /\ Same(f, g, c, V)
    BY DEF Twins
<1>2. p = OkFrame(cols, Summed(f, s, x, keys)) /\ q = OkFrame(cols, Summed(g, s, y, keys))
    BY DEF AggregateRows, Summed, Alike, Heads
<1>3. p.rows = Summed(f, s, x, keys) /\ q.rows = Summed(g, s, y, keys)
    <2> HIDE DEF p, q, x, y, keys, cols
    <2> QED BY <1>2, Made
<1>4. Same(x, y, c, V)
    <2>1. Same(Heads(f, k), Heads(g, k), c, V)
        BY FirstsAlike DEF Heads
    <2>2. Typed(Heads(f, k)) /\ Typed(Heads(g, k)) /\ Heads(f, k).cols = f.cols /\ Heads(g, k).cols = f.cols
        BY <1>1, HeadsKept
    <2> QED BY <2>1, <2>2, SortByAlike
<1> HIDE DEF p, q, x, y
<1>5. PICK e : Ties(e, x, y, c, V)
    BY <1>4 DEF Same
<1>6. /\ DOMAIN p.rows = DOMAIN x.rows /\ \A i \in DOMAIN x.rows : p.rows[i].val[c] = x.rows[i].val[c]
      /\ DOMAIN q.rows = DOMAIN y.rows /\ \A i \in DOMAIN y.rows : q.rows[i].val[c] = y.rows[i].val[c]
    BY <1>3 DEF Summed
<1>7. ASSUME NEW i \in Kin(x, c, V)
      PROVE  q.rows[e[i]] = p.rows[i]
    <2>1. i \in DOMAIN x.rows /\ e[i] \in DOMAIN y.rows /\ y.rows[e[i]] = x.rows[i] /\ x.rows[i].val[c] \in V
        BY <1>5, KinRows DEF Kin
    <2>2. /\ Origins(f, Alike(f, k, x.rows[i])) = Origins(g, Alike(g, k, x.rows[i]))
          /\ AggValues(f, s, Alike(f, k, x.rows[i])) = AggValues(g, s, Alike(g, k, x.rows[i]))
        BY <1>1, <2>1, FoldsAlike
    <2> DEFINE row(h, r) == [val |-> [d \in cols |-> IF d \in keys THEN r.val[d] ELSE AggValues(h, s, Alike(h, k, r))[d]],
                             from |-> Origins(h, Alike(h, k, r))]
    <2>3. p.rows[i] = row(f, x.rows[i]) /\ q.rows[e[i]] = row(g, y.rows[e[i]])
        BY <1>3, <2>1 DEF Summed
    <2>4. row(f, x.rows[i]) = row(g, x.rows[i])
        BY <2>2
    <2> HIDE DEF row
    <2> QED BY <2>1, <2>3, <2>4
<1>8. Ties(e, p, q, c, V)
    BY <1>5, <1>6, <1>7, MapsAlike
<1> QED BY <1>8 DEF Same, p, q

LEMMA ResamplesAlike ==
    ASSUME NEW f, NEW g, NEW c, NEW V, Twins(f, g, c, V), NEW s \in Steps, s.group_by \in Seq(f.cols), s.order_by \in f.cols,
           c \in ToSet(s.group_by), c # s.order_by, (ToSet(s.group_by) \cup {s.order_by}) \cap Outputs(s) = {},
           ResampleRows(f, s).status = "ok", ResampleRows(g, s).status = "ok"
    PROVE  Same(ResampleRows(f, s), ResampleRows(g, s), c, V)
<1> DEFINE b == s.order_by
           d == [s EXCEPT !.group_by = Append(@, s.order_by)]
           x == Dated(f, b)
           y == Dated(g, b)
<1>1. Typed(f) /\ Typed(g) /\ f.cols = g.cols /\ c \in f.cols
    BY DEF Twins
<1>2. PICK e : Ties(e, f, g, c, V)
    BY DEF Twins, Same
<1>3. ResampleRows(f, s) = AggregateRows(x, d) /\ ResampleRows(g, s) = AggregateRows(y, d)
    BY <1>1, Resamples
<1>4. /\ Typed(x) /\ x.cols = f.cols /\ x.rows = [i \in DOMAIN f.rows |-> [f.rows[i] EXCEPT !.val[b] = Ending(@)]]
      /\ \A i \in DOMAIN f.rows : x.rows[i].val[c] = f.rows[i].val[c]
    <2> DEFINE z == Dated(f, b)
    <2>1. b \in f.cols /\ c \in f.cols \ {b}
        BY <1>1
    <2>2. /\ Typed(z) /\ z.cols = f.cols /\ z.rows = [i \in DOMAIN f.rows |-> [f.rows[i] EXCEPT !.val[b] = Ending(@)]]
          /\ \A i \in DOMAIN f.rows : \A m \in f.cols \ {b} : z.rows[i].val[m] = f.rows[i].val[m]
        BY <1>1, <2>1, DatedTraces
    <2> HIDE DEF z, b
    <2>3. \A i \in DOMAIN f.rows : z.rows[i].val[c] = f.rows[i].val[c]
        BY <2>1, <2>2
    <2> QED BY <1>1, <2>2, <2>3 DEF z
<1>5. /\ Typed(y) /\ y.cols = f.cols /\ y.rows = [i \in DOMAIN g.rows |-> [g.rows[i] EXCEPT !.val[b] = Ending(@)]]
      /\ \A i \in DOMAIN g.rows : y.rows[i].val[c] = g.rows[i].val[c]
    <2> DEFINE z == Dated(g, b)
    <2>1. b \in g.cols /\ c \in g.cols \ {b}
        BY <1>1
    <2>2. /\ Typed(z) /\ z.cols = g.cols /\ z.rows = [i \in DOMAIN g.rows |-> [g.rows[i] EXCEPT !.val[b] = Ending(@)]]
          /\ \A i \in DOMAIN g.rows : \A m \in g.cols \ {b} : z.rows[i].val[m] = g.rows[i].val[m]
        BY <1>1, <2>1, DatedTraces
    <2> HIDE DEF z, b
    <2>3. \A i \in DOMAIN g.rows : z.rows[i].val[c] = g.rows[i].val[c]
        BY <2>1, <2>2
    <2> QED BY <1>1, <2>2, <2>3 DEF z
<1> HIDE DEF x, y
<1>6. \A i \in Kin(f, c, V) : y.rows[e[i]] = x.rows[i]
    <2> TAKE i \in Kin(f, c, V)
    <2>1. i \in DOMAIN f.rows /\ e[i] \in DOMAIN g.rows /\ g.rows[e[i]] = f.rows[i]
        BY <1>2, KinRows
    <2> QED BY <1>4, <1>5, <2>1
<1>7. Ties(e, x, y, c, V)
    <2>1. DOMAIN x.rows = DOMAIN f.rows /\ DOMAIN y.rows = DOMAIN g.rows
        BY <1>4, <1>5
    <2>2. /\ \A i \in DOMAIN f.rows : x.rows[i].val[c] = f.rows[i].val[c]
          /\ \A i \in DOMAIN g.rows : y.rows[i].val[c] = g.rows[i].val[c]
        BY <1>4, <1>5
    <2> QED BY <1>2, <1>6, <2>1, <2>2, MapsAlike
<1>8. Twins(x, y, c, V)
    BY <1>1, <1>4, <1>5, <1>7 DEF Twins, Same
<1>9. ToSet(d.group_by) = ToSet(s.group_by) \cup {s.order_by} /\ Outputs(d) = Outputs(s)
    BY DatedStep
<1>10. d.group_by \in Seq(x.cols)
    <2>1. d.group_by = Append(s.group_by, s.order_by)
        BY StepsAreTyped DEF NoStep
    <2>2. Append(s.group_by, s.order_by) \in Seq(f.cols)
        BY AppendProperties
    <2> HIDE DEF d
    <2> QED BY <1>4, <2>1, <2>2
<1> HIDE DEF d
<1>11. Same(AggregateRows(x, d), AggregateRows(y, d), c, V)
    BY <1>8, <1>9, <1>10, AggregatesAlike
<1> QED BY <1>3, <1>11

-----------------------------------------------------------------------------
\* A step that chooses no rows by comparing them, and computes over groups of one security each
\* at most, treats such rows alike in both frames.
Apiece(s, c) ==
    /\ s.op \notin Selecting \cup {"sort", "limit", "aggregate", "summarize"}
    /\ s.op \in Grouping => c \in ToSet(s.group_by) /\ ~s.consecutive /\ s.op # "match_at_offset"
    /\ c \notin New(s) /\ (s.op = "resample" => c # s.order_by)

LEMMA RowStepsAlike ==
    ASSUME NEW f, NEW g, NEW c, NEW V, Twins(f, g, c, V), NEW s \in Steps, s.op \in RowSteps, WellFormed(s), Read(s) \subseteq f.cols,
           Apiece(s, c), c \in Leaves(s, f.cols), Rowwise(f, s).status = "ok", Rowwise(g, s).status = "ok"
    PROVE  Same(Rowwise(f, s), Rowwise(g, s), c, V)
<1>1. CASE s.op = "select_fields"
    <2>1. Rowwise(f, s) = Project(f, ToSet(s.fields)) /\ Rowwise(g, s) = Project(g, ToSet(s.fields))
        BY <1>1 DEF Rowwise, SelectFields
    <2>2. s.fields \in Seq(f.cols)
        BY <1>1, Arguments DEF Copies
    <2>3. ToSet(s.fields) \subseteq f.cols
        BY <2>2 DEF ToSet
    <2>4. c \in ToSet(s.fields)
        BY <1>1, OthersLeave
    <2> QED BY <2>1, <2>3, <2>4, SelectsAlike
<1>2. CASE s.op = "rename_fields"
    <2>1. Rowwise(f, s) = RenameFields(f, s) /\ Rowwise(g, s) = RenameFields(g, s)
        BY <1>2 DEF Rowwise
    <2>2. Range(s.map) = New(s)
        BY <1>2 DEF New, Copies, Adding, Rolling, Shifts, Cumulative, Members
    <2>3. c \notin Range(s.map)
        BY <2>2 DEF Apiece
    <2>4. c \notin DOMAIN s.map
        <3>1. c \in (f.cols \ DOMAIN s.map) \cup Range(s.map)
            BY <1>2, OthersLeave
        <3> QED BY <2>3, <3>1
    <2> QED BY <2>1, <2>3, <2>4, RenamesAlike
<1>3. CASE s.op = "drop_missing"
    <2>1. Rowwise(f, s) = DropMissing(f, s) /\ Rowwise(g, s) = DropMissing(g, s)
        BY <1>3 DEF Rowwise
    <2> QED BY <2>1, FiltersAlike
<1>4. CASE s.op \in {"filter", "having"}
    <2>1. Rowwise(f, s) = FilterRows(f, s) /\ Rowwise(g, s) = FilterRows(g, s)
        BY <1>4 DEF Rowwise
    <2> QED BY <2>1, FiltersAlike
<1>5. CASE s.op = "filter_set"
    <2>1. Rowwise(f, s) = FilterSet(f, s) /\ Rowwise(g, s) = FilterSet(g, s)
        BY <1>5 DEF Rowwise
    <2> QED BY <2>1, FiltersAlike
<1>6. CASE s.op = "filter_range"
    <2>1. Rowwise(f, s) = FilterRange(f, s) /\ Rowwise(g, s) = FilterRange(g, s)
        BY <1>6 DEF Rowwise
    <2> QED BY <2>1, FiltersAlike
<1>7. CASE s.op = "filter_null"
    <2>1. Rowwise(f, s) = FilterNull(f, s) /\ Rowwise(g, s) = FilterNull(g, s)
        BY <1>7 DEF Rowwise
    <2> QED BY <2>1, FiltersAlike
<1>8. CASE s.op = "weighted_mean"
    <2>1. Rowwise(f, s) = WeightedMean(f, s) /\ Rowwise(g, s) = WeightedMean(g, s)
        BY <1>8 DEF Rowwise
    <2>2. s.group_by \in Seq(f.cols)
        BY Arguments
    <2>3. c \in ToSet(s.group_by)
        BY <1>8 DEF Apiece, Grouping
    <2>4. s.output # c
        BY <1>8 DEF Apiece, New, Copies
    <2> QED BY <2>1, <2>2, <2>3, <2>4, WeightsAlike
<1>9. CASE s.op = "resample"
    <2>1. Rowwise(f, s) = ResampleRows(f, s) /\ Rowwise(g, s) = ResampleRows(g, s)
        BY <1>9 DEF Rowwise
    <2>2. s.group_by \in Seq(f.cols) /\ s.order_by \in f.cols
        BY <1>9, Arguments DEF Ordering
    <2>3. c \in ToSet(s.group_by)
        BY <1>9 DEF Apiece, Grouping
    <2>4. c # s.order_by
        BY <1>9 DEF Apiece
    <2>5. (ToSet(s.group_by) \cup {s.order_by}) \cap Outputs(s) = {}
        BY <1>9 DEF WellFormed, Consistent
    <2> QED BY <2>1, <2>2, <2>3, <2>4, <2>5, ResamplesAlike
<1> QED BY <1>1, <1>2, <1>3, <1>4, <1>5, <1>6, <1>7, <1>8, <1>9 DEF RowSteps, Apiece, Selecting

LEMMA AddsAlike ==
    ASSUME NEW f, NEW g, NEW c, NEW V, Twins(f, g, c, V), NEW s \in Steps, s.op \in Adding \ Members, WellFormed(s),
           Read(s) \subseteq f.cols, Apiece(s, c), AddColumn(f, s).status = "ok", AddColumn(g, s).status = "ok"
    PROVE  Same(AddColumn(f, s), AddColumn(g, s), c, V)
<1>0. s.op # "match_at_offset"
    BY DEF Apiece, Grouping
<1>1. s.output # c
    <2>1. s.op \notin Copies \cup {"asof_join"}
        BY DEF Copies, Adding, Rolling, Shifts, Cumulative, Members
    <2>2. s.op \in (Adding \ {"match_at_offset"}) \cup {"weighted_mean"} /\ s.op # "rename_fields"
        BY <1>0 DEF Adding, Rolling, Shifts, Cumulative, Members
    <2>3. New(s) = {s.output}
        BY <1>0, <2>1, <2>2 DEF New
    <2> QED BY <2>3 DEF Apiece
<1>2. s.group_by \in Seq(f.cols) /\ (s.op \in Ordering => s.order_by \in f.cols)
    BY Arguments
<1>3. s.op \in Grouping => GroupsBy(s, f, c)
    BY <1>1, <1>2 DEF Apiece, GroupsBy
<1>4. CASE s.op = "derive"
    <2>1. AddColumn(f, s) = DeriveColumn(f, s) /\ AddColumn(g, s) = DeriveColumn(g, s)
        BY <1>4 DEF AddColumn, Rolling, Shifts, Cumulative
    <2> QED BY <1>1, <2>1, DerivesAlike
<1>5. CASE s.op \in Rolling
    <2>1. AddColumn(f, s) = RollingColumn(f, s) /\ AddColumn(g, s) = RollingColumn(g, s)
        BY <1>5 DEF AddColumn, Rolling, Shifts, Cumulative
    <2>2. s.op \in Grouping /\ s.op \in Ordering
        BY <1>5 DEF Grouping, Ordering
    <2> QED BY <1>2, <1>3, <2>1, <2>2, RollingAlike
<1>6. CASE s.op = "group_transform"
    <2>1. AddColumn(f, s) = GroupTransform(f, s) /\ AddColumn(g, s) = GroupTransform(g, s)
        BY <1>6 DEF AddColumn, Rolling, Shifts, Cumulative
    <2>2. s.op \in Grouping
        BY <1>6 DEF Grouping
    <2> QED BY <1>3, <2>1, <2>2, TransformAlike
<1>7. CASE s.op = "normalize"
    <2>1. AddColumn(f, s) = NormalizeColumn(f, s) /\ AddColumn(g, s) = NormalizeColumn(g, s)
        BY <1>7 DEF AddColumn, Rolling, Shifts, Cumulative
    <2>2. s.op \in Grouping
        BY <1>7 DEF Grouping
    <2> QED BY <1>3, <2>1, <2>2, TransformAlike
<1>8. CASE s.op \in {"rank", "dense_rank"}
    <2>1. AddColumn(f, s) = RankColumn(f, s) /\ AddColumn(g, s) = RankColumn(g, s)
        BY <1>8 DEF AddColumn, Rolling, Shifts, Cumulative
    <2>2. s.op \in Grouping
        BY <1>8 DEF Grouping
    <2> QED BY <1>3, <2>1, <2>2, TransformAlike
<1>9. CASE s.op = "row_number"
    <2>1. AddColumn(f, s) = RowNumber(f, s) /\ AddColumn(g, s) = RowNumber(g, s)
        BY <1>9 DEF AddColumn, Rolling, Shifts, Cumulative
    <2>2. s.op \in Grouping /\ s.op \in Ordering
        BY <1>9 DEF Grouping, Ordering
    <2> QED BY <1>2, <1>3, <2>1, <2>2, RowNumberAlike
<1>10. CASE s.op \in Shifts
    <2>1. AddColumn(f, s) = ShiftColumn(f, s) /\ AddColumn(g, s) = ShiftColumn(g, s)
        BY <1>10 DEF AddColumn, Rolling, Shifts, Cumulative
    <2>2. s.op \in Grouping /\ s.op \in Ordering
        BY <1>10 DEF Grouping, Ordering
    <2> QED BY <1>2, <1>3, <2>1, <2>2, ShiftAlike
<1>11. CASE s.op \in Cumulative
    <2>1. AddColumn(f, s) = CumulativeColumn(f, s) /\ AddColumn(g, s) = CumulativeColumn(g, s)
        BY <1>11 DEF AddColumn, Rolling, Shifts, Cumulative
    <2>2. s.op \in Grouping /\ s.op \in Ordering
        BY <1>11 DEF Grouping, Ordering
    <2> QED BY <1>2, <1>3, <2>1, <2>2, CumulativeAlike
<1>12. CASE s.op \in {"compare_fields", "compare_scalar"}
    <2>1. AddColumn(f, s) = CompareColumn(f, s) /\ AddColumn(g, s) = CompareColumn(g, s)
        BY <1>12 DEF AddColumn, Rolling, Shifts, Cumulative
    <2> QED BY <1>1, <2>1, ComparesAlike
<1>13. CASE s.op \in {"coalesce", "fill_constant", "clip", "conditional_value"}
    <2>1. AddColumn(f, s) = CleanColumn(f, s) /\ AddColumn(g, s) = CleanColumn(g, s)
        BY <1>13 DEF AddColumn, Rolling, Shifts, Cumulative
    <2> QED BY <1>1, <2>1, ComparesAlike
<1> QED BY <1>0, <1>4, <1>5, <1>6, <1>7, <1>8, <1>9, <1>10, <1>11, <1>12, <1>13 DEF Adding

LEMMA CombinesAlike ==
    ASSUME NEW f, NEW g, NEW c, NEW V, Twins(f, g, c, V), NEW s \in Steps, s.op \in RightOps, WellFormed(s), Read(s) \subseteq f.cols,
           Apiece(s, c), NEW right, Typed(right), s.op = "union_all" => right.cols = f.cols,
           Combine(f, s, right).status = "ok", Combine(g, s, right).status = "ok"
    PROVE  Same(Combine(f, s, right), Combine(g, s, right), c, V)
<1>1. CASE s.op \in Members
    <2>1. Combine(f, s, right) = MarkMatches(f, s, right) /\ Combine(g, s, right) = MarkMatches(g, s, right)
        BY <1>1 DEF Combine, Members, Copies
    <2>2. s.output # c
        BY <1>1, MarkedColumns DEF Apiece
    <2> QED BY <2>1, <2>2, MembersAlike
<1>2. CASE s.op \in {"semi_join", "anti_join"}
    <2>1. Combine(f, s, right) = SemiJoin(f, s, right) /\ Combine(g, s, right) = SemiJoin(g, s, right)
        BY <1>2 DEF Combine, Members, Copies
    <2>2. Same(SemiJoin(f, s, right), SemiJoin(g, s, right), c, V)
        BY MembersAlike
    <2> QED BY <2>1, <2>2
<1>3. CASE s.op \in Copies
    <2>1. Combine(f, s, right) = JoinColumns(f, s, right) /\ Combine(g, s, right) = JoinColumns(g, s, right)
        BY <1>3 DEF Combine, Members, Copies
    <2> QED BY <2>1, JoinsAlike
<1>4. CASE s.op = "asof_join"
    <2>1. Combine(f, s, right) = AsofJoin(f, s, right) /\ Combine(g, s, right) = AsofJoin(g, s, right)
        BY <1>4 DEF Combine, Members, Copies
    <2>2. s.group_by \in Seq(f.cols) /\ s.order_by \in f.cols
        BY <1>4, Arguments DEF Ordering
    <2> QED BY <2>1, <2>2, AsofsAlike
<1>5. CASE s.op = "union_all"
    <2>1. Combine(f, s, right) = UnionRows(f, s, right) /\ Combine(g, s, right) = UnionRows(g, s, right)
        BY <1>5 DEF Combine, Members, Copies
    <2> QED BY <1>5, <2>1, UnionsAlike
<1> QED BY <1>1, <1>2, <1>3, <1>4, <1>5 DEF RightOps, KeyJoins, Apiece, Selecting

LEMMA ExecuteAlike ==
    ASSUME NEW f, f.status = "ok", NEW g, g.status = "ok", NEW c, NEW V, Twins(f, g, c, V), NEW s \in Steps, NEW aggregated,
           Accepts(s, f.cols, aggregated, ResultFields), Apiece(s, c), c \in Leaves(s, f.cols),
           Execute(f, s).status = "ok", Execute(g, s).status = "ok"
    PROVE  Same(Execute(f, s), Execute(g, s), c, V)
<1>0. /\ Typed(f) /\ Typed(g) /\ g.cols = f.cols
      /\ Fails(f, "data").status # "ok" /\ Fails(g, "data").status # "ok"
    BY DEF Twins, Fails, Typed, IsFrame
<1>1. ~Unreadable(f, s) /\ ~Unreadable(g, s)
    BY <1>0, AcceptedIsReadable
<1>2. s.op \in Operations
    BY StepsAreTyped
<1>3. WellFormed(s) /\ Read(s) \subseteq f.cols
    BY DEF Accepts, Needed
<1>4. CASE s.op \in RightOps
    <2>1. s.right \in DOMAIN Results /\ Typed(Results[s.right]) /\ (s.op = "union_all" => Results[s.right].cols = f.cols)
        BY <1>4, ResultsAreTyped DEF Accepts, ResultFields
    <2>2. Execute(f, s) = Combine(f, s, Results[s.right])
        BY <1>0, <1>1, <1>4 DEF Execute
    <2>3. Execute(g, s) = Combine(g, s, Results[s.right])
        BY <1>0, <1>1, <1>4 DEF Execute
    <2> QED BY <1>3, <1>4, <2>1, <2>2, <2>3, CombinesAlike
<1>5. CASE s.op \in Adding \ RightOps
    <2>1. Execute(f, s) = AddColumn(f, s)
        BY <1>1, <1>5 DEF Execute
    <2>2. Execute(g, s) = AddColumn(g, s)
        BY <1>1, <1>5 DEF Execute
    <2>3. s.op \in Adding \ Members
        BY <1>5 DEF RightOps
    <2> QED BY <1>3, <2>1, <2>2, <2>3, AddsAlike
<1>6. CASE s.op \notin Adding \cup RightOps
    <2>1. Execute(f, s) = Rowwise(f, s)
        BY <1>1, <1>6 DEF Execute
    <2>2. Execute(g, s) = Rowwise(g, s)
        BY <1>1, <1>6 DEF Execute
    <2>3. s.op \in RowSteps
        BY <1>2, <1>6 DEF Operations
    <2> QED BY <1>3, <2>1, <2>2, <2>3, RowStepsAlike
<1> QED BY <1>4, <1>5, <1>6

-----------------------------------------------------------------------------
\* THE PIPELINE OVER THE SOURCE AND OVER THE RESTRICTED SOURCE.

Admits == {v \in Int : Admitted(v)}
\* A row that the marker marks has an admitted security.
Vouches(f, m) == \A i \in DOMAIN f.rows : f.rows[i].val[m] = 1 => Admitted(f.rows[i].val[Security])
\* The frames have the same rows of admitted securities and, for every marker, the same rows
\* that it marks, as far as the columns still say so.
Tied(f, g, l) ==
    /\ Security \in f.cols \ l.loose => Same(f, g, Security, Admits)
    /\ \A m \in (l.markers \ l.loose) \cap f.cols :
          Same(f, g, m, {1}) /\ (Security \in f.cols \ l.loose => Vouches(f, m) /\ Vouches(g, m))

\* What the steps of one behaviour do to both frames.
Beside(f, g) == /\ Typed(f) /\ Typed(g) /\ g.cols = f.cols /\ f.status = "ok" /\ g.status = "ok"
Runs(f, g, s) ==
    /\ Beside(f, g) /\ s \in Steps /\ Accepts(s, f.cols, lineage.aggregated, ResultFields)
    /\ Execute(f, s).status = "ok" /\ Execute(g, s).status = "ok"

LEMMA RunsOn ==
    ASSUME NEW f, NEW g, NEW s, Runs(f, g, s)
    PROVE  /\ Beside(Execute(f, s), Execute(g, s)) /\ Execute(f, s).cols = Leaves(s, f.cols)
           /\ Follows(Execute(f, s), f, s) /\ Follows(Execute(g, s), g, s)
           /\ Read(s) \subseteq f.cols /\ WellFormed(s)
<1>1. /\ Typed(f) /\ Typed(g) /\ g.cols = f.cols /\ f.status = "ok" /\ g.status = "ok" /\ s \in Steps
      /\ IsFrame(f) /\ IsFrame(g) /\ Accepts(s, f.cols, lineage.aggregated, ResultFields)
      /\ Execute(f, s).status = "ok" /\ Execute(g, s).status = "ok"
    BY DEF Runs, Beside, Typed
<1>2. Accepts(s, g.cols, lineage.aggregated, ResultFields)
    BY <1>1
<1>3. Follows(Execute(f, s), f, s)
    BY <1>1, ExecuteFollows
<1>4. Follows(Execute(g, s), g, s)
    BY <1>1, <1>2, ExecuteFollows
<1>5. Typed(Execute(f, s)) /\ Typed(Execute(g, s))
    BY <1>3, <1>4 DEF Follows, Stays
<1>6. Execute(f, s).cols = Leaves(s, f.cols)
    BY <1>1, AcceptedFits DEF Fits
<1>7. Execute(g, s).cols = Leaves(s, f.cols)
    <2>1. Fits(Execute(g, s), s, Leaves(s, g.cols))
        BY <1>1, <1>2, AcceptedFits
    <2> QED BY <1>1, <2>1 DEF Fits
<1>8. Read(s) \subseteq f.cols /\ WellFormed(s)
    BY <1>1 DEF Accepts, Needed
<1> QED BY <1>1, <1>3, <1>4, <1>5, <1>6, <1>7, <1>8 DEF Beside

\* A column that such a step may follow.
LEMMA RunsAlike ==
    ASSUME NEW f, NEW g, NEW s, Runs(f, g, s), NEW c, NEW V, c \in f.cols, c \in Execute(f, s).cols, Same(f, g, c, V), Apiece(s, c)
    PROVE  Same(Execute(f, s), Execute(g, s), c, V)
<1>1. /\ s \in Steps /\ f.status = "ok" /\ g.status = "ok" /\ Accepts(s, f.cols, lineage.aggregated, ResultFields)
      /\ Execute(f, s).status = "ok" /\ Execute(g, s).status = "ok"
    BY DEF Runs, Beside
<1>2. Twins(f, g, c, V)
    BY DEF Runs, Beside, Twins
<1>3. c \in Leaves(s, f.cols)
    BY RunsOn
<1> QED BY <1>1, <1>2, <1>3, ExecuteAlike

\* Whatever a marker vouches for, it vouches for in the rows that come from them.
LEMMA VouchesOn ==
    ASSUME NEW f, NEW g, NEW T, Comes(g, f, T), NEW m \in g.cols \ T, Security \in g.cols \ T, Vouches(f, m)
    PROVE  Vouches(g, m)
<1>1. ASSUME NEW k \in DOMAIN g.rows, g.rows[k].val[m] = 1
      PROVE  Admitted(g.rows[k].val[Security])
    <2>1. PICK j \in DOMAIN f.rows : \A c \in g.cols \ T : g.rows[k].val[c] = f.rows[j].val[c]
        BY DEF Comes
    <2>2. f.rows[j].val[m] = 1 /\ f.rows[j].val[Security] = g.rows[k].val[Security]
        BY <1>1, <2>1
    <2>3. Admitted(f.rows[j].val[Security])
        BY <2>2 DEF Vouches
    <2> QED BY <2>2, <2>3
<1> QED BY <1>1 DEF Vouches

\* The rows that a marker marks are some of those of the admitted securities.
LEMMA MarkedAlike ==
    ASSUME NEW f, NEW g, Beside(f, g), NEW m, Security \in f.cols, Same(f, g, Security, Admits), Vouches(f, m), Vouches(g, m)
    PROVE  Same(f, g, m, {1})
<1>1. ASSUME NEW h, Typed(h), Security \in h.cols, Vouches(h, m), NEW i \in DOMAIN h.rows, h.rows[i].val[m] \in {1}
      PROVE  h.rows[i].val[Security] \in Admits
    <2>1. h.rows[i].val[Security] \in Int
        BY <1>1, RowsOf
    <2>2. Admitted(h.rows[i].val[Security])
        BY <1>1 DEF Vouches
    <2> QED BY <2>1, <2>2 DEF Admits
<1>2. \A i \in DOMAIN f.rows : f.rows[i].val[m] \in {1} => f.rows[i].val[Security] \in Admits
    BY <1>1 DEF Beside
<1>3. \A i \in DOMAIN g.rows : g.rows[i].val[m] \in {1} => g.rows[i].val[Security] \in Admits
    BY <1>1 DEF Beside
<1> QED BY <1>2, <1>3, SameWithin

\* A step that marks the members ties its marker to the security.
LEMMA MarksTie ==
    ASSUME NEW f, NEW g, NEW s, Runs(f, g, s), Tied(f, g, lineage), MarksSecurities(s)
    PROVE  Tied(Execute(f, s), Execute(g, s), NewLineage(s))
<1> DEFINE right == Results[MemberQuery]
           F == Execute(f, s)
           G == Execute(g, s)
           l == NewLineage(s)
<1>1. s.op \in Members /\ s.right = MemberQuery /\ Security \in ToSet(s.join_on) \ lineage.loose
    BY DEF MarksSecurities
<1>2. /\ Typed(f) /\ Typed(g) /\ g.cols = f.cols /\ f.status = "ok" /\ g.status = "ok"
      /\ s \in Steps /\ Accepts(s, f.cols, lineage.aggregated, ResultFields) /\ F.status = "ok" /\ G.status = "ok"
    BY DEF Runs, Beside
<1>3. ASSUME NEW h, Typed(h), h.status = "ok", h.cols = f.cols, Execute(h, s).status = "ok"
      PROVE  Execute(h, s) = MarkMatches(h, s, right)
    <2>1. s.op \in RightOps
        BY <1>1 DEF RightOps
    <2>2. Fails(h, "data").status # "ok"
        BY <1>3 DEF Fails, Typed, IsFrame
    <2>3. ~Unreadable(h, s)
        BY <1>2, <1>3, AcceptedIsReadable
    <2>4. Execute(h, s) = Combine(h, s, right)
        BY <1>1, <1>3, <2>1, <2>2, <2>3 DEF Execute
    <2> QED BY <1>1, <2>4 DEF Combine, Members, Copies
<1>4. Security \in f.cols /\ s.output \notin f.cols
    <2>1. Read(s) \subseteq f.cols /\ NewIsNew(s, f.cols)
        BY <1>2 DEF Accepts, Needed
    <2>2. Kept(s, f.cols) = f.cols
        BY <1>1 DEF Kept, Members
    <2> QED BY <1>1, <2>1, <2>2, MarkedColumns DEF Read, NewIsNew
<1>5. F = MarkMatches(f, s, right) /\ G = MarkMatches(g, s, right)
    BY <1>2, <1>3
<1>6. l.loose = lineage.loose \ {s.output} /\ l.markers = lineage.markers \cup {s.output}
    BY <1>1 DEF NewLineage
<1>7. Typed(F) /\ Typed(G) /\ G.cols = F.cols /\ F.cols = f.cols \cup {s.output}
    <2>1. Typed(F) /\ Typed(G) /\ G.cols = F.cols
        BY RunsOn DEF Beside
    <2>2. F.cols = f.cols \cup {s.output}
        BY <1>5, Widened DEF MarkMatches
    <2> QED BY <2>1, <2>2
<1>8. ASSUME NEW h, Typed(h), h.cols = f.cols
      PROVE  Marks(MarkMatches(h, s, right), h, s, right)
    <2> HIDE DEF right
    <2> QED BY <1>8, MarksTrace
<1>9. Marks(F, f, s, right) /\ Marks(G, g, s, right)
    BY <1>2, <1>5, <1>8
<1>10. ASSUME NEW c \in f.cols, NEW V, Same(f, g, c, V)
       PROVE  Same(F, G, c, V)
    <2>1. Twins(f, g, c, V)
        BY <1>2, <1>10 DEF Twins
    <2>2. s.output # c
        BY <1>4
    <2> HIDE DEF right
    <2>3. Same(MarkMatches(f, s, right), MarkMatches(g, s, right), c, V)
        BY <2>1, <2>2, MembersAlike
    <2> QED BY <1>5, <2>3
<1> HIDE DEF F, G, l
<1>11. ASSUME NEW h, h.cols = f.cols, NEW H, Marks(H, h, s, right)
       PROVE  /\ Vouches(H, s.output)
              /\ \A m \in f.cols : Vouches(h, m) => Vouches(H, m)
    <2>1. ASSUME NEW k \in DOMAIN H.rows
          PROVE  /\ k \in DOMAIN h.rows /\ H.rows[k].val[Security] = h.rows[k].val[Security]
                 /\ \A m \in f.cols : H.rows[k].val[m] = h.rows[k].val[m]
                 /\ H.rows[k].val[s.output] = 1 => Matches(h.rows[k], right, s.join_on) # {}
        BY <1>4, <1>11 DEF Marks
    <2>2. ASSUME NEW k \in DOMAIN H.rows, H.rows[k].val[s.output] = 1
          PROVE  Admitted(H.rows[k].val[Security])
        <3>1. Admitted(h.rows[k].val[Security])
            BY <1>1, <2>1, <2>2, MatchedIsAdmitted
        <3> QED BY <2>1, <3>1
    <2>3. ASSUME NEW m \in f.cols, Vouches(h, m), NEW k \in DOMAIN H.rows, H.rows[k].val[m] = 1
          PROVE  Admitted(H.rows[k].val[Security])
        <3>1. Admitted(h.rows[k].val[Security])
            BY <2>1, <2>3 DEF Vouches
        <3> QED BY <2>1, <3>1
    <2> QED BY <2>2, <2>3 DEF Vouches
<1>12. /\ Same(f, g, Security, Admits)
       /\ \A m \in (lineage.markers \ lineage.loose) \cap f.cols : Same(f, g, m, {1}) /\ Vouches(f, m) /\ Vouches(g, m)
    BY <1>1, <1>4 DEF Tied
<1>13. Same(F, G, Security, Admits)
    BY <1>4, <1>10, <1>12
<1>14. Vouches(F, s.output) /\ Vouches(G, s.output)
    BY <1>2, <1>9, <1>11
<1>15. Same(F, G, s.output, {1})
    <2>1. Beside(F, G)
        BY RunsOn DEF F, G
    <2> QED BY <1>4, <1>7, <1>13, <1>14, <2>1, MarkedAlike
<1>16. ASSUME NEW m \in (l.markers \ l.loose) \cap F.cols
       PROVE  Same(F, G, m, {1}) /\ Vouches(F, m) /\ Vouches(G, m)
    <2>1. CASE m = s.output
        BY <1>14, <1>15, <2>1
    <2>2. CASE m # s.output
        <3>1. m \in (lineage.markers \ lineage.loose) \cap f.cols
            BY <1>6, <1>7, <2>2
        <3>2. Same(F, G, m, {1})
            BY <1>10, <1>12, <3>1
        <3> QED BY <1>2, <1>9, <1>11, <1>12, <3>1, <3>2
    <2> QED BY <2>1, <2>2
<1>17. Tied(F, G, l)
    BY <1>13, <1>16 DEF Tied
<1> QED BY <1>17 DEF F, G, l

\* A strict enforcement keeps the same rows of both frames.
LEMMA EnforcedAlike ==
    ASSUME NEW f, NEW g, NEW s, Runs(f, g, s), Tied(f, g, lineage), Strict(s)
    PROVE  Execute(f, s) = Execute(g, s)
<1> DEFINE right == Results[MemberQuery]
           F == Execute(f, s)
           G == Execute(g, s)
<1>1. /\ Typed(f) /\ Typed(g) /\ g.cols = f.cols /\ f.status = "ok" /\ g.status = "ok"
      /\ s \in Steps /\ Accepts(s, f.cols, lineage.aggregated, ResultFields) /\ F.status = "ok" /\ G.status = "ok"
    BY DEF Runs, Beside
<1>2. Read(s) \subseteq f.cols /\ WellFormed(s) /\ Typed(F) /\ Typed(G)
    BY RunsOn DEF Beside
<1>3. ASSUME NEW h, h.cols = f.cols
      PROVE  ~Unreadable(h, s)
    BY <1>1, <1>3, AcceptedIsReadable
<1>4. ASSUME NEW I, NEW J, F = KeepIndices(f, I), G = KeepIndices(g, J), F.rows = G.rows
      PROVE  F = G
    <2>1. DOMAIN f = {"status", "cols", "rows"} /\ DOMAIN g = {"status", "cols", "rows"}
        BY <1>1 DEF Typed, IsFrame
    <2>2. F.rows = Pick(f.rows, I) /\ G.rows = Pick(g.rows, J)
        BY <1>4, <2>1 DEF KeepIndices
    <2>3. F = [f EXCEPT !.rows = F.rows] /\ G = [g EXCEPT !.rows = F.rows]
        BY <1>4, <2>2 DEF KeepIndices
    <2> HIDE DEF F, G
    <2> QED BY <1>1, <2>1, <2>3
<1>5. CASE ByJoin(s)
    <2>1. s.op = "semi_join" /\ s.right = MemberQuery /\ Security \in ToSet(s.join_on) /\ Security \notin lineage.loose
        BY <1>5 DEF ByJoin, Strict
    <2>2. Security \in f.cols
        BY <1>2, <2>1 DEF Read
    <2>3. s.op \in RightOps
        BY <2>1 DEF RightOps, KeyJoins
    <2>4. ASSUME NEW h, Typed(h), h.status = "ok", h.cols = f.cols, Execute(h, s).status = "ok"
          PROVE  Execute(h, s) = SemiJoin(h, s, right)
        <3>1. Fails(h, "data").status # "ok"
            BY <2>4 DEF Fails, Typed, IsFrame
        <3>2. Execute(h, s) = Combine(h, s, right)
            BY <1>3, <2>1, <2>3, <2>4, <3>1 DEF Execute
        <3> QED BY <2>1, <3>2 DEF Combine, Members, Copies
    <2>5. F = SemiJoin(f, s, right) /\ G = SemiJoin(g, s, right)
        BY <1>1, <2>4
    <2> HIDE DEF right, F, G
    <2>6. Same(F, G, Security, Admits)
        <3>1. Twins(f, g, Security, Admits)
            BY <1>1, <2>1, <2>2 DEF Tied, Twins
        <3>2. Same(SemiJoin(f, s, right), SemiJoin(g, s, right), Security, Admits)
            BY <3>1, MembersAlike
        <3> QED BY <2>5, <3>2
    <2>7. ASSUME NEW h, Typed(h), h.cols = f.cols, NEW k \in DOMAIN SemiJoin(h, s, right).rows
          PROVE  SemiJoin(h, s, right).rows[k].val[Security] \in Admits
        <3>1. PICK i \in DOMAIN h.rows : SemiJoin(h, s, right).rows[k] = h.rows[i] /\ Matches(h.rows[i], right, s.join_on) # {}
            BY <2>1, <2>7, SemiTraces
        <3>2. Admitted(h.rows[i].val[Security])
            BY <2>1, <3>1, MatchedIsAdmitted DEF right
        <3>3. h.rows[i].val[Security] \in Int
            BY <2>2, <2>7, RowsOf
        <3> QED BY <3>1, <3>2, <3>3 DEF Admits
    <2>8. \A k \in DOMAIN F.rows : F.rows[k].val[Security] \in Admits
        BY <1>1, <2>5, <2>7
    <2>9. \A k \in DOMAIN G.rows : G.rows[k].val[Security] \in Admits
        BY <1>1, <2>5, <2>7
    <2>10. Kin(F, Security, Admits) = DOMAIN F.rows /\ Kin(G, Security, Admits) = DOMAIN G.rows
        BY <2>8, <2>9 DEF Kin
    <2>11. F.rows = G.rows
        BY <1>2, <2>6, <2>10, SameRows
    <2>12. PICK I : F = KeepIndices(f, I)
        BY <2>5 DEF SemiJoin, KeepWhere
    <2>13. PICK J : G = KeepIndices(g, J)
        BY <2>5 DEF SemiJoin, KeepWhere
    <2>14. F = G
        BY <1>4, <2>11, <2>12, <2>13
    <2> QED BY <2>14 DEF F, G
<1>6. CASE ~ByJoin(s)
    <2>1. ByMarker(s) /\ s.field \notin lineage.loose
        BY <1>6 DEF Strict, Enforces
    <2>2. s.op = "filter" /\ s.comparison = "eq" /\ s.value = 1 /\ s.field \in lineage.markers \ lineage.loose
        BY <2>1 DEF ByMarker
    <2>3. s.field \in f.cols
        BY <1>1, <1>2, <2>2, Arguments DEF OnField
    <2>4. ASSUME NEW h, h.status = "ok", h.cols = f.cols
          PROVE  Execute(h, s) = FilterRows(h, s)
        <3>1. s.op \notin RightOps \cup Adding
            BY <2>2 DEF RightOps, KeyJoins, Copies, Adding, Rolling, Shifts, Cumulative, Members
        <3>2. Execute(h, s) = Rowwise(h, s)
            BY <1>3, <2>4, <3>1 DEF Execute
        <3> QED BY <2>2, <3>2 DEF Rowwise
    <2>5. F = FilterRows(f, s) /\ G = FilterRows(g, s)
        BY <1>1, <2>4
    <2> HIDE DEF F, G
    <2>6. Same(F, G, s.field, {1})
        <3>1. Twins(f, g, s.field, {1})
            BY <1>1, <2>2, <2>3 DEF Tied, Twins
        <3>2. Same(FilterRows(f, s), FilterRows(g, s), s.field, {1})
            BY <3>1, FiltersAlike
        <3> QED BY <2>5, <3>2
    <2>7. ASSUME NEW r, r.val[s.field] \in Int, Satisfies(r, s)
          PROVE  r.val[s.field] = 1
        <3>1. Compare("eq", Against(r.val[s.field], 1), 1)
            BY <2>2, <2>7 DEF Satisfies
        <3>2. Against(r.val[s.field], 1) = 1
            BY <3>1 DEF Compare
        <3> QED BY <2>7, <3>2 DEF Against, IsNum, Num, Text, Null
    <2>8. ASSUME NEW h, Typed(h), h.cols = f.cols, Typed(FilterRows(h, s)), NEW k \in DOMAIN FilterRows(h, s).rows
          PROVE  FilterRows(h, s).rows[k].val[s.field] = 1
        <3>1. Satisfies(FilterRows(h, s).rows[k], s)
            BY <2>8, FilterLeaves DEF ToSet
        <3>2. FilterRows(h, s).cols = f.cols
            BY <2>8, KeepsSome DEF FilterRows, KeepWhere, Typed
        <3>3. FilterRows(h, s).rows[k].val[s.field] \in Int
            BY <2>3, <2>8, <3>2, RowsOf
        <3> QED BY <2>7, <3>1, <3>3
    <2>9. \A k \in DOMAIN F.rows : F.rows[k].val[s.field] = 1
        BY <1>1, <1>2, <2>5, <2>8
    <2>10. \A k \in DOMAIN G.rows : G.rows[k].val[s.field] = 1
        BY <1>1, <1>2, <2>5, <2>8
    <2>11. Kin(F, s.field, {1}) = DOMAIN F.rows /\ Kin(G, s.field, {1}) = DOMAIN G.rows
        BY <2>9, <2>10 DEF Kin
    <2>12. F.rows = G.rows
        BY <1>2, <2>6, <2>11, SameRows
    <2>13. PICK I : F = KeepIndices(f, I)
        BY <2>5 DEF FilterRows, KeepWhere
    <2>14. PICK J : G = KeepIndices(g, J)
        BY <2>5 DEF FilterRows, KeepWhere
    <2>15. F = G
        BY <1>4, <2>12, <2>13, <2>14
    <2> QED BY <2>15 DEF F, G
<1> QED BY <1>5, <1>6

\* A step that adds a column leaves the others of every row.
LEMMA AddedColumns ==
    ASSUME NEW f, NEW g, NEW s, Runs(f, g, s), s.op \in Adding \ Members
    PROVE  Comes(Execute(f, s), f, New(s)) /\ Comes(Execute(g, s), g, New(s)) /\ New(s) \cap f.cols = {} /\ f.cols \subseteq Execute(f, s).cols
<1>1. /\ Typed(f) /\ Typed(g) /\ g.cols = f.cols /\ f.status = "ok" /\ g.status = "ok" /\ s \in Steps
      /\ Accepts(s, f.cols, lineage.aggregated, ResultFields) /\ Execute(f, s).status = "ok" /\ Execute(g, s).status = "ok"
    BY DEF Runs, Beside
<1>2. Read(s) \subseteq f.cols /\ WellFormed(s) /\ Execute(f, s).cols = Leaves(s, f.cols)
    BY RunsOn
<1>3. s.op \in Adding \ RightOps
    BY DEF RightOps, KeyJoins, Copies, Adding, Rolling, Shifts, Cumulative, Members
<1>4. ASSUME NEW h, Typed(h), h.cols = f.cols, h.status = "ok", Execute(h, s).status = "ok"
      PROVE  Comes(Execute(h, s), h, New(s))
    <2>1. ~Unreadable(h, s)
        BY <1>1, <1>4, AcceptedIsReadable
    <2>2. Execute(h, s) = AddColumn(h, s)
        BY <1>3, <1>4, <2>1 DEF Execute
    <2> QED BY <1>1, <1>2, <1>4, <2>2, AddsTraces DEF Traces
<1>5. New(s) \cap f.cols = {}
    <2>1. Kept(s, f.cols) = f.cols
        BY DEF Kept, Adding, Rolling, Shifts, Cumulative, Members
    <2> QED BY <1>1, <2>1 DEF Accepts, NewIsNew
<1>6. f.cols \subseteq Execute(f, s).cols
    BY <1>2, AddingAdds
<1> QED BY <1>1, <1>4, <1>5, <1>6

\* A step that groups by the security, or by the column, treats both frames alike.
LEMMA GroupedTie ==
    ASSUME NEW f, NEW g, NEW s, Runs(f, g, s), Tied(f, g, lineage), s.op \in Grouping,
           Security \in ToSet(s.group_by) \ lineage.loose, ~s.consecutive, s.op # "match_at_offset",
           NEW m \in (lineage.markers \ lineage.loose) \cap f.cols, m \notin Touched(s), m \in Execute(f, s).cols
    PROVE  Same(Execute(f, s), Execute(g, s), m, {1})
<1>1. Security \in f.cols
    BY RunsOn DEF Read
<1>2. /\ Same(f, g, Security, Admits) /\ Same(f, g, m, {1}) /\ Vouches(f, m) /\ Vouches(g, m)
    BY <1>1 DEF Tied
<1>3. s.op \notin Selecting \cup {"sort", "limit", "aggregate", "summarize"}
    BY DEF Grouping, Selecting, Rolling, Shifts, Cumulative
<1>4. CASE s.op \in {"weighted_mean", "resample"}
    <2>1. m \in ToSet(s.group_by)
        <3>1. Execute(f, s).cols = Leaves(s, f.cols)
            BY RunsOn
        <3>2. s.op = "weighted_mean" => New(s) = {s.output}
            BY DEF New, Copies
        <3>3. s.op = "weighted_mean" => m # s.output
            BY <3>2 DEF Touched
        <3>4. s.op = "resample" => m # s.order_by /\ m \notin Outputs(s)
            BY DEF Touched
        <3> QED BY <1>4, <3>1, <3>3, <3>4, OthersLeave
    <2>2. Apiece(s, m)
        BY <1>3, <2>1 DEF Apiece, Touched
    <2> QED BY <1>2, <2>2, RunsAlike
<1>5. CASE s.op \notin {"weighted_mean", "resample"}
    <2>1. s.op \in Adding \ Members /\ s.op # "resample"
        BY <1>5 DEF Grouping, Adding, Rolling, Shifts, Cumulative, Members
    <2>2. /\ Comes(Execute(f, s), f, New(s)) /\ Comes(Execute(g, s), g, New(s)) /\ New(s) \cap f.cols = {}
          /\ f.cols \subseteq Execute(f, s).cols
        BY <2>1, AddedColumns
    <2>3. Apiece(s, Security)
        BY <1>1, <1>3, <2>1, <2>2 DEF Apiece
    <2>4. Security \in Execute(f, s).cols /\ Beside(Execute(f, s), Execute(g, s))
        BY <1>1, <2>2, RunsOn
    <2>5. Same(Execute(f, s), Execute(g, s), Security, Admits)
        BY <1>1, <1>2, <2>3, <2>4, RunsAlike
    <2>6. Execute(g, s).cols = Execute(f, s).cols
        BY <2>4 DEF Beside
    <2>7. m \in Execute(f, s).cols \ New(s) /\ Security \in Execute(f, s).cols \ New(s)
        BY <1>1, <2>2, <2>4
    <2>8. Vouches(Execute(f, s), m)
        BY <1>2, <2>2, <2>7, VouchesOn
    <2>9. Vouches(Execute(g, s), m)
        BY <1>2, <2>2, <2>6, <2>7, VouchesOn
    <2> QED BY <2>4, <2>5, <2>8, <2>9, MarkedAlike
<1> QED BY <1>4, <1>5

\* Any other step that depends on no other rows keeps the ties of the columns it does not touch.
LEMMA OthersTie ==
    ASSUME NEW f, NEW g, NEW s, Runs(f, g, s), Tied(f, g, lineage), f.cols = available,
           ~MarksSecurities(s), ~DependsOnOthers(s), s.op \notin Blocking
    PROVE  Tied(Execute(f, s), Execute(g, s), NewLineage(s))
<1> DEFINE F == Execute(f, s)
           G == Execute(g, s)
           l == NewLineage(s)
           T == Touched(s)
<1>1. /\ l.loose = lineage.loose \cup Loosened(s)
      /\ l.markers = lineage.markers \cup (IF s.op \in Members /\ s.right = MemberQuery THEN {s.output} ELSE {})
    BY DEF NewLineage
<1>2. \A c : Rewrites(s, c) <=> c \in T
    BY DEF Rewrites, Touched
<1>3. \A c \in lineage.markers \cup {Security, s.output} : c \notin l.loose => c \notin lineage.loose /\ c \notin T
    BY <1>1, <1>2 DEF Loosened
<1>4. s.op \in Members => s.output \in T
    BY MarkedColumns DEF Touched
<1>5. /\ Stays(F, f, T) /\ (s.op # "union_all" => Comes(F, f, T) /\ Comes(G, g, T))
      /\ Beside(F, G)
    BY RunsOn DEF Follows
<1>6. /\ s.op \notin Selecting \cup {"sort", "limit", "aggregate", "summarize"}
      /\ s.op \in Grouping => Security \in ToSet(s.group_by) \ lineage.loose /\ ~s.consecutive /\ s.op # "match_at_offset"
      /\ s.op = "union_all" => (lineage.markers \ lineage.loose) \cap f.cols = {}
    BY DEF DependsOnOthers, Blocking
<1>7. \A c : c \notin T => c \notin New(s) /\ (s.op = "resample" => c # s.order_by)
    BY DEF Touched
<1> HIDE DEF l, T
<1>8. ASSUME Security \in F.cols \ l.loose
      PROVE  Security \in f.cols \ lineage.loose /\ Security \notin T
    BY <1>3, <1>5, <1>8 DEF Stays
<1>9. ASSUME NEW m \in (l.markers \ l.loose) \cap F.cols
      PROVE  m \in (lineage.markers \ lineage.loose) \cap f.cols /\ m \notin T
    <2>1. m \in lineage.markers
        BY <1>1, <1>3, <1>4
    <2> QED BY <1>3, <1>5, <2>1 DEF Stays
<1>10. ASSUME Security \in F.cols \ l.loose
       PROVE  Same(F, G, Security, Admits)
    <2>1. Apiece(s, Security)
        BY <1>6, <1>7, <1>8, <1>10 DEF Apiece
    <2>2. Same(f, g, Security, Admits)
        BY <1>8, <1>10 DEF Tied
    <2> QED BY <1>8, <1>10, <2>1, <2>2, RunsAlike
<1>11. ASSUME NEW m \in (l.markers \ l.loose) \cap F.cols
       PROVE  Same(F, G, m, {1})
    <2>1. Same(f, g, m, {1})
        BY <1>9 DEF Tied
    <2>2. CASE s.op \notin Grouping
        <3>1. Apiece(s, m)
            BY <1>6, <1>7, <1>9, <2>2 DEF Apiece
        <3> QED BY <1>9, <2>1, <3>1, RunsAlike
    <2>3. CASE s.op \in Grouping
        BY <1>6, <1>9, <2>3, GroupedTie DEF T
    <2> QED BY <2>2, <2>3
<1>12. ASSUME NEW m \in (l.markers \ l.loose) \cap F.cols, Security \in F.cols \ l.loose
       PROVE  Vouches(F, m) /\ Vouches(G, m)
    <2>1. Vouches(f, m) /\ Vouches(g, m)
        BY <1>8, <1>9, <1>12 DEF Tied
    <2>2. s.op # "union_all"
        BY <1>6, <1>9
    <2>3. m \in F.cols \ T /\ Security \in F.cols \ T /\ G.cols = F.cols
        BY <1>5, <1>8, <1>9, <1>12 DEF Beside
    <2>4. Vouches(F, m)
        BY <1>5, <2>1, <2>2, <2>3, VouchesOn
    <2>5. Vouches(G, m)
        BY <1>5, <2>1, <2>2, <2>3, VouchesOn
    <2> QED BY <2>4, <2>5
<1> HIDE DEF F, G
<1>13. Tied(F, G, l)
    BY <1>10, <1>11, <1>12 DEF Tied
<1> QED BY <1>13 DEF F, G, l

\* The inductive part of RestrictedBeforeRanking.  Until a strict enforcement the frames are
\* tied, unless a blocking step came first and none will follow; from then on they are equal.
Parallel ==
    frame.status = "ok" /\ ideal.status = "ok" /\ ~lineage.selected =>
        /\ Beside(frame, ideal)
        /\ IF lineage.strict THEN ideal = frame ELSE lineage.blocked \/ Tied(frame, ideal, lineage)

LEMMA RestrictedSource ==
    ASSUME NEW h, h = KeepWhere(Source, LAMBDA r : Admitted(r.val[Security]))
    PROVE  Beside(Source, h) /\ (Security \in Source.cols => Same(Source, h, Security, Admits))
<1> DEFINE J == {i \in DOMAIN Source.rows : Admitted(Source.rows[i].val[Security])}
           D == DOMAIN Source.rows
           all == KeepIndices(Source, D)
<1>1. Typed(Source) /\ Source.status = "ok"
    BY SourceSecure
<1>2. h = KeepIndices(Source, J)
    BY DEF KeepWhere
<1>3. J \in SUBSET D /\ D \in SUBSET D
    OBVIOUS
<1>4. Security \in Source.cols => Kin(Source, Security, Admits) = J
    <2>1. Security \in Source.cols => \A i \in DOMAIN Source.rows : Source.rows[i].val[Security] \in Int
        BY <1>1, RowsOf
    <2> QED BY <2>1 DEF Kin, Admits
<1> HIDE DEF J
<1>5. Typed(h) /\ h.status = "ok" /\ h.cols = Source.cols
    <2>1. Traces(KeepIndices(Source, J), Source, {}) /\ KeepIndices(Source, J).status = "ok" /\ KeepIndices(Source, J).cols = Source.cols
        BY <1>1, <1>3, KeepTraces
    <2> QED BY <1>2, <2>1 DEF Traces, Comes
<1>6. Beside(Source, h)
    BY <1>1, <1>5 DEF Beside
<1>7. ASSUME Security \in Source.cols
      PROVE  Same(Source, h, Security, Admits)
    <2> DEFINE K == Kin(Source, Security, Admits)
               e == [i \in K |-> i]
    <2>1. e \in [K -> K] /\ (\A y \in K : \E x \in K : e[x] = y) /\ (\A x, y \in K : x < y <=> e[x] < e[y])
          /\ \A i \in K : Source.rows[e[i]] = Source.rows[i]
        OBVIOUS
    <2>2. Ties(e, Source, Source, Security, Admits)
        BY <2>1 DEF Ties, Moves
    <2>3. \A i \in K : i \in D <=> e[i] \in J
        <3>1. K \subseteq D
            BY DEF Kin
        <3> QED BY <1>4, <1>7, <3>1
    <2> HIDE DEF e, K, D
    <2>4. Same(all, KeepIndices(Source, J), Security, Admits)
        BY <1>1, <1>3, <2>2, <2>3, KeptAlike DEF K, D
    <2>5. all.rows = Source.rows
        BY <1>1, <1>3, KeepTraces, PickedAll DEF D
    <2> HIDE DEF all
    <2>6. \A p : Same(all, p, Security, Admits) => Same(Source, p, Security, Admits)
        BY <2>5 DEF Same, Ties, Kin
    <2> QED BY <1>2, <2>4, <2>6
<1> QED BY <1>6, <1>7

LEMMA ParallelAtFirst == Init => Parallel
<1> SUFFICES ASSUME Init PROVE Parallel
    OBVIOUS
<1>1. frame = Source /\ lineage.markers = {} /\ ~lineage.strict
    BY DEF Init
<1>2. ideal = KeepWhere(Source, LAMBDA r : Admitted(r.val[Security]))
    BY DEF Init
<1>3. Beside(frame, ideal) /\ (Security \in frame.cols => Same(frame, ideal, Security, Admits))
    BY <1>1, <1>2, RestrictedSource
<1>4. Tied(frame, ideal, lineage)
    BY <1>1, <1>3 DEF Tied
<1> QED BY <1>1, <1>3, <1>4 DEF Parallel

LEMMA StaysFailed ==
    ASSUME NEW f, NEW s, f.status # "ok"
    PROVE  Execute(f, s) = f
BY DEF Execute

\* One step of both frames.
LEMMA StepInParallel ==
    ASSUME NEW f, NEW g, NEW s, Runs(f, g, s), f.cols = available,
           IF lineage.strict THEN g = f ELSE lineage.blocked \/ Tied(f, g, lineage),
           NEW l, l = NewLineage(s), ~l.selected
    PROVE  IF l.strict THEN Execute(g, s) = Execute(f, s) ELSE l.blocked \/ Tied(Execute(f, s), Execute(g, s), l)
<1>1. /\ l.strict <=> lineage.strict \/ Strict(s)
      /\ l.blocked <=> lineage.blocked \/ s.op \in Blocking
      /\ lineage.strict \/ ~DependsOnOthers(s)
    BY DEF NewLineage
<1>2. CASE lineage.strict
    BY <1>1, <1>2
<1>3. CASE ~lineage.strict /\ lineage.blocked
    <2>1. ~Strict(s)
        BY <1>3 DEF Strict, Enforces
    <2> QED BY <1>1, <1>3, <2>1
<1>4. CASE ~lineage.strict /\ ~lineage.blocked
    <2>1. Tied(f, g, lineage)
        BY <1>4
    <2>2. CASE Strict(s)
        BY <1>1, <2>1, <2>2, EnforcedAlike
    <2>3. CASE ~Strict(s) /\ s.op \in Blocking
        BY <1>1, <1>4, <2>3
    <2>4. CASE ~Strict(s) /\ s.op \notin Blocking
        <3>1. Tied(Execute(f, s), Execute(g, s), NewLineage(s))
            BY <1>1, <1>4, <2>1, <2>4, MarksTie, OthersTie
        <3> QED BY <1>1, <1>4, <2>4, <3>1
    <2> QED BY <2>2, <2>3, <2>4
<1> QED BY <1>2, <1>3, <1>4

LEMMA ParallelThen == IInv /\ Parallel /\ [Next]_vars => Parallel'
<1> SUFFICES ASSUME IInv, Parallel, [Next]_vars PROVE Parallel'
    OBVIOUS
<1>0. Parallel' <=>
        (frame'.status = "ok" /\ ideal'.status = "ok" /\ ~lineage'.selected =>
            /\ Beside(frame', ideal')
            /\ IF lineage'.strict THEN ideal' = frame' ELSE lineage'.blocked \/ Tied(frame', ideal', lineage'))
    BY DEF Parallel, Beside, Typed, IsFrame, Tied, Same, Ties, Moves, Kin, Vouches, Admitted, Admits, Rows
<1>1. CASE RunStep
    <2>1. PICK s \in Steps : /\ frame.status = "ok" /\ Accepts(s, available, lineage.aggregated, ResultFields)
                             /\ frame' = Execute(frame, s) /\ ideal' = Execute(ideal, s) /\ lineage' = NewLineage(s)
        BY <1>1 DEF RunStep
    <2>2. frame.cols = available
        BY <2>1 DEF IInv, FieldsAsValidated
    <2>3. ASSUME frame'.status = "ok", ideal'.status = "ok", ~lineage'.selected
          PROVE  /\ Beside(frame', ideal')
                 /\ IF lineage'.strict THEN ideal' = frame' ELSE lineage'.blocked \/ Tied(frame', ideal', lineage')
        <3>1. ideal.status = "ok"
            BY <2>1, <2>3, StaysFailed
        <3>2. ~lineage.selected
            BY <2>1, <2>3 DEF NewLineage
        <3>3. /\ Beside(frame, ideal)
              /\ IF lineage.strict THEN ideal = frame ELSE lineage.blocked \/ Tied(frame, ideal, lineage)
            BY <2>1, <3>1, <3>2 DEF Parallel
        <3>4. Runs(frame, ideal, s)
            BY <2>1, <2>2, <2>3, <3>3 DEF Runs
        <3>5. Beside(Execute(frame, s), Execute(ideal, s))
            BY <3>4, RunsOn
        <3> DEFINE l == NewLineage(s)
        <3>6. ~l.selected
            BY <2>1, <2>3
        <3>7. IF l.strict THEN Execute(ideal, s) = Execute(frame, s) ELSE l.blocked \/ Tied(Execute(frame, s), Execute(ideal, s), l)
            <4> HIDE DEF l
            <4> QED BY <2>2, <3>3, <3>4, <3>6, StepInParallel DEF l
        <3> QED BY <2>1, <3>5, <3>7
    <2> QED BY <1>0, <2>3
<1>2. CASE UNCHANGED vars
    <2>1. frame' = frame /\ ideal' = ideal /\ lineage' = lineage
        BY <1>2 DEF vars
    <2> QED BY <1>0, <2>1 DEF Parallel
<1> QED BY <1>1, <1>2 DEF Next

\* A constraint that a pipeline enforces strictly, before anything chose rows or computed values
\* across securities, is as good as one applied at the source: the accepted steps, ranking and
\* limits included, return the same rows in the same order either way, for any results, any
\* members, any steps and any length (_validate_constraint_lineage against _execute_step).
THEOREM RestrictionComesFirst == Spec => []RestrictedBeforeRanking
<1>1. ASSUME Parallel
      PROVE  RestrictedBeforeRanking
    BY <1>1 DEF Parallel, RestrictedBeforeRanking
<1> QED BY <1>1, Starts, Continues, ParallelAtFirst, ParallelThen, PTL DEF Spec
=============================================================================
