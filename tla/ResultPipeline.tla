---------------------------- MODULE ResultPipeline ----------------------------
(***************************************************************************)
(* Result pipelines: the plan contracts of one step (core/contracts.py),   *)
(* the validator's field lineage and constraint lineage                    *)
(* (ASharePlanValidator in application/workflow.py) and the execution of   *)
(* the accepted steps (result_pipeline.py).                                *)
(*                                                                         *)
(* A behaviour builds one pipeline step by step.  Every step is one the    *)
(* validator accepts after the steps before it; it is executed on the      *)
(* source result and, for comparison, on the source restricted beforehand  *)
(* to the securities that a declared constraint admits.  The constraint's  *)
(* query is MemberQuery.                                                   *)
(***************************************************************************)
EXTENDS FrameOps

CONSTANTS
    Results,        \* the results of the planned queries, by query_id
    Succeeded,      \* the queries whose result has status SUCCESS
    SourceQuery, MemberQuery,
    Steps,          \* the steps a planner may write
    MaxSteps        \* bound on the steps of a pipeline; a marker that waits for its filter allows one more

ASSUME QueriesArePlanned == SourceQuery \in DOMAIN Results /\ MemberQuery \in DOMAIN Results
ASSUME ResultsAreFrames ==
    \A q \in DOMAIN Results : /\ IsFrame(Results[q]) /\ Results[q].status = "ok"
                             /\ Results[q].rows \in Seq([val : [Results[q].cols -> Int], from : SUBSET Int])
ASSUME StepsAreTyped ==
    \A s \in Steps : /\ DOMAIN s = DOMAIN NoStep /\ s.op \in Operations
                     /\ {s.group_by, s.join_on, s.fields} \subseteq Seq(STRING)
                     /\ {s.value, s.lower, s.upper} \subseteq Int /\ s.count \in Nat

VARIABLES
    available,  \* the validator's available_fields
    frame,      \* the executor's frame
    ideal,      \* the frame of the same steps over the restricted source
    lineage,    \* what the validators remember of the accepted steps
    steps       \* the accepted steps

vars == <<available, frame, ideal, lineage, steps>>

Security == "ts_code"
RightFields(s) == Results[s.right].cols
ResultFields == [q \in DOMAIN Results |-> Results[q].cols]

-----------------------------------------------------------------------------
\* _execute_step.

Unreadable(f, s) == \/ ~(Read(s) \subseteq f.cols)
                    \/ s.op \in RightOps /\ ~(RightNeeded(s) \subseteq RightFields(s))
                    \/ s.op \in Members \cup Copies \cup {"asof_join"} /\ New(s) \cap f.cols # {}
Rowwise(f, s) ==
    CASE s.op = "latest_by_group" -> Latest(f, s)      [] s.op = "select_fields" -> SelectFields(f, s)
      [] s.op = "rename_fields" -> RenameFields(f, s)  [] s.op = "distinct" -> DropDuplicates(f, s.fields, s.keep)
      [] s.op = "drop_missing" -> DropMissing(f, s)    [] s.op \in {"filter", "having"} -> FilterRows(f, s)
      [] s.op = "filter_set" -> FilterSet(f, s)        [] s.op = "filter_range" -> FilterRange(f, s)
      [] s.op = "filter_null" -> FilterNull(f, s)      [] s.op = "sort" -> SortRows(f, s)
      [] s.op = "limit" -> LimitRows(f, s)             [] s.op = "quantile_filter" -> QuantileFilter(f, s)
      [] s.op = "top_k_by_group" -> TopK(f, s)         [] s.op = "aggregate" -> AggregateRows(f, s)
      [] s.op = "weighted_mean" -> WeightedMean(f, s)  [] s.op = "resample" -> ResampleRows(f, s)
      [] s.op = "summarize" -> Summarize(f, s)
AddColumn(f, s) ==
    CASE s.op = "derive" -> DeriveColumn(f, s)              [] s.op \in Rolling -> RollingColumn(f, s)
      [] s.op = "group_transform" -> GroupTransform(f, s)   [] s.op = "normalize" -> NormalizeColumn(f, s)
      [] s.op \in {"rank", "dense_rank"} -> RankColumn(f, s) [] s.op = "row_number" -> RowNumber(f, s)
      [] s.op \in Shifts -> ShiftColumn(f, s)               [] s.op \in Cumulative -> CumulativeColumn(f, s)
      [] s.op = "match_at_offset" -> MatchAtOffset(f, s)
      [] s.op \in {"compare_fields", "compare_scalar"} -> CompareColumn(f, s)
      [] s.op \in {"coalesce", "fill_constant", "clip", "conditional_value"} -> CleanColumn(f, s)
Combine(f, s, right) ==
    CASE s.op \in Members -> MarkMatches(f, s, right)  [] s.op \in {"semi_join", "anti_join"} -> SemiJoin(f, s, right)
      [] s.op \in {"intersect_keys", "except_keys"} -> KeySet(f, s, right)
      [] s.op \in Copies -> JoinColumns(f, s, right)   [] s.op = "asof_join" -> AsofJoin(f, s, right)
      [] s.op = "union_all" -> UnionRows(f, s, right)
Execute(f, s) ==
    IF f.status # "ok" THEN f
    ELSE IF Unreadable(f, s) THEN Fails(f, "fields")
    ELSE IF s.op \in RightOps THEN IF s.right \in Succeeded THEN Combine(f, s, Results[s.right]) ELSE Fails(f, "data")
    ELSE IF s.op \in Adding THEN AddColumn(f, s) ELSE Rowwise(f, s)

-----------------------------------------------------------------------------
\* _validate_constraint_lineage for a constraint on MemberQuery: a semi-join on the security,
\* or a filter on a membership marker, before any blocking operation.

BlockingSorted == {"sort", "aggregate", "summarize"}
Blocking == {"sort", "limit", "aggregate", "summarize"}
ByAnyJoin(s) == s.op = "semi_join" /\ s.right = MemberQuery
ByJoin(s) == s.op = "semi_join" /\ s.right = MemberQuery /\ Security \in ToSet(s.join_on)
ByMarker(s) == s.op = "filter" /\ s.comparison = "eq" /\ s.value = 1 /\ s.field \in lineage.markers
Enforces(s) == ~lineage.blocked /\ (ByJoin(s) \/ ByMarker(s))

\* What the validator does not look at, as ghosts.  `loose' are the security and the markers
\* that no longer hold the security of their row and its match, or never did; an enforcement
\* is strict when it reads none of them; `selected' when, before a strict enforcement, rows
\* were chosen, or values computed, that depend on the rows of other securities, or rows were
\* appended that no step had marked.
Rewrites(s, c) == c \in New(s) \cup Outputs(s) \/ (s.op = "resample" /\ c = s.order_by)
MarksSecurities(s) ==
    s.op \in Members /\ s.right = MemberQuery /\ Security \in ToSet(s.join_on) \ lineage.loose
Loosened(s) == {c \in lineage.markers \cup {Security, s.output} : Rewrites(s, c)}
Strict(s) == Enforces(s) /\ (IF ByJoin(s) THEN Security ELSE s.field) \notin lineage.loose
Selecting == {"top_k_by_group", "quantile_filter", "latest_by_group", "distinct", "intersect_keys", "except_keys"}
Grouping == Rolling \cup Shifts \cup Cumulative \cup {"rank", "dense_rank", "row_number", "group_transform", "normalize",
                                                      "match_at_offset", "weighted_mean", "resample"}
DependsOnOthers(s) ==
    \/ s.op \in Selecting
    \/ s.op = "union_all" /\ (lineage.markers \ lineage.loose) \cap available # {}     \* its rows bring their own marks
    \/ s.op \in Grouping /\ (Security \notin ToSet(s.group_by) \ lineage.loose \/ s.consecutive \/ s.op = "match_at_offset")
NewLineage(s) ==
    [aggregated |-> lineage.aggregated \/ s.op = "aggregate",
     blocked    |-> lineage.blocked \/ s.op \in Blocking,
     markers    |-> lineage.markers \cup (IF s.op \in Members /\ s.right = MemberQuery THEN {s.output} ELSE {}),
     enforced   |-> lineage.enforced \/ Enforces(s),
     loose      |-> IF MarksSecurities(s) THEN lineage.loose \ {s.output} ELSE lineage.loose \cup Loosened(s),
     strict     |-> lineage.strict \/ Strict(s),
     selected   |-> lineage.selected \/ (~lineage.strict /\ DependsOnOthers(s))]

-----------------------------------------------------------------------------
\* _validate_result_invariants: what the executor checks of the result before it is returned
\* (that a ranking names a security once, and one date, is left out).

With(op) == {i \in DOMAIN steps : steps[i].op = op}
LimitHolds == With("limit") # {} => Len(frame.rows) <= steps[Min(With("limit"))].count
FilterHolds(i) == steps[i].field \in frame.cols => \A r \in ToSet(frame.rows) : Satisfies(r, steps[i])
FinalSort == {i \in With("sort") : \A j \in DOMAIN steps : j > i => j \in With("limit")}
Ordered(a, b, dir) == IF dir = "asc" THEN a <= b ELSE a >= b
Missing(i) == steps[i].field \in frame.cols /\ Null \in ToSet([k \in DOMAIN frame.rows |-> Num(frame.rows[k].val[steps[i].field])])
SortHolds(i) ==
    steps[i].field \in frame.cols =>
        \A k \in 1..(Len(frame.rows) - 1) :
            Ordered(Num(frame.rows[k].val[steps[i].field]), Num(frame.rows[k + 1].val[steps[i].field]), steps[i].direction)

-----------------------------------------------------------------------------

SourceRows == [i \in DOMAIN Results[SourceQuery].rows |-> [Results[SourceQuery].rows[i] EXCEPT !.from = {i}]]
Admitted(v) == \E r \in ToSet(Results[MemberQuery].rows) : r.val[Security] = v
Source == [Results[SourceQuery] EXCEPT !.rows = SourceRows]

Init ==
    /\ available = Source.cols /\ frame = Source /\ steps = <<>>
    /\ ideal = KeepWhere(Source, LAMBDA r : Admitted(r.val[Security]))
    /\ lineage = [aggregated |-> FALSE, blocked |-> FALSE, markers |-> {}, enforced |-> FALSE,
                  loose |-> {}, strict |-> FALSE, selected |-> FALSE]

\* The next accepted step, executed; a frame that failed takes no more.
Waiting == lineage.markers # {} /\ ~lineage.enforced
Room == Len(steps) < MaxSteps + (IF Waiting THEN 1 ELSE 0)
RunStep ==
    \E s \in Steps :
        /\ Room /\ frame.status = "ok"
        /\ Accepts(s, available, lineage.aggregated, ResultFields)
        /\ available' = Leaves(s, available)
        /\ frame' = Execute(frame, s) /\ ideal' = Execute(ideal, s)
        /\ lineage' = NewLineage(s) /\ steps' = Append(steps, s)

Next == RunStep
Spec == Init /\ [][Next]_vars

-----------------------------------------------------------------------------

\* Every column a row has is one of the frame's, and every value is an integer of the model.
TypeOK ==
    /\ frame.status \in {"ok", "fields", "data"} /\ Len(steps) <= MaxSteps + 1
    /\ \A i \in DOMAIN frame.rows : DOMAIN frame.rows[i].val = frame.cols

\* "Validate pipeline field lineage before any provider call is issued": the frame of an
\* accepted pipeline has exactly the fields the validator computed, and no accepted step
\* misses a field, except where two names the validator does not compare collide.
Collides(s) == \/ s.op = "aggregate" /\ Outputs(s) \cap ToSet(s.group_by) # {}
               \/ s.op \in Copies /\ ToSet(s.join_on) \cap DOMAIN s.map # {}
               \/ s.op = "asof_join" /\ s.right_order # s.order_by
FieldsAsValidated ==
    /\ frame.status = "ok" => frame.cols = available
    /\ frame.status = "fields" => Collides(steps[Len(steps)])

\* "Enforce strict post-execution invariant verification": a result is refused for its order,
\* its length or a filter only when a value is missing, or when a step after the limit appends
\* rows or repeats them, or one after the filter appends rows or rewrites the filtered field.
ChecksAcceptTheResult ==
    frame.status = "ok" =>
        /\ LimitHolds \/ \E i \in DOMAIN steps : i > Min(With("limit")) /\ steps[i].op \in Copies \cup {"union_all"}
        /\ \A i \in With("filter") : FilterHolds(i) \/ \E j \in DOMAIN steps : j > i /\ (steps[j].op = "union_all" \/ Rewrites(steps[j], steps[i].field))
        /\ \A i \in FinalSort : SortHolds(i) \/ Missing(i)

\* A constraint whose lineage is accepted restricts the result: every row comes from securities
\* that it admits. Two gaps apart: rows that a union appended, and an enforcement that reads
\* a column which was not, or is no longer, the security of its row or that security's match.
ConstraintsRestrict ==
    lineage.strict /\ frame.status = "ok" =>
        \A r \in ToSet(frame.rows) :
            \A i \in r.from \ {Foreign} : Admitted(Source.rows[i].val[Security])

\* "Require declared predicates to restrict the final result before ranking": unless a step
\* that the validator does not count as blocking made a choice or a value depend on other
\* securities first, or appended rows that it had not marked, an accepted pipeline returns what
\* it would over the source restricted from the start: the same rows in the same order.
RestrictedBeforeRanking ==
    (lineage.strict /\ ~lineage.selected /\ frame.status = "ok" /\ ideal.status = "ok") => frame = ideal

\* The docstring without the exceptions.
AcceptedConstraintsRestrict ==
    lineage.enforced => \A r \in ToSet(frame.rows) :
                            \A i \in r.from \ {Foreign} : Admitted(Source.rows[i].val[Security])
=============================================================================
