--------------------------- MODULE PipelineContract ---------------------------
(***************************************************************************)
(* One step of a result pipeline as a plan carries it (core/contracts.py)  *)
(* and the validator's field lineage over the steps                        *)
(* (_validate_result_pipeline in application/workflow.py).  A step is a    *)
(* record with every argument; an argument that is not given is empty,     *)
(* zero or Null.  `right' gives the fields of the results a step may join. *)
(***************************************************************************)
EXTENDS Integers, Sequences, FiniteSets, SequencesExt, FiniteSetsExt, Functions

Null == 1000

NoStep == [op |-> "none", field |-> "", right_field |-> "", weight |-> "", order_by |-> "", right_order |-> "",
           output |-> "", matched |-> "", group_by |-> <<>>, join_on |-> <<>>, fields |-> <<>>, map |-> <<>>,
           aggregations |-> <<>>, right |-> "", cardinality |-> "", comparison |-> "", arithmetic |-> "",
           value |-> Null, values |-> {}, lower |-> Null, upper |-> Null, negate |-> FALSE, keep |-> "first",
           direction |-> "asc", count |-> 0, window |-> 0, min_periods |-> 0, periods |-> 0, unit |-> "",
           consecutive |-> FALSE, fn |-> ""]
Outputs(s) == {s.aggregations[i].out : i \in DOMAIN s.aggregations}

-----------------------------------------------------------------------------
\* The contract of one step.

Rolling    == {"rolling_mean", "rolling_sum", "rolling_min", "rolling_max", "rolling_std",
               "rolling_quantile", "rolling_correlation", "rolling_covariance"}
Paired     == {"rolling_correlation", "rolling_covariance"}
Shifts     == {"shift", "diff", "pct_change"}
Cumulative == {"cumulative_sum", "expanding_mean"}
Members    == {"match_source", "exists_in_source"}
Copies     == {"inner_join", "join_fields"}
KeyJoins   == {"semi_join", "anti_join", "intersect_keys", "except_keys"} \cup Copies
RightOps   == Members \cup KeyJoins \cup {"union_all", "asof_join"}
Adding     == {"derive", "rank", "dense_rank", "row_number", "group_transform", "normalize", "coalesce",
               "fill_constant", "clip", "conditional_value", "match_at_offset", "compare_fields",
               "compare_scalar"} \cup Rolling \cup Shifts \cup Cumulative \cup Members
RowSteps   == {"latest_by_group", "select_fields", "rename_fields", "distinct", "drop_missing", "filter",
               "having", "filter_set", "filter_range", "filter_null", "sort", "limit", "quantile_filter",
               "top_k_by_group", "aggregate", "weighted_mean", "resample", "summarize"}
Operations == RowSteps \cup Adding \cup RightOps

\* validate_operation_arguments: the arguments an operation needs ...
Given(s, names) ==
    \A n \in names : CASE n \in {"group_by", "join_on", "fields", "aggregations"} -> s[n] # <<>>
                       [] n = "map" -> DOMAIN s.map # {}
                       [] n = "values" -> s.values # {}
                       [] n \in {"count", "window", "periods"} -> s[n] # 0
                       [] OTHER -> s[n] # ""
Complete(s) ==
    CASE s.op = "latest_by_group" -> Given(s, {"group_by", "order_by"})
      [] s.op \in {"select_fields", "distinct", "drop_missing"} -> Given(s, {"fields"})
      [] s.op = "rename_fields" -> Given(s, {"map"})
      [] s.op = "derive" -> /\ Given(s, {"field", "output", "arithmetic"})
                            /\ (s.value # Null) # (s.right_field # "")
      [] s.op \in {"filter", "having"} -> Given(s, {"field", "comparison"}) /\ s.value # Null
      [] s.op = "filter_set" -> Given(s, {"field", "values"})
      [] s.op = "filter_range" -> Given(s, {"field"}) /\ s.lower # Null /\ s.upper # Null
      [] s.op \in {"filter_null", "sort"} -> Given(s, {"field"})
      [] s.op = "limit" -> Given(s, {"count"})
      [] s.op = "quantile_filter" -> Given(s, {"field", "comparison"}) /\ s.value # Null
      [] s.op = "aggregate" -> Given(s, {"group_by", "aggregations"})
      [] s.op \in Rolling -> /\ Given(s, {"field", "output", "group_by", "order_by", "window"})
                             /\ s.op \in Paired => Given(s, {"right_field"})
      [] s.op \in Cumulative -> Given(s, {"field", "output", "group_by", "order_by"})
      [] s.op = "group_transform" -> Given(s, {"field", "output", "group_by", "fn"})
      [] s.op = "normalize" -> Given(s, {"field", "output", "fn"})
      [] s.op = "weighted_mean" -> Given(s, {"field", "weight", "output", "group_by"})
      [] s.op = "resample" -> Given(s, {"group_by", "order_by", "aggregations"})
      [] s.op \in Shifts -> Given(s, {"field", "output", "group_by", "order_by", "periods"})
      [] s.op \in {"rank", "dense_rank"} -> Given(s, {"field", "output"})
      [] s.op = "row_number" -> Given(s, {"output", "group_by", "order_by"})
      [] s.op = "top_k_by_group" -> Given(s, {"field", "group_by", "count"})
      [] s.op = "match_at_offset" -> Given(s, {"field", "output", "group_by", "order_by", "periods", "unit", "matched"})
      [] s.op \in Members -> Given(s, {"right", "join_on", "output"})
      [] s.op \in KeyJoins \ Copies -> Given(s, {"right", "join_on"})
      [] s.op = "inner_join" -> Given(s, {"right", "join_on", "cardinality"})
      [] s.op = "join_fields" -> Given(s, {"right", "join_on", "map", "cardinality"})
      [] s.op = "asof_join" -> Given(s, {"right", "group_by", "order_by", "right_order", "map", "count"})
      [] s.op = "union_all" -> Given(s, {"right"})
      [] s.op = "compare_fields" -> Given(s, {"field", "right_field", "output", "comparison"})
      [] s.op = "compare_scalar" -> Given(s, {"field", "output", "comparison"}) /\ s.value # Null
      [] s.op = "coalesce" -> Given(s, {"output", "fields"})
      [] s.op = "fill_constant" -> Given(s, {"field", "output"}) /\ s.value # Null
      [] s.op = "clip" -> Given(s, {"field", "output"}) /\ (s.lower # Null \/ s.upper # Null)
      [] s.op = "conditional_value" -> /\ Given(s, {"field", "output", "comparison"})
                                       /\ Null \notin {s.value, s.lower, s.upper}
      [] s.op = "summarize" -> Given(s, {"aggregations"})
\* ... and what they may not be.
Consistent(s) ==
    /\ s.op = "derive" => s.right_field # s.field /\ ~(s.right_field # "" /\ s.arithmetic = "constant_minus")
    /\ s.op = "match_at_offset" => s.field # s.order_by /\ s.output # s.matched
    /\ s.op \in Rolling => s.window >= 2 /\ s.min_periods <= s.window
    /\ s.op \in Paired => s.field # s.right_field
    /\ s.op = "resample" => Outputs(s) \cap (ToSet(s.group_by) \cup {s.order_by}) = {}
    /\ s.op = "filter_range" => s.lower <= s.upper
    /\ s.op = "clip" => Null \in {s.lower, s.upper} \/ s.lower <= s.upper
    /\ s.op \in {"rename_fields", "asof_join"} => IsInjective(s.map)
    /\ s.op = "asof_join" => DOMAIN s.map \cap (ToSet(s.group_by) \cup {s.right_order}) = {}
    /\ Cardinality(Outputs(s)) = Len(s.aggregations)
WellFormed(s) == Complete(s) /\ Consistent(s)

-----------------------------------------------------------------------------
\* _validate_result_pipeline: the fields a step needs, whether they are there, and the fields
\* it leaves.

Read(s) == ({s.field, s.right_field, s.weight, s.order_by} \ {""})
           \cup (IF s.op \in Copies \cup {"asof_join", "union_all"} THEN {} ELSE ToSet(s.fields) \cup DOMAIN s.map)
           \cup ToSet(s.group_by) \cup ToSet(s.join_on)
Needed(s) == Read(s) \cup {s.aggregations[i].field : i \in DOMAIN s.aggregations}
New(s) == CASE s.op = "match_at_offset" -> {s.output, s.matched}
            [] s.op \in Copies \cup {"asof_join"} -> Range(s.map)
            [] s.op \in (Adding \ {"match_at_offset"}) \cup {"weighted_mean"} -> {s.output}
            [] s.op = "rename_fields" -> Range(s.map)
            [] OTHER -> {}
Kept(s, fields) == IF s.op = "rename_fields" THEN fields \ DOMAIN s.map ELSE fields
RightNeeded(s) == CASE s.op \in Members \cup (KeyJoins \ Copies) -> ToSet(s.join_on)
                    [] s.op \in Copies -> ToSet(s.join_on) \cup DOMAIN s.map
                    [] s.op = "asof_join" -> ToSet(s.group_by) \cup {s.right_order} \cup DOMAIN s.map
                    [] OTHER -> {}
NewIsNew(s, fields) == New(s) \cap Kept(s, fields) = {} /\ (s.op \in Copies => IsInjective(s.map))
Accepts(s, fields, aggregated, right) ==
    /\ WellFormed(s)
    /\ s.op = "having" => aggregated
    /\ Needed(s) \subseteq fields
    /\ s.op \in RightOps => s.right \in DOMAIN right /\ RightNeeded(s) \subseteq right[s.right]
    /\ s.op = "union_all" => right[s.right] = fields
    /\ NewIsNew(s, fields)
LeavesEveryField(s, fields) ==
    IF s.op = "weighted_mean" THEN Kept(s, fields) \cup New(s) ELSE
    IF s.op = "select_fields" THEN ToSet(s.fields) ELSE
    IF s.op \in {"intersect_keys", "except_keys"} THEN ToSet(s.join_on) ELSE
    IF s.op = "aggregate" THEN ToSet(s.group_by) \cup Outputs(s) ELSE Kept(s, fields) \cup New(s)
Leaves(s, fields) ==
    CASE s.op = "select_fields" -> ToSet(s.fields)
      [] s.op \in {"intersect_keys", "except_keys"} -> ToSet(s.join_on)
      [] s.op = "weighted_mean" -> ToSet(s.group_by) \cup {s.output}
      [] s.op = "aggregate" -> ToSet(s.group_by) \cup Outputs(s)
      [] s.op = "resample" -> ToSet(s.group_by) \cup {s.order_by} \cup Outputs(s)
      [] s.op = "summarize" -> Outputs(s)
      [] OTHER -> Kept(s, fields) \cup New(s)
=============================================================================
