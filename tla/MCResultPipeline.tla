--------------------------- MODULE MCResultPipeline ---------------------------
(* A small instance of ResultPipeline for TLC: a source of five rows of three securities, a *)
(* result that names two of them, one with other fields and one that failed, and a set of   *)
(* concrete steps with every operation in it.                                               *)
EXTENDS ResultPipeline

A == Text + 1   B == Text + 2   D == Text + 3
Row(code, date, x, y) == [val |-> "ts_code" :> code @@ "trade_date" :> date @@ "x" :> x @@ "y" :> y, from |-> {0}]
SourceFrame == OkFrame({"ts_code", "trade_date", "x", "y"},
                       <<Row(A, 10, 7, Null), Row(D, 11, 9, 4), Row(B, 10, 3, 2), Row(A, 11, 0 - 4, 5), Row(B, 12, Null, 1)>>)
MemberFrame == OkFrame({"ts_code", "trade_date", "m"},
                       <<[val |-> "ts_code" :> A @@ "trade_date" :> 11 @@ "m" :> 1, from |-> {0}],
                         [val |-> "ts_code" :> B @@ "trade_date" :> 9 @@ "m" :> 2, from |-> {0}]>>)
AlikeFrame == OkFrame({"ts_code", "trade_date", "x", "y"}, <<Row(D, 12, 1, 1)>>)
MCResults == [source |-> SourceFrame, member |-> MemberFrame, alike |-> AlikeFrame, broken |-> MemberFrame]

By == <<"ts_code">>
Agg(field, out, fn) == [field |-> field, out |-> out, fn |-> fn]
Op(op) == [NoStep EXCEPT !.op = op]
On(op, field) == [NoStep EXCEPT !.op = op, !.field = field]
Into(op, field, out) == [NoStep EXCEPT !.op = op, !.field = field, !.output = out, !.group_by = By, !.order_by = "trade_date"]
Right(op, right, keys) == [NoStep EXCEPT !.op = op, !.right = right, !.join_on = keys, !.cardinality = "many_to_one"]

Selections ==
    {[On("sort", f) EXCEPT !.direction = d] : f \in {"x", "r"}, d \in {"asc", "desc"}}
    \cup {[Op("limit") EXCEPT !.count = n] : n \in {1, 3}}
    \cup {[On("filter", c[1]) EXCEPT !.comparison = c[2], !.value = c[3]] :
            c \in {<<"x", "gt", 0>>, <<"mark", "eq", 1>>, <<"mark", "ne", 1>>, <<"ts_code", "ne", A>>, <<"n", "ge", 2>>}}
    \cup {[On("having", "n") EXCEPT !.comparison = "ge", !.value = 2],
          [On("filter_set", "trade_date") EXCEPT !.values = {10, 12}],
          [On("filter_range", "y") EXCEPT !.lower = 2, !.upper = 4],
          [On("filter_null", "x") EXCEPT !.negate = TRUE],
          [Op("drop_missing") EXCEPT !.fields = <<"x", "y">>],
          [Op("distinct") EXCEPT !.fields = By, !.keep = "last"],
          [Into("latest_by_group", "", "") EXCEPT !.direction = "desc"],
          [On("quantile_filter", "x") EXCEPT !.comparison = "ge", !.value = 1],
          [On("top_k_by_group", "y") EXCEPT !.group_by = <<"trade_date">>, !.count = 1],
          [Op("select_fields") EXCEPT !.fields = <<"ts_code", "x">>],
          [Op("rename_fields") EXCEPT !.map = "x" :> "r"]}
Columns ==
    {[On("derive", "x") EXCEPT !.output = "r", !.arithmetic = a, !.right_field = "y"] : a \in {"subtract", "divide"}}
    \cup {[Into(op, "x", "r") EXCEPT !.window = 2, !.min_periods = 1, !.right_field = IF op = "rolling_correlation" THEN "y" ELSE "",
                                     !.consecutive = (op = "rolling_mean")] : op \in {"rolling_mean", "rolling_correlation"}}
    \cup {[Into(op, "x", "r") EXCEPT !.periods = n, !.consecutive = TRUE] : op \in {"shift", "diff"}, n \in {1, 0 - 1}}
    \cup {[Into(op, "x", "r") EXCEPT !.min_periods = 1] : op \in {"cumulative_sum", "expanding_mean"}}
    \cup {[Into("match_at_offset", "x", "r") EXCEPT !.periods = 1, !.unit = u, !.matched = "s"] : u \in {"trading_session", "day"}}
    \cup {[Into(op, "x", "r") EXCEPT !.order_by = ""] : op \in {"rank", "dense_rank"}}
    \cup {Into("row_number", "", "n"), [Into("row_number", "", "n") EXCEPT !.group_by = <<"trade_date">>, !.order_by = "x"], [Into("group_transform", "x", "r") EXCEPT !.fn = "max", !.order_by = ""],
          [Into("normalize", "x", "r") EXCEPT !.fn = "zscore", !.order_by = "", !.group_by = <<>>],
          [On("compare_fields", "x") EXCEPT !.right_field = "y", !.output = "mark", !.comparison = "gt"],
          [On("compare_scalar", "x") EXCEPT !.output = "mark", !.comparison = "gt", !.value = 0],
          [Op("coalesce") EXCEPT !.fields = <<"x", "y">>, !.output = "r"],
          [On("fill_constant", "x") EXCEPT !.value = 0, !.output = "r"],
          [On("clip", "x") EXCEPT !.lower = 0, !.upper = 5, !.output = "r"],
          [On("conditional_value", "x") EXCEPT !.comparison = "lt", !.value = 4, !.lower = 0, !.upper = 1, !.output = "r"]}
Groupings ==
    {[Op("aggregate") EXCEPT !.group_by = By, !.aggregations = <<Agg("x", out, fn)>>] :
        out \in {"n", "ts_code"}, fn \in {"count"}}
    \cup {[Op("summarize") EXCEPT !.aggregations = <<Agg("x", "n", "count_distinct"), Agg("y", "x", "last")>>],
          [Op("resample") EXCEPT !.group_by = By, !.order_by = "trade_date", !.aggregations = <<Agg("x", "n", "sum")>>],
          [Op("resample") EXCEPT !.group_by = <<"mark">>, !.order_by = "trade_date", !.aggregations = <<Agg("ts_code", "ts_code", "first")>>],
          [On("weighted_mean", "x") EXCEPT !.weight = "y", !.group_by = By, !.output = "r"]}
Joins ==
    {[Right(op, "member", keys) EXCEPT !.output = "mark"] : op \in Members, keys \in {By, <<"trade_date">>}}
    \cup {Right(op, "member", <<"trade_date">>) : op \in {"semi_join", "intersect_keys"}}
    \cup {Right(op, r, By) : op \in KeyJoins \ Copies, r \in {"member", "broken"}}
    \cup {[Right(op, "member", By) EXCEPT !.map = "m" :> "n"] : op \in Copies}
    \cup {[Right("inner_join", "alike", By) EXCEPT !.map = "ts_code" :> "n", !.cardinality = "one_to_one"]}
    \cup {[Right("asof_join", "member", <<>>) EXCEPT !.group_by = By, !.order_by = o, !.right_order = "trade_date",
                                                     !.map = "m" :> "n", !.count = 2] : o \in {"trade_date", "y"}}
    \cup {[Op("union_all") EXCEPT !.right = "alike"]}
MCSteps == Selections \cup Columns \cup Groupings \cup Joins
=============================================================================
