---------------------------- MODULE IntentCompiler ----------------------------
(***************************************************************************)
(* AnalysisService._compile_intent: a typed intent becomes the queries,    *)
(* the pipeline, the constraints and the contract of the plan, whatever    *)
(* the planner wrote there.                                                *)
(***************************************************************************)
EXTENDS KnownRequests

SnapshotMetrics == [metric \in {"pct_chg", "pe", "pe_ttm", "pb", "total_mv", "circ_mv",
    "turnover_rate", "turnover_rate_f", "volume_ratio", "dv_ratio", "dv_ttm"} |-> metric]
Executable(p, queries, source, steps, output, outputs) ==
    [Promising(WithPipeline(p, queries, source, steps, output), outputs)
        EXCEPT !.feasible = TRUE, !.graph = <<>>, !.result = ""]

\* A ranking of raw fields or of aggregates.  A field that is the input of one aggregate stands
\* for that aggregate's output.
RankingField(i) ==
    LET outs  == {i.aggregations[k].out : k \in DOMAIN i.aggregations}
        match == {a \in ToSet(i.aggregations) : a.field = i.field}
    IN  IF i.field \notin outs /\ Cardinality(match) = 1 THEN (CHOOSE a \in match : TRUE).out ELSE i.field
FieldAnalysis(p) ==
    LET i      == p.intent
        read   == [Query("field_analysis_source", i.operation, i.params, i.fields) EXCEPT !.filters = i.filters]
        reduce == IF i.aggregations = <<>> THEN <<>>
                  ELSE IF i.group_by = <<>> THEN <<Total(i.aggregations)>> ELSE <<Grouped(i.group_by, i.aggregations)>>
        order  == IF ~i.ranks THEN <<>>
                  ELSE <<Drop(<<RankingField(i)>>), Sort(RankingField(i), i.direction), Top(i.limit)>>
        outs   == IF i.aggregations = <<>> THEN {"ts_code", i.field} \cap i.fields
                  ELSE ToSet(i.group_by) \cup {i.aggregations[k].out : k \in DOMAIN i.aggregations}
        kind   == IF i.aggregations # <<>> /\ i.group_by = <<>> THEN "summary" ELSE "table"
    IN  [Executable(p, <<read>>, read.id, reduce \o order, "field_analysis_output", outs)
            EXCEPT !.constraints = {}, !.contract.kind = kind]

\* The probability of an outcome after a run of limit-up sessions.
EventProbability(p) ==
    LET i      == p.intent
        prices == [SequencePrices(i.start, Later) EXCEPT !.id = "event_prices"]
        events == [LimitUpEvents(i.start, i.end) EXCEPT !.id = "event_membership"]
        streak == <<Step("match_source", [right |-> events.id, join_on |-> <<"ts_code", "trade_date">>, output |-> "is_event"]),
                    Step("rolling_sum", [field |-> "is_event", output |-> "event_streak_count", group_by |-> <<"ts_code">>,
                         order_by |-> "trade_date", window |-> i.sessions, min_periods |-> i.sessions, consecutive |-> TRUE])>>
        outcome == <<Step("match_at_offset", [field |-> "close", output |-> "future_close", matched |-> "future_trade_date",
                         group_by |-> <<"ts_code">>, order_by |-> "trade_date", periods |-> i.offset, unit |-> "trading_session"]),
                    Where("event_streak_count", "eq", i.sessions), Drop(<<"future_close">>),
                    Arith("future_close", "divide", "close", "outcome_ratio"),
                    Scale("outcome_ratio", "subtract", 1, "outcome_return"),
                    Mark("outcome_return", "gt", 0, "outcome_is_positive"),
                    Mark("outcome_return", "lt", 0, "outcome_is_negative"),
                    Total(<<Agg("outcome_return", "event_count", "count"), Agg("outcome_is_positive", "positive_event_ratio", "mean"),
                            Agg("outcome_is_negative", "negative_event_ratio", "mean")>>)>>
        outputs == {IF o = "up" THEN "positive_event_ratio" ELSE "negative_event_ratio" : o \in i.outcomes}
    IN  [Executable(p, <<prices, events>>, prices.id, streak \o outcome, "event_outcome_probability", outputs)
            EXCEPT !.constraints = {}]

\* _compile_rank_metric_plan: the universe restricts the rows before they are ranked.
Constrained(scope, query, bounds, step) ==
    {[id |-> scope \o " " \o b.field, scope |-> scope, query |-> query, field |-> b.field, op |-> b.op, value |-> b.value,
      step |-> step] : b \in bounds}
RankMetricPlan(p, read, metric, output) ==
    LET i        == p.intent
        universe == [Query("ranking_security_universe", "stock_basic", Active,
                           {"ts_code", "name", "industry"} \cup {b.field : b \in i.universe}) EXCEPT !.filters = i.universe]
        member   == <<Step("match_source", [right |-> universe.id, join_on |-> <<"ts_code">>, output |-> "in_requested_universe"]),
                      Where("in_requested_universe", "eq", 1)>>
        limited  == i.universe # {}
    IN  [Executable(p, <<read>> \o (IF limited THEN <<universe>> ELSE <<>>), read.id,
                    <<Drop(<<metric>>)>> \o (IF limited THEN member ELSE <<>>)
                    \o <<Sort(metric, i.direction), Top(i.limit)>>, output, {"ts_code", metric})
            EXCEPT !.constraints = Constrained("result", read.id, read.filters, Null)
                                   \cup Constrained("universe", universe.id, i.universe, 3)]

\* A return over one day is its percentage change, over a range it comes from the boundary closes.
DayReturnRead(i) ==
    Query("ranking_metric_snapshot", "daily", "trade_date" :> i.start, {"ts_code", "trade_date", "pct_chg"})
PeriodReturnRead(i) ==
    [Query("period_return_query", "daily", "start_date" :> i.start @@ "end_date" :> i.end,
           {"ts_code", "trade_date", "close", "open", "pct_chg"}) EXCEPT !.transform = "period_return_by_ts_code"]
SnapshotRead(i) ==
    [Query("ranking_metric_snapshot", IF i.metric = "pct_chg" THEN "daily" ELSE "daily_basic", "trade_date" :> i.as_of,
           {"ts_code", "trade_date", SnapshotMetrics[i.metric]}) EXCEPT !.filters = i.filters]

CompileIntent(p) ==
    LET i == p.intent
    IN  IF i.type = "none" THEN p
        ELSE IF i.type = "field_analysis" THEN FieldAnalysis(p)
        ELSE IF i.type = "event_outcome_probability" THEN EventProbability(p)
        ELSE IF i.metric = "period_return" /\ i.start = i.end
        THEN RankMetricPlan(p, DayReturnRead(i), "pct_chg", "ranking_metric_output")
        ELSE IF i.metric = "period_return"
        THEN RankMetricPlan(p, PeriodReturnRead(i), "period_return_pct", "period_return_output")
        ELSE IF i.metric \in DOMAIN SnapshotMetrics
        THEN RankMetricPlan(p, SnapshotRead(i), SnapshotMetrics[i.metric], "ranked_metric_output")
        ELSE p
=============================================================================
