---------------------------- MODULE PlanValidator ----------------------------
(***************************************************************************)
(* What a compiled plan must satisfy before anything is read:              *)
(* ASharePlanValidator.validate, AnalysisService's checks of time          *)
(* semantics, and the contracts of an intent (core/contracts.py).  An      *)
(* exception of any kind is a plan that is not valid.  The catalogue of    *)
(* operations, the format of dates and codes and the reading of industries *)
(* from the text are left out.                                             *)
(***************************************************************************)
EXTENDS RequestNormalizer, Capabilities
Topology == INSTANCE PlanGraph

\* AnalysisIntent, AnalysisMetric and AnalysisUniverse: the inputs each type of intent needs.
WellFormedMetric(i) ==
    /\ IF i.metric = "period_return" THEN Null \notin {i.start, i.end} /\ i.as_of = Null
       ELSE i.metric \in DOMAIN SnapshotMetrics /\ i.as_of # Null /\ {i.start, i.end} = {Null}
    /\ \A b \in i.filters : b.field = i.metric
FieldsNeeded(i) ==
    ToSet(i.group_by) \cup {b.field : b \in i.filters} \cup {a.field : a \in ToSet(i.aggregations)}
    \cup ({i.field} \ ({""} \cup {a.out : a \in ToSet(i.aggregations)}))
WellFormedIntent(i) ==
    CASE i.type = "none"           -> TRUE
      [] i.type = "rank_metric"    -> WellFormedMetric(i) /\ i.ranks /\ i.limit \in 1..100 /\ i.operation = ""
      [] i.type = "field_analysis" -> /\ i.operation # "" /\ i.fields # {} /\ FieldsNeeded(i) \subseteq i.fields
                                      /\ i.ranks => i.field # ""
                                      /\ i.ranks \/ i.aggregations # <<>>
      [] OTHER                     -> /\ Null \notin {i.start, i.end} /\ i.sessions \in 1..20 /\ i.offset \in 1..60
                                      /\ i.outcomes # {} /\ i.operation = "" /\ ~i.ranks

\* QueryPlan: a supported plan has something to execute, an unsupported one nothing, a graph nothing else.
WellFormedPlan(p) ==
    LET reads == p.queries # <<>> \/ p.graph # <<>>
    IN  /\ WellFormedIntent(p.intent)
        /\ IF p.feasible THEN reads \/ p.intent # NoIntent ELSE ~reads
        /\ p.graph # <<>> => p.queries = <<>> /\ ~HasPipeline(p) /\ p.intent = NoIntent

-----------------------------------------------------------------------------
\* Queries (_validate_params, resolve_query_shape and the row filters).

ReturnFields == {"ts_code", "name", "industry", "start_date", "end_date", "start_close", "end_close", "period_return_pct"}
ResultOf(query) == IF query.transform = "period_return_by_ts_code" THEN ReturnFields ELSE query.fields
FanoutOperations == {"top10_floatholders", "top10_holders", "stk_holdernumber", "income", "balancesheet", "cashflow",
                     "fina_indicator", "dividend", "share_float", "stk_holdertrade", "forecast"}
DateFanouts == {"dividend", "share_float", "stk_holdernumber", "forecast"}
Orphaned(query) ==
    /\ query.operation \in FanoutOperations /\ "ts_code" \notin DOMAIN query.params
    /\ ~(query.operation \in DateFanouts /\ Within(query.params))
    /\ ~NativeRange(query.operation, DOMAIN query.params)
ValidQuery(query) ==
    /\ Resolvable(query.operation, DOMAIN query.params)
    /\ Within(query.params) => query.params["start_date"] <= query.params["end_date"]
    /\ query.operation = "dividend" =>
          DOMAIN query.params \ {"ts_code", "ann_date", "record_date", "ex_date", "imp_ann_date"}
              \subseteq IF Within(query.params) THEN DateRange ELSE {}
    /\ query.fields # {} => \A b \in query.filters : b.field \in query.fields \cup (ResultOf(query) \ {"ts_code"})
ValidReads(p) ==
    /\ \A i \in DOMAIN p.queries : ValidQuery(p.queries[i])
    /\ Cardinality(QueryIds(p)) = Len(p.queries)
    /\ (\E i \in DOMAIN p.queries : Orphaned(p.queries[i])) => Uses(p, {"stock_basic", "ths_member"})

-----------------------------------------------------------------------------
\* The pipeline: field lineage, ranking boundary, predicates, semantics.

FieldsAfter(p) ==
    LET after[k \in 0..Len(p.steps)] ==
            IF k = 0 THEN ResultOf(QueryOf(p, p.source)) ELSE Leaves(p.steps[k], after[k - 1])
    IN  after
ValidPipeline(p) ==
    /\ p.source \in QueryIds(p)
    /\ \A k \in DOMAIN p.steps : Accepts(p.steps[k], FieldsAfter(p)[k - 1], \E j \in 1..(k - 1) : p.steps[j].op = "aggregate",
                                         [id \in QueryIds(p) |-> ResultOf(QueryOf(p, id))])

StepsOf(p, ops) == {k \in DOMAIN p.steps : p.steps[k].op \in ops}
FirstOf(p, op) == FirstStep(p.steps, LAMBDA s : s.op = op)
\* _validate_typed_ranking_boundary: a ranking by a snapshot metric is the intent compiler's, except
\* where the pipeline selects its cohort otherwise.
RankingBoundary(p) ==
    LET ranking == {p.steps[k].field : k \in StepsOf(p, {"sort"})} \cap DOMAIN SnapshotMetrics
        ordered == FirstOf(p, "sort") < FirstOf(p, "limit")
        quantiles == StepsOf(p, {"quantile_filter"})
    IN  \/ ranking = {} \/ StepsOf(p, {"limit"}) = {}
        \/ ordered /\ \E k \in StepsOf(p, {"join_fields"}) : k > FirstOf(p, "limit")
        \/ ordered /\ Cardinality(quantiles) >= 2 /\ Max(quantiles) < FirstOf(p, "sort")
        \/ /\ ordered /\ p.output = "composite_valuation_result" /\ Len(p.queries) = 1
           /\ p.queries[1].operation = "daily_basic"
        \/ p.intent.type = "field_analysis" /\ p.intent.field \in ranking
        \/ p.intent.type = "rank_metric" /\ p.intent.metric \in ranking

\* _validate_intent_constraint_coverage: the predicates of a ranking intent are the constraints.
PredicatesCovered(p) ==
    p.intent.type = "rank_metric" =>
        LET expected == {<<"universe", b>> : b \in p.intent.universe} \cup {<<"result", b>> : b \in p.intent.filters}
        IN  /\ expected = {<<c.scope, Bound(c.field, c.op, c.value)>> : c \in p.constraints}
            /\ Cardinality(expected) = Cardinality(p.constraints)
            /\ Cardinality({c.id : c \in p.constraints}) = Cardinality(p.constraints)

\* _constraint_enforced_by_query: by a row filter, a parameter, or the dates of the read.
DateFields == {"ann_date", "end_date", "trade_date", "float_date"}
Enforced(c, query) ==
    LET bound(name) == name \in DOMAIN query.params /\ query.params[name] = c.value
    IN  \/ Bound(c.field, c.op, c.value) \in query.filters
        \/ c.op = "eq" /\ bound(c.field)
        \/ c.op = "eq" /\ c.field \in {"period", "end_date"} /\ bound("period")
        \/ c.op = "eq" /\ c.value = OneYear /\ c.field \in DateFields /\ query.params = Year
        \/ c.op \in {"ge", "gt"} /\ c.field \in DateFields /\ bound("start_date")
        \/ c.op \in {"le", "lt"} /\ c.field \in DateFields /\ bound("end_date")
\* _validate_constraint_lineage: a predicate on another query restricts the result before the order.
EnforcedAt(p, c, k) ==
    LET step == p.steps[k]
    IN  /\ \A j \in 1..(k - 1) : p.steps[j].op \notin {"sort", "limit", "aggregate", "summarize"}
        /\ \/ step.op = "semi_join" /\ step.right = c.query /\ "ts_code" \in ToSet(step.join_on)
           \/ /\ step.op = "filter" /\ step.comparison = "eq" /\ step.value = 1
              /\ \E j \in 1..(k - 1) : /\ p.steps[j].op \in Members /\ p.steps[j].right = c.query
                                       /\ p.steps[j].output = step.field
ConstraintsEnforced(p) ==
    \A c \in p.constraints :
        /\ c.query \in QueryIds(p) /\ Enforced(c, QueryOf(p, c.query))
        /\ IF ~HasPipeline(p) THEN p.contract.result = c.query /\ c.step = Null
           ELSE IF c.query = p.source THEN c.step = Null
           ELSE c.step \in DOMAIN p.steps /\ EnforcedAt(p, c, c.step)

\* _validate_semantic_constraints: two summaries of one column are one, two prices of one row too.
Expression(p, c, k) ==
    LET made == {j \in 1..(k - 1) : p.steps[j].op \in {"derive", "compare_scalar", "compare_fields"} /\ p.steps[j].output = c}
    IN  IF made = {} THEN NoStep ELSE [p.steps[Max(made)] EXCEPT !.output = ""]
SummariesDiffer(p) ==
    \A k \in StepsOf(p, {"summarize"}) : \A a, b \in ToSet(p.steps[k].aggregations) :
        a # b => \/ a.fn # b.fn
                 \/ IF Expression(p, a.field, k) = NoStep THEN a.field # b.field
                    ELSE Expression(p, a.field, k) # Expression(p, b.field, k)
PricesJoined(p) ==
    \/ StepsOf(p, {"join_fields"}) # {} \/ QueryOf(p, p.source).transform # ""
    \/ Cardinality({k \in StepsOf(p, {"derive"}) : p.steps[k].field = "close"}) < 2

\* _validate_rank_metric_semantics
RankedField(i) == IF i.metric = "period_return" THEN "period_return_pct" ELSE SnapshotMetrics[i.metric]
RankSourceMatches(i, query) ==
    /\ {"ts_code", RankedField(i)} \subseteq ResultOf(query)
    /\ IF i.metric = "period_return"
       THEN query.transform # "" /\ Restrict(query.params, DateRange) = ("start_date" :> i.start @@ "end_date" :> i.end)
       ELSE /\ query.operation = IF i.metric = "pct_chg" THEN "daily" ELSE "daily_basic"
            /\ "trade_date" \in DOMAIN query.params /\ query.params["trade_date"] = i.as_of
RankSemantics(p) ==
    p.intent.type = "rank_metric" =>
        LET n == Len(p.steps)
        IN  /\ RankSourceMatches(p.intent, QueryOf(p, p.source))
            /\ n > 1 /\ StepsOf(p, {"sort"}) = {n - 1} /\ StepsOf(p, {"limit"}) = {n}
            /\ p.steps[n - 1].field = RankedField(p.intent) /\ p.steps[n - 1].direction = p.intent.direction
            /\ p.steps[n].count = p.intent.limit
            /\ \E k \in StepsOf(p, {"drop_missing"}) : RankedField(p.intent) \in ToSet(p.steps[k].fields)

\* _validate_answer_contract
ContractKept(p) ==
    Contracted(p) =>
        IF HasPipeline(p) /\ p.contract.result = p.output
        THEN /\ p.contract.kind = "summary" => Last(p.steps).op = "summarize"
             /\ p.contract.outputs \subseteq FieldsAfter(p)[Len(p.steps)]
        ELSE /\ p.contract.result \in QueryIds(p) /\ p.contract.kind # "summary"
             /\ p.contract.outputs \subseteq ResultOf(QueryOf(p, p.contract.result))

ValidGraphOf(p) ==
    /\ Topology!ValidGraph([nodes |-> [n \in DOMAIN p.graph |-> [inputs |-> p.graph[n]]], result |-> p.result,
                            contract |-> IF ~Contracted(p) THEN Topology!Uncontracted
                                         ELSE [Topology!Uncontracted EXCEPT !.result = p.contract.result,
                                                                            !.required = {p.contract.result}]])
    /\ p.constraints = {}
Valid(p) ==
    /\ p.feasible = p.covered /\ Len(p.queries) <= 8
    /\ IF p.graph # <<>> THEN ValidGraphOf(p)
       ELSE /\ HasPipeline(p) => /\ ValidPipeline(p) /\ RankingBoundary(p)
                                 /\ SummariesDiffer(p) /\ PricesJoined(p) /\ RankSemantics(p)
            /\ PredicatesCovered(p) /\ ConstraintsEnforced(p) /\ ContractKept(p) /\ ValidReads(p)

-----------------------------------------------------------------------------
\* _validate_planned_time_semantics.  A count of sessions without limit-ups leaves the rolling
\* steps unset, which a horizon then reads.

Streaks(p) == StepsOf(p, {"rolling_sum"})
Matched(p, q) == {k \in StepsOf(p, {"match_at_offset"}) : p.steps[k].periods = q.horizon}
StreakKept(p, q) ==
    \E k \in Streaks(p) : /\ p.steps[k].window = q.streak /\ p.steps[k].min_periods = q.streak
                          /\ p.steps[k].consecutive
OutcomeBeforeFilter(p, q) ==
    LET only == FirstStep(p.steps, LAMBDA s : s.op = "filter" /\ s.field = p.steps[Min(Streaks(p))].output
                                               /\ s.comparison = "eq" /\ s.value = q.streak)
    IN  only # 0 /\ Min(Matched(p, q)) < only
ReadsBeyond(p, q) ==
    LET ranged == {i \in DOMAIN p.queries : Within(p.queries[i].params)}
    IN  ranged # {} /\ p.queries[Min(ranged)].params["end_date"] > To(q)
Timely(p, q) ==
    p.feasible =>
        /\ ~("tomorrow" \in q.marks /\ Says(q, {"return", "rises", "falls", "limit up"}))
        /\ "limit up" \in q.marks => HasQuery(p, "limit_list_d")
        /\ "limit up" \in q.marks /\ q.streak # 0 => StreakKept(p, q)
        /\ q.horizon # 0 =>
              /\ Matched(p, q) # {}
              /\ q.streak # 0 => "limit up" \in q.marks /\ OutcomeBeforeFilter(p, q)
              /\ Dated(q) => ReadsBeyond(p, q)
=============================================================================
