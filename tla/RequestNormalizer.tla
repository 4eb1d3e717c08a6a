-------------------------- MODULE RequestNormalizer --------------------------
(***************************************************************************)
(* AnalysisService._normalize_plan_for_request: what a request says is     *)
(* imposed on the plan that a planner, or a known family, gave for it, by  *)
(* one compiler after another in a fixed order.  Every compiler returns    *)
(* the plan unchanged when the request does not ask for it.                *)
(***************************************************************************)
EXTENDS ConversationRefiner

Supported(p) == [p EXCEPT !.feasible = TRUE, !.covered = TRUE]
Replaced(p, queries, steps, output) == WithPipeline(Supported(p), queries, queries[1].id, steps, output)
LimitOf(p, default) ==
    LET i == FirstStep(p.steps, LAMBDA s : s.op = "limit")
    IN  IF i = 0 THEN default ELSE p.steps[i].count

\* _compile_holder_concentration_ranking: the change of the shareholder count stands for it.
HolderConcentration(p, q) ==
    LET universe == Query("holder_concentration_universe", "stock_basic", <<>>, {"ts_code", "name"})
        holders  == Query("holder_concentration_history", "stk_holdernumber", IF "year" \in q.marks THEN Year ELSE <<>>,
                          {"ts_code", "ann_date", "end_date", "holder_num"})
        fresh    == [Supported(p) EXCEPT !.intent = NoIntent, !.graph = <<>>, !.result = "", !.queries = <<universe, holders>>]
    IN  IF ~(AllOf(q, {"concentration"}) /\ Says(q, {"highest"})) THEN p
        ELSE Composed(fresh, holders.id,
                 <<Step("pct_change", [field |-> "holder_num", output |-> "holder_change_ratio", group_by |-> <<"ts_code">>,
                                       order_by |-> "end_date", periods |-> 1]),
                   Scale("holder_change_ratio", "multiply", 100, "holder_change_pct"),
                   [Latest(<<"ts_code">>, "ann_date") EXCEPT !.direction = "asc"], Drop(<<"holder_change_pct">>), Sort("holder_change_pct", "asc"),
                   Top(Rows(q, 10)), Named(universe.id)>>,
                 "holder_concentration_ranking", {"ts_code", "name", "ann_date", "end_date", "holder_num", "holder_change_pct"})

\* Unlocks of the whole market are read over the window of the request.
UnlockWindow(p, q) ==
    IF ~(Dated(q) /\ "unlock" \in q.marks) THEN p
    ELSE [p EXCEPT !.queries = [i \in DOMAIN @ |->
             IF @[i].operation = "share_float" /\ "ts_code" \notin DOMAIN @[i].params
             THEN [@[i] EXCEPT !.params = Span(q)] ELSE @[i]]]

\* _compile_security_dividend; the contract stays the planner's.
SecurityDividend(p, q) ==
    LET read == Query("security_dividend", "dividend", Code,
                      {"ts_code", "end_date", "ann_date", "div_proc", "cash_div_tax", "record_date", "ex_date", "pay_date", "stk_div"})
    IN  IF "dividend" \notin q.marks \/ ~AllOf(q, {"security code", "year"}) \/ "total dividend" \in q.marks THEN p
        ELSE Replaced(p, <<read>>, <<Where("end_date", "ge", YearStart), Where("end_date", "le", YearEnd)>>,
                      "annual_security_dividend")

\* _normalize_holder_count_history: rows without the promised count are dropped before the order.
CountedNever(s) == FALSE      \* mutant of Counted
Counted(s) == s.op = "drop_missing" /\ "holder_num" \in ToSet(s.fields)
HolderCountHistory(p) ==
    LET sort == FirstStep(p.steps, LAMBDA s : s.op = "sort")
        asks == /\ HasPipeline(p) /\ "holder_num" \in p.contract.outputs
                /\ p.source \in QueryIds(p) /\ QueryOf(p, p.source).operation = "stk_holdernumber"
                /\ \A s \in ToSet(p.steps) : s.op # "pct_change" /\ ~Counted(s)
    IN  IF ~asks THEN p
        ELSE [p EXCEPT !.steps = InsertAt(@, IF sort = 0 THEN 1 ELSE sort, Drop(<<"holder_num">>))]

\* _normalize_date_range_endpoint_membership: "one of the two ends of the window" means between them.
Endpoints(query) == {b \in query.filters : b.op = "in" /\ b.value = <<query.params["start_date"], query.params["end_date"]>>}
DateEndpoints(p) ==
    LET ranged == {i \in DOMAIN p.queries : Within(p.queries[i].params) /\ Endpoints(p.queries[i]) # {}}
        ends(i) == {b.field : b \in Endpoints(p.queries[i])}
        about(c) == \E i \in ranged : c.query = p.queries[i].id /\ c.field \in ends(i) /\ c.op = "in"
                        /\ c.value = <<p.queries[i].params["start_date"], p.queries[i].params["end_date"]>>
        replaced == {c \in p.constraints : about(c)}
    IN  [p EXCEPT !.queries = [i \in DOMAIN @ |-> IF i \in ranged THEN [@[i] EXCEPT !.filters = @ \ Endpoints(p.queries[i])] ELSE @[i]],
                  !.constraints = (@ \ replaced) \cup {[c EXCEPT !.op = "ge", !.value = c.value[1]] : c \in replaced}
                                  \cup {[c EXCEPT !.id = @ \o " end", !.op = "le", !.value = c.value[2], !.step = Null] : c \in replaced}]

\* _normalize_grouped_aggregate_result: a summary that only repeats a grouping key is no summary.
GroupedAggregate(p) ==
    LET group == FirstStep(p.steps, LAMBDA s : s.op = "aggregate")
        repeats(s) == s.op = "summarize" /\ \E a \in ToSet(s.aggregations) : a.fn = "first" /\ a.field \in ToSet(p.steps[group].group_by)
    IN  IF Len(p.steps) < 2 \/ group = 0 THEN p
        ELSE IF \A s \in ToSet(p.steps) : ~repeats(s) THEN p
        ELSE [p EXCEPT !.steps = SelectSeq(@, LAMBDA s : ~repeats(s)),
                       !.contract.kind = IF Contracted(p) THEN "table" ELSE @]

\* _compile_block_trade_snapshot
BlockTradeSnapshot(p, q) ==
    LET has    == HasQuery(p, "block_trade")
        given  == IF has THEN p.queries[FirstQuery(p, "block_trade")].params ELSE <<>>
        params == IF Within(given) THEN Restrict(given, DOMAIN given \cap {"ts_code", "start_date", "end_date"})
                  ELSE IF p.told /\ "past" \in q.marks
                  THEN Span(q) @@ Restrict(given, DOMAIN given \cap {"ts_code"})
                  ELSE "trade_date" :> (IF "trade_date" \in DOMAIN given THEN given["trade_date"] ELSE End)
    IN  IF "block trade" \notin q.marks \/ (HasPipeline(p) /\ has) \/ (~has /\ ~p.told) THEN p
        ELSE [Supported(p) EXCEPT !.source = "", !.steps = <<>>, !.output = "", !.queries =
                 <<Query("block_trade_snapshot", "block_trade", params,
                         {"ts_code", "trade_date", "price", "vol", "amount", "buyer", "seller"})>>]

\* _compile_dividend_yield_ranking and _compile_margin_balance_ranking: one snapshot, ordered; the
\* day is the planned query's, which may have none.
SnapshotRanking(p, asked, ops, id, op, c, n, output) ==
    LET planned == {i \in DOMAIN p.queries : p.queries[i].operation \in ops}
        params  == IF planned = {} THEN "trade_date" :> End
                   ELSE Restrict(p.queries[Min(planned)].params, DOMAIN p.queries[Min(planned)].params \cap {"trade_date"})
    IN  IF ~asked \/ (planned = {} /\ ~p.told) THEN p
        ELSE Replaced(p, <<Query(id, op, params, {"ts_code", "trade_date", c})>>, <<Sort(c, "desc"), Top(n)>>, output)
DividendYieldRanking(p, q) ==
    SnapshotRanking(p, AllOf(q, {"yield", "highest"}) \/ AllOf(q, {"dividend yield", "top"}), {"daily_basic"},
                    "dividend_yield_snapshot", "daily_basic", "dv_ratio", 10, "dividend_yield_ranking")
MarginRanking(p, q) ==
    SnapshotRanking(p, AllOf(q, {"margin", "highest"}), {"margin_detail", "margin_secs"},
                    "margin_balance_snapshot", "margin_detail", "rzye", 1, "margin_balance_ranking")

\* _compile_composite_valuation: a screen over one snapshot by the fields, the bounds and the first
\* order of the current request, whatever cohort the plan selected before.
Composite(p, q) ==
    LET has     == HasQuery(p, "daily_basic")
        planned == IF has THEN p.queries[FirstQuery(p, "daily_basic")]
                   ELSE Query("composite_valuation_snapshot", "daily_basic", "trade_date" :> End, {})
        meant(c) == IF c = "dv_ratio" /\ has /\ "dv_ttm" \in planned.fields /\ "dv_ratio" \notin planned.fields THEN "dv_ttm" ELSE c
        fields  == {meant(c) : c \in ToSet(q.fields)}
        ttm     == "pe ttm" \in q.marks
        read    == [planned EXCEPT !.fields = {"ts_code", "trade_date"} \cup (IF ttm THEN {"pe_ttm"} ELSE fields), !.filters = {}]
        names   == Names("composite_valuation_names")
        named   == "name" \in q.marks
        bounded == SelectSeq(q.fields, LAMBDA c : c \in q.bounds)
        screen  == IF ttm THEN <<Where("pe_ttm", "gt", 0), Sort("pe_ttm", "asc")>>
                   ELSE (IF "positive pe" \in q.marks THEN <<Where("pe", "gt", 0)>> ELSE <<>>)
                        \o [i \in DOMAIN bounded |-> Where(meant(bounded[i]), "gt", 1)]
                        \o (IF q.sorted # "" THEN <<Sort(meant(q.sorted), Direction(q))>> ELSE <<>>)
        steps   == screen \o (IF q.limit # Null THEN <<Top(q.limit)>> ELSE <<>>)
                   \o (IF named THEN <<Named(names.id)>> ELSE <<>>)
        queries == <<read>> \o (IF named THEN <<names>> ELSE <<>>)
        screened == [Replaced(p, queries, steps, "composite_valuation_result")
                        EXCEPT !.contract = Contract("composite_valuation_result", "table",
                                                     {"ts_code"} \cup (IF named THEN {"name"} ELSE {}) \cup fields)]
    IN  IF \/ \E s \in ToSet(p.steps) : s.right # ""
           \/ q.fields = <<>> \/ ~(q.bounds # {} \/ q.sorted # "" \/ ttm)
           \/ ~has /\ ~p.told
        THEN p
        ELSE IF steps = <<>>
        THEN [Supported(p) EXCEPT !.queries = queries, !.source = "", !.steps = <<>>, !.output = ""]
        ELSE screened

\* _normalize_suspension_request: native fields, and the planned pipeline only while it can read them.
StaysReadable(steps, fields) ==
    LET after[k \in 0..Len(steps)] ==
            IF k = 0 THEN fields
            ELSE LET s == steps[k]
                 IN  (IF s.op = "aggregate" THEN ToSet(s.group_by) ELSE after[k - 1]) \cup Outputs(s) \cup ({s.output} \ {""})
        wants(s) == (ToSet(s.fields) \cup ToSet(s.group_by) \cup {s.field, s.right_field, s.order_by}
                     \cup {s.aggregations[i].field : i \in DOMAIN s.aggregations}) \ {""}
    IN  \A k \in DOMAIN steps : wants(steps[k]) \subseteq after[k - 1]
SuspensionRequest(p, q) ==
    LET i    == FirstQuery(p, "suspend_d")
        read == [p.queries[i] EXCEPT !.fields = {"ts_code", "trade_date", "suspend_timing", "suspend_type"}, !.filters = {},
                                     !.params = Restrict(@, DOMAIN @ \ {"resume_date"})]
        kept == [Supported(p) EXCEPT !.queries = <<read>>]
    IN  IF "suspension" \notin q.marks \/ ~HasQuery(p, "suspend_d") THEN p
        ELSE IF StaysReadable(p.steps, read.fields) THEN kept
        ELSE [kept EXCEPT !.source = "", !.steps = <<>>, !.output = ""]

\* _compile_limit_up_count_return_ranking
LimitUpCounts(p, q) ==
    LET dated  == {i \in DOMAIN p.queries : Within(p.queries[i].params)}
        window == IF Dated(q) THEN Span(q) ELSE IF "year" \in q.marks THEN Year
                  ELSE Restrict(p.queries[Min(dated)].params, {"start_date", "end_date"})
        events == Query("period_limit_up_events", "limit_list_d", window @@ "limit_type" :> "U", {"ts_code", "name", "trade_date"})
        returns == [Query("period_security_returns", "daily", window, {"ts_code", "trade_date", "close"})
                       EXCEPT !.transform = "period_return_by_ts_code"]
    IN  IF ~(AllOf(q, {"limit up", "highest", "return"})) \/ ~(Dated(q) \/ "year" \in q.marks \/ dated # {}) THEN p
        ELSE Composed([Supported(p) EXCEPT !.intent = NoIntent, !.queries = <<events, returns>>], events.id,
                 <<Grouped(<<"ts_code">>, <<Agg("trade_date", "limit_up_count", "count")>>), Sort("limit_up_count", "desc"),
                   Top(Rows(q, 10)), Copy(returns.id, <<"ts_code">>, Same({"name", "period_return_pct"}))>>,
                 "limit_up_count_return_ranking", {"ts_code", "name", "limit_up_count", "period_return_pct"})

\* _compile_market_period_return_ranking, unless an earlier compiler composed the ranking.
MarketReturns(p, q) ==
    LET d      == ReturnPrices(p)
        prices == [p.queries[Min(d)] EXCEPT !.fields = {"ts_code", "trade_date", "close"}, !.transform = "period_return_by_ts_code"]
        joined == Len(p.queries) > 1 /\ \E s \in ToSet(p.steps) : s.op = "join_fields"
    IN  IF joined \/ "limit up" \in q.marks \/ ~(AllOf(q, {"most", "market"}) /\ Says(q, {"rises", "falls"})) \/ d = {} THEN p
        ELSE WithPipeline(p, <<prices>>, prices.id,
                 <<Sort("period_return_pct", IF "falls" \in q.marks THEN "asc" ELSE "desc"), Top(LimitOf(p, 10))>>,
                 "market_period_return_ranking")

\* _compile_volume_turnover_ranking
VolumeTurnover(p, q) ==
    LET d == FirstQuery(p, "daily")  v == FirstQuery(p, "daily_basic")
        read == AddFields(AddFields(p, d, {"ts_code", "trade_date", "vol"}), v, {"ts_code", "trade_date", "turnover_rate"})
    IN  IF ~(AllOf(q, {"volume", "turnover"}) /\ HasQuery(p, "daily") /\ HasQuery(p, "daily_basic")) THEN p
        ELSE Composed(read, p.queries[d].id,
                 <<Sort("vol", "desc"), Top(LimitOf(p, 20)),
                   [Copy(p.queries[v].id, <<"ts_code", "trade_date">>, Same({"turnover_rate"})) EXCEPT !.cardinality = "one_to_one"]>>,
                 "volume_turnover_ranking", {"ts_code", "trade_date", "vol", "turnover_rate"})

\* _enforce_unverifiable_data_boundary: the contract stays, as does a graph.
Boundary(p, q) == IF "unverifiable" \in q.marks THEN Refused(p) ELSE p

-----------------------------------------------------------------------------
\* The text that is searched holds the turn before the request (_with_conversation_context): words
\* of both count, and of two values the first one found, the earlier, is taken.
InContext(q) ==
    IF q.previous = {} THEN q
    ELSE LET r == CHOOSE r \in q.previous : TRUE
             first(a, b, absent) == IF a = absent THEN b ELSE a
         IN  [q EXCEPT !.marks = @ \cup r.marks, !.security = @ \/ r.security,
                       !.window = IF r.window = "range" THEN "range" ELSE @,
                       !.limit = first(r.limit, @, Null), !.sorted = first(r.sorted, @, ""),
                       !.streak = first(r.streak, @, 0), !.horizon = first(r.horizon, @, 0),
                       !.fields = r.fields \o SelectSeq(@, LAMBDA c : c \notin ToSet(r.fields)),
                       !.bounds = @ \cup r.bounds]

\* _normalize_plan_for_request for the whole text `all', of which `q' is the current request: the
\* compilers for a plan without a type, those for consecutive limit-ups, and the data boundary last.
Rewritten(p, all, q) ==
    LET disclosed == BlockTradeSnapshot(GroupedAggregate(DateEndpoints(HolderCountHistory(SecurityDividend(p, all)))), all)
        screened  == SuspensionRequest(Composite(DividendYieldRanking(disclosed, all), q), all)
        counted   == LimitUpCounts(MoneyflowComparison(MarginRanking(screened, all), all), all)
    IN  VolumeTurnover(MarketReturns(counted, all), all)
Streaked(p, all) == IF "limit up" \in all.marks /\ all.streak # 0 THEN LimitUpStreak(p, all) ELSE p
UntypedRevived(p, all, q) == Streaked(Boundary(Rewritten(p, all, q), all), all)  \* mutant of Untyped: the boundary first
Untyped(p, all, q) == Boundary(Streaked(Rewritten(p, all, q), all), all)
Typed(p, all) == UnlockWindow(ValuationPeriodReturn(HolderConcentration(p, all), all), all)
ByType(typed, all, q) ==
    IF typed.graph # <<>> \/ typed.intent # NoIntent THEN typed
    ELSE IF AsksTotalDividends(all) THEN Refused(typed) ELSE Untyped(typed, all, q)
Otherwise(refined, p) == IF refined # NoPlan THEN refined ELSE p
Normalized(p, all, q) ==
    Otherwise(Refinement(q), IF AsksIndustryDividends(all) /\ ValuationDay(p, all) # Null THEN IndustryDividends(p, all)
                             ELSE ByType(Typed(p, all), all, q))
Normalize(p, q) == Normalized(p, InContext(q), q)
=============================================================================
