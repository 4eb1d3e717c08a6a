---------------------------- MODULE KnownRequests ----------------------------
(***************************************************************************)
(* The request families that are compiled without a language model         *)
(* (AnalysisService._compile_known_request in application/workflow.py).    *)
(* Each family asks for groups of words and for what the resolvers find    *)
(* (Asks...), and answers with one complete plan.  A family that lacks a   *)
(* date or a security either gives up its turn or, once the code has       *)
(* committed to it, ends the search without a plan.                        *)
(***************************************************************************)
EXTENDS PlanParts

Active == "list_status" :> "L"
Names(id) == Query(id, "stock_basic", Active, {"ts_code", "name"})
Named(id) == Copy(id, <<"ts_code">>, Same({"name"}))
Year == "start_date" :> YearStart @@ "end_date" :> YearEnd
OneDay(q) == Dated(q) /\ q.window = "day"

\* _compile_composed_result
Composed(p, source, steps, output, outputs) ==
    [p EXCEPT !.source = source, !.steps = steps, !.output = output,
              !.contract = Contract(output, "table", outputs)]

-----------------------------------------------------------------------------
\* Families with a compiler of their own.

AsksForecast(q) == Says(q, {"earnings forecast"}) /\ Says(q, {"latest"}) /\ q.security
LatestForecast(q) ==
    LET fields == <<"ts_code", "ann_date", "end_date", "type", "p_change_min", "p_change_max",
                    "net_profit_min", "net_profit_max", "summary", "change_reason">>
    IN  Ranked(Query("latest_earnings_forecast_disclosures", "forecast", Code, ToSet(fields)),
               <<Drop(<<"ann_date">>), Sort("ann_date", "desc"), Top(1), Only(fields)>>,
               "latest_earnings_forecast", ToSet(fields))

AsksMainFund(q) == AllOf(q, {"main fund", "net inflow"}) /\ q.security /\ OneDay(q)
MainFund(q) ==
    LET fields == {"ts_code", "trade_date", "net_mf_amount"}
    IN  Listed(Query("security_main_moneyflow_snapshot", "moneyflow", Code @@ Day(q), fields), fields)

AsksHolderTrades(q) == AllOf(q, {"literal year", "count", "holder trades"})
HolderTradeCounts(q) ==
    LET read == Query("holder_trade_disclosures", "stk_holdertrade", Year, {"ts_code", "ann_date", "in_de"})
        within(op, v) == [id |-> op, scope |-> "result", query |-> read.id, field |-> "ann_date", op |-> op,
                          value |-> v, step |-> Null]
    IN  [Ranked(read, <<Mark("in_de", "eq", Purchase, "is_purchase"), Mark("in_de", "eq", Reduction, "is_reduction"),
                        Total(<<Agg("is_purchase", "purchase_count", "sum"),
                                Agg("is_reduction", "reduction_count", "sum")>>)>>,
                "holder_trade_direction_counts", {"purchase_count", "reduction_count"})
            EXCEPT !.constraints = {within("ge", YearStart), within("le", YearEnd)}]

AsksCashDividends(q) == AllOf(q, {"per-share dividend", "highest"}) /\ Dated(q) /\ q.limit # Null
CashDividends(q) ==
    LET read  == Query("ranked_cash_dividend_disclosures", "dividend", Span(q), {"ts_code", "ann_date", "cash_div_tax"})
        names == Names("ranked_cash_dividend_company_names")
        order == Sort("cash_div_tax", Direction(q))
        steps == <<Drop(<<"cash_div_tax">>)>>
                 \o (IF "positive" \in q.marks THEN <<Where("cash_div_tax", "gt", 0)>> ELSE <<>>)
                 \o <<[Named(names.id) EXCEPT !.op = "inner_join"], order, Distinct(<<"ts_code">>), order,
                      Top(q.limit), Only(<<"ts_code", "name", "cash_div_tax", "ann_date">>)>>
    IN  Composed([Blank EXCEPT !.queries = <<read, names>>], read.id, steps, "cash_dividend_company_ranking",
                 {"ts_code", "name", "cash_div_tax", "ann_date"})

AsksCompletedRepurchases(q) == AllOf(q, {"repurchase", "completed"}) /\ Dated(q)
CompletedRepurchases(q) ==
    Listed([Query("completed_repurchase_disclosures", "repurchase", Span(q),
                  {"ts_code", "ann_date", "end_date", "proc", "vol", "amount", "high_limit", "low_limit"})
               EXCEPT !.filters = {Bound("proc", "contains", Done)}],
           {"ts_code", "ann_date", "proc", "vol", "amount"})

AsksRepurchaseCompanies(q) ==
    /\ AllOf(q, {"repurchase", "list"}) /\ Dated(q)
    /\ ~Says(q, {"rank", "highest"})
RepurchaseCompanies(q) ==
    LET read  == Query("repurchase_company_disclosures", "repurchase", Span(q),
                       {"ts_code", "ann_date", "proc", "vol", "amount"})
        names == Names("repurchase_company_names")
        order == IF "newest first" \in q.marks THEN <<Sort("ann_date", "desc")>>
                 ELSE IF "oldest first" \in q.marks THEN <<Sort("ann_date", "asc")>> ELSE <<>>
    IN  Composed([Blank EXCEPT !.queries = <<read, names>>], read.id,
                 <<Latest(<<"ts_code">>, "ann_date"), Named(names.id)>> \o order
                 \o <<Only(<<"ts_code", "name", "ann_date">>)>>,
                 "repurchase_company_list", {"ts_code", "name", "ann_date"})

AsksPriceExtrema(q) == AllOf(q, {"highest", "lowest", "close"}) /\ q.security /\ Dated(q)
PriceExtrema(q) ==
    Ranked(Query("security_price_window", "daily", Code @@ Span(q), {"ts_code", "trade_date", "close"}),
           <<Drop(<<"close">>), Total(<<Agg("close", "highest_close", "max"), Agg("close", "lowest_close", "min")>>)>>,
           "security_close_extrema", {"highest_close", "lowest_close"})

AsksBlockTrades(q) == "block trade" \in q.marks /\ Dated(q)
BlockTrades(q) ==
    LET fields == {"ts_code", "trade_date", "price", "vol", "amount", "buyer", "seller"}
        params == IF q.window = "day" /\ ~q.security THEN Day(q)
                  ELSE Span(q) @@ (IF q.security THEN Code ELSE <<>>)
        read   == Query("block_trade_window", "block_trade", params, fields)
    IN  IF AllOf(q, {"amount", "highest"})
        THEN Ranked(read, <<Drop(<<"amount">>), Grouped(<<"ts_code">>, <<Agg("amount", "total_amount", "sum")>>),
                            Sort("total_amount", "desc"), Top(Rows(q, 20))>>,
                    "block_trade_amount_ranking", {"ts_code", "total_amount"})
        ELSE Listed(read, fields)

AsksValuationThresholds(q) == {"pe", "pb"} \subseteq q.bounds /\ "below" \in q.marks /\ OneDay(q)
ValuationThresholds(q) ==
    LET read  == [Query("valuation_threshold_snapshot", "daily_basic", Day(q), {"ts_code", "trade_date", "pe", "pb"})
                     EXCEPT !.filters = {Bound("pe", "lt", 1), Bound("pb", "lt", 1)}]
        names == Names("valuation_threshold_companies")
    IN  Promising(WithPipeline(Blank, <<read, names>>, read.id,
                      <<Drop(<<"pe", "pb">>), Named(names.id), Only(<<"ts_code", "name", "trade_date", "pe", "pb">>)>>,
                      "valuation_threshold_screen"), {"ts_code", "name", "trade_date", "pe", "pb"})

AsksUnlockCount(q) == AllOf(q, {"unlock", "how many", "company"}) /\ Dated(q)
UnlockCount(q) ==
    Ranked(Query("unlock_window", "share_float", Span(q), {"ts_code", "float_date"}),
           <<Total(<<Agg("ts_code", "company_count", "count_distinct")>>)>>,
           "distinct_unlock_company_count", {"company_count"})

\* The total cash distribution has no source; the plan says so.
AsksTotalDividends(q) == AllOf(q, {"total dividend", "no substitute"})
TotalDividends(q) == Refused(Blank)

-----------------------------------------------------------------------------
\* Compilers that known families share with the rewriting of a planner's plan.  Each returns the
\* plan unchanged when the request does not ask for it.

HasQuery(p, op)     == Uses(p, {op})
FirstQuery(p, op)   == Min({i \in DOMAIN p.queries : p.queries[i].operation = op})
AddFields(p, i, fs) == [p EXCEPT !.queries[i].fields = @ \cup fs]
Within(params)      == {"start_date", "end_date"} \subseteq DOMAIN params
WithoutCode(params) == Restrict(params, DOMAIN params \ {"ts_code"})
FirstStep(steps, P(_)) == LET I == {i \in DOMAIN steps : P(steps[i])} IN IF I = {} THEN 0 ELSE Min(I)

\* _compile_security_moneyflow_comparison
AsksMoneyflowComparison(q) == AllOf(q, {"large orders", "small orders", "money flow"})
MoneyflowComparison(p, q) ==
    LET i    == FirstQuery(p, "moneyflow")
        net(size) == Arith("buy_" \o size \o "_amount", "subtract", "sell_" \o size \o "_amount", "net_" \o size \o "_amount")
        read == [p.queries[i] EXCEPT !.fields = {"ts_code", "trade_date", "buy_lg_amount", "sell_lg_amount",
                                                 "buy_sm_amount", "sell_sm_amount"}]
    IN  IF ~AsksMoneyflowComparison(q) \/ ~HasQuery(p, "moneyflow") THEN p
        ELSE [Promising(WithPipeline(p, [p.queries EXCEPT ![i] = read], read.id,
                  <<net("lg"), net("sm"), Total(<<Agg("net_lg_amount", "large_order_net_amount", "sum"),
                                                  Agg("net_sm_amount", "small_order_net_amount", "sum"),
                                                  Agg("trade_date", "trading_day_count", "count")>>)>>,
                  "security_moneyflow_comparison"),
                  {"large_order_net_amount", "small_order_net_amount", "trading_day_count"})
              EXCEPT !.intent = NoIntent]

\* _compile_valuation_period_return: a cohort chosen by a snapshot field with its period returns, or,
\* when the intent ranks returns, the returns with the snapshot fields copied onto them.
AsksReturns(q) == Says(q, {"return", "rises", "falls"})
RanksReturns(intent) ==
    intent.ranks /\ (\/ intent.type = "rank_metric" /\ intent.metric = "period_return"
                     \/ intent.type = "field_analysis" /\ intent.operation = "daily" /\ intent.field = "close")
ReturnPrices(p) == {i \in DOMAIN p.queries : p.queries[i].operation = "daily" /\ Within(p.queries[i].params)}
ValuationPeriodReturn(p, q) ==
    LET fields   == ToSet(q.fields)
        hasBoth  == HasQuery(p, "daily_basic") /\ ReturnPrices(p) # {}
        queries  == IF hasBoth THEN p.queries
                    ELSE <<Query("valuation_snapshot", "daily_basic", Day(q), {}),
                           Query("valuation_period_prices", "daily", Span(q), {})>>
        read     == [p EXCEPT !.queries = queries]
        v        == FirstQuery(read, "daily_basic")
        d        == Min(ReturnPrices(read))
        values   == [queries[v] EXCEPT !.fields = @ \cup fields \cup {"ts_code"}]
        prices   == [queries[d] EXCEPT !.fields = {"ts_code", "trade_date", "close"}, !.params = WithoutCode(@),
                                       !.transform = "period_return_by_ts_code"]
        kept     == FirstStep(p.steps, LAMBDA s : s.op = "limit")
        covered  == [p EXCEPT !.feasible = TRUE, !.covered = TRUE, !.intent = NoIntent]
        ranked   == Composed([covered EXCEPT !.queries = <<prices, values>>], prices.id,
                        <<Sort("period_return_pct", p.intent.direction), Top(p.intent.limit),
                          Copy(values.id, <<"ts_code">>, Same(fields))>>,
                        "period_return_valuation", {"ts_code", "period_return_pct"} \cup fields)
        chosen   == Composed([covered EXCEPT !.queries = [queries EXCEPT ![v] = values, ![d] = prices]], values.id,
                        <<Sort(q.fields[1], Direction(q)), Top(Rows(q, IF kept = 0 THEN 20 ELSE p.steps[kept].count)),
                          Copy(prices.id, <<"ts_code">>, Same({"period_return_pct"}))>>,
                        "valuation_period_return", {"ts_code", q.fields[1], "period_return_pct"})
    IN  IF \/ p.output = "period_return_valuation"
           \/ q.fields = <<>> \/ ~AsksReturns(q)
           \/ ~hasBoth /\ ~Dated(q)
        THEN p
        ELSE IF RanksReturns(p.intent) THEN ranked ELSE chosen

\* _compile_limit_up_streak_pipeline: events matched to the daily sequence, a count of consecutive
\* sessions, and the outcome a number of sessions later when the request or the plan names one.
LimitUpEvents(start, end) == Query("limit_up_events", "limit_list_d",
                                   "start_date" :> start @@ "end_date" :> end @@ "limit_type" :> "U", {"ts_code", "trade_date"})
SequencePrices(start, end) == Query("limit_up_prices", "daily", "start_date" :> start @@ "end_date" :> end,
                                    {"ts_code", "trade_date", "close"})
PlannedHorizon(p) ==
    LET i == FirstStep(p.steps, LAMBDA s : s.op = "match_at_offset")
    IN  IF Contracted(p) /\ HasPipeline(p) /\ p.contract.result = p.output /\ i # 0 THEN p.steps[i].periods ELSE 0
HorizonOf(p, q) == IF q.horizon # 0 THEN q.horizon ELSE PlannedHorizon(p)
StreakSource(p, q) ==       \* the plan with its two queries, or the plan as it is without their dates
    LET fresh == [p EXCEPT !.feasible = TRUE, !.covered = TRUE, !.intent = NoIntent, !.source = "", !.steps = <<>>,
                           !.output = "", !.queries = <<SequencePrices(From(q), IF HorizonOf(p, q) # 0 THEN Later ELSE To(q)),
                                                        LimitUpEvents(From(q), To(q))>>]
        ops     == {"limit_list_d", "daily"}
        dated   == {i \in DOMAIN p.queries : p.queries[i].operation \in ops /\ Within(p.queries[i].params)}
        window  == p.queries[Min(dated)].params
        missing == {op \in ops : ~HasQuery(p, op)}
        added   == (IF "daily" \in missing THEN <<SequencePrices(window["start_date"], window["end_date"])>> ELSE <<>>)
                   \o (IF "limit_list_d" \in missing
                       THEN <<LimitUpEvents(window["start_date"], window["end_date"])>> ELSE <<>>)
    IN  IF ~p.feasible THEN IF Dated(q) THEN fresh ELSE p
        ELSE IF missing = {} \/ dated = {} THEN p ELSE [p EXCEPT !.queries = @ \o added]
StreakSteps(events, n) ==
    <<Step("match_source", [right |-> events, join_on |-> <<"ts_code", "trade_date">>, output |-> "is_limit_up"]),
      Step("rolling_sum", [field |-> "is_limit_up", output |-> "streak_count", group_by |-> <<"ts_code">>,
                           order_by |-> "trade_date", window |-> n, min_periods |-> n, consecutive |-> TRUE])>>
OutcomeSteps(h, n) ==
    <<Step("match_at_offset", [field |-> "close", output |-> "future_close", matched |-> "future_trade_date",
           group_by |-> <<"ts_code">>, order_by |-> "trade_date", periods |-> h, unit |-> "trading_session"]),
      Where("streak_count", "eq", n), Drop(<<"future_close">>), Arith("future_close", "divide", "close", "outcome_ratio"),
      Scale("outcome_ratio", "subtract", 1, "outcome_return"), Mark("outcome_return", "gt", 0, "outcome_is_positive"),
      Mark("outcome_return", "lt", 0, "outcome_is_negative"), Scale("outcome_return", "multiply", 100, "outcome_return_pct"),
      Total(<<Agg("outcome_return", "event_count", "count"), Agg("outcome_is_positive", "positive_event_count", "sum"),
              Agg("outcome_is_positive", "positive_event_ratio", "mean"), Agg("outcome_is_negative", "negative_event_count", "sum"),
              Agg("outcome_is_negative", "negative_event_ratio", "mean"), Agg("outcome_return_pct", "average_return_pct", "mean"),
              Agg("outcome_return_pct", "minimum_return_pct", "min"), Agg("outcome_return_pct", "maximum_return_pct", "max")>>)>>
\* The parts of a planned pipeline that make it worth keeping: the first step of each kind.
PlannedStreak(p, q, events) ==
    LET streak == FirstStep(p.steps, LAMBDA s : s.op = "rolling_sum" /\ s.window = q.streak)
    IN  [member  |-> FirstStep(p.steps, LAMBDA s : s.op = "match_source" /\ s.right = events),
         streak  |-> streak,
         outcome |-> FirstStep(p.steps, LAMBDA s : s.op = "match_at_offset" /\ s.periods = HorizonOf(p, q)),
         only    |-> IF streak = 0 THEN 0 ELSE FirstStep(p.steps, LAMBDA s :
                         s.op = "filter" /\ s.field = p.steps[streak].output /\ s.comparison = "eq" /\ s.value = q.streak),
         summary |-> FirstStep(p.steps, LAMBDA s : s.op \in {"aggregate", "summarize"})]
CoversOutcomes(p, q, summary) ==
    LET fields   == {p.steps[summary].aggregations[i].field : i \in DOMAIN p.steps[summary].aggregations}
        compared == {p.steps[i].comparison : i \in {j \in DOMAIN p.steps :
                        p.steps[j].op = "compare_scalar" /\ p.steps[j].output \in fields}}
    IN  /\ "rises" \in q.marks => "gt" \in compared
        /\ "falls" \in q.marks => "lt" \in compared
StreakOver(read, q, horizon) ==
    LET d      == FirstQuery(read, "daily")
        e      == FirstQuery(read, "limit_list_d")
        events == read.queries[e].id
        parts  == PlannedStreak(read, q, events)
        keeps  == /\ horizon # 0 /\ read.source = read.queries[d].id
                  /\ \A part \in DOMAIN parts : parts[part] # 0
                  /\ parts.outcome < parts.only
                  /\ CoversOutcomes(read, q, parts.summary)
        kept   == LET member == read.steps[parts.member]
                  IN  [AddFields(AddFields(read, d, {"ts_code", "trade_date", read.steps[parts.outcome].field}),
                                 e, ToSet(member.join_on))
                        EXCEPT !.queries[e].params = "limit_type" :> "U" @@ @,
                               !.steps[parts.streak] = [@ EXCEPT !.field = member.output, !.min_periods = q.streak,
                                                                 !.consecutive = TRUE]]
        h      == IF horizon # 0 THEN horizon ELSE IF "next day" \in q.marks THEN 1 ELSE 0
        alone  == WithPipeline(read, read.queries, read.queries[d].id,
                      StreakSteps(events, q.streak) \o <<Where("streak_count", "eq", q.streak)>>, "limit_up_streaks")
        report == LET sound == AddFields(AddFields(read, d, {"ts_code", "trade_date", "close"}), e, {"ts_code", "trade_date"})
                  IN  [WithPipeline(sound, sound.queries, read.queries[d].id,
                                    StreakSteps(events, q.streak) \o OutcomeSteps(h, q.streak), "limit_up_streak_outcome")
                        EXCEPT !.queries[e].params = "limit_type" :> "U" @@ @, !.queries[d].params = WithoutCode(@)]
    IN  IF ~(HasQuery(read, "daily") /\ HasQuery(read, "limit_list_d")) THEN read
        ELSE IF keeps THEN kept ELSE IF h = 0 THEN alone ELSE report
LimitUpStreak(p, q) == StreakOver(StreakSource(p, q), q, HorizonOf(p, q))

\* _compile_industry_valuation_dividend
AsksIndustryDividends(q) == AllOf(q, {"industry", "year", "dividend", "pe"})
ValuationDay(p, q) ==
    LET dated == {i \in DOMAIN p.queries : p.queries[i].operation = "daily_basic" /\ "trade_date" \in DOMAIN p.queries[i].params}
    IN  IF dated # {} THEN p.queries[Min(dated)].params["trade_date"] ELSE IF Dated(q) THEN To(q) ELSE Null
IndustryDividends(p, q) ==
    LET universe == [Query("industry_security_universe", "stock_basic", Active, {"ts_code", "name", "industry"})
                        EXCEPT !.filters = {Bound("industry", "contains", Industry)}]
        values   == Query("industry_valuation_snapshot", "daily_basic", "trade_date" :> ValuationDay(p, q), {"ts_code", "pe"})
        paid     == [Query("industry_dividend_disclosures", "dividend", <<>>, {"ts_code", "ann_date", "cash_div_tax"})
                        EXCEPT !.filters = {Bound("ann_date", "ge", YearStart), Bound("ann_date", "le", YearEnd)}]
        fields   == IF "paid" \in q.marks THEN <<"pe", "cash_div_tax">> ELSE <<"pe">>
        ranking  == IF q.limit # Null /\ Says(q, {"lowest", "highest"})
                    THEN <<Drop(fields), Sort("pe", Direction(q)), Top(q.limit)>> ELSE <<>>
        fresh    == [p EXCEPT !.feasible = TRUE, !.covered = TRUE, !.intent = NoIntent, !.graph = <<>>, !.result = "",
                              !.constraints = {}, !.queries = <<universe, values, paid>>]
    IN  IF ~AsksIndustryDividends(q) \/ ValuationDay(p, q) = Null THEN p
        ELSE Composed(fresh, paid.id,
                 <<Latest(<<"ts_code">>, "ann_date"), Copy(values.id, <<"ts_code">>, Same({"pe"}))>> \o ranking
                 \o <<Named(universe.id), Only(<<"ts_code", "name", "pe", "cash_div_tax">>)>>,
                 "industry_valuation_dividend_result", {"ts_code", "name", "pe", "cash_div_tax"})

-----------------------------------------------------------------------------
\* Families written out in _compile_known_request, each over one query.

Committed == [Blank EXCEPT !.intent = FieldRanking("daily_basic", <<>>, {"ts_code"}, {}, "ts_code", "asc", 1)]

AsksBreadth(q) == Says(q, {"rises", "falls", "flat"}) /\ AllOf(q, {"market", "count"}) /\ ~Says(q, {"limit up"})
Breadth(q) ==
    LET signs  == (IF "rises" \in q.marks THEN <<Mark("pct_chg", "gt", 0, "up_count")>> ELSE <<>>)
                  \o (IF "falls" \in q.marks THEN <<Mark("pct_chg", "lt", 0, "down_count")>> ELSE <<>>)
                  \o (IF "flat" \in q.marks THEN <<Mark("pct_chg", "eq", 0, "flat_count")>> ELSE <<>>)
        counts == [i \in DOMAIN signs |-> Agg(signs[i].output, signs[i].output, "sum")]
    IN  Ranked(Query("market_breadth_snapshot", "daily", Day(q), {"ts_code", "trade_date", "pct_chg"}),
               Append(signs, Total(counts)), "market_breadth_summary", {signs[i].output : i \in DOMAIN signs})

AsksLargeOrders(q) == AllOf(q, {"large orders", "buy amount", "rank"}) /\ ~Says(q, {"small orders"})
LargeOrders(q) ==
    Ranked(Query("large_order_buy_snapshot", "moneyflow", Day(q), {"ts_code", "trade_date", "buy_lg_amount", "buy_elg_amount"}),
           <<Arith("buy_lg_amount", "add", "buy_elg_amount", "large_buy_amount"), Drop(<<"large_buy_amount">>),
             Sort("large_buy_amount", "desc"), Top(Rows(q, 10))>>,
           "large_order_buy_ranking", {"ts_code", "large_buy_amount"})

AsksStreak(q) == q.streak # 0 /\ "limit up" \in q.marks /\ Dated(q)
StreakPlan(q) == LimitUpStreak([Committed EXCEPT !.feasible = FALSE], q)

\* A request that names returns before the snapshot fields, or ranks them and asks for the fields
\* as annotations, has a period-return intent.
AsksReturnRanking(q) ==
    /\ q.fields # <<>> /\ Dated(q) /\ AsksReturns(q)
    /\ "return first" \in q.marks \/ AllOf(q, {"return ranked", "annotated"})
ReturnIntent(q) ==
    IF AsksReturnRanking(q)
    THEN [RankMetric("period_return", IF "falls" \in q.marks THEN "asc" ELSE "desc", Rows(q, 10))
              EXCEPT !.start = From(q), !.end = To(q)]
    ELSE Committed.intent
ValuationPlan(q) == ValuationPeriodReturn([Committed EXCEPT !.intent = ReturnIntent(q)], q)

AsksMultiFactor(q) == AllOf(q, {"pe", "pb", "yield", "low", "high"})
MultiFactor(q) ==
    [Ranked(Query("multi_factor_valuation_snapshot", "daily_basic", Day(q), {"ts_code", "pe", "pb", "dv_ttm"}),
           <<Drop(<<"pe", "pb", "dv_ttm">>), Where("pe", "gt", 0), Where("pb", "gt", 0),
             Step("quantile_filter", [field |-> "pe", comparison |-> "le", value |-> 0]),
             Step("quantile_filter", [field |-> "pb", comparison |-> "le", value |-> 0]),
             Sort("dv_ttm", "desc"), Top(10)>>,
           "multi_factor_valuation_screen", {"ts_code", "pe", "pb", "dv_ttm"}) EXCEPT !.told = TRUE]

AsksUnchanged(q) == AllOf(q, {"unchanged", "how many", "a-share"})
Unchanged(q) ==
    Ranked(Query("unchanged_market_snapshot", "daily", Day(q), {"ts_code", "trade_date", "pct_chg"}),
           <<Where("pct_chg", "eq", 0), Total(<<Agg("ts_code", "unchanged_count", "count")>>)>>,
           "unchanged_market_count", {"unchanged_count"})

SecurityMoneyflow(q) ==
    MoneyflowComparison([Committed EXCEPT !.queries =
        <<Query("security_moneyflow_period", "moneyflow", Code @@ Span(q), {"ts_code", "trade_date"})>>], q)

\* A graph by nodes and their inputs: the latest disclosure of each of three years for two
\* statements, the years of a statement appended, and the statements joined.
AsksStatements(q) == AllOf(q, {"roe", "cash flow"})
StatementNodes ==
    LET labels == {"roe", "cashflow"}  years == {"1", "2", "3"}
        latest(l, y) == "latest_" \o l \o "_" \o y
        reads  == [id \in {l \o "_" \o y : l \in labels, y \in years} |-> <<>>]
        picked == [id \in {latest(l, y) : l \in labels, y \in years} |->
                      LET x == CHOOSE x \in labels \X years : latest(x[1], x[2]) = id IN <<x[1] \o "_" \o x[2]>>]
        chain(l) == ("union_" \o l \o "_1") :> <<latest(l, "1"), latest(l, "2")>>
                    @@ ("union_" \o l \o "_2") :> <<"union_" \o l \o "_1", latest(l, "3")>>
    IN  reads @@ picked @@ chain("roe") @@ chain("cashflow")
        @@ "financial_metric_comparison" :> <<"union_roe_2", "union_cashflow_2">>
Statements(q) ==
    [Blank EXCEPT !.graph = StatementNodes, !.result = "financial_metric_comparison",
                  !.contract = Contract("financial_metric_comparison", "table", {"end_date", "roe", "n_cashflow_act"})]

AsksSuspensions(q) == "suspension" \in q.marks
Suspensions(q) ==
    LET fields == {"ts_code", "trade_date", "suspend_timing", "suspend_type"}
        params == (IF "security code" \in q.marks THEN Code ELSE <<>>) @@ (IF q.window = "range" THEN Span(q) ELSE Day(q))
        read   == Query("suspension_records", "suspend_d", params, fields)
    IN  IF ~(q.window = "range" \/ "literal date" \in q.marks) THEN NoPlan
        ELSE IF "highest" \in q.marks /\ Dated(q)
        THEN Ranked(read, <<Grouped(<<"ts_code">>, <<Agg("trade_date", "suspension_day_count", "count")>>),
                            Sort("suspension_day_count", "desc"), Top(1)>>,
                    "suspension_day_ranking", {"ts_code", "suspension_day_count"})
        ELSE Listed(read, fields)

AsksRepurchaseAmounts(q) == AllOf(q, {"repurchase", "rank", "upper amount"})
RepurchaseAmounts(q) ==
    Ranked(Query("annual_repurchase_plans", "repurchase", Year, {"ts_code", "ann_date", "amount"}),
           <<Drop(<<"amount">>), Grouped(<<"ts_code">>, <<Agg("amount", "announced_upper_amount", "max")>>),
             Sort("announced_upper_amount", "desc")>>,
           "repurchase_amount_ranking", {"ts_code", "announced_upper_amount"})

\* Two families carry the intent that would compile to their pipeline.
Screened(id, q, fields, bound, c, dir, n, drops, output) ==
    LET read == Query(id, "daily_basic", Day(q), fields)
    IN  [Ranked(read, <<Drop(drops), Where(bound.field, bound.op, bound.value), Sort(c, dir), Top(n)>>, output, fields)
            EXCEPT !.intent = FieldRanking("daily_basic", read.params, fields, {bound}, c, dir, n)]
AsksDividendYields(q) == AllOf(q, {"dividend yield", "top", "zero"})
DividendYields(q) ==
    Screened("dividend_yield_snapshot", q, {"ts_code", "dv_ttm"}, Bound("dv_ttm", "gt", 0), "dv_ttm", "desc", 20,
             <<"dv_ttm">>, "positive_dividend_yield_ranking")
AsksCapAndBook(q) == AllOf(q, {"market cap", "pb", "lowest"})
CapAndBook(q) ==
    Screened("market_cap_pb_snapshot", q, {"ts_code", "total_mv", "pb"}, Bound("total_mv", "gt", 1), "pb", "asc", 10,
             <<"total_mv", "pb">>, "market_cap_pb_ranking")

AsksSegments(q) == AllOf(q, {"product share", "highest"}) \/ "regional segments" \in q.marks
Segments(q) ==
    LET product == AllOf(q, {"product share", "highest"})
        read == Query("business_segments", "fina_mainbz", Code @@ "period" :> YearEnd @@
                      "type" :> (IF product THEN "P" ELSE "D"), {"ts_code", "end_date", "bz_item", "bz_sales"})
    IN  IF product
        THEN Ranked(read, <<Drop(<<"bz_sales">>), Sort("bz_sales", "desc"), Top(1)>>, "top_product_segment",
                    {"bz_item", "bz_sales"})
        ELSE Listed(read, {"bz_item", "bz_sales"})

-----------------------------------------------------------------------------

\* _compile_known_request: the families in their order.  The first whose guard holds answers; a
\* guard of a family in the second half commits to it, dated or not.
Compiled(may, plan) == IF may THEN plan ELSE NoPlan
AfterReturns(q) ==
    IF HasPipeline(ValuationPlan(q)) THEN ValuationPlan(q)
    ELSE IF AsksMultiFactor(q) THEN Compiled(Dated(q), MultiFactor(q))
    ELSE IF AsksUnchanged(q) THEN Compiled("literal date" \in q.marks, Unchanged(q))
    ELSE IF AsksMoneyflowComparison(q) THEN Compiled(Dated(q) /\ q.security, SecurityMoneyflow(q))
    ELSE IF AsksStatements(q) THEN Compiled(Dated(q) /\ q.security, Statements(q))
    ELSE IF AsksSuspensions(q) THEN Suspensions(q)
    ELSE IF AsksRepurchaseAmounts(q) THEN Compiled("literal year" \in q.marks, RepurchaseAmounts(q))
    ELSE IF AsksDividendYields(q) THEN Compiled(Dated(q), DividendYields(q))
    ELSE IF AsksCapAndBook(q) THEN Compiled(Dated(q) /\ "total_mv" \in q.bounds, CapAndBook(q))
    ELSE IF AsksSegments(q) THEN Compiled((Dated(q) \/ "literal year" \in q.marks) /\ q.security, Segments(q))
    ELSE IF AsksIndustryDividends(q) /\ ValuationDay(Committed, q) # Null THEN IndustryDividends(Committed, q)
    ELSE NoPlan
Known(q) ==
    IF AsksForecast(q) THEN LatestForecast(q)
    ELSE IF AsksMainFund(q) THEN MainFund(q)
    ELSE IF AsksHolderTrades(q) THEN HolderTradeCounts(q)
    ELSE IF AsksCashDividends(q) THEN CashDividends(q)
    ELSE IF AsksCompletedRepurchases(q) THEN CompletedRepurchases(q)
    ELSE IF AsksRepurchaseCompanies(q) THEN RepurchaseCompanies(q)
    ELSE IF AsksPriceExtrema(q) THEN PriceExtrema(q)
    ELSE IF AsksBlockTrades(q) THEN BlockTrades(q)
    ELSE IF AsksValuationThresholds(q) THEN ValuationThresholds(q)
    ELSE IF AsksTotalDividends(q) THEN TotalDividends(q)
    ELSE IF AsksUnlockCount(q) THEN UnlockCount(q)
    ELSE IF AsksBreadth(q) THEN Compiled(Dated(q), Breadth(q))
    ELSE IF AsksLargeOrders(q) THEN Compiled(Dated(q), LargeOrders(q))
    ELSE IF AsksStreak(q) THEN StreakPlan(q)
    ELSE AfterReturns(q)
=============================================================================
