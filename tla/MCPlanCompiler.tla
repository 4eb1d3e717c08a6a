---------------------------- MODULE MCPlanCompiler ----------------------------
(***************************************************************************)
(* A small instance of PlanCompiler: a request for every known family and  *)
(* for every compiler, any two of them in one request, any of them after   *)
(* another, and planners that answer with typed intents, pipelines of      *)
(* their own, a graph, or a read that another request would need.          *)
(***************************************************************************)
EXTENDS PlanCompiler

Asked(marks, window)           == [Silent EXCEPT !.marks = marks, !.window = window]
Secured(marks, window)         == [Asked(marks, window) EXCEPT !.security = TRUE]
Most(marks, window, n)         == [Asked(marks, window) EXCEPT !.limit = n]
Screen(marks, fields, bounds, sorted, n) ==
    [Most(marks, "day", n) EXCEPT !.fields = fields, !.bounds = bounds, !.sorted = sorted]
After(r, q)                    == [q EXCEPT !.previous = {r}]

DividendsAsked == Most({"per-share dividend", "dividend", "highest", "positive"}, "range", 5)
CapAsked == Screen({"market cap", "pb", "lowest"}, <<"total_mv", "pb">>, {"total_mv"}, "pb", 10)
ReturnsAsked == [Most({"return", "rises", "return first"}, "range", 5) EXCEPT !.fields = <<"pe">>]
RepurchasesAsked == Asked({"repurchase", "list", "newest first"}, "range")
StreakAsked == [Asked({"limit up", "rises", "falls"}, "range") EXCEPT !.streak = 2, !.horizon = 1]
MCKnown ==
    {Secured({"earnings forecast", "latest"}, "none"), Secured({"main fund", "net inflow"}, "day"),
     Asked({"literal year", "count", "holder trades", "year"}, "range"), DividendsAsked,
     Asked({"repurchase", "completed"}, "range"), RepurchasesAsked,
     Secured({"highest", "lowest", "close"}, "range"), Asked({"block trade"}, "day"),
     Most({"block trade", "amount", "highest"}, "range", 3),
     Screen({"below"}, <<"pe", "pb">>, {"pe", "pb"}, "", Null), Asked({"total dividend", "no substitute"}, "none"),
     Asked({"unlock", "how many", "company"}, "range"), Asked({"rises", "falls", "market", "count"}, "day"),
     Asked({"large orders", "buy amount", "rank"}, "day"), StreakAsked, ReturnsAsked,
     Screen({"pe", "pb", "yield", "low", "high"}, <<"pe", "pb", "dv_ratio">>, {}, "", Null),
     Asked({"unchanged", "how many", "a-share", "literal date"}, "day"),
     Secured({"large orders", "small orders", "money flow"}, "range"), Secured({"roe", "cash flow"}, "range"),
     Asked({"suspension", "literal date"}, "day"), Asked({"suspension", "highest"}, "range"),
     Asked({"repurchase", "rank", "upper amount", "literal year"}, "range"),
     Most({"dividend yield", "top", "zero"}, "day", 20), CapAsked, Secured({"product share", "highest"}, "range"),
     Most({"industry", "year", "dividend", "pe", "lowest", "paid"}, "day", 5)}

\* Requests that no family answers, so that a planner does, and the words of several compilers.
MCOpen ==
    {Most({"concentration", "highest", "year"}, "range", 5), Secured({"dividend", "security code", "year"}, "none"),
     Secured({"dividend", "security code", "year", "unverifiable"}, "none"),
     [Asked({"limit up", "unverifiable"}, "none") EXCEPT !.streak = 2],
     [Asked({"limit up", "next day"}, "none") EXCEPT !.streak = 2],
     Most({"limit up", "highest", "return", "unverifiable"}, "range", 5), Most({"limit up", "highest", "return"}, "range", 5),
     Most({"most", "market", "rises"}, "range", 5), Asked({"volume", "turnover", "highest"}, "day"),
     Most({"yield", "highest"}, "day", 10), Asked({"margin", "highest"}, "day"), Asked({"suspension"}, "none"),
     Asked({"unlock"}, "range"), Asked({"total dividend"}, "range"), Asked({"block trade"}, "none"),
     Screen({"lowest"}, <<"pe">>, {}, "pe", 10), Screen({"lowest", "name"}, <<"pe", "pb">>, {"pb"}, "pe", 5),
     Asked({"unverifiable"}, "day"), Asked({}, "range")}
\* Both requests in one, and the second after the first; some follow-ups in their own words.
Together(a, b) == Alone(InContext(After(a, b)))
MCMixed == {Together(a, b) : a, b \in MCKnown \cup MCOpen}
MCFollowUps ==
    {After(a, [b EXCEPT !.marks = @ \cup {"keep"}]) : a, b \in MCKnown \cup MCOpen} \cup
    {After(DividendsAsked, Most({"keep", "dividend", "highest"}, "none", 2)),
     After(DividendsAsked, Most({"keep", "dividend", "highest", "unverifiable"}, "none", 2)),
     After(RepurchasesAsked, Asked({"keep", "newest first"}, "range")),
     After(CapAsked, [Screen({"keep", "lowest", "name"}, <<"pb">>, {"pb"}, "pb", 3) EXCEPT !.window = "none"]),
     After(Secured({"main fund", "net inflow"}, "day"), Asked({"large orders", "small orders", "net inflow"}, "none")),
     After(ReturnsAsked, Asked({"falls"}, "none")), After(StreakAsked, Asked({"unverifiable"}, "none"))}
MCRequests == MCMixed \cup MCFollowUps

Intended(i) == [Blank EXCEPT !.intent = i, !.told = TRUE]
Reading(queries) == [Blank EXCEPT !.queries = queries, !.told = TRUE]
Values(fields) == Query("values", "daily_basic", "trade_date" :> End, fields)
Prices == Query("prices", "daily", "start_date" :> Start @@ "end_date" :> End, {"ts_code", "trade_date", "close", "vol"})
ReturnOver(start, n) == [RankMetric("period_return", "desc", n) EXCEPT !.start = start, !.end = End]
LowestPe == [RankMetric("pe", "asc", 10) EXCEPT !.as_of = End]
MCTyped ==
    {LowestPe, [LowestPe EXCEPT !.universe = {Bound("industry", "contains", Industry)}, !.filters = {Bound("pe", "gt", 0)}],
     ReturnOver(Start, 5), ReturnOver(End, 5),
     FieldRanking("daily_basic", "trade_date" :> End, {"ts_code", "dv_ratio"}, {}, "dv_ratio", "desc", 10),
     [NoIntent EXCEPT !.type = "event_outcome_probability", !.start = Start, !.end = End, !.sessions = 2, !.offset = 1,
                      !.outcomes = {"up", "down"}]}
Holders == Query("holders", "stk_holdernumber", "ts_code" :> "code", {"ts_code", "end_date", "holder_num"})
Ends == [Query("floats", "share_float", "start_date" :> Start @@ "end_date" :> End, {"ts_code", "float_date"})
            EXCEPT !.filters = {Bound("float_date", "in", <<Start, End>>)}]
MCUntyped ==
    {Reading(<<Prices>>), Reading(<<Prices, Values({"ts_code", "trade_date", "turnover_rate"})>>),
     Reading(<<Values({"ts_code", "trade_date", "pe"})>>), Reading(<<Ends>>),
     Ranked(Holders, <<Sort("end_date", "asc")>>, "holder_history", {"ts_code", "holder_num"}),
     Ranked(Values({"ts_code", "pe"}), <<Sort("pe", "asc"), Top(10)>>, "ranking", {"ts_code", "pe"}),
     Ranked(Ends, <<Grouped(<<"ts_code">>, <<Agg("float_date", "days", "count")>>),
                    Total(<<Agg("ts_code", "code", "first")>>)>>, "floats_by_code", {"ts_code", "days"}),
     Reading(<<Query("halts", "suspend_d", "trade_date" :> End, {"ts_code", "reason"})>>),
     Reading(<<Query("margin", "margin_detail", "trade_date" :> End, {"ts_code", "rzye"})>>),
     Reading(<<Query("blocks", "block_trade", "trade_date" :> End, {"ts_code"})>>),
     [Blank EXCEPT !.graph = "reads" :> <<>> @@ "answer" :> <<"reads">>, !.result = "answer"], Refused(Blank)}
MCProposals == {Intended(i) : i \in MCTyped} \cup MCUntyped
=============================================================================
