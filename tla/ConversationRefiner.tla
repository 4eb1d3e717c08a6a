-------------------------- MODULE ConversationRefiner --------------------------
(***************************************************************************)
(* Follow-up requests (AnalysisService._compile_conversation_..._refinement*)
(* in application/workflow.py): a request made after another one, with     *)
(* words that narrow it, replaces the plan by the plan of the turn before, *)
(* compiled again from its text and refined.  Each answers NoPlan when the *)
(* request is not such a follow-up.  `r' is the turn before, whose window  *)
(* is the one its interpretation tells, and `base' its plan.               *)
(***************************************************************************)
EXTENDS IntentCompiler

Keeps(q) == Says(q, {"keep"})
Refined(base, queries, steps, output, outputs) ==
    [Promising(WithPipeline(base, queries, base.source, steps, output), outputs)
        EXCEPT !.feasible = TRUE, !.intent = NoIntent, !.constraints = {}, !.graph = <<>>, !.result = "",
               !.contract.kind = "table"]

\* _compile_conversation_moneyflow_refinement
MoneyflowRefinement(q, r) ==
    LET net(size) == Arith("buy_" \o size \o "_amount", "subtract", "sell_" \o size \o "_amount", "net_" \o size \o "_amount")
        read == Query("conversation_moneyflow_snapshot", "moneyflow", Code @@ "trade_date" :> End,
                      {"ts_code", "trade_date", "buy_lg_amount", "sell_lg_amount", "buy_sm_amount", "sell_sm_amount"})
        outputs == <<"ts_code", "trade_date", "net_lg_amount", "net_sm_amount">>
    IN  IF ~(AllOf(q, {"large orders", "small orders"}) /\ Says(q, {"net inflow", "money flow"}) /\ r.security /\ Dated(r))
        THEN NoPlan
        ELSE Refined([Blank EXCEPT !.source = read.id], <<read>>, <<net("lg"), net("sm"), Only(outputs)>>,
                     "conversation_moneyflow_refinement", ToSet(outputs))

\* _compile_conversation_disclosure_refinement: the cohort of disclosures, its order dropped when
\* the request names one.
DisclosureRefinement(q, base) ==
    LET reorder == Says(q, {"newest first", "oldest first"})
        kept   == SelectSeq(base.steps, LAMBDA s : s.op # "select_fields" /\ ~(reorder /\ s.op = "sort"))
        dates  == <<Where("ann_date", "ge", From(q)), Where("ann_date", "le", To(q)),
                    Sort("ann_date", IF "oldest first" \in q.marks THEN "asc" ELSE "desc")>>
        fields == <<"ts_code", "name", "ann_date">>
        applies == /\ Dated(q) /\ Says(q, {"keep", "list"})
                   /\ base # NoPlan /\ HasPipeline(base) /\ ToSet(fields) \subseteq base.contract.outputs
                   /\ QueryOf(base, base.source).operation \in {"repurchase", "stk_holdertrade", "dividend", "forecast", "express"}
    IN  IF ~applies THEN NoPlan
        ELSE Refined(base, base.queries,
                     kept \o dates \o (IF q.limit = Null THEN <<>> ELSE <<Top(q.limit)>>) \o <<Only(fields)>>,
                     "conversation_disclosure_refinement", ToSet(fields))

\* _compile_conversation_dividend_refinement: the rows the earlier ranking kept, bounded, ordered
\* and cut again.
DividendRefinement(q, r, base) ==
    LET cohort == SubSeq(base.steps, 1, FirstStep(base.steps, LAMBDA s : s.op = "limit"))
        bound  == IF "cash_div_tax" \in q.bounds THEN <<Where("cash_div_tax", "gt", 1)>> ELSE <<>>
    IN  IF ~(Keeps(q) /\ "dividend" \in q.marks /\ AsksCashDividends(r) /\ q.limit # Null) THEN NoPlan
        ELSE Refined(base, base.queries,
                     cohort \o bound \o <<Sort("cash_div_tax", Direction(q)), Top(q.limit),
                                          Only(<<"ts_code", "name", "cash_div_tax", "ann_date">>)>>,
                     "conversation_cash_dividend_refinement", base.contract.outputs)

\* _compile_conversation_valuation_refinement: the snapshot before its order and limit, bounded by
\* the fields of this request, then ordered and cut as this request or the earlier one says.
ValuationRefinement(q, base) ==
    LET order  == FirstStep(base.steps, LAMBDA s : s.op = "sort")
        cut    == Min({k \in DOMAIN base.steps : base.steps[k].op = "limit" /\ k > order})
        after  == SubSeq(base.steps, cut + 1, Len(base.steps))
        source == QueryOf(base, base.source)
        meant(c) == IF c = "dv_ratio" /\ "dv_ttm" \in source.fields /\ "dv_ratio" \notin source.fields THEN "dv_ttm" ELSE c
        bounded == SelectSeq(q.fields, LAMBDA c : c \in q.bounds)
        screen == SelectSeq([i \in DOMAIN bounded |-> Where(meant(bounded[i]), "gt", 1)],
                            LAMBDA s : s \notin ToSet(SubSeq(base.steps, 1, order - 1)))
        ranked == IF q.sorted # "" THEN Sort(meant(q.sorted), Direction(q)) ELSE base.steps[order]
        named  == "name" \in q.marks
        names  == Names("conversation_valuation_names")
        joins  == named /\ "name" \notin base.contract.outputs
        wanted == {"ts_code"} \cup {meant(c) : c \in ToSet(q.fields)}
        applies == /\ Keeps(q) /\ q.fields # <<>> /\ base # NoPlan /\ HasPipeline(base)
                   /\ source.operation = "daily_basic"
                   /\ order # 0 /\ \E k \in DOMAIN base.steps : base.steps[k].op = "limit"
                   /\ \A s \in ToSet(after) : s.op = "join_fields"
                   /\ wanted \subseteq base.contract.outputs
    IN  IF ~applies THEN NoPlan
        ELSE Refined(base, base.queries \o (IF joins THEN <<names>> ELSE <<>>),
                     SubSeq(base.steps, 1, order - 1) \o screen \o <<ranked, Top(Rows(q, base.steps[cut].count))>> \o after
                     \o (IF joins THEN <<Named(names.id)>> ELSE <<>>),
                     "conversation_valuation_refinement", wanted \cup (IF named THEN {"name"} ELSE {}))

\* The first of them that applies, in the order of _normalize_plan_for_request.
OnOneDay(r) == [r EXCEPT !.window = IF Dated(r) THEN "day" ELSE "none"]
Refinements(q, r) ==
    SelectSeq(<<MoneyflowRefinement(q, r), DisclosureRefinement(q, Known(r)), DividendRefinement(q, r, CashDividends(r)),
                ValuationRefinement(q, Known(OnOneDay(r)))>>, LAMBDA p : p # NoPlan)
FirstPlan(plans) == IF plans = <<>> THEN NoPlan ELSE Head(plans)
Refinement(q) == IF q.previous = {} THEN NoPlan ELSE FirstPlan(Refinements(q, CHOOSE r \in q.previous : TRUE))
=============================================================================
