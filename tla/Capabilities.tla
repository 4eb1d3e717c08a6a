----------------------------- MODULE Capabilities -----------------------------
(***************************************************************************)
(* The audited request shapes of the provider operations (capabilities.py):*)
(* which parameters an operation takes, whether a start date needs an end  *)
(* date, and which combinations of parameters are executable, the first    *)
(* that matches deciding how.  Page sizes, row keys and the wording of the *)
(* completeness evidence are left out; paging parameters are common to all.*)
(***************************************************************************)
EXTENDS TLC, Sequences, SequencesExt

Shape(id, needs) == [id |-> id, needs |-> needs, strategy |-> "provider_query"]
Fanout(id, needs, strategy) == [Shape(id, needs) EXCEPT !.strategy = strategy]
Audited(params, paired, shapes) ==
    [params |-> params \cup {"limit", "offset"}, paired |-> paired, shapes |-> shapes]

DateRange == {"start_date", "end_date"}
Security  == Shape("security", {"ts_code"})
Snapshot  == Shape("market_snapshot", {"trade_date"})
Announced == Shape("announcement_date", {"ann_date"})
Period    == Shape("reporting_period", {"period"})
Bounded   == Shape("bounded_range", DateRange)
Template  == Fanout("security_fanout_template", {}, "security_fanout")
Traded    == {"ts_code", "trade_date"} \cup DateRange
Disclosed == {"ts_code", "ann_date"} \cup DateRange

\* The entries, in their order in the registry.
HolderAndBlockShapes ==
    "stk_holdernumber" :> Audited(Disclosed \cup {"enddate"}, TRUE,
        <<Shape("security_history", {"ts_code"}), Shape("announcement_snapshot", {"ann_date"}),
          Shape("reporting_snapshot", {"enddate"}), Bounded>>)
    @@ "block_trade" :> Audited(Traded, TRUE, <<Snapshot, Security, Bounded>>)
SecurityShapes ==
    "stock_basic" :> Audited({"ts_code", "name", "exchange", "market", "is_hs", "list_status"}, FALSE,
        <<Shape("listed_security_universe", {"list_status"}), Shape("all_security_reference", {})>>)
PriceShapes ==
    [op \in {"adj_factor", "daily"} |->
        Audited(Traded, TRUE, <<Security, Snapshot, Fanout("bounded_range", DateRange, "exact_trade_date_fanout")>>)]
    @@ "daily_basic" :> Audited(Traded, TRUE, <<Security, Snapshot, Bounded>>)
FlowShapes ==
    "limit_list_d" :> Audited(Traded \cup {"limit_type", "exchange"}, TRUE, <<Snapshot, Bounded>>)
    @@ "moneyflow" :> Audited(Traded, TRUE, <<Snapshot, Security>>)
    @@ [op \in {"moneyflow_ind_ths", "moneyflow_cnt_ths"} |-> Audited(Traded, TRUE, <<Snapshot, Security, Bounded>>)]
BoardShapes ==
    "ths_index" :> Audited({"ts_code", "exchange", "type"}, FALSE,
        <<Shape("taxonomy_by_exchange_type", {"exchange", "type"}), Shape("board_by_code", {"ts_code"})>>)
    @@ "ths_member" :> Audited({"ts_code", "con_code", "is_new"}, FALSE,
        <<Shape("board_members", {"ts_code"}), Shape("security_boards", {"con_code"})>>)
PeriodAndMarginShapes ==
    [op \in {"weekly", "monthly"} |-> Audited(Traded, TRUE, <<Security, Snapshot>>)]
    @@ "margin_detail" :> Audited(Traded \cup {"exchange"}, TRUE, <<Snapshot, Security>>)
    @@ "margin_secs" :> Audited(Traded \cup {"exchange"}, TRUE,
        <<Shape("exchange_snapshot", {"trade_date", "exchange"}), Snapshot>>)
DisclosureShapes ==
    "dividend" :> Audited(Disclosed \cup {"record_date", "ex_date", "imp_ann_date"}, TRUE,
        <<Security, Announced, Fanout("bounded_announcement_date_range", DateRange, "exact_ann_date_fanout"), Template>>)
    @@ "express" :> Audited(Disclosed \cup {"period"}, FALSE, <<Security, Announced, Period, Bounded>>)
    @@ "forecast" :> Audited(Disclosed \cup {"period", "type"}, FALSE,
        <<Security, Announced, Period, Bounded, Fanout("reporting_end", {"end_date"}, "security_fanout")>>)
ReportShapes ==
    "broker_reports" :> Audited({"ts_code"} \cup DateRange, TRUE,
        <<Shape("bounded_security_range", {"ts_code"} \cup DateRange), Security>>)
    @@ "repurchase" :> Audited(Disclosed, FALSE, <<Security, Announced, Bounded>>)
    @@ "suspend_d" :> Audited(Traded \cup {"suspend_type"}, TRUE, <<Snapshot, Security, Bounded>>)
OwnershipShapes ==
    "stk_holdertrade" :> Audited(Disclosed, FALSE, <<Security, Announced, Bounded, Template>>)
    @@ "fina_mainbz" :> Audited({"ts_code", "period", "type"} \cup DateRange, TRUE, <<Security>>)
    @@ "share_float" :> Audited(Disclosed \cup {"float_date"}, TRUE,
        <<Security, Announced, Shape("unlock_date", {"float_date"}),
          Fanout("bounded_unlock_range", DateRange, "exact_float_date_fanout")>>)

\* PROVIDER_OPERATION_CAPABILITIES, and resolve_query_shape: an operation that is not registered
\* takes any parameters.
Registered == HolderAndBlockShapes @@ SecurityShapes @@ PriceShapes @@ FlowShapes @@ BoardShapes
              @@ PeriodAndMarginShapes @@ DisclosureShapes @@ ReportShapes @@ OwnershipShapes
Matching(op, given) == SelectSeq(Registered[op].shapes, LAMBDA shape : shape.needs \subseteq given)
Resolvable(op, given) ==
    op \in DOMAIN Registered =>
        /\ given \subseteq Registered[op].params
        /\ Registered[op].paired => ("start_date" \in given <=> "end_date" \in given)
        /\ Matching(op, given) # <<>>
NativeRange(op, given) ==
    /\ DateRange \subseteq given /\ op \in DOMAIN Registered /\ Resolvable(op, given)
    /\ Matching(op, given)[1] = Bounded
=============================================================================
