------------------------------ MODULE PlanParts ------------------------------
(***************************************************************************)
(* The parts of a query plan that deterministic compilation builds and     *)
(* compares (core/contracts.py): queries, pipeline steps, intents, answer  *)
(* contracts and plans, and what the compilers read of a request.          *)
(*                                                                         *)
(* Of a request only the groups of words a compiler asks for are kept, its *)
(* marks, with what the resolvers extract: the window, a security, a row   *)
(* limit, the snapshot fields in the order the request names them and the  *)
(* bounds it puts on them, the first field named with an order, a number   *)
(* of consecutive sessions and a horizon; and the turn before it, if any.  *)
(* A window is a day or a range, with the dates Start and End, or End      *)
(* alone when it is a day.  Dates, and the words that filters look for in  *)
(* the rows, are numbers, the dates in their order.                        *)
(***************************************************************************)
EXTENDS PipelineContract

YearStart == 1
Start     == 2
End       == 3
YearEnd   == 4
Later     == 5
Purchase  == 11
Reduction == 12
Done      == 13
Industry  == 14
OneYear   == 15

Silent == [marks |-> {}, window |-> "none", security |-> FALSE, limit |-> Null, fields |-> <<>>, bounds |-> {},
           sorted |-> "", streak |-> 0, horizon |-> 0, previous |-> {}]
Says(q, any)  == any \cap q.marks # {}
AllOf(q, all) == all \subseteq q.marks
Dated(q)      == q.window # "none"
From(q)       == IF q.window = "range" THEN Start ELSE End
To(q)         == End
Rows(q, default) == IF q.limit = Null THEN default ELSE q.limit
Direction(q)  == IF "lowest" \in q.marks THEN "asc" ELSE "desc"

\* Queries: parameters by name, fields, a transform and the filters on its rows.
Query(id, op, params, fields) ==
    [id |-> id, operation |-> op, params |-> params, fields |-> fields, transform |-> "", filters |-> {}]
Day(q)          == "trade_date" :> To(q)
Span(q)         == "start_date" :> From(q) @@ "end_date" :> To(q)
Code            == "ts_code" :> "code"
Bound(c, op, v) == [field |-> c, op |-> op, value |-> v]

\* Steps.
Step(op, r)         == [op |-> op] @@ r @@ NoStep
Drop(cs)            == Step("drop_missing", [fields |-> cs])
Where(c, cmp, v)    == Step("filter", [field |-> c, comparison |-> cmp, value |-> v])
Sort(c, dir)        == Step("sort", [field |-> c, direction |-> dir])
Top(n)              == Step("limit", [count |-> n])
Only(cs)            == Step("select_fields", [fields |-> cs])
Latest(keys, c)     == Step("latest_by_group", [group_by |-> keys, order_by |-> c, direction |-> "desc"])
Distinct(cs)        == Step("distinct", [fields |-> cs])
Agg(c, out, fn)     == [field |-> c, out |-> out, fn |-> fn]
Grouped(keys, aggs) == Step("aggregate", [group_by |-> keys, aggregations |-> aggs])
Total(aggs)         == Step("summarize", [aggregations |-> aggs])
Mark(c, cmp, v, out) == Step("compare_scalar", [field |-> c, comparison |-> cmp, value |-> v, output |-> out])
Arith(a, op, b, out) == Step("derive", [field |-> a, arithmetic |-> op, right_field |-> b, output |-> out])
Scale(a, op, v, out) == Step("derive", [field |-> a, arithmetic |-> op, value |-> v, output |-> out])
Same(cs)             == [c \in cs |-> c]
Copy(right, keys, map) ==
    Step("join_fields", [right |-> right, join_on |-> keys, map |-> map, cardinality |-> "many_to_one"])
Semi(right)          == Step("semi_join", [right |-> right, join_on |-> <<"ts_code">>])

\* Intents: one record for the types of AnalysisIntent, with the arguments the compilers read.
NoIntent == [type |-> "none", operation |-> "", params |-> <<>>, fields |-> {}, filters |-> {}, universe |-> {},
             field |-> "", metric |-> "", start |-> Null, end |-> Null, as_of |-> Null, ranks |-> FALSE,
             direction |-> "", limit |-> 0, group_by |-> <<>>, aggregations |-> <<>>, sessions |-> 0, offset |-> 0,
             outcomes |-> {}]
RankMetric(metric, dir, n) ==
    [NoIntent EXCEPT !.type = "rank_metric", !.metric = metric, !.ranks = TRUE, !.direction = dir, !.limit = n]
FieldRanking(op, params, fields, filters, c, dir, n) ==
    [NoIntent EXCEPT !.type = "field_analysis", !.operation = op, !.params = params, !.fields = fields,
                     !.filters = filters, !.field = c, !.ranks = TRUE, !.direction = dir, !.limit = n]

\* Plans.  Without steps there is no pipeline, without a result no contract, without nodes no graph.
NoContract == [result |-> "", kind |-> "", outputs |-> {}]
Contract(result, kind, outputs) == [result |-> result, kind |-> kind, outputs |-> outputs]
Blank == [feasible |-> TRUE, covered |-> TRUE, intent |-> NoIntent, queries |-> <<>>, constraints |-> {},
          source |-> "", steps |-> <<>>, output |-> "", contract |-> NoContract, graph |-> <<>>, result |-> "",
          told |-> FALSE]       \* whether the interpretation tells dates
NoPlan == [Blank EXCEPT !.output = "no plan"]
Refused(p) == [p EXCEPT !.feasible = FALSE, !.covered = FALSE, !.intent = NoIntent, !.queries = <<>>,
                        !.source = "", !.steps = <<>>, !.output = ""]

KindOf(steps) == IF Last(steps).op = "summarize" THEN "summary" ELSE "table"
WithPipeline(p, queries, source, steps, output) ==
    [p EXCEPT !.queries = queries, !.source = source, !.steps = steps, !.output = output]
Promising(p, outputs) == [p EXCEPT !.contract = Contract(p.output, KindOf(p.steps), outputs)]
\* A plan of one query and a pipeline over it, or of the query alone.
Ranked(query, steps, output, outputs) ==
    Promising(WithPipeline(Blank, <<query>>, query.id, steps, output), outputs)
Listed(query, outputs) ==
    [Blank EXCEPT !.queries = <<query>>, !.contract = Contract(query.id, "table", outputs)]
HasPipeline(p)   == p.steps # <<>>
Contracted(p)    == p.contract # NoContract
QueryIds(p)      == {p.queries[i].id : i \in DOMAIN p.queries}
QueryOf(p, id)   == p.queries[CHOOSE i \in DOMAIN p.queries : p.queries[i].id = id]
Uses(p, ops)     == \E i \in DOMAIN p.queries : p.queries[i].operation \in ops
=============================================================================
