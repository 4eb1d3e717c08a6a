------------------------------ MODULE PlanGraph ------------------------------
(***************************************************************************)
(* Query plans: what the plan contracts (core/contracts.py) let a planner  *)
(* write, what is normalised before validation (planners/deepseek.py,      *)
(* AnalysisService in application/workflow.py) and what the validator      *)
(* accepts (ASharePlanValidator), down to the topology of a plan.  The     *)
(* fields of the results and the steps of a pipeline are in                *)
(* ResultPipeline; the wording of a request is left out.                   *)
(*                                                                         *)
(* A plan has a shape, nodes by identifier (the queries of a plan of       *)
(* another shape than "dag"), the result of a graph or of a pipeline, the  *)
(* queries a pipeline reads, and a contract.  A query is named by its      *)
(* identifier alone, so that a requirement cites identifiers.              *)
(***************************************************************************)
EXTENDS Integers, FiniteSets, SequencesExt

Uncontracted == [result |-> "", required |-> {}, advisory |-> {}, summary |-> FALSE, complete |-> FALSE]
Ids(p) == DOMAIN p.nodes
Inputs(p, n) == ToSet(p.nodes[n].inputs)
Contracted(p) == p.contract # Uncontracted

-----------------------------------------------------------------------------
\* ExecutionNode, DataQuery, AnswerContract, ResultPipeline and QueryPlan: their fields, as far
\* as the topology goes, and the model validators.  The nodes of another shape than a graph are
\* queries, and the output of a pipeline is named apart from them (which nothing in the code
\* checks: the scope of this model).

Shapes     == {"queries", "pipeline", "dag"}
Strategies == {"read", "universe", "securities", "candidates", "dates", "unlocks", "market", "boundaries"}
Node       == [kind : {"query"}, reads : Strategies, inputs : Seq(STRING), ranks : BOOLEAN]
              \cup [kind : {"compute"}, reads : {""}, inputs : Seq(STRING), ranks : BOOLEAN]
Contract   == [result : STRING, required : SUBSET STRING, advisory : SUBSET STRING, summary : BOOLEAN, complete : BOOLEAN]
PlanRecord(nodes) ==
    [shape : Shapes, nodes : {nodes}, uses : SUBSET STRING, source : STRING, result : STRING, ranks : BOOLEAN,
     steps : Nat, contract : Contract, feasible : BOOLEAN, requirements : Nat, implemented : Nat,
     uncovered : Nat, limitations : Nat, cited : SUBSET STRING, proxy : BOOLEAN, timely : BOOLEAN, long : BOOLEAN]
PlanType(p) ==
    /\ p \in PlanRecord(p.nodes)
    /\ IsFiniteSet(Ids(p)) /\ Ids(p) \subseteq STRING
    /\ \A n \in Ids(p) : p.nodes[n] \in Node
    /\ p.shape # "dag" => p.result \notin Ids(p) /\ \A n \in Ids(p) : p.nodes[n].kind = "query"
    /\ p.shape = "pipeline" => p.source \in p.uses

WellFormedNode(node) ==
    IF node.kind = "compute" THEN node.inputs # <<>>
    ELSE IF node.reads = "candidates" THEN Len(node.inputs) = 1
    ELSE node.inputs = <<>>
\* The result is required when nothing is.
Required(c) == IF c.required = {} THEN {c.result} ELSE c.required
WellFormedContract(c) == c.result \in Required(c) /\ Required(c) \cap c.advisory = {}
WellFormedPlan(p) ==
    /\ p.feasible => Ids(p) # {}
    /\ ~p.feasible => Ids(p) = {} /\ p.limitations > 0
    /\ \A n \in Ids(p) : WellFormedNode(p.nodes[n])
    /\ Contracted(p) => WellFormedContract(p.contract)

-----------------------------------------------------------------------------
\* What is rewritten before a plan is validated.

\* _downgrade_unexecutable_plan: a query that reads what the provider does not have makes the
\* plan unsupported; its pipeline and its contract stay.
Downgraded(p) ==
    IF p.proxy /\ p.shape # "dag"
    THEN [p EXCEPT !.feasible = FALSE, !.limitations = 1, !.nodes = <<>>, !.uncovered = p.requirements]
    ELSE p

\* _align_answer_contract_result_id
FinalResult(p) == IF p.shape # "queries" THEN p.result
                  ELSE IF Cardinality(Ids(p)) = 1 THEN CHOOSE n \in Ids(p) : TRUE
                  ELSE p.contract.result
Ranks(p) == p.ranks \/ (p.shape = "dag" /\ \E n \in Ids(p) : p.nodes[n].ranks)
Aligned(p) ==
    IF ~Contracted(p) THEN p
    ELSE [p EXCEPT !.contract =
            [p.contract EXCEPT
                !.result   = FinalResult(p),
                !.required = {IF n = p.contract.result THEN FinalResult(p) ELSE n : n \in Required(p.contract)},
                !.complete = p.contract.complete \/ p.contract.summary \/ Ranks(p)]]

-----------------------------------------------------------------------------
\* _validate_execution_plan: every node is known, contributes to the result and can be reached
\* from nodes without inputs.

Rounds(p) == 0..Cardinality(Ids(p))
Contributing(p) ==
    LET feeds[k \in Rounds(p)] ==
            IF k = 0 THEN {p.result}
            ELSE LET found == feeds[k - 1] IN found \cup UNION {Inputs(p, n) : n \in found}
    IN  feeds[Cardinality(Ids(p))]
Resolvable(p) ==
    LET resolved[k \in Rounds(p)] ==
            IF k = 0 THEN {}
            ELSE LET before == resolved[k - 1] IN {n \in Ids(p) : Inputs(p, n) \subseteq before}
    IN  resolved[Cardinality(Ids(p))]
ContractKnown(p, known) == Contracted(p) => Required(p.contract) \cup p.contract.advisory \subseteq known
ValidGraphUnordered(p) ==
    /\ p.result \in Ids(p)
    /\ \A n \in Ids(p) : Inputs(p, n) \subseteq Ids(p) \ {n}
    /\ Contributing(p) = Ids(p)
    /\ ContractKnown(p, Ids(p))
    /\ Contracted(p) => p.contract.result = p.result
ValidGraph(p) ==
    /\ p.result \in Ids(p)
    /\ \A n \in Ids(p) : Inputs(p, n) \subseteq Ids(p) \ {n}
    /\ Contributing(p) = Ids(p)
    /\ Resolvable(p) = Ids(p)
    /\ ContractKnown(p, Ids(p))
    /\ Contracted(p) => p.contract.result = p.result

\* validate for a plan of queries with or without a pipeline: a pipeline reads planned queries, a
\* contract names planned results, a query of every security needs a query that names them.
ValidQueries(p, maxQueries) ==
    /\ Cardinality(Ids(p)) <= maxQueries
    /\ p.shape = "pipeline" => p.uses \subseteq Ids(p)
    /\ ContractKnown(p, Ids(p) \cup (IF p.shape = "pipeline" THEN {p.result} ELSE {}))
    /\ Contracted(p) /\ p.contract.summary => p.shape = "pipeline" /\ p.contract.result = p.result
    /\ (\E n \in Ids(p) : p.nodes[n].reads = "securities") => \E n \in Ids(p) : p.nodes[n].reads = "universe"

\* ASharePlanValidator.validate and the time semantics after it.
Accepts(p, maxQueries) ==
    /\ p.requirements > 0
    /\ p.feasible <=> p.uncovered = 0
    /\ IF p.shape = "dag" THEN ValidGraph(p) ELSE ValidQueries(p, maxQueries)
    /\ p.timely

\* _validate_requirement_operation_lineage, and _candidate_score as a tuple to compare.
CitesItsReads(p) == /\ p.cited \subseteq Ids(p)
                    /\ p.feasible \/ p.implemented < p.requirements
Score(p) == <<IF p.feasible THEN 1 ELSE 0, p.requirements - p.uncovered, 0 - p.limitations,
              0 - (Cardinality(Ids(p)) + p.steps)>>
Better(a, b) == \E i \in DOMAIN a : a[i] > b[i] /\ \A j \in 1..(i - 1) : a[j] = b[j]

-----------------------------------------------------------------------------
\* How the queries of a plan are read (_needs_fanout, _requires_background_execution).

\* A graph reads a range of disclosures by date and a template by candidate, all else in one call.
Strategy(p, n) == IF p.shape = "dag" /\ p.nodes[n].reads \notin {"dates", "candidates"} THEN "read" ELSE p.nodes[n].reads
Queries(p) == {n \in Ids(p) : p.nodes[n].kind = "query"}
Reading(p, strategies) == {n \in Queries(p) : Strategy(p, n) \in strategies}
NeedsTask(p) == Reading(p, {"securities", "candidates"}) # {} \/ p.long
NeedsFanout(p) == p.shape # "dag" /\ Reading(p, {"securities", "market", "boundaries", "dates"}) # {}
RequiredResults(p) ==
    IF Contracted(p) THEN Required(p.contract)
    ELSE IF p.shape # "queries" THEN {p.result}
    ELSE IF Cardinality(Ids(p)) = 1 THEN Ids(p) ELSE {}
=============================================================================
