----------------------------- MODULE PlanCompiler -----------------------------
(***************************************************************************)
(* From a request to an accepted plan, and from an accepted plan to the    *)
(* confirmed one that is executed (AnalysisService._plan_with_request_     *)
(* context, _validate_planner_candidate and the planning half of analyze). *)
(*                                                                         *)
(* The plan of a known family, or one a planner proposes, is normalised    *)
(* for the request, compiled from its intent, bound to its constraints and *)
(* validated.  A planner's plan goes through all of it twice, as a         *)
(* candidate and as the plan that is taken; and a plan that the user       *)
(* confirms goes through it once more, now without the conversation.       *)
(***************************************************************************)
EXTENDS PlanValidator

CONSTANTS Requests,     \* what users ask
          Proposals     \* what planners answer

VARIABLES phase,        \* "asked", "accepted", "confirmed", or "rejected", "refused again"
          request,
          proposed,     \* the plan as a family or a planner gave it
          plan,         \* the plan as it was accepted
          confirmed     \* the plan as it is executed after its confirmation
vars == <<phase, request, proposed, plan, confirmed>>

-----------------------------------------------------------------------------

\* _bind_declared_query_constraints: a declared predicate on a field that is read becomes a filter.
Bind(p) ==
    LET loose(query) == {c \in p.constraints : c.query = query.id /\ ~Enforced(c, query) /\ c.field \in query.fields}
    IN  [p EXCEPT !.queries = [i \in DOMAIN @ |->
            [@[i] EXCEPT !.filters = @ \cup {Bound(c.field, c.op, c.value) : c \in loose(p.queries[i])}]]]

\* _align_answer_contract_result_id
Align(p) ==
    IF ~Contracted(p) THEN p
    ELSE [p EXCEPT !.contract.result = IF p.graph # <<>> THEN p.result
                                       ELSE IF HasPipeline(p) THEN p.output
                                       ELSE IF Len(p.queries) = 1 THEN p.queries[1].id ELSE @]
Compile(p) == Align(Bind(CompileIntent(p)))

\* validate_prompt_intent_coverage: what the request says of a ranking is what its intent says.
RankedBy == <<<<"pe", {"pe", "pe_ttm"}>>, <<"pb", {"pb"}>>, <<"total_mv", {"total_mv"}>>, <<"circ_mv", {"circ_mv"}>>,
              <<"turnover_rate", {"turnover_rate", "turnover_rate_f"}>>, <<"volume_ratio", {"volume_ratio"}>>,
              <<"dv_ratio", {"dv_ratio", "dv_ttm"}>>>>
PromptCovered(p, q) ==
    p.intent.type = "rank_metric" =>
        LET named == SelectSeq(RankedBy, LAMBDA alias : alias[1] \in ToSet(q.fields))
            losses == "falls" \in q.marks
        IN  /\ named # <<>> => p.intent.metric \in Head(named)[2]
            /\ q.limit \in 1..100 => p.intent.limit = q.limit
            /\ ~AllOf(q, {"highest", "lowest"})
            /\ "lowest" \in q.marks => p.intent.direction = IF losses THEN "desc" ELSE "asc"
            /\ "highest" \in q.marks => p.intent.direction = IF losses THEN "asc" ELSE "desc"

\* _validate_planned_time_semantics: an accepted plan reads no later than the window starts.
Widened(p, q) ==
    LET ranged == {i \in DOMAIN p.queries : Within(p.queries[i].params)}
    IN  IF ~p.feasible \/ q.horizon = 0 \/ ~Dated(q) \/ ranged = {} THEN p
        ELSE [p EXCEPT !.queries[Min(ranged)].params["start_date"] = Min({@, From(q)})]

\* A normalised plan, compiled: what is accepted of it, or NoPlan when it does not hold.
Accepted(covered, compiled, all, q) ==
    IF PromptCovered(covered, q) /\ Valid(compiled) /\ Timely(compiled, all) THEN Widened(compiled, all) ELSE NoPlan
\* _validate_planner_candidate: the text searched is the whole, the coverage is the request's own.
Checked(normal, all, q) == Accepted(normal, Compile(normal), all, q)
Candidate(p, all, q) == Checked(Normalized(p, all, q), all, q)
\* _plan_with_request_context and the validation after it.
Rechecked(compiled, q) == Accepted(compiled, compiled, q, q)
Planned(p, q) == Rechecked(Compile(Normalize(p, q)), q)

-----------------------------------------------------------------------------

Init == /\ phase = "asked" /\ request \in Requests
        /\ proposed = NoPlan /\ plan = NoPlan /\ confirmed = NoPlan

Take(p) ==
    /\ \E planned \in {Planned(p, request)} :
          IF planned # NoPlan THEN phase' = "accepted" /\ plan' = planned
                              ELSE phase' = "rejected" /\ UNCHANGED plan
    /\ UNCHANGED <<request, confirmed>>
PlanKnown ==
    /\ phase = "asked"
    /\ \E p \in {Known(request)} \ {NoPlan} : proposed' = p /\ Take(p)
\* A planner repairs a candidate that does not hold until it gives up (AnalysisFlow).
PlanProposed(p) ==
    /\ phase = "asked" /\ Known(request) = NoPlan /\ WellFormedPlan(p)
    /\ \E candidate \in {Candidate(p, InContext(request), request)} :
          IF candidate # NoPlan THEN Take(candidate)
                                ELSE phase' = "rejected" /\ UNCHANGED <<plan, request, confirmed>>
    /\ proposed' = p
\* The accepted plan comes back from the user with the request, without the conversation.
Alone(q) == [q EXCEPT !.previous = {}]
Confirm ==
    /\ phase = "accepted" /\ plan.feasible
    /\ \E candidate \in {Candidate(plan, Alone(request), Alone(request))} :
          IF candidate # NoPlan THEN phase' = "confirmed" /\ confirmed' = candidate
                                ELSE phase' = "refused again" /\ UNCHANGED confirmed
    /\ UNCHANGED <<request, proposed, plan>>

Next == PlanKnown \/ (\E p \in Proposals : PlanProposed(p)) \/ Confirm
Spec == Init /\ [][Next]_vars

-----------------------------------------------------------------------------
\* A request for data that no source has ends without an executable plan: "Hard data boundaries run
\* last so a deterministic capability cannot accidentally revive a request" (workflow.py:6572).  The
\* plans that are returned before that check are left: those of a typed intent or a graph, of a
\* follow-up, and of the industry family.
ReturnedEarly(p) ==
    \/ p.intent # NoIntent \/ p.graph # <<>>
    \/ p.output \in {"industry_valuation_dividend_result", "conversation_moneyflow_refinement",
                     "conversation_disclosure_refinement", "conversation_cash_dividend_refinement",
                     "conversation_valuation_refinement"}
UnverifiableIsRefused ==
    phase = "accepted" /\ "unverifiable" \in InContext(request).marks /\ plan.feasible => ReturnedEarly(plan)

\* The plan that a user confirms goes through every compiler again, and none of them changes or
\* rejects what it produced before, whichever words the request mixes (workflow.py:8733: "Preserve
\* that completed plan when request normalization invokes the compiler again").
ConfirmedAsAccepted ==
    request.previous = {} => /\ phase # "refused again"
                             /\ phase = "confirmed" => confirmed = plan

\* The contract of a request calls the confirmed plan the "Exact previewed plan approved by the user
\* for execution" (contracts.py:222).  A confirmed follow-up is compiled from its own words alone.
PreviewedPlanRuns == phase = "confirmed" => confirmed = plan

=============================================================================
