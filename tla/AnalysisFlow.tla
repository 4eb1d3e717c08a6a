----------------------------- MODULE AnalysisFlow -----------------------------
(***************************************************************************)
(* One analysis request (AnalysisService.analyze): the planners are asked  *)
(* for a plan until one is validated (planners/vertex_claude.py,           *)
(* planners/deepseek.py), the plan is checked again, executed by the       *)
(* strategy its queries need, and its results are classified into the      *)
(* answer.                                                                 *)
(*                                                                         *)
(* The calls of one query run in a thread pool: they end in any order.     *)
(* What a call returns is abstracted to how it ended: "full" with a proof  *)
(* of completeness, "bare" without one, "missing" (the provider has no     *)
(* such data), "saturated" (a page came twice), "none" (no market day),    *)
(* "failed".  Batches of dates are read at once.                           *)
(***************************************************************************)
EXTENDS PlanGraph

CONSTANTS
    Plans,          \* the plans a model may write, by name
    Requests,       \* what a request may be
    Codes, LastDay, \* the securities and the days a query may have to read one by one
    MaxQueries, MaxVertexAttempts, MaxAttempts, TargetCandidates, MaxIdentical

ASSUME BoundsArePositive ==
    {MaxQueries, MaxVertexAttempts, MaxAttempts, TargetCandidates, MaxIdentical} \subseteq Nat \ {0}
ASSUME PlansTyped == \A n \in DOMAIN Plans : PlanType(Plans[n])
ASSUME Market == Codes # {} /\ LastDay \in Nat \ {0}

VARIABLES
    request,    \* the request's mode, whether it runs as a task, and the plan it confirms
    stage,      \* where analyze is
    attempts,   \* the calls of the current planner
    candidates, \* how often each plan was validated and kept for comparison
    plan,       \* the name of the plan in use
    calls,      \* the calls of the queries being read
    results,    \* the results of the queries and steps
    outcome     \* the response

vars == <<request, stage, attempts, candidates, plan, calls, results, outcome>>

NoPlan == "no_plan"
Pending == [status |-> "pending", reason |-> ""]
Error(reason) == [status |-> "error", reason |-> reason]
NoCandidates == [n \in DOMAIN Plans |-> 0]
Stages == {"received", "vertex", "deepseek", "chosen", "executing", "answered"}
Status(s, reason) == [status |-> s, reason |-> reason]

\* A plan of a planner is normalised before it is used, a plan of the request is only aligned.
CompiledPlans == [n \in DOMAIN Plans |-> Aligned(Downgraded(Plans[n]))]
AlignedPlans == [n \in DOMAIN Plans |-> Aligned(Plans[n])]
Compiled(n) == CompiledPlans[n]
ThePlan == IF request.plan = NoPlan THEN CompiledPlans[plan] ELSE AlignedPlans[plan]
Readable == {n \in DOMAIN Plans : WellFormedPlan(Plans[n])}
ASSUME NoPlanIsNew == NoPlan \notin DOMAIN Plans
\* What a request confirms has been read before: it is a plan that the contracts accept.
ASSUME RequestsTyped ==
    Requests \subseteq [mode : {"execute", "plan"}, background : BOOLEAN, plan : Readable \cup {NoPlan}, confirmed : BOOLEAN]
ValidPlans == {n \in Readable : Accepts(Compiled(n), MaxQueries)}

Answer(o) == stage' = "answered" /\ outcome' = o /\ UNCHANGED <<request, attempts, candidates, plan, calls, results>>

-----------------------------------------------------------------------------
\* The request before planning: a failing screenshot or catalog read ends it, a confirmed plan
\* or a known request needs no planner.

Prepare ==
    /\ stage = "received"
    /\ IF request.plan = NoPlan
       THEN stage' = "vertex" /\ UNCHANGED plan
       ELSE stage' = "chosen" /\ plan' = request.plan
    /\ UNCHANGED <<request, attempts, candidates, calls, results, outcome>>
PrepareFails == stage = "received" /\ Answer(Error("unexpected"))

-----------------------------------------------------------------------------
\* VertexClaudePlanner.plan_validated: the first plan that can be read is used or not; a refused
\* call is not repeated, a lost one is; missing credentials escape.

Choose(n) == stage' = "chosen" /\ plan' = n /\ UNCHANGED <<request, attempts, candidates, calls, results, outcome>>
FallBack == stage' = "deepseek" /\ attempts' = 0 /\ UNCHANGED <<request, candidates, plan, calls, results, outcome>>
Promised == {n \in DOMAIN Plans : Downgraded(Plans[n]).feasible => Contracted(Plans[n])}
VertexPlans ==
    /\ stage = "vertex"
    /\ \E n \in Readable : IF n \in Promised \cap ValidPlans THEN Choose(n) ELSE FallBack
VertexRefuses == stage = "vertex" /\ FallBack
VertexUnreadable ==
    /\ stage = "vertex"
    /\ IF attempts + 1 < MaxVertexAttempts
       THEN attempts' = attempts + 1 /\ UNCHANGED <<request, stage, candidates, plan, calls, results, outcome>>
       ELSE FallBack
VertexWithoutCredentials == stage = "vertex" /\ Answer(Error("unexpected"))

-----------------------------------------------------------------------------
\* DeepSeekPlanner._plan_with_validation.

Kept(n) == [candidates EXCEPT ![n] = candidates[n] + 1]
Distinct(kept) == {n \in DOMAIN Plans : kept[n] > 0}
BestOf(names) == CHOOSE n \in names : \A m \in names : ~Better(Score(Compiled(m)), Score(Compiled(n)))
LastOf(kept) == CHOOSE n \in Distinct(kept) : \A m \in Distinct(kept) : ~Better(Score(Compiled(n)), Score(Compiled(m)))
Selected(kept) == BestOf(Distinct(kept))
Enough(kept, n) == Cardinality(Distinct(kept)) >= TargetCandidates \/ kept[n] >= MaxIdentical

\* A plan that is rejected or cannot be read costs an attempt and returns as feedback.
Usable == {n \in Promised \cap ValidPlans : CitesItsReads(Compiled(n))}
AskAgain(kept) ==
    /\ attempts' = attempts + 1
    /\ candidates' = kept
    /\ UNCHANGED <<request, stage, plan, calls, results, outcome>>
Asking == stage = "deepseek" /\ attempts < MaxAttempts
DeepSeekUnreadable == Asking /\ AskAgain(candidates)
DeepSeekRejected == Asking /\ \E n \in DOMAIN Plans \ Usable : AskAgain(candidates)
\* A plan of one requirement is used at once, another when enough of them agree or differ.
DeepSeekPlans ==
    /\ Asking
    /\ \E n \in Usable :
        IF Compiled(n).requirements <= 1 THEN Choose(n)
        ELSE IF ~Enough(Kept(n), n) THEN AskAgain(Kept(n))
        ELSE /\ stage' = "chosen"
             /\ plan' = Selected(Kept(n))
             /\ candidates' = Kept(n)
             /\ UNCHANGED <<request, attempts, calls, results, outcome>>
\* A refused call (400, 401, 403, 404) ends the planning, the plans kept are not looked at.
DeepSeekRefuses == Asking /\ Answer(Error("planner_refused"))
GiveUpAnyway(kept) == Answer(Error("planner_gave_up"))
GiveUp(kept) == IF Distinct(kept) # {} THEN Choose(Selected(kept)) ELSE Answer(Error("planner_gave_up"))
DeepSeekExhausted == stage = "deepseek" /\ attempts = MaxAttempts /\ GiveUp(candidates)

-----------------------------------------------------------------------------
\* analyze: the second validation and the responses without execution.

Launch == /\ stage' = "executing"
          /\ candidates' = NoCandidates
          /\ attempts' = 0
          /\ UNCHANGED <<request, plan, calls, results, outcome>>
Check ==
    /\ stage = "chosen"
    /\ IF ~Accepts(ThePlan, MaxQueries) THEN Answer(Error("validation"))
       ELSE IF ~ThePlan.feasible THEN Answer(Error("unsupported"))
       ELSE IF request.mode = "plan" THEN Answer([status |-> "success", reason |-> "preview"])
       ELSE IF NeedsTask(ThePlan) /\ ~request.background THEN Answer(Error("background"))
       ELSE Launch
\* The trading calendar is read to date a plan that was not confirmed.
CheckFails == stage = "chosen" /\ ~request.confirmed /\ Answer(Error("unexpected"))

-----------------------------------------------------------------------------
\* The calls of one query (the catalog of securities is read as if on a day of its own), and the order in which the queries of a plan start.

Days == 1..LastDay
Catalog == <<0>>
Parts(s) ==
    IF s \in {"read", "universe"} THEN {<<"call">>}
    ELSE IF s \in {"securities", "candidates"} THEN {<<c>> : c \in Codes}
    ELSE IF s \in {"dates", "unlocks", "market"} THEN {<<d>> : d \in Days}
    ELSE {<<"start">>, <<"end">>}
Endings(s, part) ==
    IF s = "securities" THEN {"full", "bare", "missing", "failed"}
    ELSE IF s = "unlocks" THEN {"full", "failed"} \cup (IF part = Catalog THEN {} ELSE {"saturated"})
    ELSE IF s = "boundaries" THEN {"full", "bare", "none", "failed"}
    ELSE {"full", "bare", "failed"}

\* _execute_with_fanout reads the universe, then the single reads at once, then the ranges one
\* by one, then the templates.
Turn(s) == IF s = "universe" THEN 1 ELSE IF s = "read" THEN 2 ELSE IF s \in {"market", "boundaries"} THEN 3
           ELSE IF s \in {"dates", "unlocks"} THEN 4 ELSE 5
Open == Ids(ThePlan) \ (DOMAIN results \cup DOMAIN calls)
Running == DOMAIN calls
UniverseFailed == ThePlan.shape # "dag" /\ \E n \in DOMAIN results \cap Ids(ThePlan) : Strategy(ThePlan, n) = "universe" /\ ~results[n].ok
MayStart(n) ==
    /\ ThePlan.shape = "dag" => Running = {} /\ Inputs(ThePlan, n) \subseteq DOMAIN results
    /\ NeedsFanout(ThePlan) =>
          /\ \A m \in Open \cup Running : Turn(Strategy(ThePlan, n)) <= Turn(Strategy(ThePlan, m))
          /\ Strategy(ThePlan, n) # "read" => Running = {}
          /\ ~UniverseFailed

Put(n, r) == results' = [m \in DOMAIN results \cup {n} |-> IF m = n THEN r ELSE results[m]]
SetCalls(n, c) == calls' = [m \in Running \cup {n} |-> IF m = n THEN c ELSE calls[m]]
Drop(n) == calls' = [m \in Running \ {n} |-> calls[m]]
Stay == UNCHANGED <<request, stage, attempts, candidates, plan, outcome>>

\* A candidate template is not read when its source failed.
SourceFailed(n) == Strategy(ThePlan, n) = "candidates" /\ \E m \in Inputs(ThePlan, n) : ~results[m].ok
StartQuery(n) ==
    /\ stage = "executing"
    /\ n \in Open \cap Queries(ThePlan)
    /\ MayStart(n)
    /\ ~SourceFailed(n)
    /\ SetCalls(n, [p \in Parts(Strategy(ThePlan, n)) |-> "open"])
    /\ UNCHANGED results
    /\ Stay
CallsThat(n, endings) == {p \in DOMAIN calls[n] : calls[n][p] \in endings}
Ended(n) == CallsThat(n, {"open", "again"}) = {}
CallEnds(n) ==
    /\ stage = "executing"
    /\ n \in Running
    /\ \E part \in CallsThat(n, {"open"}) :
        \E e \in Endings(Strategy(ThePlan, n), part) : SetCalls(n, [calls[n] EXCEPT ![part] = e])
    /\ UNCHANGED results
    /\ Stay

\* _execute_with_fanout reads the failed securities of a template once more; there a security
\* without data is a failure.
RetrySecurities(n) ==
    /\ stage = "executing"
    /\ n \in Running
    /\ Strategy(ThePlan, n) = "securities"
    /\ Ended(n)
    /\ CallsThat(n, {"failed"}) # {}
    /\ CallsThat(n, {"lost"}) = {}
    /\ SetCalls(n, [p \in DOMAIN calls[n] |-> IF calls[n][p] = "failed" THEN "again" ELSE calls[n][p]])
    /\ UNCHANGED results
    /\ Stay
RetryEndsForever(n) ==
    /\ stage = "executing"
    /\ n \in Running
    /\ \E part \in CallsThat(n, {"again"}), e \in {"full", "failed"} : SetCalls(n, [calls[n] EXCEPT ![part] = e])
    /\ UNCHANGED results
    /\ Stay
RetryEnds(n) ==
    /\ stage = "executing"
    /\ n \in Running
    /\ \E part \in CallsThat(n, {"again"}), e \in {"full", "bare", "lost"} :
        SetCalls(n, [calls[n] EXCEPT ![part] = e])
    /\ UNCHANGED results
    /\ Stay

\* _execute_share_float_range_by_security: when the first date that did not succeed was saturated
\* the range is read by security, after the catalog; a saturated window is halved.
FirstBad(n) == Min({p[1] : p \in CallsThat(n, {"saturated", "failed"})})
Recovering(n) == Strategy(ThePlan, n) = "unlocks" /\ Catalog \in DOMAIN calls[n]
Recoverable(n) == /\ Strategy(ThePlan, n) = "unlocks" /\ ~Recovering(n)
                  /\ CallsThat(n, {"saturated", "failed"}) # {}
                  /\ calls[n][<<FirstBad(n)>>] = "saturated"
Windows(n) == DOMAIN calls[n] \ {Catalog}
ReadBySecurity(n) ==
    /\ stage = "executing"
    /\ n \in Running
    /\ Ended(n)
    /\ Recoverable(n)
    /\ SetCalls(n, [p \in {Catalog} |-> "open"])
    /\ UNCHANGED results
    /\ Stay
CatalogRead(n) ==
    /\ stage = "executing"
    /\ n \in Running
    /\ Recovering(n) /\ Windows(n) = {} /\ calls[n][Catalog] = "full"
    /\ SetCalls(n, [p \in {Catalog} \cup {<<c, 1, LastDay>> : c \in Codes} |-> IF p = Catalog THEN "full" ELSE "open"])
    /\ UNCHANGED results
    /\ Stay
HalvesApart(w) == LET mid == w[2] + (w[3] - w[2]) \div 2 IN {<<w[1], w[2], mid>>, <<w[1], mid + 2, w[3]>>}
Halves(w) == LET mid == w[2] + (w[3] - w[2]) \div 2 IN {<<w[1], w[2], mid>>, <<w[1], mid + 1, w[3]>>}
Halvable(n) == {w \in CallsThat(n, {"saturated"}) : Recovering(n) /\ w[2] < w[3]}
Bisect(n) ==
    /\ stage = "executing"
    /\ n \in Running
    /\ \E w \in Halvable(n) :
        SetCalls(n, [v \in (DOMAIN calls[n] \ {w}) \cup Halves(w) |-> IF v \in Halves(w) THEN "open" ELSE calls[n][v]])
    /\ UNCHANGED results
    /\ Stay

-----------------------------------------------------------------------------
\* The result of one query.

Answered == {"full", "bare", "missing"}
\* What the checks compare with (no code keeps it): whether the calls of a result answered for
\* every part of it, and whether each proved that it was complete.  The fan-outs over securities,
\* dates and boundaries claim completeness without asking their calls.
Trusting == {"securities", "dates", "boundaries"}
Covered(n) ==
    IF Recovering(n) THEN \A c \in Codes, d \in Days : \E w \in Windows(n) : w[1] = c /\ d \in w[2]..w[3] /\ calls[n][w] = "full"
    ELSE \A p \in DOMAIN calls[n] : calls[n][p] \in Answered
Proved(n) == Covered(n) /\ (Strategy(ThePlan, n) \in Trusting \/ CallsThat(n, {"bare"}) = {})

Succeeds(n) == /\ CallsThat(n, {"failed", "lost", "saturated", "none"}) = {}
               /\ Strategy(ThePlan, n) = "market" => CallsThat(n, {"bare"}) = {}
Claims(n) == /\ Strategy(ThePlan, n) # "candidates"
             /\ Strategy(ThePlan, n) \in {"read", "universe"} => CallsThat(n, {"bare"}) = {}
Result(n) == [ok |-> Succeeds(n), complete |-> Succeeds(n) /\ Claims(n), whole |-> Covered(n), proved |-> Proved(n), broke |-> FALSE]
QueryEnds(n) ==
    /\ stage = "executing"
    /\ n \in Running
    /\ Ended(n)
    /\ ~Recoverable(n)
    /\ Recovering(n) => (Windows(n) # {} \/ calls[n][Catalog] = "failed") /\ Halvable(n) = {}
    /\ Strategy(ThePlan, n) = "securities" => CallsThat(n, {"failed"}) = {}
    /\ Put(n, Result(n))
    /\ Drop(n)
    /\ Stay

\* The calendar of a market range is read outside the executor: its failure escapes analyze.
CalendarFails(n) ==
    /\ stage = "executing"
    /\ n \in Running
    /\ Strategy(ThePlan, n) \in {"market", "boundaries"}
    /\ stage' = "answered"
    /\ outcome' = [status |-> "raised", reason |-> "calendar"]
    /\ calls' = <<>>
    /\ UNCHANGED <<request, attempts, candidates, plan, results>>

-----------------------------------------------------------------------------
\* The steps of a graph, and the pipeline over the results of a plan of queries.

FailedResult == [ok |-> FALSE, complete |-> FALSE, whole |-> FALSE, proved |-> FALSE, broke |-> FALSE]
Broken == [FailedResult EXCEPT !.broke = TRUE]
Consumes(ids) ==
    IF \E m \in ids : ~results[m].ok THEN FailedResult
    ELSE [ok |-> TRUE, complete |-> \A m \in ids : results[m].complete, whole |-> \A m \in ids : results[m].whole,
          proved |-> \A m \in ids : results[m].proved, broke |-> FALSE]
\* Local operators end at once and fail when the data does not fit.
ComputeEnds(n) ==
    /\ stage = "executing"
    /\ n \in Open \ Queries(ThePlan)
    /\ MayStart(n)
    /\ \E r \in {Consumes(Inputs(ThePlan, n)), Broken} :
        /\ r = Broken => Consumes(Inputs(ThePlan, n)).ok
        /\ Put(n, r)
    /\ UNCHANGED calls
    /\ Stay
CandidatesSkipped(n) ==
    /\ stage = "executing"
    /\ n \in Open \cap Queries(ThePlan)
    /\ MayStart(n)
    /\ SourceFailed(n)
    /\ Put(n, FailedResult)
    /\ UNCHANGED calls
    /\ Stay

Executed == Running = {} /\ (Open = {} \/ UniverseFailed)
\* The queries a pipeline reads: the first one is its source.
SourceOk(p) == ~UniverseFailed /\ p.source \in DOMAIN results /\ results[p.source].ok
Transforms ==
    /\ stage = "executing"
    /\ Executed
    /\ ThePlan.shape = "pipeline"
    /\ ThePlan.result \notin DOMAIN results
    /\ SourceOk(ThePlan)
    /\ \E r \in {Consumes(ThePlan.uses), Broken} :
        /\ r = Broken => Consumes(ThePlan.uses).ok
        /\ Put(ThePlan.result, r)
    /\ UNCHANGED calls
    /\ Stay

-----------------------------------------------------------------------------
\* _classify_execution_status over the results that are returned.

Returned ==
    IF ThePlan.shape = "dag" THEN {ThePlan.result}
    ELSE IF UniverseFailed THEN {n \in DOMAIN results : Strategy(ThePlan, n) = "universe" /\ ~results[n].ok}
    ELSE IF ThePlan.result \in DOMAIN results THEN DOMAIN results \ {ThePlan.source}
    ELSE DOMAIN results
AnswerId(p) == IF Contracted(p) THEN p.contract.result
               ELSE IF RequiredResults(p) = {} THEN "" ELSE CHOOSE n \in RequiredResults(p) : TRUE
Classify(p) ==
    LET failing == {n \in Returned : ~results[n].ok}
    IN  IF ~(RequiredResults(p) \subseteq Returned) THEN Status("error", "missing")
        ELSE IF RequiredResults(p) \cap failing # {} THEN Status("error", "failed")
        ELSE IF AnswerId(p) # "" /\ p.contract.complete /\ ~results[AnswerId(p)].complete THEN Status("error", "incomplete")
        ELSE IF failing = {} THEN Status("success", "satisfied")
        ELSE IF AnswerId(p) = "" /\ failing = Returned THEN Status("error", "failed")
        ELSE Status("partial_success", "advisory")
\* A graph without a node that can run is an internal error.
Stuck == ThePlan.shape = "dag" /\ Open # {} /\ \A n \in Open : ~MayStart(n)
Respond ==
    /\ stage = "executing"
    /\ Running = {} /\ (Executed \/ Stuck)
    /\ ThePlan.shape = "pipeline" /\ SourceOk(ThePlan) => ThePlan.result \in DOMAIN results
    /\ stage' = "answered"
    /\ outcome' = IF Stuck THEN Status("raised", "unrunnable") ELSE Classify(ThePlan)
    /\ UNCHANGED <<request, attempts, candidates, plan, calls, results>>

-----------------------------------------------------------------------------
Init == /\ request \in Requests
        /\ stage = "received"
        /\ attempts = 0
        /\ candidates = NoCandidates
        /\ plan = NoPlan
        /\ calls = <<>>
        /\ results = <<>>
        /\ outcome = Pending

Planning == \/ Prepare \/ PrepareFails
            \/ VertexPlans \/ VertexRefuses \/ VertexUnreadable \/ VertexWithoutCredentials
            \/ DeepSeekPlans \/ DeepSeekUnreadable \/ DeepSeekRejected \/ DeepSeekRefuses \/ DeepSeekExhausted
            \/ Check \/ CheckFails
NodeStep(n) == \/ StartQuery(n) \/ CallEnds(n) \/ RetrySecurities(n) \/ RetryEnds(n) \/ ReadBySecurity(n)
               \/ CatalogRead(n) \/ Bisect(n) \/ QueryEnds(n) \/ CalendarFails(n)
               \/ ComputeEnds(n) \/ CandidatesSkipped(n)
Executing == stage = "executing" /\ ((\E n \in Ids(ThePlan) : NodeStep(n)) \/ Transforms \/ Respond)
Next == Planning \/ Executing
Spec == Init /\ [][Next]_vars
\* Every call to a model or to the provider returns or times out, so that the request moves on.
FairSpec == Spec /\ WF_vars(Next)

-----------------------------------------------------------------------------
\* Properties.

ResultType == [ok : BOOLEAN, complete : BOOLEAN, whole : BOOLEAN, proved : BOOLEAN, broke : BOOLEAN]

\* Type invariant of the request's state.
TypeOK ==
    /\ request \in Requests
    /\ stage \in Stages
    /\ attempts \in 0..(MaxAttempts + MaxVertexAttempts)
    /\ candidates \in [DOMAIN Plans -> 0..MaxIdentical]
    /\ plan \in Readable \cup {NoPlan}
    /\ stage \in {"chosen", "executing"} => plan # NoPlan
    /\ results \in [DOMAIN results -> ResultType]
    /\ stage = "executing" => /\ Running \subseteq Queries(ThePlan) \ DOMAIN results
                              /\ DOMAIN results \subseteq Ids(ThePlan) \cup {ThePlan.result}
    /\ (stage = "answered") <=> (outcome # Pending)

\* An answer that is given, whole or in part, rests on results none of whose calls was lost, and
\* when the contract asks for completeness (a ranking or a summary always does) on calls that
\* proved theirs: however the calls of a fan-out end, in whatever order, with retries, skipped
\* inputs and halved windows in between.
AnswersRestOnTheirReads ==
    stage = "answered" /\ outcome.status \in {"success", "partial_success"} /\ outcome.reason # "preview" =>
        /\ AnswerId(ThePlan) # "" => results[AnswerId(ThePlan)].whole
        /\ AnswerId(ThePlan) # "" /\ ThePlan.contract.complete => results[AnswerId(ThePlan)].proved
        /\ outcome.status = "success" => \A n \in Returned : results[n].whole

\* A request executed to an error met one: a call that was lost or proved nothing, a step that
\* could not be computed, a calendar that could not be read.  Two plans that the validator accepts
\* fail without one: a contract that requires a result which is not returned, and a ranking over
\* candidates, whose reads never claim completeness.
RequiresUnreturned(p) == ~(RequiredResults(p) \subseteq (IF p.shape = "dag" THEN {p.result} ELSE
                                                         (Ids(p) \ {p.source}) \cup {p.result}))
OnlyFaultsFail ==
    stage = "answered" /\ outcome.reason \in {"missing", "failed", "incomplete", "unrunnable"} =>
        \/ \E n \in DOMAIN results : ~results[n].proved \/ results[n].broke
        \/ RequiresUnreturned(ThePlan)
        \/ ThePlan.contract.complete /\ Reading(ThePlan, {"candidates"}) # {}

\* A planner gives up only when no plan was validated, and of the validated plans that were kept
\* for comparison none scores better than the one it returns.
ValidPlansAreUsed ==
    /\ outcome.reason = "planner_gave_up" => candidates = NoCandidates
    /\ stage = "chosen" /\ ThePlan.requirements > 1 =>
          \A n \in Distinct(candidates) : ~Better(Score(Compiled(n)), Score(ThePlan))

\* The comparison of _candidate_score would hold for every plan that is returned.
BestCandidateWins ==
    stage = "chosen" => \A n \in Distinct(candidates) : ~Better(Score(Compiled(n)), Score(ThePlan))

\* Every request is answered: planning is bounded, and an accepted graph can be run to its end.
AnalysesEnd == <>(stage = "answered")

-----------------------------------------------------------------------------
\* The inductive invariant.

\* The planners: nothing is kept before the second one, which keeps usable plans and stops at
\* its bounds.
PlansKept ==
    /\ IsFiniteSet(Distinct(candidates)) /\ Distinct(candidates) \subseteq Usable
    /\ stage \in {"received", "vertex", "executing"} => candidates = NoCandidates
    /\ stage \in {"vertex", "deepseek"} => request.plan = NoPlan
    /\ stage \in {"received", "vertex"} => attempts < MaxVertexAttempts
    /\ stage = "deepseek" => attempts <= MaxAttempts /\ \A n \in DOMAIN Plans : candidates[n] < MaxIdentical

\* What is executed was accepted and is feasible; nothing is read before.
Admitted ==
    /\ stage \in {"received", "vertex", "deepseek", "chosen"} => calls = <<>> /\ results = <<>>
    /\ stage = "executing" => Accepts(ThePlan, MaxQueries) /\ ThePlan.feasible

\* The windows ws of a range that is read by security: each security's windows cover the days and
\* do not overlap.
Window == {w \in Codes \X Days \X Days : w[2] <= w[3]}
Within(d, w) == w[2] <= d /\ d <= w[3]
Tiling(ws) ==
    /\ ws \subseteq Window
    /\ \A c \in Codes, d \in Days : \E w \in ws : w[1] = c /\ Within(d, w)
    /\ \A v, w \in ws, d \in Days : v[1] = w[1] /\ Within(d, v) /\ Within(d, w) => v = w

\* The calls c of a query that is read by strategy s.
Statuses(s) == {"open"} \cup Endings(s, <<>>) \cup (IF s = "securities" THEN {"again", "lost"} ELSE {})
CallsOf(s, c) ==
    /\ \A part \in DOMAIN c : c[part] \in Statuses(s)
    /\ s = "unlocks" /\ Catalog \in DOMAIN c =>
          /\ c[Catalog] # "saturated"
          /\ DOMAIN c # {Catalog} => c[Catalog] = "full" /\ Tiling(DOMAIN c \ {Catalog})
Reads == stage = "executing" => \A n \in Running : CallsOf(Strategy(ThePlan, n), calls[n])

\* A result that is given is whole, one that is complete is proved, and one that is not given has
\* met a fault.
Sound(r) == /\ r.ok => r.whole
            /\ r.complete => r.ok /\ r.proved
            /\ r.ok \/ ~r.proved \/ r.broke
Excused == \/ \A n \in DOMAIN results : results[n].complete
           \/ \E n \in DOMAIN results : ~results[n].proved \/ results[n].broke
           \/ Reading(ThePlan, {"candidates"}) # {}
ResultsSound ==
    /\ \A n \in DOMAIN results : Sound(results[n])
    /\ stage = "executing" => /\ Excused
                              /\ ThePlan.result \in DOMAIN results => ThePlan.shape # "queries"

IInv == TypeOK /\ PlansKept /\ Admitted /\ Reads /\ ResultsSound
        /\ AnswersRestOnTheirReads /\ OnlyFaultsFail /\ ValidPlansAreUsed
=============================================================================
