---------------------------- MODULE MCAnalysisFlow ----------------------------
(* A small instance of AnalysisFlow for TLC: a plan of every shape and strategy, and plans that *)
(* a planner gets wrong.                                                                        *)
EXTENDS AnalysisFlow

Query(reads) == [kind |-> "query", reads |-> reads, inputs |-> <<>>, ranks |-> FALSE]
PerCandidate(id) == [kind |-> "query", reads |-> "candidates", inputs |-> <<id>>, ranks |-> FALSE]
Step(inputs, ranks) == [kind |-> "compute", reads |-> "", inputs |-> inputs, ranks |-> ranks]
Promise(result, required, advisory) ==
    [result |-> result, required |-> required, advisory |-> advisory, summary |-> FALSE, complete |-> FALSE]
Plain == [shape |-> "queries", nodes |-> [q |-> Query("read")], uses |-> {}, source |-> "", result |-> "",
          ranks |-> FALSE, steps |-> 0, contract |-> Promise("q", {}, {}), feasible |-> TRUE, requirements |-> 1,
          implemented |-> 1, uncovered |-> 0, limitations |-> 0, cited |-> {}, proxy |-> FALSE, timely |-> TRUE, long |-> FALSE]
Piped(nodes, source, uses) ==
    [Plain EXCEPT !.shape = "pipeline", !.nodes = nodes, !.source = source, !.uses = {source} \cup uses,
                  !.result = "out", !.steps = 2, !.contract = Promise("out", {}, {})]
Graph(nodes, result) ==
    [Plain EXCEPT !.shape = "dag", !.nodes = nodes, !.result = result, !.contract = Promise(result, {}, {})]

MCPlans ==
    [plain      |-> Plain,
     advised    |-> [Plain EXCEPT !.nodes = [q |-> Query("read"), r |-> Query("read")], !.contract = Promise("q", {"q"}, {"r"}),
                                  !.requirements = 2, !.cited = {"q"}],
     open       |-> [Plain EXCEPT !.nodes = [q |-> Query("read"), r |-> Query("read")], !.contract = Uncontracted,
                                  !.requirements = 2],
     wordy      |-> [Plain EXCEPT !.requirements = 2, !.limitations = 1],
     muddled    |-> [Plain EXCEPT !.contract = Promise("q", {"q"}, {"q"})],
     uncovered  |-> [Plain EXCEPT !.uncovered = 1, !.requirements = 2],
     late       |-> [Plain EXCEPT !.timely = FALSE],
     misquoted  |-> [Plain EXCEPT !.cited = {"other"}],
     proxy      |-> [Plain EXCEPT !.proxy = TRUE],
     refused    |-> [Plain EXCEPT !.feasible = FALSE, !.nodes = <<>>, !.contract = Uncontracted, !.limitations = 1,
                                  !.requirements = 2, !.implemented = 1, !.uncovered = 1],
     ranking    |-> [Piped([q |-> Query("market"), m |-> Query("read")], "q", {"m"}) EXCEPT !.ranks = TRUE, !.requirements = 2],
     returns    |-> [Piped([q |-> Query("boundaries")], "q", {}) EXCEPT !.ranks = TRUE],
     holders    |-> [Piped([u |-> Query("universe"), h |-> Query("securities"), r |-> Query("read")], "h", {"r"}) EXCEPT
                          !.contract = Promise("out", {"out"}, {"u"})],
     unlocks    |-> [Piped([q |-> Query("unlocks")], "q", {}) EXCEPT !.contract = [Promise("out", {}, {}) EXCEPT !.summary = TRUE]],
     disclosed  |-> Piped([q |-> Query("dates"), r |-> Query("read")], "r", {}),
     sourced    |-> [Piped([q |-> Query("read")], "q", {}) EXCEPT !.contract = Promise("out", {"out", "q"}, {})],
     graph      |-> [Graph([a |-> Query("read"), b |-> PerCandidate("a"), c |-> Step(<<"b", "a">>, FALSE)], "c") EXCEPT !.requirements = 2],
     topped     |-> Graph([a |-> Query("read"), b |-> PerCandidate("a"), c |-> Step(<<"b">>, TRUE)], "c"),
     dated      |-> Graph([a |-> Query("unlocks"), b |-> Query("read"), c |-> Step(<<"a", "b">>, TRUE)], "c"),
     inner      |-> [Graph([a |-> Query("read"), c |-> Step(<<"a">>, FALSE)], "c") EXCEPT !.contract = Promise("c", {"a", "c"}, {})],
     cyclic     |-> Graph([a |-> Query("read"), b |-> Step(<<"c">>, FALSE), c |-> Step(<<"a", "b">>, FALSE)], "c"),
     idle       |-> Graph([a |-> Query("read"), b |-> Query("read")], "a")]

Asked(mode, background) == [mode |-> mode, background |-> background, plan |-> "no_plan", confirmed |-> FALSE]
MCRequests ==
    {Asked("execute", TRUE), Asked("execute", FALSE), Asked("plan", FALSE)}
    \cup {[Asked("execute", TRUE) EXCEPT !.plan = n, !.confirmed = c] : n \in {"holders", "proxy", "late"}, c \in BOOLEAN}
=============================================================================
