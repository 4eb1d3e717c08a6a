------------------------ MODULE MCStrategyMonitoring ------------------------
(* Small instances of StrategyMonitoring for TLC: three of the owner's actions, two with a *)
(* scan, or two scans, on stores that hold drafts and strategies.                          *)
EXTENDS StrategyMonitoring

CONSTANTS d1, d2, s1, s2, s3, o1, o2, o3, c1, c2, a, b

Lists == {<<>>, <<a>>, <<a, b>>}

Ready(d)  == [id |-> d, state |-> "ready", name |-> TRUE, direction |-> TRUE, rules |-> "compiled"]
Opened(d) == [id |-> d, state |-> "awaiting_name", name |-> FALSE, direction |-> FALSE, rules |-> None]
Choosing(d) == [Opened(d) EXCEPT !.state = "awaiting_direction", !.name = TRUE]
On(k) == [rules |-> k, enabled |-> TRUE]
NoneSaved == [s \in StrategyIds |-> None]

Both == [NoneSaved EXCEPT ![s1] = On("legacy"), ![s2] = On("compiled")]
MCInit == \/ \E d \in {Ready(d1), Opened(d1), Choosing(d1)} : InitWith(<<d>>, NoneSaved, Ops, {})
          \/ InitWith(<<Ready(d1)>>, [NoneSaved EXCEPT ![s1] = On("legacy")], {o1, o2}, {c1})
          \/ InitWith(<<>>, Both, {}, Scans)
MCSpec == MCInit /\ [][Next]_vars
=============================================================================
