--------------------------- MODULE MCFeishuIngress ---------------------------
(***************************************************************************)
(* Small instances of FeishuIngress.                                       *)
(***************************************************************************)
EXTENDS FeishuIngress, TLC

CONSTANTS q1, st, rt, se, sw

\* A question, a status and a retry command, a question that opens a session, and a switch.
MCKindOf == [e \in Events |-> CASE e = q1 -> "ask"
                                [] e = st -> "status"
                                [] e = rt -> "retry"
                                [] e = se -> "session_ask"
                                [] OTHER -> "switch"]

\* A question and commands about it, under faults; and after an answered one, sessions and a
\* status command without faults.  The other events are never sent.
MCInit == InitWith({se, sw}, 0, None) \/ InitWith({q1, rt}, MaxCuts, q1)
MCSpec == MCInit /\ [][Next]_vars

HandlerSymmetry == Permutations(Handlers)
=============================================================================
