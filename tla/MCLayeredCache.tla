---------------------------- MODULE MCLayeredCache ----------------------------
(***************************************************************************)
(* Small instances of LayeredCache.                                        *)
(***************************************************************************)
EXTENDS LayeredCache, TLC

CONSTANTS t1, t2, p1, p2, dated, latest, realtime, s1

MCKindOf == [k \in Keys |-> CASE k = dated -> "dated" [] k = latest -> "latest" [] OTHER -> "realtime"]

\* Both cached keys share a lock stripe.
MCStripeOf == [k \in Keys |-> s1]

\* A complete response is larger than a partial one; that of the latest data is too large.
MCSize(k, v) == IF k = dated THEN v + 1 ELSE 2 * v + 1

Symmetry == Permutations(Threads) \cup Permutations(Processes)
=============================================================================
