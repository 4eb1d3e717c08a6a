----------------------------- MODULE MCVixAlerts -----------------------------
(***************************************************************************)
(* Small instances of VixAlerts.                                           *)
(***************************************************************************)
EXTENDS VixAlerts, TLC

CONSTANTS v1, g1, up

\* The VIX has jumped, or it has come down below the exit level.
HighOrLow == {[hot |-> {up}, low |-> FALSE], [hot |-> {}, low |-> TRUE]}

OneChat == [r \in RuleIds |-> g1]
\* The first day is in its evening: its scans are followed by those of the second.
MCInit == InitAt([day |-> 1, evening |-> TRUE])
MCSpec == MCInit /\ [][Next]_vars
ScanSymmetry == Permutations(Scans)
=============================================================================
