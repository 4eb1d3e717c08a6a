--------------------------- MODULE MCAnalysisTasks ---------------------------
(***************************************************************************)
(* Small instances of AnalysisTasks: an analysis identifier that several   *)
(* callers may submit, a discovery task and two job executions.            *)
(***************************************************************************)
EXTENDS AnalysisTasks, TLC

\* Submitters and executions are interchangeable; the liveness run does without.
ProcessSymmetry == Permutations(Submitters) \cup Permutations(Executions)
=============================================================================
