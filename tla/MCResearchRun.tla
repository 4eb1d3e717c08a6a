--------------------------- MODULE MCResearchRun ---------------------------
(***************************************************************************)
(* Instances of ResearchRun for TLC.                                       *)
(***************************************************************************)
EXTENDS ResearchRun

MCBothRuntimes == {"glm", "codex"}
MCGlm          == {"glm"}
MCLabels       == {"query", "compute"}

=============================================================================
