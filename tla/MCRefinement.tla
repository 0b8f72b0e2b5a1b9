---------------------------- MODULE MCRefinement ----------------------------
(***************************************************************************)
(* OrchestratorRefinement on the plans of MCOrchestrator.                  *)
(***************************************************************************)
EXTENDS MCOrchestrator, OrchestratorRefinement
=============================================================================
