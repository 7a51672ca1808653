--------------------------- MODULE MCPlanSession ---------------------------
(* PlanSession for TLC: two plans, up to three questions to the model, an  *)
(* exception, a save that fails and a restart.                            *)
EXTENDS PlanSession
=============================================================================
