------------------------------ MODULE MCPlannerRun ------------------------------
(* Small instances of PlannerRun: the decisions its reviewers send.           *)
EXTENDS PlannerRun

CONSTANTS d1, d2, d3

=============================================================================
