------------------------- MODULE MCPipelineService -------------------------
(* Model values and bounds for PipelineService. *)
EXTENDS PipelineService

CONSTANTS j1, j2

MCJobs == {j1, j2}
MCTargets == 2
MCSteps == 2
MCCap == 1
=============================================================================
