------------------------- MODULE MCBackgroundTasks -------------------------
(* One task; tasks meet only when the agent is closed or comes back.        *)
EXTENDS BackgroundTasks

CONSTANTS t1, t2
=============================================================================
