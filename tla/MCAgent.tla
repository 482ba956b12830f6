-------------------------------- MODULE MCAgent --------------------------------
(* Small instances of the agent's loop.  Three rounds of up to two calls:     *)
(* a rejected resolution corrected, two resolutions in one message, a         *)
(* proposal after a resolution, a nudge that works and one that does not, a   *)
(* nudge in the last round, the loop running out.                             *)
EXTENDS AgentLoop
=============================================================================
