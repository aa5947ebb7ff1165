--------------------------- MODULE MCEmissionWeights ---------------------------
(* Values for the constants of EmissionWeights: one arena. *)
EXTENDS EmissionWeights

CONSTANT a

OneArena == <<a>>
================================================================================
