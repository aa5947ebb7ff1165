------------------------------- MODULE MCMinerRun -------------------------------
(* A plan for MinerRun: a direct row and an item with two system rows, which share a
   ticket. *)
EXTENDS MinerRun

Direct == [direct |-> TRUE, tree |-> "own", item |-> 1, purpose |-> "none"]
System == [direct |-> FALSE, tree |-> "own", item |-> 2, purpose |-> "system"]

SmallPlan == <<Direct, System, System>>
================================================================================
