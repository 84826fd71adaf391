-------------------------- MODULE MCServiceBridge --------------------------
(* Symmetry for the runs of ServiceBridge with two Services.                 *)
EXTENDS ServiceBridge, TLC

ServiceSymmetry == Permutations(Services)
=============================================================================
