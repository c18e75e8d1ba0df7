----------------------------- MODULE MCChassis -----------------------------
(***************************************************************************)
(* Instances of Chassis: standing still, straight on, aslant, straight on  *)
(* and turning, sideways and turning.                                      *)
(***************************************************************************)
EXTENDS Chassis

SomeRequests == {{}, {"x"}, {"x", "y"}, {"x", "yaw"}, {"y", "yaw"}}
=============================================================================
