-------------------------- MODULE MCCapsuleScaling --------------------------
(* An instance of CapsuleScaling for TLC. *)
EXTENDS CapsuleScaling
=============================================================================
