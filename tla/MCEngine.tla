------------------------------ MODULE MCEngine ------------------------------
(* EngineSync within the bounds of Bounds, for TLC. *)
EXTENDS EngineSync, Bounds
=============================================================================
