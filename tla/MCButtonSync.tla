---------------------------- MODULE MCButtonSync ----------------------------
(* Two buttons of one unit: one with two states, one with three steps.     *)
EXTENDS ButtonSync, TLC

CONSTANTS u1, b1, b2

MCUnitOf == (b1 :> u1) @@ (b2 :> u1)
MCStepsOf == (b1 :> -1) @@ (b2 :> 3)
=============================================================================
