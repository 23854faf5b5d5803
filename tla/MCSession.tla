------------------------------ MODULE MCSession ------------------------------
(* A centred parameter, whose knob has 0.5 in the middle of its way.       *)
EXTENDS Session
=============================================================================
