------------------------------ MODULE MCOscOut ------------------------------
(***************************************************************************)
(* OscOut with the numbers 0, a button or the reserved preset, and 1, a    *)
(* knob or a preset; both controllers may drive the one parameter.  A      *)
(* queue of two is full while the OscSender is at work on a third entry.   *)
(***************************************************************************)
EXTENDS OscOut
=============================================================================
