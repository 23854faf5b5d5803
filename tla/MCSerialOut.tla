---------------------------- MODULE MCSerialOut ----------------------------
(* SerialOut with the serial thread's local, the preset's number and the    *)
(* node of one unit: a slot of each kind.  A knob's packet and the blank    *)
(* one of a button are two that the pick-up slot must not confuse.          *)
EXTENDS SerialOut
=============================================================================
