--------------------------- MODULE MCSerialParser ---------------------------
(* SerialParser on a short conversation over a line that loses few bytes.   *)
EXTENDS SerialParser
=============================================================================
