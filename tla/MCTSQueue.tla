----------------------------- MODULE MCTSQueue -----------------------------
(* TSQueue on small sets of threads.  SerialConnector's queue has several   *)
(* producers and one consumer; two consumers are added because the class    *)
(* allows them and notify_one() has to choose then.                         *)
EXTENDS TSQueue
=============================================================================
