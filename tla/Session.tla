------------------------------- MODULE Session -------------------------------
(***************************************************************************)
(* Takeover and Lifecycle together: a knob, the program with its threads   *)
(* and the restarts after its crashes, and an RNBO that is told only once  *)
(* that the program listens.                                               *)
(***************************************************************************)
EXTENDS Takeover, Lifecycle

vars == <<knob, lifecycle>>

Init == KnobInit /\ LifecycleInit

Handled == Running /\ program.serial = "reading" /\ program.configured

KnobTurn(r) ==
  /\ IF Handled THEN Turn(r) ELSE TurnUnnoticed(r)
  /\ UNCHANGED lifecycle

(* Messages to the other side may get lost even if there is one.           *)
Hearing == Running /\ program.listener /\ registered

SenderSends ==
  /\ Running /\ program.osc_sender = "serving"
  /\ \E arrives \in {FALSE, rnbo_up}, echoes \in {FALSE, Hearing} : Send(arrives, echoes)
  /\ UNCHANGED lifecycle

RnboChanges(v) ==
  /\ rnbo_up
  /\ \E hears \in {FALSE, Hearing} : Change(v, hears)
  /\ UNCHANGED lifecycle

(* A value for a parameter that no knob drives is dropped.                 *)
ListenerHears ==
  /\ Running /\ program.listener
  /\ IF program.configured THEN Deliver ELSE Lose
  /\ UNCHANGED lifecycle

DatagramLost == Lose /\ UNCHANGED lifecycle

PresetLoad == Running /\ program.listener /\ Clear /\ UNCHANGED lifecycle

(* The threads go with the process.  RNBO comes back with another value.   *)
Meanwhile ==
  IF Running /\ process' # "up" THEN Forget
  ELSE IF rnbo_up' # rnbo_up THEN \E v \in RnboValues : Change(v, FALSE)
  ELSE UNCHANGED knob

Live == LifecycleNext /\ Meanwhile

Next ==
  \/ \E r \in Positions : KnobTurn(r)
  \/ SenderSends
  \/ \E v \in RnboValues : RnboChanges(v)
  \/ ListenerHears \/ DatagramLost \/ PresetLoad
  \/ Live

(* main and what it starts go on, and the service manager does its work.   *)
(* Nobody has to turn a knob or to answer.                                 *)
Spec == Init /\ [][Next]_vars /\ WF_vars(Progress /\ Meanwhile)

TypeOK == KnobTypeOK /\ LifecycleTypeOK
=============================================================================
