------------------------------ MODULE Takeover ------------------------------
(***************************************************************************)
(* One knob, the parameter it drives and RNBO at the far end: what         *)
(* makeValuePickupMessasge, the OSC sender and the OSC listener achieve    *)
(* together, with the numbers of the code.                                 *)
(*                                                                         *)
(* A knob turn is handled in one step and a value that arrives in another; *)
(* PickUp has their steps, and OscOut those of the queue to the sender and *)
(* of the one variable its pointers refer to.  What is added here is that  *)
(* RNBO's value and what the program knows of it are two things, with      *)
(* messages between them that take time and may be lost.                   *)
(***************************************************************************)
EXTENDS ControlValues, Sequences

CONSTANTS
  Positions,   \* the knob's positions
  MaxStep,     \* the furthest it gets from one packet to the next
  Centered,    \* the parameter's meta data has center
  RnboValues,  \* what others than this program may set the parameter to
  MaxLag       \* how many of RNBO's messages may be underway

ASSUME KnobAssumption ==
  /\ Positions \subseteq Raw /\ RnboValues \subseteq Normalized
  /\ MaxStep \in Nat /\ MaxLag \in Nat /\ Centered \in BOOLEAN

VARIABLES
  raw,     \* the knob's position, as its last packet gave it
  queued,  \* pointers to that packet in the sender's queue: "none", "one",
           \* or "overtaken": one was queued before something else happened
  entry,   \* path_values[path]
  shown,   \* what the last turn told the device to show, since entry began
           \* or a value came
  rnbo,    \* RNBO's value
  back,    \* values RNBO own, underway to the listener

  (* History, which no step of the code reads.                             *)
  own,     \* RNBO's value came from this knob
  astray   \* RNBO's last value is not underway and did not arrive, or the
           \* last value sent from here did not

knob == <<raw, queued, entry, shown, rnbo, back, own, astray>>

NewEntry == [loaded |-> FALSE, value |-> 0, locked |-> FALSE]

KnobInit ==
  /\ raw \in Positions /\ queued = "none"
  /\ entry = NewEntry /\ shown = "nothing"
  /\ rnbo \in RnboValues /\ back = <<>> /\ own = FALSE /\ astray = TRUE

Reachable(r) == r - raw \in -MaxStep .. MaxStep

ValueAt(r) == makeValueFLoat(Centered, r)

(* Mutation of Actions: the directions are swapped.                        *)
Actions_Swapped(e, v) ==
  LET diff == v - e.value IN
  IF e.locked \/ ~e.loaded THEN {"locked"}
  ELSE {a \in {"locked", "turn_up", "turn_down"} :
          /\ a = "locked"    => diff \in -25 .. 25
          /\ a = "turn_up"   => diff >= 25
          /\ a = "turn_down" => diff <= -25}

(* What a knob at value v may do.  The difference is compared with 0.025f: *)
(* at exactly 25 thousandths it depends on how the floats were rounded.    *)
Actions(e, v) ==
  LET diff == v - e.value IN
  IF e.locked \/ ~e.loaded THEN {"locked"}
  ELSE {a \in {"locked", "turn_up", "turn_down"} :
          /\ a = "locked"    => diff \in -25 .. 25
          /\ a = "turn_up"   => diff <= -25
          /\ a = "turn_down" => diff >= 25}

Overtaken == IF queued = "none" THEN "none" ELSE "overtaken"

(* A knob turn.                                                            *)
Turn(r) ==
  /\ Reachable(r)
  /\ raw' = r
  /\ \E a \in Actions(entry, ValueAt(r)) :
       /\ shown' = a
       /\ IF a = "locked"
          THEN /\ entry' = [entry EXCEPT !.locked = TRUE]
               /\ queued' = IF queued = "none" THEN "one" ELSE "overtaken"
          ELSE entry' = entry /\ queued' = Overtaken
  /\ UNCHANGED <<rnbo, back, own, astray>>

(* Nobody reads the line, or the knob is not assigned.                     *)
TurnUnnoticed(r) ==
  /\ raw' = r
  /\ shown' = "nothing" /\ queued' = Overtaken
  /\ UNCHANGED <<entry, rnbo, back, own, astray>>

(* RNBO's value becomes v and it says so, if hears.                        *)
Becomes(v, hears) ==
  /\ rnbo' = v
  /\ IF hears THEN Len(back) < MaxLag /\ back' = Append(back, v)
     ELSE back' = back

(* OscSender takes a pointer and sends what it refers to, which may or may *)
(* not arrive; and RNBO may or may not tell the program of it.             *)
Send(arrives, echoes) ==
  /\ queued # "none"
  /\ queued' \in IF queued = "one" THEN {"none"} ELSE {"none", "overtaken"}
  /\ astray' = ~arrives
  /\ IF arrives THEN own' = TRUE /\ Becomes(ValueAt(raw), echoes)
     ELSE UNCHANGED <<rnbo, back, own>>
  /\ UNCHANGED <<raw, entry, shown>>

(* The parameter is changed in RNBO, by a preset or by somebody else.      *)
Change(v, hears) ==
  /\ Becomes(v, hears)
  /\ own' = FALSE /\ astray' = ~hears
  /\ queued' = Overtaken
  /\ UNCHANGED <<raw, entry, shown>>

(* Mutation of Deliver: a parameter that is locked stays so.               *)
Deliver_KeepsLock ==
  /\ back # <<>>
  /\ back' = Tail(back)
  /\ entry' = [entry EXCEPT !.loaded = TRUE, !.value = Head(back)]
  /\ shown' = "nothing" /\ queued' = Overtaken
  /\ UNCHANGED <<raw, rnbo, own, astray>>

(* setPathValue                                                            *)
Deliver ==
  /\ back # <<>>
  /\ back' = Tail(back)
  /\ entry' = [loaded |-> TRUE, value |-> Head(back), locked |-> FALSE]
  /\ shown' = "nothing" /\ queued' = Overtaken
  /\ UNCHANGED <<raw, rnbo, own, astray>>

Lose ==
  /\ back # <<>>
  /\ back' = Tail(back)
  /\ astray' = (astray \/ back' = <<>>)
  /\ UNCHANGED <<raw, queued, entry, shown, rnbo, own>>

(* clearPathValues                                                         *)
Clear ==
  /\ entry' = NewEntry /\ shown' = "nothing" /\ queued' = Overtaken
  /\ UNCHANGED <<raw, rnbo, back, own, astray>>

(* The program and its socket are gone.                                    *)
Forget ==
  /\ entry' = NewEntry /\ shown' = "nothing" /\ queued' = "none"
  /\ back' = <<>> /\ astray' = (astray \/ back # <<>>)
  /\ UNCHANGED <<raw, rnbo, own>>

-----------------------------------------------------------------------------
KnobTypeOK ==
  /\ raw \in Positions /\ rnbo \in Normalized /\ back \in Seq(Normalized)
  /\ queued \in {"none", "one", "overtaken"}
  /\ entry \in [loaded : BOOLEAN, value : Normalized, locked : BOOLEAN]
  /\ shown \in {"nothing", "locked", "turn_up", "turn_down"}
  /\ own \in BOOLEAN /\ astray \in BOOLEAN

(* A turn never makes RNBO's value jump out of the window of 0.025, unless *)
(* that value came from this knob; or the program did not know it: because *)
(* nothing came since it started or a preset load began, or it was still   *)
(* underway, or lost; or the sender was slower than what followed the turn.*)
NoJump ==
  [][queued = "one" /\ queued' = "none" =>
       \/ rnbo' - rnbo \in -25 .. 25
       \/ own
       \/ ~entry.loaded \/ back # <<>> \/ astray]_knob

(* A knob turned towards the value meets it: the device never asks to turn *)
(* up and then, with no new value in between, to turn down.                *)
SweepPicksUp ==
  [][{shown, shown'} # {"turn_up", "turn_down"}]_knob

(* The device never asks for the impossible: in the direction it shows     *)
(* there is a position at which the knob would pick the value up, however  *)
(* the floats were rounded (DataHandler.cpp:51-65).                        *)
HintLeadsThere ==
  /\ shown = "turn_up" =>
       \E r \in Raw : r > raw /\ Actions(entry, ValueAt(r)) = {"locked"}
  /\ shown = "turn_down" =>
       \E r \in Raw : r < raw /\ Actions(entry, ValueAt(r)) = {"locked"}

(* A value that the knob itself gave at most 11 positions away does not    *)
(* hold it back when RNBO repeats it.                                      *)
OwnValueHoldsNot ==
  [][raw' # raw /\ shown' \in {"turn_up", "turn_down"} =>
       \A r \in Positions :
         r - raw' \in -11 .. 11 => entry.value # ValueAt(r)]_knob
=============================================================================
