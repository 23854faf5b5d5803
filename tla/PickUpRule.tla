----------------------------- MODULE PickUpRule -----------------------------
(***************************************************************************)
(* What the DataHandler promises about one parameter, without maps, copies *)
(* and assignments: a knob that was not at the value RNBO announced is     *)
(* held back, and shown the way there; any other turn goes through.        *)
(*                                                                         *)
(* The rule binds a turn from the moment the program looks at the          *)
(* parameter.  It makes two exceptions: a turn during which RNBO's word    *)
(* was written, and a parameter that such a turn, or a value that was not  *)
(* recorded, has spoilt; and RNBO's next word ends that.                   *)
(***************************************************************************)
EXTENDS Integers

CONSTANTS
  Values,     \* what RNBO may announce
  Positions,  \* what a turn may come to
  Tolerance,  \* values that differ by at most this are equal
  Nothing     \* no announced value

VARIABLES
  announced,  \* RNBO's last word, or Nothing
  picked,     \* a knob was seen there since
  spoilt,     \* the program may have got it wrong
  writing,    \* RNBO's word is being written
  turn,       \* "none", "looking", or the verdict on it
  raced       \* RNBO's word was written since it began to look

vars == <<announced, picked, spoilt, writing, turn, raced>>

Init ==
  /\ announced = Nothing /\ picked = FALSE /\ spoilt = FALSE
  /\ writing = FALSE
  /\ turn = "none" /\ raced = FALSE

Near(v) == v - announced \in -Tolerance .. Tolerance

Overtake == raced' = (raced \/ turn # "none") /\ UNCHANGED turn

Renew(v) == announced' = v /\ picked' = FALSE /\ spoilt' = FALSE

(* RNBO's word is a value, or that a preset begins to load.                *)
Announce ==
  /\ ~writing /\ writing' = TRUE
  /\ \E v \in Values \cup {Nothing} : Renew(v)
  /\ Overtake

Write ==
  /\ writing /\ writing' \in BOOLEAN
  /\ Overtake
  /\ UNCHANGED <<announced, picked, spoilt>>

(* The parameter's meta data are new: nothing is known of it.              *)
Forget ==
  /\ ~writing
  /\ Renew(Nothing)
  /\ Overtake
  /\ UNCHANGED writing

(* No knob drives the parameter, and the value is not recorded.            *)
Ignore ==
  /\ ~writing /\ announced # Nothing
  /\ announced' \in Values /\ picked' = FALSE /\ spoilt' = TRUE
  /\ UNCHANGED <<writing, turn, raced>>

Look ==
  /\ turn = "none" /\ turn' = "looking"
  /\ raced' = writing
  /\ UNCHANGED <<announced, picked, spoilt, writing>>

(* There is nothing to look at.                                            *)
Pass ==
  /\ turn = "none" /\ turn' = "locked"
  /\ announced = Nothing
  /\ UNCHANGED <<announced, picked, spoilt, writing, raced>>

Verdicts == {"locked", "turn_up", "turn_down"}

Verdict(v) ==
  IF announced = Nothing \/ picked \/ Near(v) THEN "locked"
  ELSE IF v > announced THEN "turn_down" ELSE "turn_up"

Judge(v) ==
  /\ turn = "looking"
  /\ turn' \in IF raced \/ spoilt THEN Verdicts ELSE {Verdict(v)}
  /\ picked' = (picked \/ (announced # Nothing /\ Near(v)))
  /\ spoilt' = (spoilt \/ raced)
  /\ UNCHANGED <<announced, writing, raced>>

(* What it does with its verdict undoes what RNBO said meanwhile.          *)
Spoil ==
  /\ turn = "locked" /\ raced
  /\ spoilt' = TRUE
  /\ UNCHANGED <<announced, picked, writing, turn, raced>>

Answer ==
  /\ turn \in Verdicts /\ turn' = "none"
  /\ raced' = FALSE
  /\ UNCHANGED <<announced, picked, spoilt, writing>>

Next ==
  \/ Announce \/ Write \/ Forget \/ Ignore
  \/ Look \/ Pass \/ (\E v \in Positions : Judge(v)) \/ Spoil \/ Answer

Spec == Init /\ [][Next]_vars
=============================================================================
