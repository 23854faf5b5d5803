---------------------------- MODULE ControlValues ----------------------------
(***************************************************************************)
(* The DataHandler's conversions between what the device sends and shows   *)
(* and the normalized values 0.0 .. 1.0 of RNBO, in thousandths.           *)
(*                                                                         *)
(* A value computed from a knob's position is cut to three digits, so      *)
(* thousandths lose nothing; for each of the 512 positions the code's      *)
(* float arithmetic gives the integer computed here.                       *)
(***************************************************************************)
EXTENDS Integers

Raw == 0 .. 511          \* positions of a knob, which has nine bits
Normalized == 0 .. 1000  \* values

(* Between position and value: 1.0 is 51100 and position r is 100 * r, so  *)
(* that the centre and the margin of 0.05 around it are integers.          *)
One == 51100
Center == 25550
Margin == 2555

clipValue(x, min, max) == IF x > max THEN max ELSE IF x < min THEN min ELSE x

scaleValue(x, in_min, in_max, out_min, out_max) ==
  clipValue(((x - in_min) * (out_max - out_min)) \div (in_max - in_min) + out_min,
            out_min, out_max)

(* A centred knob has 0.5 over a tenth of its way.                         *)
centerValue(raw) ==
  LET x == 100 * raw IN
  IF x \in Center - Margin .. Center + Margin THEN 500
  ELSE IF x > Center THEN scaleValue(x, Center + Margin, One, 500, 1000)
  ELSE scaleValue(x, 0, Center - Margin, 0, 500)

plainValue(raw) == (1000 * (100 * raw)) \div One

(* Mutation of makeValueFLoat: beside the middle of a centred knob its     *)
(* value is not scaled.                                                    *)
makeValueFLoat_NotScaled(centered, raw) ==
  IF centered /\ 100 * raw \in Center - Margin .. Center + Margin
  THEN 500 ELSE plainValue(raw)

(* The value of an assigned knob at position raw.                          *)
makeValueFLoat(centered, raw) ==
  IF centered THEN centerValue(raw) ELSE plainValue(raw)

(* Lamp states: the number of a button's step.                             *)
Shades == 0 .. 4

(* Mutation of formatButtonValue: steps that are not set stay negative.    *)
formatButtonValue_NotClipped(steps, value) ==
  ((steps - 1) * value + 500) \div 1000

(* steps is getConrollerSteps for buttons 1 and 2, 2 for the others.       *)
formatButtonValue(steps, value) ==
  ((clipValue(steps, 2, 5) - 1) * value + 500) \div 1000
=============================================================================
