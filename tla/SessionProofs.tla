---------------------------- MODULE SessionProofs ----------------------------
(***************************************************************************)
(* Theorems about Session, for any positions, any values and any number of *)
(* messages underway: types, NoJump, SweepPicksUp, HintLeadsThere and      *)
(* OwnValueHoldsNot; and before them what makeValueFLoat computes.         *)
(***************************************************************************)
EXTENDS Session, SequenceTheorems, TLAPS

(* What the outer pieces of a centred knob's way are scaled to.            *)
Low(r) == (50000 * r) \div 22995
High(r) == (50000 * r - 14052500) \div 22995 + 500

Piece(r, v) ==
  \/ r \in 0 .. 229 /\ v = Low(r) /\ v \in 0 .. 500
  \/ r \in 230 .. 281 /\ v = 500
  \/ r \in 282 .. 511 /\ v = High(r) /\ v \in 500 .. 1000

(* scaleValue as makeValueFLoat uses it: only its formula matters, nothing *)
(* is clipped.                                                             *)
LEMMA CenteredPieces ==
  ASSUME NEW r \in Raw
  PROVE  Piece(r, centerValue(r))
<1>1. CASE r \in 0 .. 229
  <2>1. centerValue(r) = scaleValue(100 * r, 0, 22995, 0, 500)
    BY <1>1 DEF centerValue, One, Center, Margin
  <2>2. (100 * r - 0) * (500 - 0) = 50000 * r /\ 22995 - 0 = 22995
    BY <1>1
  <2>3. scaleValue(100 * r, 0, 22995, 0, 500) = clipValue(Low(r) + 0, 0, 500)
    BY ONLY <2>2 DEF scaleValue, Low
  <2>4. Low(r) \in 0 .. 500
    BY <1>1 DEF Low
  <2> QED BY <1>1, <2>1, <2>3, <2>4 DEF clipValue, Piece
<1>2. CASE r \in 230 .. 281
  <2>1. 100 * r \in Center - Margin .. Center + Margin
    BY <1>2 DEF Center, Margin
  <2> QED BY <1>2, <2>1 DEF centerValue, Piece
<1>3. CASE r \in 282 .. 511
  <2>1. centerValue(r) = scaleValue(100 * r, 28105, 51100, 500, 1000)
    BY <1>3 DEF centerValue, One, Center, Margin
  <2>2. /\ (100 * r - 28105) * (1000 - 500) = 50000 * r - 14052500
        /\ 51100 - 28105 = 22995
    BY <1>3
  <2>3. scaleValue(100 * r, 28105, 51100, 500, 1000) = clipValue(High(r), 500, 1000)
    BY ONLY <2>2 DEF scaleValue, High
  <2>4. High(r) \in 500 .. 1000
    BY <1>3 DEF High
  <2> QED BY <1>3, <2>1, <2>3, <2>4 DEF clipValue, Piece
<1> QED BY <1>1, <1>2, <1>3 DEF Raw

(* A value computed from a position is one that RNBO may have.             *)
LEMMA ValueInRange ==
  ASSUME NEW r \in Raw, NEW centered \in BOOLEAN
  PROVE  makeValueFLoat(centered, r) \in Normalized
<1>1. Piece(r, centerValue(r))
  BY CenteredPieces
<1>2. centerValue(r) \in Normalized
  BY <1>1 DEF Piece, Normalized
<1>3. plainValue(r) \in Normalized
  BY DEF plainValue, One, Raw, Normalized
<1> QED BY <1>2, <1>3 DEF makeValueFLoat

(* The higher of two positions has no lower value, and one that is at most *)
(* 48 thousandths higher if they are 22 positions apart, 24 if 11.         *)
Gentle(r, s, v, w) ==
  /\ v <= w
  /\ s - r <= 22 => w - v <= 48
  /\ s - r <= 11 => w - v <= 24

LEMMA LowSlope ==
  ASSUME NEW r \in 0 .. 229, NEW s \in 0 .. 229, r <= s
  PROVE  Gentle(r, s, Low(r), Low(s))
BY DEF Gentle, Low

LEMMA HighSlope ==
  ASSUME NEW r \in 282 .. 511, NEW s \in 282 .. 511, r <= s
  PROVE  Gentle(r, s, High(r), High(s))
BY DEF Gentle, High

LEMMA CenteredSlope ==
  ASSUME NEW r \in Raw, NEW s \in Raw, r <= s
  PROVE  Gentle(r, s, centerValue(r), centerValue(s))
<1>1. Piece(r, centerValue(r)) /\ Piece(s, centerValue(s))
  BY CenteredPieces
<1>2. CASE r \in 0 .. 229 /\ s \in 0 .. 229
  <2>1. Gentle(r, s, Low(r), Low(s))
    BY <1>2, LowSlope, ZenonT(30)
  <2>2. centerValue(r) = Low(r) /\ centerValue(s) = Low(s)
    BY <1>1, <1>2 DEF Piece
  <2> QED BY <2>1, <2>2
<1>3. CASE r \in 282 .. 511 /\ s \in 282 .. 511
  <2>1. Gentle(r, s, High(r), High(s))
    BY <1>3, HighSlope, ZenonT(30)
  <2>2. centerValue(r) = High(r) /\ centerValue(s) = High(s)
    BY <1>1, <1>3 DEF Piece
  <2> QED BY <2>1, <2>2
<1>4. CASE r \in 0 .. 281 /\ s \in 230 .. 511
  <2> DEFINE v == centerValue(r)  w == centerValue(s)
  <2>1. (r <= 229 => v <= 500) /\ (r >= 230 => v = 500) /\ v \in Int
    BY <1>1, <1>4 DEF Piece
  <2>2. (s <= 281 => w = 500) /\ (s >= 282 => w >= 500) /\ w \in Int
    BY <1>1, <1>4 DEF Piece
  <2>3. (r <= 229 => v = Low(r)) /\ (s >= 282 => w = High(s))
    BY <1>1, <1>4 DEF Piece
  <2> SUFFICES Gentle(r, s, v, w)
    OBVIOUS
  <2> HIDE DEF v, w
  <2>4. v <= w
    BY <1>4, <2>1, <2>2
  <2>5. CASE r <= 229 /\ s <= 281
    BY <1>4, <2>1, <2>2, <2>3, <2>4, <2>5 DEF Gentle, Low
  <2>6. CASE r >= 230 /\ s >= 282
    BY <1>4, <2>1, <2>2, <2>3, <2>4, <2>6 DEF Gentle, High
  <2>7. CASE (r <= 229 /\ s >= 282) \/ (r >= 230 /\ s <= 281)
    BY <1>4, <2>1, <2>2, <2>4, <2>7 DEF Gentle
  <2> QED BY <1>4, <2>5, <2>6, <2>7
<1> QED BY <1>2, <1>3, <1>4 DEF Raw

LEMMA ValueSlope ==
  ASSUME NEW r \in Raw, NEW s \in Raw, NEW centered \in BOOLEAN, r <= s
  PROVE  Gentle(r, s, makeValueFLoat(centered, r), makeValueFLoat(centered, s))
<1>1. Gentle(r, s, plainValue(r), plainValue(s))
  BY DEF Gentle, plainValue, One, Raw
<1>2. Gentle(r, s, centerValue(r), centerValue(s))
  BY CenteredSlope
<1> QED BY <1>1, <1>2 DEF makeValueFLoat

LEMMA PositionValues ==
  ASSUME NEW r \in Positions, NEW s \in Positions
  PROVE  /\ r \in Int /\ ValueAt(r) \in Normalized /\ ValueAt(r) \in Int
         /\ r - s \in -22 .. 22 => ValueAt(r) - ValueAt(s) \in -48 .. 48
         /\ r - s \in -11 .. 11 => ValueAt(r) - ValueAt(s) \in -24 .. 24
<1>1. r \in Raw /\ s \in Raw /\ Centered \in BOOLEAN
  BY KnobAssumption
<1>2. ValueAt(r) \in Normalized /\ ValueAt(s) \in Normalized
  BY <1>1, ValueInRange DEF ValueAt
<1>3. /\ r <= s => Gentle(r, s, ValueAt(r), ValueAt(s))
      /\ s <= r => Gentle(s, r, ValueAt(s), ValueAt(r))
  BY <1>1, ValueSlope DEF ValueAt
<1>4. r \in Int /\ s \in Int /\ ValueAt(r) \in Int /\ ValueAt(s) \in Int
  <2>1. Raw \subseteq Int /\ Normalized \subseteq Int
    BY DEF Raw, Normalized
  <2> QED BY <1>1, <1>2, <2>1
<1>5. CASE r <= s
  BY <1>2, <1>3, <1>4, <1>5 DEF Gentle
<1>6. CASE s <= r
  BY <1>2, <1>3, <1>4, <1>6 DEF Gentle
<1> QED BY <1>4, <1>5, <1>6

-----------------------------------------------------------------------------
(* What the steps of Session may do to the knob.                           *)
KnobNext ==
  \/ \E r \in Positions : Turn(r) \/ TurnUnnoticed(r)
  \/ \E arrives, echoes \in BOOLEAN : Send(arrives, echoes)
  \/ \E v \in RnboValues, hears \in BOOLEAN : Change(v, hears)
  \/ Deliver \/ Lose \/ Clear \/ Forget

LEMMA KnobSteps ==
  ASSUME LifecycleTypeOK, [Next]_vars
  PROVE  [KnobNext]_knob
<1>1. rnbo_up \in BOOLEAN /\ Hearing \in BOOLEAN
  BY DEF LifecycleTypeOK, Hearing, Running
<1>2. CASE \E r \in Positions : KnobTurn(r)
  BY <1>2 DEF KnobTurn, KnobNext
<1>3. CASE SenderSends
  BY <1>1, <1>3 DEF SenderSends, KnobNext
<1>4. CASE \E v \in RnboValues : RnboChanges(v)
  BY <1>1, <1>4 DEF RnboChanges, KnobNext
<1>5. CASE ListenerHears \/ DatagramLost \/ PresetLoad
  BY <1>5 DEF ListenerHears, DatagramLost, PresetLoad, KnobNext
<1>6. CASE Live
  BY <1>6 DEF Live, Meanwhile, KnobNext
<1>7. CASE UNCHANGED vars
  BY <1>7 DEF vars
<1> QED BY <1>2, <1>3, <1>4, <1>5, <1>6, <1>7 DEF Next

LEMMA FreshProgram == Fresh \in Programs
BY DEF Fresh, Programs

LEMMA LifecycleSteps ==
  ASSUME LifecycleTypeOK, [Next]_vars
  PROVE  LifecycleTypeOK'
<1> USE DEF LifecycleTypeOK
<1>0. program \in Programs /\ Fresh \in Programs
  BY FreshProgram
<1>1. CASE UNCHANGED lifecycle
  BY <1>1 DEF lifecycle
<1>2. CASE LifecycleNext
  <2>1. CASE Main
    <3>1. CASE LoadConfig
      BY <3>1 DEF LoadConfig, At, Running, Alone, Programs
    <3>2. CASE StartSender
      BY <3>2 DEF StartSender, At, Running, Alone, Started, Programs
    <3>3. CASE StartListener
      BY <3>3 DEF StartListener, At, Running, Alone, Programs
    <3>4. CASE StartSerial
      BY <3>4 DEF StartSerial, At, Running, Alone, Started, Programs
    <3>5. CASE ConstructOthers \/ GotDescriptor \/ StopSleeping \/ Return
      BY <3>5 DEF ConstructOthers, GotDescriptor, StopSleeping, Return, At, Running, Alone, Programs
    <3> QED BY <2>1, <3>1, <3>2, <3>3, <3>4, <3>5 DEF Main
  <2>2. CASE Register \/ OpenPort \/ Reload
    BY <2>2 DEF Register, OpenPort, Reload, Alone, Programs
  <2>3. CASE Crash \/ handler_sigsev
    BY <2>3 DEF Crash, handler_sigsev
  <2>4. CASE Restart \/ StartAgain
    BY <1>0, <2>4 DEF Restart, StartAgain
  <2>5. CASE handle_sigint
    BY <2>5 DEF handle_sigint, Programs
  <2>6. CASE RnboStarts \/ RnboStops
    BY <2>6 DEF RnboStarts, RnboStops
  <2> QED BY <1>2, <2>1, <2>2, <2>3, <2>4, <2>5, <2>6 DEF LifecycleNext, Progress
<1> QED BY <1>1, <1>2 DEF Next, vars, KnobTurn, SenderSends, RnboChanges,
             ListenerHears, DatagramLost, PresetLoad, Live

LEMMA KnobTypes ==
  ASSUME KnobTypeOK, [KnobNext]_knob
  PROVE  KnobTypeOK'
<1> USE DEF KnobTypeOK
<1> DEFINE Entries == [loaded : BOOLEAN, value : Normalized, locked : BOOLEAN]
<1>1. ASSUME NEW r \in Positions, Turn(r) \/ TurnUnnoticed(r)
      PROVE  KnobTypeOK'
  BY <1>1 DEF Turn, TurnUnnoticed, Actions, Overtaken
<1>2. ASSUME NEW v \in Normalized, NEW hears \in BOOLEAN, Becomes(v, hears)
      PROVE  rnbo' \in Normalized /\ back' \in Seq(Normalized)
  BY <1>2 DEF Becomes
<1>3. ASSUME NEW arrives \in BOOLEAN, NEW echoes \in BOOLEAN, Send(arrives, echoes)
      PROVE  KnobTypeOK'
  <2>1. ValueAt(raw) \in Normalized
    BY PositionValues
  <2>2. rnbo' \in Normalized /\ back' \in Seq(Normalized) /\ own' \in BOOLEAN
    BY <1>2, <1>3, <2>1 DEF Send
  <2> QED BY <1>3, <2>2 DEF Send
<1>4. ASSUME NEW v \in RnboValues, NEW hears \in BOOLEAN, Change(v, hears)
      PROVE  KnobTypeOK'
  <2>1. v \in Normalized
    BY KnobAssumption
  <2>2. rnbo' \in Normalized /\ back' \in Seq(Normalized)
    BY <1>2, <1>4, <2>1 DEF Change
  <2> QED BY <1>4, <2>2 DEF Change, Overtaken
<1>5. CASE Deliver
  <2>1. Head(back) \in Normalized /\ Tail(back) \in Seq(Normalized)
    BY <1>5 DEF Deliver
  <2>2. entry' \in Entries
    BY <1>5, <2>1 DEF Deliver
  <2> QED BY <1>5, <2>1, <2>2 DEF Deliver, Overtaken
<1>6. CASE Lose
  <2>1. Tail(back) \in Seq(Normalized)
    BY <1>6 DEF Lose
  <2> QED BY <1>6, <2>1 DEF Lose
<1>7. NewEntry \in Entries
  BY DEF NewEntry, Normalized
<1>8. CASE Clear
  BY <1>7, <1>8 DEF Clear, Overtaken
<1>9. CASE Forget
  <2>1. <<>> \in Seq(Normalized)
    OBVIOUS
  <2> QED BY <1>7, <1>9, <2>1 DEF Forget
<1>10. CASE UNCHANGED knob
  BY <1>10 DEF knob
<1> QED BY <1>1, <1>3, <1>4, <1>5, <1>6, <1>8, <1>9, <1>10 DEF KnobNext

(* Every variable keeps its type.                                          *)
THEOREM TypeCorrect == Spec => []TypeOK
<1>1. Init => TypeOK
  <2>1. KnobInit => KnobTypeOK
    <3>1. NewEntry \in [loaded : BOOLEAN, value : Normalized, locked : BOOLEAN]
      BY DEF NewEntry, Normalized
    <3>2. <<>> \in Seq(Normalized)
      OBVIOUS
    <3> QED BY <3>1, <3>2, KnobAssumption DEF KnobInit, KnobTypeOK
  <2>2. LifecycleInit => LifecycleTypeOK
    BY FreshProgram DEF LifecycleInit, LifecycleTypeOK
  <2> QED BY <2>1, <2>2 DEF Init, TypeOK
<1>2. TypeOK /\ [Next]_vars => TypeOK'
  BY KnobSteps, LifecycleSteps, KnobTypes DEF TypeOK
<1> QED BY <1>1, <1>2, PTL DEF Spec

-----------------------------------------------------------------------------
(* RNBO's value is not this knob's and the program knows it.               *)
Known == entry.loaded /\ back = <<>> /\ ~astray /\ ~own

KnownInv ==
  /\ ~astray /\ ~own /\ back # <<>> => back[Len(back)] = rnbo
  /\ Known => entry.value = rnbo
  /\ Known /\ entry.locked => queued # "none"
  /\ Known /\ queued = "one" => ValueAt(raw) - rnbo \in -25 .. 25

LEMMA KnownStep ==
  ASSUME KnobTypeOK, KnownInv, [KnobNext]_knob
  PROVE  KnownInv'
<1> USE DEF KnobTypeOK
<1>1. ASSUME NEW r \in Positions, Turn(r)
      PROVE  KnownInv'
  <2>1. UNCHANGED <<rnbo, back, astray, own>> /\ raw' = r
    BY <1>1 DEF Turn
  <2>2. PICK a \in Actions(entry, ValueAt(r)) :
          IF a = "locked"
          THEN /\ entry' = [entry EXCEPT !.locked = TRUE]
               /\ queued' = IF queued = "none" THEN "one" ELSE "overtaken"
          ELSE entry' = entry /\ queued' = Overtaken
    BY <1>1 DEF Turn
  <2>3. Known' => Known /\ entry'.value = entry.value
    BY <2>1, <2>2 DEF Known
  <2>4. CASE a = "locked"
    <3>1. queued' # "none" /\ (queued' = "one" => queued = "none")
      BY <2>2, <2>4
    <3>2. Known /\ queued = "none" => ValueAt(r) - entry.value \in -25 .. 25
      BY <2>2, <2>4 DEF Actions, KnownInv, Known
    <3> QED BY <2>1, <2>3, <3>1, <3>2 DEF KnownInv, ValueAt
  <2>5. CASE a # "locked"
    BY <2>1, <2>2, <2>3, <2>5 DEF KnownInv, Overtaken
  <2> QED BY <2>4, <2>5
<1>2. ASSUME NEW r \in Positions, TurnUnnoticed(r)
      PROVE  KnownInv'
  BY <1>2 DEF TurnUnnoticed, KnownInv, Known, Overtaken
<1>3. ASSUME NEW arrives \in BOOLEAN, NEW echoes \in BOOLEAN, Send(arrives, echoes)
      PROVE  KnownInv'
  <2>1. own' \/ astray'
    BY <1>3 DEF Send
  <2> QED BY <2>1 DEF KnownInv, Known
<1>4. ASSUME NEW v \in RnboValues, NEW hears \in BOOLEAN, Change(v, hears)
      PROVE  KnownInv'
  <2>1. CASE hears
    <3>1. rnbo' = v /\ back' = Append(back, v)
      BY <1>4, <2>1 DEF Change, Becomes
    <3>2. back' # <<>> /\ back'[Len(back')] = v
      BY <3>1
    <3> QED BY <3>1, <3>2 DEF KnownInv, Known
  <2>2. CASE ~hears
    <3>1. astray'
      BY <1>4, <2>2 DEF Change
    <3> QED BY <3>1 DEF KnownInv, Known
  <2> QED BY <2>1, <2>2
<1>5. ASSUME back # <<>>, back' = Tail(back), back' # <<>>
      PROVE  back'[Len(back')] = back[Len(back)]
  <2>1. back \in Seq(Normalized)
    BY DEF KnobTypeOK
  <2>2. Len(back') = Len(back) - 1 /\ Len(back') \in Nat /\ Len(back') >= 1
    BY <1>5, <2>1
  <2> QED BY <1>5, <2>1, <2>2
<1>6. CASE Deliver
  <2>1. /\ back # <<>> /\ back' = Tail(back)
        /\ entry'.value = Head(back) /\ ~entry'.locked
        /\ queued' # "one" /\ UNCHANGED <<rnbo, own, astray>>
    BY <1>6 DEF Deliver, Overtaken
  <2>2. back' = <<>> => Head(back) = back[Len(back)]
    <3>1. back \in Seq(Normalized)
      BY DEF KnobTypeOK
    <3>2. /\ Len(back) \in Nat /\ Len(back) # 0
          /\ Len(back') = Len(back) - 1 /\ back' \in Seq(Normalized)
      BY <2>1, <3>1, HeadTailProperties, EmptySeq
    <3>3. back' = <<>> => Len(back') = 0
      BY EmptySeq
    <3>4. back' = <<>> => Len(back) = 1
      BY <3>2, <3>3
    <3>5. Head(back) = back[1]
      BY <2>1, <3>1
    <3> QED BY <3>4, <3>5
  <2> QED BY <1>5, <2>1, <2>2 DEF KnownInv, Known
<1>7. CASE Lose
  <2>1. /\ back # <<>> /\ back' = Tail(back)
        /\ astray' = (astray \/ back' = <<>>) /\ UNCHANGED <<rnbo, own>>
    BY <1>7 DEF Lose
  <2>2. ~Known'
    BY <2>1 DEF Known
  <2> QED BY <1>5, <2>1, <2>2 DEF KnownInv
<1>8. CASE Clear \/ Forget
  <2>1. ~Known'
    BY <1>8 DEF Clear, Forget, NewEntry, Known
  <2>2. back' = <<>> \/ UNCHANGED <<rnbo, back, own, astray>>
    BY <1>8 DEF Clear, Forget
  <2> QED BY <2>1, <2>2 DEF KnownInv
<1>9. CASE UNCHANGED knob
  BY <1>9 DEF knob, KnownInv, Known, ValueAt
<1> QED BY <1>1, <1>2, <1>3, <1>4, <1>6, <1>7, <1>8, <1>9 DEF KnobNext

(* RNBO's value does not jump when a knob is turned.                       *)
THEOREM NeverJumps == Spec => NoJump
<1>1. Init => KnownInv
  BY DEF Init, KnobInit, NewEntry, KnownInv, Known
<1>2. TypeOK /\ KnownInv /\ [Next]_vars => KnownInv'
  BY KnobSteps, KnownStep DEF TypeOK
<1>3. TypeOK /\ KnownInv /\ [Next]_vars =>
        [queued = "one" /\ queued' = "none" =>
           \/ rnbo' - rnbo \in -25 .. 25
           \/ own
           \/ ~entry.loaded \/ back # <<>> \/ astray]_knob
  <2> SUFFICES ASSUME TypeOK, KnownInv, [Next]_vars, queued = "one", queued' = "none"
               PROVE  rnbo' - rnbo \in -25 .. 25 \/ own \/ ~entry.loaded \/ back # <<>> \/ astray
    OBVIOUS
  <2>1. [KnobNext]_knob
    BY KnobSteps DEF TypeOK
  <2>2. \/ Forget
        \/ \E arrives, echoes \in BOOLEAN : Send(arrives, echoes)
    BY <2>1 DEF KnobNext, knob, Turn, TurnUnnoticed, Overtaken, Change,
                     Deliver, Lose, Clear
  <2>3. rnbo' = rnbo \/ rnbo' = ValueAt(raw)
    BY <2>2 DEF Forget, Send, Becomes
  <2>4. rnbo \in Int
    BY DEF TypeOK, KnobTypeOK, Normalized
  <2>5. rnbo - rnbo \in -25 .. 25
    BY <2>4
  <2>6. ValueAt(raw) - rnbo \in -25 .. 25 \/ own \/ ~entry.loaded \/ back # <<>> \/ astray
    BY DEF KnownInv, Known
  <2> QED BY <2>3, <2>5, <2>6
<1> QED BY <1>1, <1>2, <1>3, TypeCorrect, PTL DEF Spec, NoJump

-----------------------------------------------------------------------------
(* The device is told the right direction.                                 *)
ShownInv ==
  LET diff == ValueAt(raw) - entry.value IN
  /\ shown = "turn_up" => entry.loaded /\ ~entry.locked /\ diff <= -25
  /\ shown = "turn_down" => entry.loaded /\ ~entry.locked /\ diff >= 25

LEMMA TurnShows ==
  ASSUME NEW r \in Positions, Turn(r), shown' # "locked"
  PROVE  /\ raw' = r /\ entry' = entry /\ entry.loaded /\ ~entry.locked
         /\ shown' = "turn_up" => ValueAt(r) - entry.value <= -25
         /\ shown' = "turn_down" => ValueAt(r) - entry.value >= 25
BY DEF Turn, Actions

LEMMA ShownStep ==
  ASSUME KnobTypeOK, ShownInv, [KnobNext]_knob
  PROVE  ShownInv'
<1>1. ASSUME NEW r \in Positions, Turn(r)
      PROVE  ShownInv'
  BY <1>1, TurnShows DEF ShownInv, ValueAt
<1>2. CASE shown' = "nothing"
  BY <1>2 DEF ShownInv
<1>3. CASE UNCHANGED <<raw, entry, shown>>
  BY <1>3 DEF ShownInv, ValueAt
<1> QED BY <1>1, <1>2, <1>3 DEF KnobNext, knob, TurnUnnoticed, Send, Change,
             Deliver, Lose, Clear, Forget

(* A knob turned no faster than 22 positions from packet to packet meets   *)
(* the value it is turned to.                                              *)
THEOREM SweepsPickUp ==
  ASSUME MaxStep <= 22
  PROVE  Spec => SweepPicksUp
<1>1. Init => ShownInv
  BY DEF Init, KnobInit, ShownInv
<1>2. TypeOK /\ ShownInv /\ [Next]_vars => ShownInv'
  BY KnobSteps, ShownStep DEF TypeOK
<1>3. ASSUME TypeOK, ShownInv, [Next]_vars
      PROVE  {shown, shown'} # {"turn_up", "turn_down"}
  <2> SUFFICES ASSUME \/ shown = "turn_up" /\ shown' = "turn_down"
                      \/ shown = "turn_down" /\ shown' = "turn_up"
               PROVE  FALSE
    OBVIOUS
  <2>1. PICK r \in Positions : Turn(r)
    BY <1>3, KnobSteps DEF TypeOK, KnobNext, knob, TurnUnnoticed, Send, Change,
                           Deliver, Lose, Clear, Forget
  <2>a. r \in Int /\ raw \in Int /\ raw \in Positions
    BY <1>3, KnobAssumption DEF TypeOK, KnobTypeOK, Raw
  <2>b. r - raw \in -MaxStep .. MaxStep
    BY <2>1 DEF Turn, Reachable
  <2>2. r - raw \in -22 .. 22
    BY <2>a, <2>b, KnobAssumption
  <2>3. ValueAt(r) - ValueAt(raw) \in -48 .. 48 /\ ValueAt(r) \in Int /\ ValueAt(raw) \in Int
    BY <2>a, <2>2, PositionValues
  <2>c. entry.value \in Normalized
    BY <1>3 DEF TypeOK, KnobTypeOK
  <2>d. Normalized \subseteq Int
    BY DEF Normalized
  <2>4. entry.value \in Int
    BY <2>c, <2>d
  <2> QED BY <1>3, <2>1, <2>3, <2>4, TurnShows DEF ShownInv
<1> QED BY <1>1, <1>2, <1>3, TypeCorrect, PTL DEF Spec, SweepPicksUp

(* Every value has a position that gives it but for 3 thousandths.         *)
LEMMA LowReaches ==
  ASSUME NEW v \in 0 .. 500
  PROVE  \E r \in 0 .. 229 : Low(r) - v \in -3 .. 3
<1> DEFINE r == (22995 * v) \div 50000
<1>1. r \in 0 .. 229 /\ Low(r) - v \in -3 .. 3
  BY DEF Low
<1> QED BY <1>1

LEMMA HighReaches ==
  ASSUME NEW v \in 501 .. 1000
  PROVE  \E r \in 282 .. 511 : High(r) - v \in -3 .. 3
<1> DEFINE r == (22995 * (v - 500) + 14052500 + 49999) \div 50000
<1>1. r \in 282 .. 511 /\ High(r) - v \in -3 .. 3
  BY DEF High
<1> QED BY <1>1

LEMMA PlainReaches ==
  ASSUME NEW v \in Normalized
  PROVE  \E r \in Raw : plainValue(r) - v \in -3 .. 3
<1> DEFINE r == (511 * v) \div 1000
<1>1. r \in Raw /\ plainValue(r) - v \in -3 .. 3
  BY DEF Normalized, Raw, plainValue, One
<1> QED BY <1>1

LEMMA ValueReached ==
  ASSUME NEW v \in Normalized, NEW centered \in BOOLEAN
  PROVE  \E r \in Raw : makeValueFLoat(centered, r) - v \in -3 .. 3
<1>1. CASE ~centered
  BY <1>1, PlainReaches DEF makeValueFLoat
<1>2. CASE centered /\ v \in 0 .. 500
  <2>1. PICK r \in 0 .. 229 : Low(r) - v \in -3 .. 3
    BY <1>2, LowReaches
  <2>2. r \in Raw /\ r \in Int /\ r < 230
    BY DEF Raw
  <2>3. r \notin 230 .. 281
    BY ONLY <2>2
  <2>4. r \notin 282 .. 511
    BY ONLY <2>2
  <2>5. centerValue(r) = Low(r)
    BY <2>2, <2>3, <2>4, CenteredPieces DEF Piece
  <2> QED BY <1>2, <2>1, <2>2, <2>5 DEF makeValueFLoat
<1>3. CASE centered /\ v \in 501 .. 1000
  <2>1. PICK r \in 282 .. 511 : High(r) - v \in -3 .. 3
    BY <1>3, HighReaches
  <2>2. r \in Raw /\ r \in Int /\ r >= 282
    BY DEF Raw
  <2>3. r \notin 0 .. 229
    BY ONLY <2>2
  <2>4. r \notin 230 .. 281
    BY ONLY <2>2
  <2>5. centerValue(r) = High(r)
    BY <2>2, <2>3, <2>4, CenteredPieces DEF Piece
  <2> QED BY <1>3, <2>1, <2>2, <2>5 DEF makeValueFLoat
<1> QED BY <1>1, <1>2, <1>3 DEF Normalized

(* There a knob that is held back is free, and if the device was told a    *)
(* direction it is in that direction.                                      *)
LEMMA HintWitness ==
  ASSUME KnobTypeOK, ShownInv, shown \in {"turn_up", "turn_down"}
  PROVE  \E r \in Raw :
           /\ Actions(entry, ValueAt(r)) = {"locked"}
           /\ shown = "turn_up" => r > raw
           /\ shown = "turn_down" => r < raw
<1>1. entry.value \in Normalized /\ raw \in Raw /\ Centered \in BOOLEAN
  BY KnobAssumption DEF KnobTypeOK
<1>2. PICK r \in Raw : ValueAt(r) - entry.value \in -3 .. 3
  BY <1>1, ValueReached DEF ValueAt
<1>3. Normalized \subseteq Int /\ Raw \subseteq Int
  BY DEF Normalized, Raw
<1>4. ValueAt(r) \in Int /\ ValueAt(raw) \in Int /\ entry.value \in Int /\ r \in Int /\ raw \in Int
  BY <1>1, <1>3, ValueInRange DEF ValueAt
<1>5. Actions(entry, ValueAt(r)) = {"locked"}
  <2> DEFINE diff == ValueAt(r) - entry.value
  <2>1. diff \in -25 .. 25 /\ ~(diff <= -25) /\ ~(diff >= 25)
    BY <1>2, <1>4
  <2> QED BY <2>1 DEF Actions
<1>6. /\ r <= raw => ValueAt(r) <= ValueAt(raw)
      /\ raw <= r => ValueAt(raw) <= ValueAt(r)
  BY <1>1, ValueSlope DEF ValueAt, Gentle
<1>7. shown = "turn_up" => r > raw
  BY <1>2, <1>4, <1>6 DEF ShownInv
<1>8. shown = "turn_down" => r < raw
  BY <1>2, <1>4, <1>6 DEF ShownInv
<1> QED BY <1>5, <1>7, <1>8

(* What the device asks for leads to the value.                            *)
THEOREM HintsLeadThere == Spec => []HintLeadsThere
<1>1. Init => ShownInv
  BY DEF Init, KnobInit, ShownInv
<1>2. TypeOK /\ ShownInv /\ [Next]_vars => ShownInv'
  BY KnobSteps, ShownStep DEF TypeOK
<1>3. TypeOK /\ ShownInv => HintLeadsThere
  BY HintWitness DEF TypeOK, HintLeadsThere
<1> QED BY <1>1, <1>2, <1>3, TypeCorrect, PTL DEF Spec

(* What a knob gave itself is near enough not to hold it back.             *)
THEOREM OwnValuesHoldNothing == Spec => OwnValueHoldsNot
<1>1. TypeOK /\ [Next]_vars =>
        [raw' # raw /\ shown' \in {"turn_up", "turn_down"} =>
           \A r \in Positions :
             r - raw' \in -11 .. 11 => entry.value # ValueAt(r)]_knob
  <2> SUFFICES ASSUME TypeOK, [Next]_vars, raw' # raw, shown' \in {"turn_up", "turn_down"},
                      NEW s \in Positions, s - raw' \in -11 .. 11
               PROVE  entry.value # ValueAt(s)
    OBVIOUS
  <2>1. PICK r \in Positions : Turn(r)
    BY KnobSteps DEF TypeOK, KnobNext, knob, TurnUnnoticed, Send, Change,
                     Deliver, Lose, Clear, Forget
  <2>2. raw' = r
    BY <2>1 DEF Turn
  <2>3. ValueAt(s) - ValueAt(r) \in -24 .. 24 /\ ValueAt(r) \in Int /\ ValueAt(s) \in Int
    BY <2>2, PositionValues
  <2> QED BY <2>1, <2>3, TurnShows
<1> QED BY <1>1, TypeCorrect, PTL DEF Spec, OwnValueHoldsNot
=============================================================================
