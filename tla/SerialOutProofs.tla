-------------------------- MODULE SerialOutProofs --------------------------
(***************************************************************************)
(* Proofs about SerialOut, for any locals, units, packets and limit: its   *)
(* type invariant, and that the newest packet of a slot that lasts is the  *)
(* one the device ends up with.                                            *)
(***************************************************************************)
EXTENDS SerialOut, TLAPS

Queued(s) == \E i \in DOMAIN queue : queue[i].slot = s

(* What NewestArrives needs to be inductive: a finished packet has a size, *)
(* so it is not skipped; and until it is written a pointer is queued after *)
(* its last change, or SerialSender has read nothing older than that.      *)
NewestOK(s) ==
  /\ slot[s].positive
  /\ Queued(s) \/ WillWrite(s) \/ shown[s] = slot[s].body

(* The inductive invariant.                                                *)
Inv ==
  /\ TypeOK
  /\ buttons = "push" => \A u \in Units : slot[u].body \in Packets
  /\ \A s \in accepted \ building : NewestOK(s)

-----------------------------------------------------------------------------
LEMMA NamesApart ==
  /\ Locals \cap Units = {} /\ "preset" \notin Locals /\ "preset" \notin Units
  /\ \A s \in Locals : ~Gone(s)
  /\ None \notin Slots
BY LocalsAssumption, UnitsAssumption DEF Gone, Slots

(* Touch changes only the history of the pointers.                         *)
LEMMA TouchKeeps ==
  ASSUME TypeOK, NEW S, Touch(S)
  PROVE  /\ queue' \in Seq(Pointers) /\ Len(queue') = Len(queue)
         /\ DOMAIN queue' = DOMAIN queue
         /\ \A i \in DOMAIN queue : queue'[i].slot = queue[i].slot
         /\ entry'.slot = entry.slot
         /\ entry' \in IF sender = "pop" THEN {NoPointer} ELSE Pointers
<1>1. \A p \in Pointers : TouchedIn(p, S) \in Pointers /\ TouchedIn(p, S).slot = p.slot
  BY DEF TouchedIn, Pointers
<1>2. TouchedIn(NoPointer, S) = NoPointer
  BY DEF TouchedIn, NoPointer
<1>3. queue \in Seq(Pointers)
  BY DEF TypeOK
<1>4. queue' = [i \in 1 .. Len(queue) |-> TouchedIn(queue[i], S)]
  BY <1>3 DEF Touch
<1>5. \A i \in 1 .. Len(queue) : queue[i] \in Pointers
  BY <1>3
<1>6. queue' \in Seq(Pointers) /\ Len(queue') = Len(queue)
  BY <1>1, <1>3, <1>4, <1>5
<1>7. entry' = TouchedIn(entry, S) /\ entry \in IF sender = "pop" THEN {NoPointer} ELSE Pointers
  BY DEF Touch, TypeOK
<1> QED
  BY <1>1, <1>2, <1>3, <1>4, <1>5, <1>6, <1>7

(* A step that leaves s alone, and only adds pointers, keeps its promise.  *)
LEMMA NewestKept ==
  ASSUME TypeOK, NEW s \in Locals, NewestOK(s),
         slot'[s] = slot[s],
         \A i \in DOMAIN queue : i \in DOMAIN queue' /\ queue'[i].slot = queue[i].slot,
         entry'.slot = entry.slot, UNCHANGED <<sender, size, shown>>
  PROVE  NewestOK(s)'
BY DEF NewestOK, Queued, WillWrite

LEMMA EnqueueAdds ==
  ASSUME TypeOK, NEW s \in Slots, Enqueue(s), slot[s].body \in Packets \cup {Blank}
  PROVE  /\ queue' \in Seq(Pointers) /\ Len(queue') <= SizeLimit
         /\ \A i \in DOMAIN queue : i \in DOMAIN queue' /\ queue'[i].slot = queue[i].slot
         /\ accepted' \subseteq Locals
         /\ \A t \in accepted' : t = s \/ t \in accepted
         /\ s \in accepted' => \E i \in DOMAIN queue' : queue'[i].slot = s
<1> DEFINE pointer == [slot |-> s, made |-> slot[s].body]
<1>1. pointer \in Pointers /\ pointer.slot = s
  BY DEF Pointers
<1>2. queue \in Seq(Pointers) /\ Len(queue) <= SizeLimit /\ accepted \subseteq Locals
      /\ Len(queue) \in Nat /\ SizeLimit \in Nat
  BY LimitAssumption DEF TypeOK
<1>3. CASE Len(queue) >= SizeLimit
  BY <1>2, <1>3 DEF Enqueue
<1>4. CASE ~(Len(queue) >= SizeLimit)
  <2> HIDE DEF pointer
  <2>1. queue' = Append(queue, pointer) /\ accepted' = accepted \cup ({s} \cap Locals)
    BY <1>4 DEF Enqueue, pointer
  <2>2. /\ queue' \in Seq(Pointers) /\ Len(queue') = Len(queue) + 1
        /\ queue'[Len(queue) + 1] = pointer
        /\ \A i \in 1 .. Len(queue) : queue'[i] = queue[i]
    BY <1>1, <1>2, <2>1
  <2>3. DOMAIN queue = 1 .. Len(queue) /\ DOMAIN queue' = 1 .. Len(queue) + 1
    BY <1>2, <2>2
  <2> QED
    BY <1>1, <1>2, <1>4, <2>1, <2>2, <2>3
<1> QED
  BY <1>3, <1>4

(* One stage of building a packet.                                         *)
LEMMA SetSlotKeepsInv ==
  ASSUME Inv, NEW t \in Locals \cup {"preset"}, t \in building',
         NEW positive \in BOOLEAN, NEW body \in Bodies, SetSlot(t, positive, body),
         building' \in SUBSET (Locals \cup {"preset"}), building \subseteq building',
         UNCHANGED <<listener, buttons, rest, accepted, sender, size, shown>>
  PROVE  Inv'
<1>1. Touch({t}) /\ slot' = [slot EXCEPT ![t] = [positive |-> positive, body |-> body]]
  BY DEF SetSlot
<1>2. TypeOK
  BY DEF Inv
<1> DEFINE packet == [positive |-> positive, body |-> body]
<1>3. packet \in [positive : BOOLEAN, body : Bodies]
  OBVIOUS
<1> HIDE DEF packet
<1>4. slot' = [slot EXCEPT ![t] = packet] /\ slot \in [Slots -> [positive : BOOLEAN, body : Bodies]]
  BY <1>1, <1>2 DEF TypeOK, packet
<1>5. \A s \in Slots : s # t => slot'[s] = slot[s]
  BY <1>4
<1>6. TypeOK'
  <2>1. slot' \in [Slots -> [positive : BOOLEAN, body : Bodies]]
    BY <1>3, <1>4
  <2> QED
    BY <1>1, <1>2, <2>1, TouchKeeps DEF TypeOK
<1>7. (buttons = "push" => \A u \in Units : slot[u].body \in Packets)'
  BY <1>5, NamesApart DEF Inv, Slots
<1>8. ASSUME NEW s \in accepted' \ building'
      PROVE  NewestOK(s)'
  <2>1. s \in Locals /\ s # t /\ s \in accepted \ building
    BY <1>2, <1>8 DEF TypeOK
  <2>2. NewestOK(s) /\ slot'[s] = slot[s]
    BY <1>5, <2>1 DEF Inv, Slots
  <2> QED
    BY <1>1, <1>2, <2>1, <2>2, TouchKeeps, NewestKept
<1> QED
  BY <1>6, <1>7, <1>8 DEF Inv

LEMMA FinishKeepsInv ==
  ASSUME Inv, NEW t \in Locals \cup {"preset"}, Finish(t)
  PROVE  Inv'
<1>1. /\ TypeOK /\ t \in Slots /\ building \subseteq Locals \cup {"preset"}
      /\ slot[t].positive \in BOOLEAN /\ slot[t].body \in Bodies
  BY DEF Inv, TypeOK, Slots
<1>2. CASE SetSize(t)
  BY <1>1, <1>2, SetSlotKeepsInv DEF SetSize
<1>3. CASE SetFirstByte(t)
  BY <1>1, <1>3, SetSlotKeepsInv DEF SetFirstByte, Bodies
<1>4. ASSUME NEW m \in Packets, SetLastByte(t, m)
      PROVE  Inv'
  BY <1>1, <1>4, SetSlotKeepsInv DEF SetLastByte, Bodies
<1>5. CASE Push(t)
  <2>1. slot[t].positive /\ slot[t].body \in Packets \cup {Blank} /\ Enqueue(t)
    BY <1>5 DEF Push, Finished
  <2>2. /\ building' = building \ {t}
        /\ listener' \in {listener, "start"}
        /\ UNCHANGED <<slot, buttons, rest, sender, entry, size, shown>>
    BY <1>5 DEF Push
  <2>3. TypeOK'
    BY <1>1, <2>1, <2>2, EnqueueAdds DEF TypeOK
  <2>4. ASSUME NEW s \in accepted' \ building'
        PROVE  NewestOK(s)'
    <3>1. CASE s = t
      BY <1>1, <2>1, <2>2, <2>4, <3>1, EnqueueAdds DEF NewestOK, Queued
    <3>2. CASE s # t
      <4>1. s \in Locals /\ s \in accepted \ building
        BY <1>1, <2>1, <2>2, <2>4, <3>2, EnqueueAdds DEF TypeOK
      <4>2. NewestOK(s)
        BY <4>1 DEF Inv
      <4> QED
        BY <1>1, <2>1, <2>2, <4>1, <4>2, EnqueueAdds, NewestKept
    <3> QED
      BY <3>1, <3>2
  <2> QED
    BY <2>2, <2>3, <2>4 DEF Inv
<1> QED
  BY <1>2, <1>3, <1>4, <1>5 DEF Finish

LEMMA ConstructKeepsInv ==
  ASSUME Inv, NEW t, Construct(t)
  PROVE  Inv'
<1>1. t \in Locals \cup {"preset"} /\ building' = building \cup {t}
  BY DEF Construct
<1>2. building \subseteq Locals \cup {"preset"}
  BY DEF Inv, TypeOK
<1> QED
  BY <1>1, <1>2, SetSlotKeepsInv DEF Construct, Bodies

LEMMA ListenerKeepsInv ==
  ASSUME Inv, PresetLoaded \/ Join \/ NameIsNoNumber \/ StartButtons
  PROVE  Inv'
<1>1. TypeOK
  BY DEF Inv
<1>2. CASE PresetLoaded
  BY <1>2 DEF PresetLoaded, Inv, TypeOK, NewestOK, Queued, WillWrite
<1>3. CASE Join
  BY <1>3 DEF Join, Inv, TypeOK, NewestOK, Queued, WillWrite
<1>4. CASE NameIsNoNumber
  BY <1>4 DEF NameIsNoNumber, Inv, TypeOK, NewestOK, Queued, WillWrite
<1>5. CASE StartButtons
  <2>1. Touch({"preset"}) /\ UNCHANGED <<slot, building, rest, accepted, sender, size, shown>>
        /\ listener' = "wait" /\ buttons' = "make"
    BY <1>5 DEF StartButtons
  <2>2. TypeOK'
    BY <1>1, <2>1, TouchKeeps DEF TypeOK
  <2>3. ASSUME NEW s \in accepted' \ building'
        PROVE  NewestOK(s)'
    <3>1. s \in Locals /\ NewestOK(s)
      BY <1>1, <2>1, <2>3 DEF Inv, TypeOK
    <3> QED
      BY <1>1, <2>1, <3>1, TouchKeeps, NewestKept
  <2> QED
    BY <2>1, <2>2, <2>3 DEF Inv
<1> QED
  BY <1>2, <1>3, <1>4, <1>5

LEMMA ButtonsKeepInv ==
  ASSUME Inv, ButtonThread
  PROVE  Inv'
<1>1. TypeOK
  BY DEF Inv
<1>2. CASE MakeButtons
  <2>1. PICK made \in [Units -> Presets] :
          slot' = [s \in Slots |-> IF s \in Units
                                   THEN [positive |-> TRUE, body |-> made[s]]
                                   ELSE slot[s]]
    BY <1>2 DEF MakeButtons
  <2>2. /\ Touch(Units) /\ buttons' = "push" /\ rest' = Units
        /\ UNCHANGED <<building, listener, accepted, sender, size, shown>>
    BY <1>2 DEF MakeButtons
  <2>3. \A u \in Units : slot'[u] = [positive |-> TRUE, body |-> made[u]] /\ made[u] \in Packets
    BY <2>1 DEF Slots, Packets
  <2>4. slot' \in [Slots -> [positive : BOOLEAN, body : Bodies]]
    BY <1>1, <2>1, <2>3 DEF TypeOK, Bodies, Packets
  <2>5. TypeOK'
    BY <1>1, <2>2, <2>4, TouchKeeps DEF TypeOK
  <2>6. ASSUME NEW s \in accepted' \ building'
        PROVE  NewestOK(s)'
    <3>1. s \in Locals /\ NewestOK(s)
      BY <1>1, <2>2, <2>6 DEF Inv, TypeOK
    <3>2. slot'[s] = slot[s]
      BY <2>1, <3>1, NamesApart DEF Slots
    <3> QED
      BY <1>1, <2>2, <3>1, <3>2, TouchKeeps, NewestKept
  <2>7. ASSUME NEW u \in Units
        PROVE  slot'[u].body \in Packets
    <3>1. slot'[u] = [positive |-> TRUE, body |-> made[u]] /\ made[u] \in Packets
      BY <2>3
    <3>2. [positive |-> TRUE, body |-> made[u]].body = made[u]
      OBVIOUS
    <3> QED
      BY <3>1, <3>2
  <2> QED
    BY <2>5, <2>6, <2>7 DEF Inv
<1>3. CASE PushButtons
  <2>1. PICK u \in rest : Enqueue(u) /\ rest' = rest \ {u}
    BY <1>3 DEF PushButtons
  <2>2. buttons = "push" /\ UNCHANGED <<slot, building, listener, buttons, sender, entry, size, shown>>
    BY <1>3 DEF PushButtons
  <2>3. u \in Units /\ u \in Slots /\ u \notin Locals /\ slot[u].body \in Packets \cup {Blank}
    BY <1>1, <2>1, <2>2, NamesApart DEF Inv, TypeOK, Slots
  <2>4. TypeOK'
    BY <1>1, <2>1, <2>2, <2>3, EnqueueAdds DEF TypeOK
  <2>5. ASSUME NEW s \in accepted' \ building'
        PROVE  NewestOK(s)'
    <3>1. s \in Locals /\ s \in accepted \ building
      BY <1>1, <2>1, <2>2, <2>3, <2>5, EnqueueAdds
    <3>2. NewestOK(s)
      BY <3>1 DEF Inv
    <3> QED
      BY <1>1, <2>1, <2>2, <2>3, <3>1, <3>2, EnqueueAdds, NewestKept
  <2> QED
    BY <2>2, <2>4, <2>5 DEF Inv
<1>4. CASE EndButtons
  <2>1. Touch(Units) /\ UNCHANGED <<slot, building, listener, rest, accepted, sender, size, shown>>
        /\ buttons' = "off"
    BY <1>4 DEF EndButtons
  <2>2. TypeOK'
    BY <1>1, <2>1, TouchKeeps DEF TypeOK
  <2>3. ASSUME NEW s \in accepted' \ building'
        PROVE  NewestOK(s)'
    <3>1. s \in Locals /\ NewestOK(s)
      BY <1>1, <2>1, <2>3 DEF Inv, TypeOK
    <3> QED
      BY <1>1, <2>1, <3>1, TouchKeeps, NewestKept
  <2> QED
    BY <2>1, <2>2, <2>3 DEF Inv
<1> QED
  BY <1>2, <1>3, <1>4 DEF ButtonThread

LEMMA SenderKeepsInv ==
  ASSUME Inv, SenderNext
  PROVE  Inv'
<1>1. /\ TypeOK /\ UNCHANGED <<slot, building, listener, buttons, rest, accepted>>
  BY DEF Inv, SenderNext, Pop, Skip, Test, ReadSize, Write, producers
<1>2. \A s \in accepted \ building : s \in Locals /\ s \in Slots /\ Found(s) = {slot[s]} /\ NewestOK(s)
  BY <1>1, NamesApart DEF Inv, TypeOK, Found, Slots
<1>3. NoPointer.slot = None
  BY DEF NoPointer
<1>4. CASE Pop
  <2>1. /\ sender = "pop" /\ sender' = "test" /\ queue # <<>>
        /\ entry = NoPointer /\ entry' = Head(queue) /\ queue' = Tail(queue)
        /\ UNCHANGED <<size, shown>>
    BY <1>1, <1>4 DEF Pop, TypeOK
  <2>2. queue \in Seq(Pointers) /\ Len(queue) <= SizeLimit /\ SizeLimit \in Nat
    BY <1>1, LimitAssumption DEF TypeOK
  <2>3. /\ Len(queue) \in Nat /\ Len(queue) > 0 /\ Head(queue) = queue[1] /\ queue[1] \in Pointers
        /\ Tail(queue) \in Seq(Pointers) /\ Len(Tail(queue)) = Len(queue) - 1
        /\ \A i \in 1 .. Len(queue) - 1 : Tail(queue)[i] = queue[i + 1]
    BY <2>1, <2>2
  <2>4. TypeOK'
    BY <1>1, <2>1, <2>2, <2>3 DEF TypeOK
  <2>5. ASSUME NEW s \in accepted \ building
        PROVE  NewestOK(s)'
    <3>1. entry.slot # s
      BY <1>2, <1>3, <2>1, <2>5, NamesApart
    <3>2. CASE Queued(s)
      <4>1. PICK i \in 1 .. Len(queue) : queue[i].slot = s
        BY <2>2, <3>2 DEF Queued
      <4>2. CASE i = 1
        BY <1>1, <1>2, <2>1, <2>3, <2>5, <4>1, <4>2 DEF NewestOK, WillWrite
      <4>3. CASE i # 1
        <5>1. i - 1 \in 1 .. Len(queue) - 1 /\ queue'[i - 1].slot = s
          BY <2>1, <2>3, <4>1, <4>3
        <5>2. i - 1 \in DOMAIN queue'
          BY <2>1, <2>3, <5>1
        <5> QED
          BY <1>1, <1>2, <2>5, <5>1, <5>2 DEF NewestOK, Queued
      <4> QED
        BY <4>2, <4>3
    <3>3. CASE ~Queued(s)
      BY <1>1, <1>2, <2>1, <2>5, <3>1, <3>3 DEF NewestOK, WillWrite
    <3> QED
      BY <3>2, <3>3
  <2> QED
    BY <1>1, <2>4, <2>5 DEF Inv
<1>5. CASE Skip
  <2>1. ASSUME NEW s \in accepted \ building
        PROVE  NewestOK(s)'
    <3>1. entry.slot # s
      BY <1>2, <1>5, <2>1 DEF Skip, NewestOK
    <3> QED
      BY <1>1, <1>2, <1>5, <2>1, <3>1 DEF Skip, Done, NewestOK, Queued, WillWrite, producers
  <2> QED
    BY <1>1, <1>5, <2>1 DEF Inv, TypeOK, Skip, Done, producers
<1>6. CASE Test
  BY <1>1, <1>2, <1>6 DEF Inv, TypeOK, Test, NewestOK, Queued, WillWrite, producers
<1>7. CASE ReadSize
  <2>1. /\ sender' = "write" /\ sender = "size" /\ UNCHANGED <<queue, entry, shown>>
        /\ \E c \in Found(entry.slot) : size' = c.positive
    BY <1>7 DEF ReadSize, producers
  <2>2. ASSUME NEW s \in accepted \ building
        PROVE  NewestOK(s)'
    <3>1. entry.slot = s => size'
      BY <1>2, <2>1, <2>2 DEF NewestOK
    <3> QED
      BY <1>1, <1>2, <2>1, <2>2, <3>1 DEF NewestOK, Queued, WillWrite
  <2>3. size' \in BOOLEAN
    <3>1. entry.slot \in Slots
      BY <1>1, <2>1 DEF TypeOK, Pointers
    <3>2. \A c \in Found(entry.slot) : c.positive \in BOOLEAN
      BY <1>1, <3>1 DEF Found, TypeOK
    <3> QED
      BY <2>1, <3>2
  <2> QED
    BY <1>1, <2>1, <2>2, <2>3 DEF Inv, TypeOK
<1>8. CASE Write
  <2>1. /\ sender = "write" /\ sender' = "pop" /\ entry' = NoPointer /\ size' = FALSE
        /\ UNCHANGED queue
        /\ shown' = [s \in Locals |->
                       IF s = entry.slot /\ size THEN slot[s].body ELSE shown[s]]
    BY <1>8 DEF Write, Done, producers
  <2>2. shown' \in [Locals -> Bodies \cup {None}]
    BY <1>1, <2>1 DEF TypeOK, Slots
  <2>3. ASSUME NEW s \in accepted \ building
        PROVE  NewestOK(s)'
    BY <1>1, <1>2, <2>1, <2>3 DEF NewestOK, Queued, WillWrite
  <2> QED
    BY <1>1, <2>1, <2>2, <2>3 DEF Inv, TypeOK
<1> QED
  BY <1>4, <1>5, <1>6, <1>7, <1>8 DEF SenderNext

-----------------------------------------------------------------------------
LEMMA Invariance == Spec => []Inv
<1>1. Init => Inv
  <2> SUFFICES ASSUME Init PROVE Inv
    OBVIOUS
  <2>1. queue = <<>> /\ queue \in Seq(Pointers) /\ Len(queue) = 0 /\ 0 <= SizeLimit
    BY LimitAssumption DEF Init
  <2>2. TypeOK
    BY <2>1 DEF Init, TypeOK, Bodies
  <2> QED
    BY <2>2 DEF Init, Inv
<1>2. Inv /\ [Next]_vars => Inv'
  <2> SUFFICES ASSUME Inv, [Next]_vars PROVE Inv'
    OBVIOUS
  <2>1. ASSUME NEW s \in Locals, Construct(s) \/ Finish(s)
        PROVE  Inv'
    BY <2>1, ConstructKeepsInv, FinishKeepsInv
  <2>2. CASE PresetLoaded \/ SetButtons
    BY <2>2, ListenerKeepsInv, ConstructKeepsInv, FinishKeepsInv DEF SetButtons
  <2>3. CASE ButtonThread
    BY <2>3, ButtonsKeepInv
  <2>4. CASE SenderNext
    BY <2>4, SenderKeepsInv
  <2>5. CASE UNCHANGED vars
    BY <2>5 DEF vars, producers, Inv, TypeOK, NewestOK, Queued, WillWrite
  <2> QED
    BY <2>1, <2>2, <2>3, <2>4, <2>5 DEF Next
<1> QED
  BY <1>1, <1>2, PTL DEF Spec

(* The variables keep their types: what is queued is always a finished     *)
(* packet, and SerialSender holds a pointer exactly while it handles one.  *)
THEOREM TypeCorrect == Spec => []TypeOK
<1>1. Inv => TypeOK
  BY DEF Inv
<1> QED
  BY <1>1, Invariance, PTL

(* However the threads interleave, once nothing is underway from a slot    *)
(* that lasts, the device has been sent the packet the slot holds, unless  *)
(* the queue was full when it was pushed.                                  *)
THEOREM NewestAlwaysArrives == Spec => []NewestArrives
<1>1. Inv => NewestArrives
  BY DEF Inv, NewestArrives, NewestOK, Queued, WillWrite, Underway
<1> QED
  BY <1>1, Invariance, PTL

-----------------------------------------------------------------------------
(* The inductive invariant for UntouchedIsWritten: a pointer that is not   *)
(* touched is to a variable that is there, and as it was.                  *)
Intact(p) ==
  p.made # None => slot[p.slot].positive /\ slot[p.slot].body = p.made /\ ~Gone(p.slot)

UntouchedInv ==
  /\ TypeOK
  /\ \A i \in DOMAIN queue : Intact(queue[i])
  /\ Intact(entry)
  /\ sender = "write" /\ entry.made # None => size
  /\ "preset" \in building => listener = "preset"
  /\ buttons = "push" => \A u \in Units : slot[u].positive

Untouched == /\ \A i \in DOMAIN queue : Intact(queue[i])
             /\ Intact(entry)
             /\ sender = "write" /\ entry.made # None => size

(* Whoever changes variables, or lets them go, touches the pointers.       *)
LEMMA TouchUntouched ==
  ASSUME TypeOK, Untouched, NEW S, Touch(S), UNCHANGED <<sender, size>>,
         \A t \in Slots \ S : slot'[t] = slot[t] /\ (Gone(t)' => Gone(t))
  PROVE  Untouched'
<1>1. /\ queue \in Seq(Pointers) /\ DOMAIN queue' = DOMAIN queue
      /\ \A i \in DOMAIN queue : queue'[i] = TouchedIn(queue[i], S)
      /\ entry' = TouchedIn(entry, S)
  BY DEF TypeOK, Touch
<1>2. ASSUME NEW p \in Pointers \cup {NoPointer}, Intact(p), TouchedIn(p, S).made # None
      PROVE  /\ TouchedIn(p, S) = p /\ p.made # None
             /\ slot'[p.slot].positive /\ slot'[p.slot].body = p.made /\ ~Gone(p.slot)'
  <2>1. TouchedIn(p, S) = p /\ p.slot \notin S
    BY <1>2 DEF TouchedIn, Pointers, NoPointer
  <2>2. p.slot \in Slots
    BY <1>2, <2>1 DEF Pointers, NoPointer
  <2> QED
    BY <1>2, <2>1, <2>2 DEF Intact
<1>3. \A i \in DOMAIN queue : queue[i] \in Pointers
  BY <1>1
<1>4. entry \in Pointers \cup {NoPointer}
  BY DEF TypeOK
<1> QED
  BY <1>1, <1>2, <1>3, <1>4 DEF Untouched, Intact

(* A finished packet that is queued is as its pointer says.                *)
LEMMA EnqueueUntouched ==
  ASSUME TypeOK, Untouched, NEW s \in Slots, Enqueue(s), slot[s].positive,
         UNCHANGED <<slot, sender, entry, size>>,
         ~Gone(s)', \A t \in Slots : Gone(t)' => Gone(t)
  PROVE  Untouched'
<1>1. queue \in Seq(Pointers) /\ entry \in Pointers \cup {NoPointer}
  BY DEF TypeOK
<1> DEFINE pointer == [slot |-> s, made |-> slot[s].body]
           GoneThen == {t \in Slots : Gone(t)'}
           IntactThen(q) == q.made # None => /\ slot'[q.slot].positive
                                             /\ slot'[q.slot].body = q.made
                                             /\ q.slot \in Slots \ GoneThen
<1>3. IntactThen(pointer)
  OBVIOUS
<1>4. ASSUME NEW p \in Pointers \cup {NoPointer}, Intact(p)
      PROVE  IntactThen(p)
  BY <1>4 DEF Intact, Pointers, NoPointer
<1> HIDE DEF pointer, IntactThen
<1>5. queue' = queue \/ queue' = Append(queue, pointer)
  BY DEF Enqueue, pointer
<1>6. \A i \in DOMAIN queue' :
        (i \in DOMAIN queue /\ queue'[i] = queue[i]) \/ queue'[i] = pointer
  BY <1>1, <1>5
<1>7. \A i \in DOMAIN queue : queue[i] \in Pointers
  BY <1>1
<1>8. \A i \in DOMAIN queue' : IntactThen(queue'[i])
  BY <1>3, <1>4, <1>6, <1>7 DEF Untouched
<1>9. IntactThen(entry')
  BY <1>1, <1>4 DEF Untouched
<1> QED
  BY <1>8, <1>9 DEF Untouched, Intact, IntactThen, Gone

LEMMA UntouchedInvariance == Spec => []UntouchedInv
<1>1. Inv /\ Init => UntouchedInv
  BY DEF Inv, Init, UntouchedInv, Intact, NoPointer
<1>2. Inv' /\ UntouchedInv /\ [Next]_vars => UntouchedInv'
  <2> SUFFICES ASSUME Inv', UntouchedInv, [Next]_vars PROVE UntouchedInv'
    OBVIOUS
  <2>1. TypeOK /\ TypeOK' /\ Untouched
    BY DEF Inv, UntouchedInv, Untouched
  <2> DEFINE Threads == /\ "preset" \in building => listener = "preset"
                        /\ buttons = "push" => \A u \in Units : slot[u].positive
  <2>2. Threads
    BY DEF UntouchedInv
  <2> SUFFICES Untouched' /\ Threads'
    BY <2>1 DEF UntouchedInv, Untouched
  <2>3. ASSUME NEW t \in Locals \cup {"preset"}, NEW positive, NEW body,
               SetSlot(t, positive, body), t \in building \/ MayBuild(t),
               building' = building \cup {t},
               UNCHANGED <<listener, buttons, sender, size>>
        PROVE  Untouched' /\ Threads'
    <3>1. /\ Touch({t}) /\ \A s \in Slots \ {t} : slot'[s] = slot[s]
          /\ \A s \in Slots : Gone(s)' => Gone(s)
      BY <2>1, <2>3 DEF SetSlot, TypeOK, Gone
    <3>2. t = "preset" => listener = "preset"
      BY <2>2, <2>3 DEF MayBuild
    <3> QED
      BY <2>1, <2>2, <2>3, <3>1, <3>2, TouchUntouched, NamesApart DEF Slots
  <2>4. ASSUME NEW t \in Locals \cup {"preset"}, Construct(t)
        PROVE  Untouched' /\ Threads'
    BY <2>3, <2>4 DEF Construct
  <2>5. ASSUME NEW t \in Locals \cup {"preset"}, Finish(t)
        PROVE  Untouched' /\ Threads'
    <3>1. t \in building
      BY <2>5 DEF Finish, SetSize, SetFirstByte, SetLastByte, Push
    <3>2. CASE SetSize(t) \/ SetFirstByte(t) \/ \E m \in Packets : SetLastByte(t, m)
      <4>1. building' = building \cup {t} /\ UNCHANGED <<listener, buttons, sender, size>>
        BY <3>1, <3>2 DEF SetSize, SetFirstByte, SetLastByte
      <4>2. PICK positive, body : SetSlot(t, positive, body)
        BY <3>2 DEF SetSize, SetFirstByte, SetLastByte
      <4> QED
        BY <2>3, <3>1, <4>1, <4>2
    <3>3. CASE Push(t)
      <4>1. /\ Enqueue(t) /\ slot[t].positive /\ building' = building \ {t}
            /\ listener' = IF t = "preset" THEN "start" ELSE listener
            /\ UNCHANGED <<slot, buttons, rest, sender, entry, size>>
        BY <3>3 DEF Push, Finished
      <4>2. ~Gone(t)' /\ \A s \in Slots : Gone(s)' => Gone(s)
        BY <2>2, <3>1, <4>1, NamesApart, LocalsAssumption, UnitsAssumption DEF Gone
      <4> QED
        BY <2>1, <2>2, <4>1, <4>2, EnqueueUntouched DEF Slots
    <3> QED
      BY <2>5, <3>2, <3>3 DEF Finish
  <2>6. CASE PresetLoaded \/ Join \/ NameIsNoNumber
    <3>1. /\ UNCHANGED <<slot, building, queue, buttons, sender, entry, size>>
          /\ "preset" \in building => listener' = "preset"
      BY <2>2, <2>6, NamesApart DEF PresetLoaded, Join, NameIsNoNumber, OfListener
    <3>2. \A s : Gone(s)' => Gone(s)
      BY <2>6 DEF PresetLoaded, Join, NameIsNoNumber, Gone
    <3> QED
      BY <2>1, <2>2, <3>1, <3>2 DEF Untouched, Intact
  <2>7. CASE StartButtons
    <3>1. /\ Touch({"preset"}) /\ UNCHANGED <<slot, building, sender, size>>
          /\ listener = "start" /\ listener' = "wait" /\ buttons' = "make"
      BY <2>7 DEF StartButtons
    <3>2. \A s \in Slots \ {"preset"} : Gone(s)' => Gone(s)
      BY <3>1 DEF Gone
    <3> QED
      BY <2>1, <2>2, <3>1, <3>2, TouchUntouched
  <2>8. CASE MakeButtons
    <3>1. PICK made \in [Units -> Presets] :
            slot' = [s \in Slots |-> IF s \in Units
                                     THEN [positive |-> TRUE, body |-> made[s]]
                                     ELSE slot[s]]
      BY <2>8 DEF MakeButtons
    <3>2. Touch(Units) /\ UNCHANGED <<building, listener, sender, size>> /\ buttons' = "push"
      BY <2>8 DEF MakeButtons
    <3>3. \A s \in Slots \ Units : slot'[s] = slot[s] /\ (Gone(s)' => Gone(s))
      BY <3>1, <3>2 DEF Gone
    <3>4. \A u \in Units : slot'[u].positive
      BY <3>1 DEF Slots
    <3> QED
      BY <2>1, <2>2, <3>2, <3>3, <3>4, TouchUntouched
  <2>9. CASE PushButtons
    <3>1. PICK u \in rest : Enqueue(u)
      BY <2>9 DEF PushButtons
    <3>2. buttons = "push" /\ UNCHANGED <<slot, building, listener, buttons, sender, entry, size>>
      BY <2>9 DEF PushButtons
    <3>3. u \in Units /\ u \in Slots /\ slot[u].positive /\ u # "preset"
      BY <2>1, <2>2, <3>1, <3>2, NamesApart DEF TypeOK, Slots
    <3>4. ~Gone(u)' /\ \A s \in Slots : Gone(s)' => Gone(s)
      BY <3>2, <3>3 DEF Gone
    <3> QED
      BY <2>1, <2>2, <3>1, <3>2, <3>3, <3>4, EnqueueUntouched
  <2>10. CASE EndButtons
    <3>1. /\ Touch(Units) /\ UNCHANGED <<slot, building, listener, sender, size>>
          /\ buttons' = "off"
      BY <2>10 DEF EndButtons
    <3>2. \A s \in Slots \ Units : Gone(s)' => Gone(s)
      BY <3>1 DEF Gone
    <3> QED
      BY <2>1, <2>2, <3>1, <3>2, TouchUntouched
  <2>11. CASE SenderNext
    <3>1. UNCHANGED <<slot, building, listener, buttons>>
      BY <2>11 DEF SenderNext, Pop, Skip, Test, ReadSize, Write, producers
    <3>2. \A p : Intact(p)' <=> Intact(p)
      BY <3>1 DEF Intact, Gone
    <3>3. Threads'
      BY <2>2, <3>1
    <3>4. CASE Pop
      <4>1. /\ queue \in Seq(Pointers) /\ queue # <<>> /\ sender' = "test"
            /\ entry' = Head(queue) /\ queue' = Tail(queue)
        BY <2>1, <3>4 DEF Pop, TypeOK
      <4>2. /\ entry' = queue[1] /\ 1 \in DOMAIN queue
            /\ \A i \in DOMAIN queue' : i + 1 \in DOMAIN queue /\ queue'[i] = queue[i + 1]
        BY <4>1
      <4> QED
        BY <2>1, <3>2, <3>3, <4>1, <4>2 DEF Untouched
    <3>5. CASE Skip \/ Write
      <4>1. queue' = queue /\ sender' = "pop" /\ entry' = NoPointer
        BY <3>5 DEF Skip, Write, Done, producers
      <4>2. Intact(NoPointer)
        BY DEF Intact, NoPointer
      <4> QED
        BY <2>1, <3>2, <3>3, <4>1, <4>2 DEF Untouched
    <3>6. CASE Test
      <4>1. UNCHANGED <<queue, entry>> /\ sender' = "size"
        BY <3>6 DEF Test, producers
      <4> QED
        BY <2>1, <3>2, <3>3, <4>1 DEF Untouched
    <3>7. CASE ReadSize
      <4>1. UNCHANGED <<queue, entry>> /\ \E c \in Found(entry.slot) : size' = c.positive
        BY <3>7 DEF ReadSize, producers
      <4>2. entry.made # None => Found(entry.slot) = {slot[entry.slot]} /\ slot[entry.slot].positive
        BY <2>1 DEF Untouched, Intact, Found
      <4>3. entry.made # None => size'
        BY <4>1, <4>2
      <4> QED
        BY <2>1, <3>2, <3>3, <4>1, <4>3 DEF Untouched
    <3> QED
      BY <2>11, <3>4, <3>5, <3>6, <3>7 DEF SenderNext
  <2>12. CASE UNCHANGED vars
    BY <2>1, <2>2, <2>12 DEF vars, producers, Untouched, Intact, Gone
  <2> QED
    BY <2>4, <2>5, <2>6, <2>7, <2>8, <2>9, <2>10, <2>11, <2>12
       DEF Next, SetButtons, ButtonThread
<1> QED
  BY <1>1, <1>2, Invariance, PTL DEF Spec

(* Whatever the limit and the units, SerialSender writes every entry whose *)
(* variable nobody has touched since it was queued, and as it was then.    *)
THEOREM UntouchedWritten == Spec => UntouchedIsWritten
<1> DEFINE Step == sender # "pop" /\ sender' = "pop" /\ entry.made # None =>
             /\ sender = "write" /\ size
             /\ \A c \in Found(entry.slot) : c.body = entry.made
<1>1. UntouchedInv /\ [Next]_vars => [Step]_vars
  <2> SUFFICES ASSUME UntouchedInv, Next, sender # "pop", sender' = "pop", entry.made # None
               PROVE  /\ sender = "write" /\ size
                      /\ \A c \in Found(entry.slot) : c.body = entry.made
    OBVIOUS
  <2>1. Found(entry.slot) = {slot[entry.slot]} /\ slot[entry.slot].positive
        /\ slot[entry.slot].body = entry.made
    BY DEF UntouchedInv, Intact, Found
  <2>2. Skip \/ Write
    BY DEF Next, Construct, Finish, SetSize, SetFirstByte, SetLastByte, Push, PresetLoaded,
           SetButtons, Join, NameIsNoNumber, StartButtons, ButtonThread, MakeButtons,
           PushButtons, EndButtons, SenderNext, Pop, Test, ReadSize
  <2>3. ~Skip
    BY <2>1 DEF Skip
  <2>4. sender = "write"
    BY <2>2, <2>3 DEF Write
  <2> QED
    BY <2>1, <2>4 DEF UntouchedInv
<1> QED
  BY <1>1, UntouchedInvariance, PTL DEF Spec, UntouchedIsWritten
-----------------------------------------------------------------------------
(* Each step is one of four kinds for a slot s that lasts: its producer    *)
(* changes its packet, or pushes it, or s is left alone, or it is a step   *)
(* of SerialSender.                                                        *)
SenderSame(s) ==
  /\ entry'.slot = entry.slot /\ UNCHANGED <<sender, size, shown>>
  /\ Queued(s)' = Queued(s)

Builds(s) == s \in building' /\ slot'[s].body \in Bodies /\ SenderSame(s)

LeavesAlone(s) ==
  /\ slot'[s] = slot[s] /\ SenderSame(s)
  /\ s \in building' <=> s \in building
  /\ s \in accepted' <=> s \in accepted

LEMMA TouchSame ==
  ASSUME TypeOK, NEW S, Touch(S), NEW s \in Locals, UNCHANGED <<sender, size, shown>>
  PROVE  SenderSame(s)
BY TouchKeeps DEF SenderSame, Queued

LEMMA EnqueueOther ==
  ASSUME TypeOK, NEW t \in Slots, Enqueue(t), NEW s \in Locals, s # t
  PROVE  Queued(s)' = Queued(s) /\ (s \in accepted' <=> s \in accepted)
<1> DEFINE pointer == [slot |-> t, made |-> slot[t].body]
<1>1. pointer.slot = t /\ queue \in Seq(Pointers)
  BY DEF TypeOK
<1>2. CASE Len(queue) >= SizeLimit
  BY <1>2 DEF Enqueue, Queued
<1>3. CASE ~(Len(queue) >= SizeLimit)
  <2> HIDE DEF pointer
  <2>1. queue' = Append(queue, pointer) /\ accepted' = accepted \cup ({t} \cap Locals)
    BY <1>3 DEF Enqueue, pointer
  <2>2. /\ DOMAIN queue = 1 .. Len(queue) /\ DOMAIN queue' = 1 .. Len(queue) + 1
        /\ Len(queue) \in Nat
        /\ queue'[Len(queue) + 1] = pointer
        /\ \A i \in 1 .. Len(queue) : queue'[i] = queue[i]
    BY <1>1, <2>1
  <2>3. Queued(s)' <=> Queued(s)
    BY <1>1, <2>2 DEF Queued
  <2> QED
    BY <2>1, <2>3 DEF Queued
<1> QED
  BY <1>2, <1>3

LEMMA BuildKinds ==
  ASSUME Inv, Inv', NEW t \in Locals \cup {"preset"}, Construct(t) \/ Finish(t),
         NEW s \in Locals
  PROVE  Builds(s) \/ LeavesAlone(s) \/ (s = t /\ Push(s))
<1>1. TypeOK /\ TypeOK' /\ t \in Slots /\ s \in Slots
  BY DEF Inv, Slots
<1>2. CASE Push(t)
  <2>1. CASE s = t
    BY <1>2, <2>1
  <2>2. CASE s # t
    <3>1. /\ Enqueue(t) /\ building' = building \ {t}
          /\ UNCHANGED <<slot, sender, entry, size, shown>>
      BY <1>2 DEF Push
    <3> QED
      BY <1>1, <2>2, <3>1, EnqueueOther DEF LeavesAlone, SenderSame
  <2> QED
    BY <2>1, <2>2
<1>3. CASE ~Push(t)
  <2>1. PICK positive, body : SetSlot(t, positive, body)
    BY <1>3 DEF Construct, Finish, SetSize, SetFirstByte, SetLastByte
  <2>2. /\ UNCHANGED <<accepted, sender, size, shown>>
        /\ t \in building' /\ building' \in {building, building \cup {t}}
    BY <1>3 DEF Construct, Finish, SetSize, SetFirstByte, SetLastByte
  <2>3. SenderSame(s)
    BY <1>1, <2>1, <2>2, TouchSame DEF SetSlot
  <2>4. CASE s = t
    <3>1. slot'[s].body \in Bodies
      BY <1>1 DEF TypeOK
    <3> QED
      BY <2>2, <2>3, <2>4, <3>1 DEF Builds
  <2>5. CASE s # t
    <3>1. slot'[s] = slot[s]
      BY <1>1, <2>1, <2>5 DEF SetSlot, TypeOK
    <3> QED
      BY <2>2, <2>3, <2>5, <3>1 DEF LeavesAlone
  <2> QED
    BY <2>4, <2>5
<1> QED
  BY <1>2, <1>3

LEMMA PresetKinds ==
  ASSUME Inv, PresetLoaded \/ Join \/ NameIsNoNumber \/ StartButtons \/ ButtonThread,
         NEW s \in Locals
  PROVE  LeavesAlone(s)
<1>1. TypeOK
  BY DEF Inv
<1>2. CASE PresetLoaded \/ Join \/ NameIsNoNumber
  BY <1>2 DEF PresetLoaded, Join, NameIsNoNumber, LeavesAlone, SenderSame, Queued
<1>3. CASE StartButtons \/ EndButtons
  <2>1. /\ UNCHANGED <<slot, building, accepted, sender, size, shown>>
        /\ Touch({"preset"}) \/ Touch(Units)
    BY <1>3 DEF StartButtons, EndButtons
  <2> QED
    BY <1>1, <2>1, TouchSame DEF LeavesAlone
<1>4. CASE MakeButtons
  <2>1. PICK made \in [Units -> Presets] :
          slot' = [t \in Slots |-> IF t \in Units
                                   THEN [positive |-> TRUE, body |-> made[t]]
                                   ELSE slot[t]]
    BY <1>4 DEF MakeButtons
  <2>2. slot'[s] = slot[s]
    BY <2>1, NamesApart DEF Slots
  <2>3. Touch(Units) /\ UNCHANGED <<building, accepted, sender, size, shown>>
    BY <1>4 DEF MakeButtons
  <2> QED
    BY <1>1, <2>2, <2>3, TouchSame DEF LeavesAlone
<1>5. CASE PushButtons
  <2>1. PICK u \in rest : Enqueue(u)
    BY <1>5 DEF PushButtons
  <2>2. u \in Slots /\ s # u
    BY <1>1, NamesApart DEF TypeOK, Slots
  <2>3. UNCHANGED <<slot, building, sender, entry, size, shown>>
    BY <1>5 DEF PushButtons
  <2> QED
    BY <1>1, <2>1, <2>2, <2>3, EnqueueOther DEF LeavesAlone, SenderSame
<1> QED
  BY <1>2, <1>3, <1>4, <1>5 DEF ButtonThread

LEMMA Kinds ==
  ASSUME Inv, Inv', [Next]_vars, NEW s \in Locals
  PROVE  Builds(s) \/ Push(s) \/ LeavesAlone(s) \/ SenderNext
<1>1. ASSUME NEW t \in Locals, Construct(t) \/ Finish(t)
      PROVE  Builds(s) \/ LeavesAlone(s) \/ Push(s)
  BY <1>1, BuildKinds
<1>2. CASE PresetLoaded \/ SetButtons
  BY <1>2, BuildKinds, PresetKinds DEF SetButtons
<1>3. CASE ButtonThread
  BY <1>3, PresetKinds
<1>4. CASE UNCHANGED vars
  BY <1>4 DEF vars, producers, LeavesAlone, SenderSame, Queued
<1> QED
  BY <1>1, <1>2, <1>3, <1>4 DEF Next

-----------------------------------------------------------------------------
(* A packet that is finished and underway has a size.                      *)
Sized(s) == s \notin building /\ Queued(s) => slot[s].positive

LEMMA SizedInvariance == ASSUME NEW s \in Locals PROVE Spec => []Sized(s)
<1>1. Init => Sized(s)
  BY DEF Init, Sized, Queued
<1>2. Inv /\ Inv' /\ Sized(s) /\ [Next]_vars => Sized(s)'
  <2> SUFFICES ASSUME Inv, Inv', Sized(s), [Next]_vars PROVE Sized(s)'
    OBVIOUS
  <2>1. CASE Builds(s)
    BY <2>1 DEF Builds, Sized
  <2>2. CASE Push(s)
    BY <2>2 DEF Push, Finished, Sized
  <2>3. CASE LeavesAlone(s)
    BY <2>3 DEF LeavesAlone, SenderSame, Sized
  <2>4. CASE SenderNext
    <3>1. UNCHANGED <<slot, building>>
      BY <2>4 DEF SenderNext, Pop, Skip, Test, ReadSize, Write, producers
    <3>2. queue' = queue \/ (queue # <<>> /\ queue' = Tail(queue))
      BY <2>4 DEF SenderNext, Pop, Skip, Test, ReadSize, Write, producers
    <3>3. queue \in Seq(Pointers)
      BY DEF Inv, TypeOK
    <3>4. \A i \in DOMAIN queue' : \E j \in DOMAIN queue : queue'[i] = queue[j]
      <4>1. CASE queue # <<>> /\ queue' = Tail(queue)
        <5>1. ASSUME NEW i \in DOMAIN queue'
              PROVE  i + 1 \in DOMAIN queue /\ queue'[i] = queue[i + 1]
          BY <3>3, <4>1, <5>1
        <5> QED
          BY <5>1
      <4> QED
        BY <3>2, <4>1
    <3> QED
      BY <3>1, <3>4 DEF Sized, Queued
  <2> QED
    BY <2>1, <2>2, <2>3, <2>4, Kinds
<1> QED
  BY <1>1, <1>2, Invariance, PTL DEF Spec

(* The mapping of SerialOut to Mailbox, its parts named.                   *)
State(s) == IF s \in building THEN "making"
            ELSE IF s \in accepted THEN "announced" ELSE "withdrawn"

Reading(s) == IF entry.slot # s THEN "no"
              ELSE IF WillWrite(s) THEN "bound" ELSE "torn"

LEMMA BuildRefines ==
  ASSUME NEW s \in Locals, Builds(s)
  PROVE  Box(s)!Alter
<1>1. {slot'[s].body} \in SUBSET Bodies /\ State(s)' = "making"
  BY DEF Builds, State
<1>2. Queued(s)' = Queued(s) /\ shown'[s] = shown[s]
  BY DEF Builds, SenderSame
<1>3. Reading(s)' \in IF Reading(s) = "no" THEN {"no"} ELSE {"bound", "torn"}
  BY DEF Builds, SenderSame, Reading
<1> QED
  BY <1>1, <1>2, <1>3 DEF Box!Alter, State, Queued, Reading

LEMMA PushRefines ==
  ASSUME Inv, NEW s \in Locals, Push(s)
  PROVE  Box(s)!Announce \/ Box(s)!Withdraw
<1>1. /\ s \in building /\ building' = building \ {s} /\ s \in Slots
      /\ UNCHANGED <<slot, sender, entry, size, shown>>
      /\ Enqueue(s) /\ slot[s].body \in Packets \cup {Blank}
  BY DEF Push, Finished, Slots
<1>2. State(s) = "making" /\ slot'[s].body = slot[s].body
  BY <1>1 DEF State
<1>3. Reading(s)' = Reading(s)
  BY <1>1 DEF Reading, WillWrite
<1>4. CASE s \in accepted'
  <2>1. Queued(s)' = TRUE
    BY <1>1, <1>4, EnqueueAdds DEF Inv, Queued
  <2>2. State(s)' = "announced"
    BY <1>1, <1>4 DEF State
  <2>3. Box(s)!Announce
    BY <1>1, <1>2, <1>3, <2>1, <2>2 DEF Box!Announce, State, Queued, Reading
  <2> QED
    BY <2>3
<1>5. CASE s \notin accepted'
  <2>1. Queued(s)' = Queued(s)
    BY <1>1, <1>5 DEF Enqueue, Queued
  <2>2. State(s)' = "withdrawn"
    BY <1>1, <1>5 DEF State
  <2>3. Box(s)!Withdraw
    BY <1>1, <1>2, <1>3, <2>1, <2>2 DEF Box!Withdraw, State, Queued, Reading
  <2> QED
    BY <2>3
<1> QED
  BY <1>4, <1>5

(* Pop begins to read s if the pointer is to s; Write takes its packet.    *)
LEMMA SenderRefines ==
  ASSUME Inv, Inv', NEW s \in Locals, Sized(s), SenderNext
  PROVE  [Box(s)!Next]_(Box(s)!vars)
<1>1. /\ UNCHANGED <<slot, building, accepted>>
      /\ TypeOK /\ s # None /\ NoPointer.slot = None
      /\ Found(s) = {slot[s]} /\ slot[s].body \in Bodies /\ slot[s].positive \in BOOLEAN
  BY NamesApart DEF SenderNext, Pop, Skip, Test, ReadSize, Write, producers, Inv, TypeOK,
                    Found, Slots, NoPointer
<1>2. State(s)' = State(s) /\ slot'[s].body = slot[s].body
  BY <1>1 DEF State
<1>3. CASE Pop
  <2>1. /\ sender = "pop" /\ sender' = "test" /\ queue # <<>> /\ entry.slot = None
        /\ entry' = Head(queue) /\ queue' = Tail(queue) /\ UNCHANGED <<size, shown>>
    BY <1>1, <1>3 DEF Pop, TypeOK
  <2>2. /\ queue \in Seq(Pointers) /\ Len(queue) \in Nat /\ Len(queue) > 0
        /\ Head(queue) = queue[1] /\ DOMAIN queue = 1 .. Len(queue)
        /\ DOMAIN queue' = 1 .. Len(queue) - 1
        /\ \A i \in 1 .. Len(queue) - 1 : queue'[i] = queue[i + 1]
    BY <1>1, <2>1 DEF TypeOK
  <2>3. Reading(s) = "no" /\ shown'[s] = shown[s]
    BY <1>1, <2>1 DEF Reading
  <2>4. CASE entry'.slot = s
    <3>1. Queued(s) = TRUE /\ Queued(s)' \in BOOLEAN
      BY <2>1, <2>2, <2>4 DEF Queued
    <3>2. Reading(s)' \in {"bound", "torn"}
      BY <2>4 DEF Reading
    <3>3. State(s) # "making" => Reading(s)' = "bound"
      BY <1>1, <2>1, <2>4, <3>1 DEF State, Sized, Reading, WillWrite
    <3>4. Box(s)!Begin
      BY <1>2, <2>3, <3>1, <3>2, <3>3 DEF Box!Begin, State, Queued, Reading
    <3> QED
      BY <3>4 DEF Box!Next
  <2>5. CASE entry'.slot # s
    <3>1. Reading(s)' = "no"
      BY <2>5 DEF Reading
    <3>2. queue[1].slot # s
      BY <2>1, <2>2, <2>5
    <3>3. ASSUME NEW i \in 1 .. Len(queue), queue[i].slot = s
          PROVE  i - 1 \in 1 .. Len(queue) - 1 /\ queue'[i - 1].slot = s
      BY <2>2, <3>2, <3>3
    <3>4. ASSUME NEW i \in 1 .. Len(queue) - 1, queue'[i].slot = s
          PROVE  i + 1 \in 1 .. Len(queue) /\ queue[i + 1].slot = s
      BY <2>2, <3>4
    <3>5. Queued(s)' = Queued(s)
      BY <2>2, <3>3, <3>4 DEF Queued
    <3> QED
      BY <1>2, <2>3, <3>1, <3>5 DEF Box!vars, State, Queued, Reading
  <2> QED
    BY <2>4, <2>5
<1>4. CASE ~Pop
  <2>1. Queued(s)' = Queued(s)
    BY <1>4 DEF SenderNext, Skip, Test, ReadSize, Write, producers, Queued
  <2>2. CASE entry.slot # s
    <3>1. entry'.slot # s
      BY <1>1, <1>4, <2>2 DEF SenderNext, Skip, Test, ReadSize, Write, Done
    <3>2. shown'[s] = shown[s]
      BY <1>4, <2>2 DEF SenderNext, Skip, Test, ReadSize, Write
    <3> QED
      BY <1>2, <2>1, <2>2, <3>1, <3>2 DEF Box!vars, State, Queued, Reading
  <2>3. CASE entry.slot = s /\ (Test \/ ReadSize)
    <3>1. entry' = entry /\ shown' = shown
      BY <2>3 DEF Test, ReadSize
    <3>2. WillWrite(s)' = WillWrite(s)
      BY <1>1, <2>3 DEF Test, ReadSize, WillWrite
    <3>3. Reading(s)' = Reading(s)
      BY <3>1, <3>2 DEF Reading
    <3> QED
      BY <1>2, <2>1, <3>1, <3>3 DEF Box!vars, State, Queued, Reading
  <2>4. CASE entry.slot = s /\ (Skip \/ Write)
    <3>1. Reading(s) # "no" /\ Reading(s)' = "no"
      BY <1>1, <2>4 DEF Skip, Write, Done, Reading
    <3>2. Reading(s) = "bound" => Write /\ size
      BY <1>1, <2>4 DEF Skip, Write, Reading, WillWrite
    <3>3. shown'[s] = IF Write /\ size THEN slot[s].body ELSE shown[s]
      <4>1. CASE Write
        BY <2>4, <4>1 DEF Write
      <4>2. CASE ~Write
        BY <2>4, <4>2 DEF Skip
      <4> QED
        BY <4>1, <4>2
    <3>4. shown'[s] \in Bodies \cup {shown[s]}
      BY <1>1, <3>3
    <3>5. Reading(s) \in {"no", "bound", "torn"}
      BY DEF Reading
    <3>6. shown'[s] \in IF Reading(s) = "torn" THEN Bodies \cup {shown[s]} ELSE {slot[s].body}
      BY <3>1, <3>2, <3>3, <3>4, <3>5
    <3>7. Box(s)!Take
      BY <1>2, <2>1, <3>1, <3>6 DEF Box!Take, State, Queued, Reading
    <3> QED
      BY <3>7 DEF Box!Next
  <2> QED
    BY <1>4, <2>2, <2>3, <2>4 DEF SenderNext
<1> QED
  BY <1>3, <1>4

LEMMA BoxRefines ==
  ASSUME Inv, Inv', NEW s \in Locals, Sized(s), [Next]_vars
  PROVE  [Box(s)!Next]_(Box(s)!vars)
<1>1. CASE Builds(s)
  BY <1>1, BuildRefines DEF Box!Next
<1>2. CASE Push(s)
  BY <1>2, PushRefines DEF Box!Next
<1>3. CASE LeavesAlone(s)
  <2>1. State(s)' = State(s) /\ Queued(s)' = Queued(s) /\ Reading(s)' = Reading(s)
    BY <1>3 DEF LeavesAlone, SenderSame, State, Reading, WillWrite
  <2> QED
    BY <1>3, <2>1 DEF LeavesAlone, SenderSame, Box!vars, State, Queued, Reading
<1>4. CASE SenderNext
  BY <1>4, SenderRefines
<1> QED
  BY <1>1, <1>2, <1>3, <1>4, Kinds

(* In the queue of pointers, among those to all other slots, each slot     *)
(* that lasts is a mailbox of its own: a packet that is left alone gets to *)
(* the device as it is.                                                    *)
THEOREM MailboxRefinement == Spec => ImplementsMailboxes
<1> DEFINE AllSized == \A s \in Locals : Sized(s)
           Steps == \A s \in Locals : [Box(s)!Next]_(Box(s)!vars)
<1>1. Init => \A s \in Locals : Box(s)!Init
  <2> SUFFICES ASSUME Init, NEW s \in Locals PROVE Box(s)!Init
    OBVIOUS
  <2>1. {slot[s].body} \in SUBSET Bodies /\ shown[s] = None
    BY DEF Init, Bodies, Slots
  <2>2. State(s) = "withdrawn" /\ Queued(s) = FALSE /\ Reading(s) = "no"
    BY NamesApart DEF Init, State, Queued, Reading, NoPointer, Slots
  <2> QED
    BY <2>1, <2>2 DEF Box!Init, State, Queued, Reading
<1>2. Spec => []AllSized
  BY SizedInvariance
<1>3. Inv /\ Inv' /\ AllSized /\ [Next]_vars => Steps
  BY BoxRefines
<1>4. Steps => [Steps]_vars
  OBVIOUS
<1> HIDE DEF AllSized, Steps
<1>5. Spec => [][Steps]_vars
  BY <1>2, <1>3, <1>4, Invariance, PTL DEF Spec
<1> QED
  BY <1>1, <1>5 DEF Spec, ImplementsMailboxes, Steps
=============================================================================
