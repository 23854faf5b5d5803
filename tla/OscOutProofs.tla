--------------------------- MODULE OscOutProofs ---------------------------
(***************************************************************************)
(* Proofs about OscOut, for any numbers, values, paths and limit: its type *)
(* invariant, that RNBO ends up with the newest command unless a stray     *)
(* byte overtakes it, and that msg is a Mailbox.                           *)
(***************************************************************************)
EXTENDS OscOut, TLAPS

(* Where the newest command is: behind a pointer or in the OscSender's     *)
(* hands, or it was sent and no pointer is left that could undo that.      *)
Arriving == serial = "read" /\ msg = newest /\ (queue # <<>> \/ WillSend)

Arrived ==
  /\ queue = <<>> /\ sender = "pop"
  /\ Expected(newest) = {} \/ sent \in Expected(newest)

(* msg is filled field by field from the packet.                           *)
Filled ==
  /\ packet.type # "none" => packet \in Packets /\ newest = None
  /\ serial = "read" => packet.type = "none"
  /\ serial = "number" => msg.type = packet.type
  /\ serial = "value" => msg.type = packet.type /\ msg.number = packet.number
  /\ serial = "decide" => msg = packet

(* The inductive invariant.  A path is there when one is sent.  A stray    *)
(* byte rebuilds msg while the newest command has arrived, or is lost.     *)
Inv ==
  /\ TypeOK
  /\ sender \in {"test", "name", "send"} => data.path # NoPath
  /\ Filled
  /\ newest # None /\ moved = FALSE /\ wiped = FALSE => Arriving \/ Arrived

-----------------------------------------------------------------------------
(* Touch changes only the history of the pointers.                         *)
LEMMA TouchKeeps ==
  ASSUME TypeOK, Touch
  PROVE  /\ queue' \in Seq(Packets \cup {None}) /\ Len(queue') <= SizeLimit
         /\ entry' \in Packets \cup {None}
<1>1. queue \in Seq(Packets \cup {None}) /\ Len(queue) <= SizeLimit
  BY DEF TypeOK
<1>2. queue' = [i \in 1 .. Len(queue) |-> None]
  BY <1>1 DEF Touch
<1>3. queue' \in Seq(Packets \cup {None}) /\ Len(queue') = Len(queue)
  BY <1>1, <1>2
<1> QED
  BY <1>1, <1>3 DEF Touch

LEMMA FillKeepsInv ==
  ASSUME Inv, SetType \/ CopyNumber \/ CopyValue
  PROVE  Inv'
<1>1. /\ TypeOK /\ Filled /\ Touch
      /\ UNCHANGED <<config, sender, data, sent, packet, newest, wiped, moved, held>>
  BY DEF Inv, SetType, CopyNumber, CopyValue, Fill, Touch, history
<1>2. /\ serial # "read" /\ serial' \in {"number", "value", "decide"}
      /\ msg' \in Contents /\ Filled'
  <2>1. CASE SetType
    BY <1>1, <2>1 DEF SetType, Fill, SerialAt, Contents, TypeOK, Filled
  <2>2. CASE CopyNumber
    BY <1>1, <2>2 DEF CopyNumber, Fill, SerialAt, Contents, TypeOK, Filled
  <2>3. CASE CopyValue
    BY <1>1, <2>3 DEF CopyValue, Fill, SerialAt, Contents, TypeOK, Filled
  <2> QED
    BY <2>1, <2>2, <2>3
<1>3. TypeOK'
  BY <1>1, <1>2, TouchKeeps DEF TypeOK
<1>4. queue = <<>> => queue' = <<>>
  BY <1>1 DEF Touch
<1>5. Arrived => Arrived'
  BY <1>1, <1>4 DEF Arrived, Expected
<1>6. ~Arriving
  BY <1>2 DEF Arriving
<1> QED
  BY <1>1, <1>2, <1>3, <1>5, <1>6 DEF Inv

(* A new command takes the place of the one before.                        *)
LEMMA ConstructKeepsInv ==
  ASSUME Inv, NEW p \in Packets, Construct(p)
  PROVE  Inv'
<1>1. TypeOK /\ 0 \in Numbers /\ 0 \in Values /\ packet' \in Contents /\ packet' \in Packets
  BY NumbersAssumption DEF Inv, Numbers, Values, Construct, Packets, Contents
<1>2. /\ Touch /\ UNCHANGED <<config, sender, data, sent>>
      /\ serial' = "type" /\ msg' = Blank
      /\ newest' = None /\ wiped' = FALSE /\ moved' = FALSE /\ held' = FALSE
  BY DEF Construct, SerialAt, Touch
<1>3. TypeOK'
  BY <1>1, <1>2, TouchKeeps DEF TypeOK, Blank, Contents
<1> QED
  BY <1>1, <1>2, <1>3 DEF Inv, Filled

(* A stray byte may come while the newest command is arriving.             *)
LEMMA StrayKeepsInv ==
  ASSUME Inv, Stray
  PROVE  Inv'
<1>1. TypeOK /\ 0 \in Numbers /\ 0 \in Values /\ Filled
  BY NumbersAssumption DEF Inv, Numbers, Values
<1>2. /\ Touch /\ UNCHANGED <<config, sender, data, sent, packet, newest, moved>>
      /\ serial' = "type" /\ msg' = Blank /\ held' = FALSE
      /\ wiped' = (wiped \/ (newest # None /\ Underway))
  BY DEF Stray, SerialAt, Touch
<1>3. TypeOK'
  BY <1>1, <1>2, TouchKeeps DEF TypeOK, Blank, Contents
<1>4. Filled'
  BY <1>1, <1>2 DEF Filled
<1>5. newest # None /\ wiped' = FALSE => wiped = FALSE /\ queue = <<>> /\ sender = "pop"
  BY <1>1, <1>2 DEF Underway, TypeOK
<1>6. queue = <<>> => queue' = <<>>
  BY <1>2 DEF Touch
<1>7. Arriving => Underway
  BY DEF Arriving, Underway, WillSend
<1>8. Arrived => Arrived'
  BY <1>2, <1>6 DEF Arrived, Expected
<1> QED
  BY <1>2, <1>3, <1>4, <1>5, <1>7, <1>8 DEF Inv, Underway

(* The serial thread is done with msg.                                     *)
LEMMA FinishedKeepsInv ==
  ASSUME Inv, Ignore \/ HoldBack \/ Queue \/ QueueFull
  PROVE  Inv'
<1>1. /\ TypeOK /\ Filled /\ serial = "decide" /\ serial' = "read"
      /\ packet' = [packet EXCEPT !.type = "none"]
      /\ UNCHANGED <<config, msg, sender, entry, data, sent, wiped, moved>>
  BY DEF Inv, Ignore, HoldBack, Queue, QueueFull, Finished, SerialAt
<1>2. packet' \in Contents /\ packet'.type = "none"
  BY <1>1 DEF TypeOK, Contents
<1>3. Filled'
  BY <1>1, <1>2 DEF Filled
<1>4. CASE Ignore \/ HoldBack \/ QueueFull
  <2>1. queue' = queue /\ newest' = newest /\ held' \in BOOLEAN
    BY <1>1, <1>4 DEF Ignore, HoldBack, QueueFull, TypeOK
  <2>2. TypeOK'
    BY <1>1, <1>2, <2>1 DEF TypeOK
  <2>3. ~Arriving /\ (Arrived => Arrived')
    BY <1>1, <2>1 DEF Arriving, Arrived, Expected
  <2> QED
    BY <1>1, <1>3, <2>1, <2>2, <2>3 DEF Inv
<1>5. CASE Queue
  <2>1. msg \in Packets
    BY <1>1, <1>5 DEF Queue, Filled
  <2>2. /\ queue \in Seq(Packets \cup {None}) /\ Len(queue) < SizeLimit /\ Len(queue) \in Nat
        /\ SizeLimit \in Nat /\ queue' = Append(queue, msg) /\ newest' = msg /\ held' = held
    BY <1>1, <1>5, LimitAssumption DEF TypeOK, Queue
  <2>3. /\ queue' \in Seq(Packets \cup {None}) /\ Len(queue') = Len(queue) + 1
        /\ Len(queue') <= SizeLimit
    BY <2>1, <2>2
  <2>4. queue' # <<>>
    BY <2>2, <2>3
  <2>5. TypeOK'
    BY <1>1, <1>2, <2>1, <2>2, <2>3 DEF TypeOK
  <2>6. Arriving'
    BY <1>1, <2>2, <2>4 DEF Arriving
  <2> QED
    BY <1>1, <1>3, <2>5, <2>6 DEF Inv
<1> QED
  BY <1>4, <1>5

LEMMA ListenerKeepsInv ==
  ASSUME Inv, NEW n \in Numbers, NEW p \in Paths \cup {NoPath}, Reassign(n, p)
  PROVE  Inv'
<1>1. TypeOK /\ moved' = TRUE /\ UNCHANGED <<packet, msg, serial, queue, sender, entry, data, sent, newest, wiped, held>>
  BY DEF Inv, Reassign
<1>2. config' \in [Numbers -> Paths \cup {NoPath}]
  BY <1>1 DEF Reassign, TypeOK
<1>3. TypeOK'
  BY <1>1, <1>2 DEF TypeOK
<1>4. Filled'
  BY <1>1 DEF Inv, Filled
<1> QED
  BY <1>1, <1>3, <1>4 DEF Inv

(* The OscSender only reads what the others work on.                       *)
LEMMA SenderSame ==
  ASSUME SenderNext
  PROVE  UNCHANGED <<config, packet, msg, serial, newest, wiped, moved, held>>
BY DEF SenderNext, SenderAt, Pop, ReadNumber, NoType, TypeIs, PresetLoad, PresetSave, Reserved,
       NotReserved, ReadName, ControlChange, ReadValue, Convert, GetPath, GetNoPath, Send,
       InvalidType, history

(* The OscSender's reads, of data that it keeps to itself.                 *)
LEMMA SenderKeepsType ==
  ASSUME Inv, SenderNext
  PROVE  /\ TypeOK'
         /\ (sender \in {"test", "name", "send"} => data.path # NoPath)'
<1>1. TypeOK /\ UNCHANGED <<config, packet, msg, serial, newest, wiped, moved, held>>
  BY SenderSame DEF Inv
<1>2. NoData \in MessageData
  BY NumbersAssumption DEF NoData, Numbers, MessageData
<1>3. CASE Pop
  <2>1. /\ queue \in Seq(Packets \cup {None}) /\ Len(queue) <= SizeLimit /\ SizeLimit \in Nat
        /\ queue # <<>> /\ entry' = Head(queue) /\ queue' = Tail(queue)
    BY <1>1, <1>3, LimitAssumption DEF Pop, TypeOK
  <2>2. /\ Head(queue) \in Packets \cup {None} /\ Tail(queue) \in Seq(Packets \cup {None})
        /\ Len(Tail(queue)) <= SizeLimit
    BY <2>1
  <2>3. sender' = "number" /\ UNCHANGED <<data, sent>>
    BY <1>3 DEF Pop, SenderAt
  <2>4. TypeOK'
    BY <1>1, <2>1, <2>2, <2>3 DEF TypeOK
  <2> QED
    BY <2>3, <2>4
<1>4. CASE NoType \/ Reserved \/ GetNoPath \/ InvalidType
  <2>1. sender' = "pop" /\ entry' = None /\ data' = NoData /\ UNCHANGED <<queue, sent>>
    BY <1>4 DEF NoType, Reserved, GetNoPath, InvalidType, Reset, SenderAt
  <2>2. TypeOK'
    BY <1>1, <1>2, <2>1 DEF TypeOK
  <2> QED
    BY <2>1, <2>2
<1>5. CASE Send
  <2>1. sender = "send" /\ sender' = "pop" /\ entry' = None /\ data' = NoData /\ queue' = queue
    BY <1>5 DEF Send, Reset, SenderAt
  <2>2. data \in MessageData /\ data.path # NoPath
    BY <1>1, <2>1 DEF Inv, TypeOK
  <2>3. sent' \in Messages
    BY <1>5, <2>2 DEF Send, Messages, MessageData
  <2>4. TypeOK'
    BY <1>1, <1>2, <2>1, <2>3 DEF TypeOK
  <2> QED
    BY <2>1, <2>4
<1>6. CASE \/ ReadNumber \/ PresetLoad \/ PresetSave \/ ControlChange \/ NotReserved
           \/ ReadName \/ ReadValue \/ Convert \/ GetPath
  <2>1. data \in MessageData /\ msg.number \in Numbers /\ msg.value \in Values
    BY <1>1 DEF TypeOK, Contents
  <2>2. /\ sender' \in {"number", "type", "test", "name", "value", "convert", "path", "send"}
        /\ UNCHANGED <<queue, entry, sent>>
    BY <1>6 DEF ReadNumber, PresetLoad, PresetSave, ControlChange, TypeIs, NotReserved,
                ReadName, ReadValue, Convert, GetPath, SenderAt
  <2> DEFINE Read == data' \in MessageData
                       /\ (sender' \in {"test", "name", "send"} => data'.path # NoPath)
  <2>3. ASSUME ReadNumber PROVE Read
    <3>1. sender' = "type" /\ data' = [data EXCEPT !.number = msg.number]
      BY <2>3 DEF ReadNumber, SenderAt
    <3> QED
      BY <2>1, <3>1 DEF MessageData
  <2>4. ASSUME PresetLoad PROVE Read
    <3>1. data' = [data EXCEPT !.format = "s", !.path = LoadPath]
      BY <2>4 DEF PresetLoad, TypeIs
    <3> QED
      BY <2>1, <3>1, PathsAssumption DEF MessageData
  <2>5. ASSUME PresetSave PROVE Read
    <3>1. data' = [data EXCEPT !.format = "s", !.path = SavePath]
      BY <2>5 DEF PresetSave, TypeIs
    <3> QED
      BY <2>1, <3>1, PathsAssumption DEF MessageData
  <2>6. ASSUME ControlChange PROVE Read
    <3>1. data' = [data EXCEPT !.format = "f", !.path = NoPath] /\ sender' = "value"
      BY <2>6 DEF ControlChange, TypeIs, SenderAt
    <3> QED
      BY <2>1, <3>1 DEF MessageData
  <2>7. ASSUME NotReserved PROVE Read
    BY <1>1, <2>1, <2>7 DEF NotReserved, SenderAt, Inv
  <2>8. ASSUME ReadName PROVE Read
    <3>1. data' = [data EXCEPT !.arg = msg.number] /\ data.path # NoPath
      BY <2>8 DEF ReadName, SenderAt, Inv
    <3> QED
      BY <2>1, <3>1 DEF MessageData
  <2>9. ASSUME ReadValue PROVE Read
    <3>1. data' = [data EXCEPT !.arg = msg.value] /\ sender' = "convert"
      BY <2>9 DEF ReadValue, SenderAt
    <3> QED
      BY <2>1, <3>1 DEF MessageData
  <2>10. ASSUME Convert PROVE Read
    <3>1. /\ data' = [data EXCEPT !.arg = IF config[data.number] = NoPath THEN Unassigned ELSE @]
          /\ sender' = "path"
      BY <2>10 DEF Convert, SenderAt
    <3> QED
      BY <2>1, <3>1 DEF MessageData
  <2>11. ASSUME GetPath PROVE Read
    <3>1. data' = [data EXCEPT !.path = config[data.number]] /\ config[data.number] # NoPath
      BY <2>11 DEF GetPath
    <3>2. config[data.number] \in Paths \cup {NoPath}
      BY <1>1, <2>1 DEF TypeOK, MessageData
    <3> QED
      BY <2>1, <3>1, <3>2 DEF MessageData
  <2>12. Read
    BY <1>6, <2>3, <2>4, <2>5, <2>6, <2>7, <2>8, <2>9, <2>10, <2>11
  <2>13. TypeOK'
    BY <1>1, <2>2, <2>12 DEF TypeOK
  <2> QED
    BY <2>12, <2>13
<1> QED
  BY <1>3, <1>4, <1>5, <1>6 DEF SenderNext

(* What the OscSender has read of the packet in msg, it goes on to send.   *)
LEMMA SenderSends ==
  ASSUME TypeOK, WillSend, msg.type # "none", SenderNext
  PROVE  IF sender' # "pop" THEN WillSend'
         ELSE IF Expected(msg) = {} THEN sent' = sent ELSE sent' \in Expected(msg)
<1>1. sender # "pop" /\ UNCHANGED <<config, packet, msg, serial, newest, wiped, moved, held>>
  BY SenderSame DEF WillSend
<1>2. /\ msg.type \in {"cc", "preset_load", "preset_save"}
      /\ msg.number \in Numbers /\ data \in MessageData
  BY DEF TypeOK, Contents
<1>3. /\ Expected(msg)' = Expected(msg)
      /\ msg.type = "cc" => Expected(msg) =
           IF config[msg.number] = NoPath THEN {}
           ELSE {[path |-> config[msg.number], arg |-> msg.value]}
      /\ msg.type = "preset_save" => Expected(msg) =
           IF msg.number = 0 THEN {} ELSE {[path |-> SavePath, arg |-> msg.number]}
      /\ msg.type = "preset_load" => Expected(msg) = {[path |-> LoadPath, arg |-> msg.number]}
  BY <1>1, <1>2 DEF Expected
<1>4. CASE ReadNumber
  BY <1>1, <1>2, <1>4 DEF ReadNumber, SenderAt, WillSend, MessageData
<1>5. CASE NoType \/ InvalidType
  BY <1>5 DEF NoType, InvalidType
<1>6. CASE Reserved
  BY <1>3, <1>6 DEF Reserved, SenderAt, WillSend
<1>7. CASE GetNoPath
  BY <1>3, <1>7 DEF GetNoPath, SenderAt, WillSend
<1>8. CASE PresetLoad
  BY <1>1, <1>2, <1>8 DEF PresetLoad, TypeIs, SenderAt, WillSend, MessageData
<1>9. CASE PresetSave
  BY <1>1, <1>2, <1>9 DEF PresetSave, TypeIs, SenderAt, WillSend, MessageData
<1>10. CASE ControlChange
  BY <1>1, <1>2, <1>10 DEF ControlChange, TypeIs, SenderAt, WillSend, MessageData
<1>11. CASE NotReserved
  BY <1>1, <1>11 DEF NotReserved, SenderAt, WillSend
<1>12. CASE ReadName
  <2>1. /\ data'.arg = msg.number /\ data'.path = data.path /\ data'.format = "s"
        /\ data'.number = msg.number
        /\ sender = "name" /\ sender' = "send"
    BY <1>2, <1>12 DEF ReadName, SenderAt, WillSend, MessageData
  <2>2. [path |-> data'.path, arg |-> data'.arg] \in Expected(msg)'
    BY <1>2, <1>3, <2>1 DEF WillSend
  <2>3. msg.type # "cc"
    BY <2>1 DEF WillSend
  <2> QED
    BY <1>1, <2>1, <2>2, <2>3 DEF WillSend
<1>13. CASE ReadValue
  BY <1>1, <1>2, <1>13 DEF ReadValue, SenderAt, WillSend, MessageData
<1>14. CASE Convert
  BY <1>1, <1>2, <1>14 DEF Convert, SenderAt, WillSend, MessageData
<1>15. CASE GetPath
  <2>1. /\ data'.arg = msg.value /\ data'.path = config[msg.number] /\ data'.format = "f"
        /\ data'.number = msg.number /\ config[msg.number] # NoPath /\ msg.type = "cc"
        /\ sender' = "send"
    BY <1>2, <1>15 DEF GetPath, SenderAt, WillSend, MessageData
  <2>2. [path |-> data'.path, arg |-> data'.arg] \in Expected(msg)'
    BY <1>3, <2>1
  <2> QED
    BY <1>1, <2>1, <2>2 DEF WillSend
<1>16. CASE Send
  <2>1. sent' = [path |-> data.path, arg |-> data.arg] /\ sender' = "pop" /\ sender = "send"
    BY <1>16 DEF Send, SenderAt, WillSend
  <2>2. [path |-> data.path, arg |-> data.arg] \in Expected(msg)
    BY <2>1 DEF WillSend
  <2> QED
    BY <2>1, <2>2
<1>17. CASE Pop
  BY <1>1, <1>17 DEF Pop, SenderAt
<1> QED
  BY <1>4, <1>5, <1>6, <1>7, <1>8, <1>9, <1>10, <1>11, <1>12, <1>13, <1>14, <1>15, <1>16, <1>17
     DEF SenderNext

(* With nothing read yet, it will send whatever is in msg.                 *)
LEMMA PopBegins ==
  ASSUME Pop
  PROVE  WillSend'
BY DEF Pop, SenderAt, WillSend

(* A command that is arriving gets further with every step of the          *)
(* OscSender; one that has arrived it does not touch.                      *)
LEMMA SenderDelivers ==
  ASSUME Inv, SenderNext, newest # None, Arriving \/ Arrived
  PROVE  (Arriving \/ Arrived)'
<1>1. TypeOK /\ UNCHANGED <<config, packet, msg, serial, newest, wiped, moved, held>>
  BY SenderSame DEF Inv
<1>2. Expected(newest)' = Expected(newest)
  BY <1>1 DEF Expected
<1>3. Pop => queue # <<>> /\ WillSend'
  BY PopBegins DEF Pop
<1>4. ~Pop => sender # "pop" /\ queue' = queue
  BY DEF SenderNext, SenderAt, ReadNumber, NoType, TypeIs, PresetLoad, PresetSave,
         Reserved, NotReserved, ReadName, ControlChange, ReadValue, Convert, GetPath, GetNoPath,
         Send, InvalidType
<1>5. Arriving
  BY <1>3, <1>4 DEF Arrived
<1>6. serial' = "read" /\ msg' = newest'
  BY <1>1, <1>5 DEF Arriving
<1>7. CASE Pop
  BY <1>3, <1>6, <1>7 DEF Arriving
<1>8. CASE ~Pop /\ queue # <<>>
  BY <1>4, <1>6, <1>8 DEF Arriving
<1>9. CASE ~Pop /\ queue = <<>>
  <2>1. WillSend /\ msg = newest /\ msg.type # "none"
    BY <1>1, <1>5, <1>9 DEF Arriving, TypeOK, Packets
  <2>2. IF sender' # "pop" THEN WillSend'
        ELSE IF Expected(msg) = {} THEN sent' = sent ELSE sent' \in Expected(msg)
    BY <1>1, <2>1, SenderSends
  <2> QED
    BY <1>2, <1>4, <1>6, <1>9, <2>1, <2>2 DEF Arriving, Arrived
<1> QED
  BY <1>7, <1>8, <1>9

LEMMA SenderKeepsInv ==
  ASSUME Inv, SenderNext
  PROVE  Inv'
<1>1. UNCHANGED <<config, packet, msg, serial, newest, wiped, moved, held>>
  BY SenderSame
<1>2. Filled'
  BY <1>1 DEF Inv, Filled
<1> QED
  BY <1>1, <1>2, SenderKeepsType, SenderDelivers DEF Inv

-----------------------------------------------------------------------------
LEMMA Invariance == Spec => []Inv
<1>1. Init => Inv
  <2> SUFFICES ASSUME Init PROVE Inv
    OBVIOUS
  <2>1. 0 \in Numbers /\ 0 \in Values
    BY NumbersAssumption DEF Numbers, Values
  <2>2. queue \in Seq(Packets \cup {None}) /\ Len(queue) <= SizeLimit
    BY LimitAssumption DEF Init
  <2> QED
    BY <2>1, <2>2 DEF Init, Inv, Filled, TypeOK, Blank, NoData, Contents, MessageData
<1>2. Inv /\ [Next]_vars => Inv'
  <2> SUFFICES ASSUME Inv, [Next]_vars PROVE Inv'
    OBVIOUS
  <2>1. CASE SerialNext
    BY <2>1, ConstructKeepsInv, StrayKeepsInv, FillKeepsInv, FinishedKeepsInv DEF SerialNext, Finish
  <2>2. CASE SenderNext
    BY <2>2, SenderKeepsInv
  <2>3. CASE ListenerNext
    BY <2>3, ListenerKeepsInv DEF ListenerNext
  <2>4. CASE UNCHANGED vars
    <3>1. UNCHANGED <<config, packet, msg, serial, queue, sender, entry, data, sent,
                      newest, wiped, moved, held>>
      BY <2>4 DEF vars, code, history
    <3>2. TypeOK' /\ Filled'
      BY <3>1 DEF Inv, TypeOK, Filled
    <3>3. (Arriving <=> Arriving') /\ (Arrived <=> Arrived')
      BY <3>1 DEF Arriving, Arrived, WillSend, Expected
    <3> QED
      BY <3>1, <3>2, <3>3 DEF Inv
  <2> QED
    BY <2>1, <2>2, <2>3, <2>4 DEF Next
<1> QED
  BY <1>1, <1>2, PTL DEF Spec

(* The variables keep their types: no message goes to RNBO without a path. *)
THEOREM TypeCorrect == Spec => []TypeOK
<1>1. Inv => TypeOK
  BY DEF Inv
<1> QED
  BY <1>1, Invariance, PTL

(* However fast commands and stray bytes come and however the threads      *)
(* interleave, once nothing is underway the last message to RNBO is that   *)
(* of the command queued last, unless a stray byte overtook that one.      *)
THEOREM NewestAlwaysArrives == Spec => []NewestArrives
<1>1. Inv => NewestArrives
  BY DEF Inv, TypeOK, NewestArrives, Arriving, Arrived, WillSend
<1> QED
  BY <1>1, Invariance, PTL
-----------------------------------------------------------------------------
(* The inductive invariant for UntouchedIsSent: a pointer that is not      *)
(* touched stands for what is in msg, and what the OscSender has read      *)
(* through it is of that.                                                  *)
UntouchedInv ==
  /\ TypeOK
  /\ \A i \in DOMAIN queue : queue[i] # None => queue[i] = msg
  /\ sender # "pop" /\ entry # None => entry = msg /\ (moved = FALSE => WillSend)

LEMMA UntouchedInvariance == Spec => []UntouchedInv
<1>1. Inv /\ Init => UntouchedInv
  BY DEF Inv, Init, UntouchedInv
<1>2. Inv /\ Inv' /\ UntouchedInv /\ [Next]_vars => UntouchedInv'
  <2> SUFFICES ASSUME Inv, Inv', UntouchedInv, [Next]_vars PROVE UntouchedInv'
    OBVIOUS
  <2>1. TypeOK /\ TypeOK' /\ queue \in Seq(Packets \cup {None})
    BY DEF Inv, TypeOK
  <2>2. CASE Touch
    BY <2>1, <2>2 DEF Touch, UntouchedInv
  <2>3. CASE Ignore \/ HoldBack \/ QueueFull
    <3>1. UNCHANGED <<config, msg, queue, sender, entry, data, sent, moved>>
      BY <2>3 DEF Ignore, HoldBack, QueueFull, Finished
    <3>2. WillSend' <=> WillSend
      BY <3>1 DEF WillSend, Expected
    <3> QED
      BY <2>1, <3>1, <3>2 DEF UntouchedInv
  <2>4. CASE Queue
    <3>1. /\ queue' = Append(queue, msg)
          /\ UNCHANGED <<config, msg, sender, entry, data, sent, moved>>
      BY <2>4 DEF Queue, Finished
    <3>2. WillSend' <=> WillSend
      BY <3>1 DEF WillSend, Expected
    <3>3. \A i \in DOMAIN queue' : (i \in DOMAIN queue /\ queue'[i] = queue[i]) \/ queue'[i] = msg
      BY <2>1, <3>1
    <3> QED
      BY <2>1, <3>1, <3>2, <3>3 DEF UntouchedInv
  <2>5. CASE ListenerNext
    <3>1. moved' = TRUE /\ UNCHANGED <<msg, queue, sender, entry>>
      BY <2>5 DEF ListenerNext, Reassign
    <3> QED
      BY <2>1, <3>1 DEF UntouchedInv
  <2>6. CASE Pop
    <3>1. /\ queue # <<>> /\ entry' = Head(queue) /\ queue' = Tail(queue) /\ msg' = msg
      BY <2>6 DEF Pop, SenderAt
    <3>2. /\ entry' = queue[1] /\ 1 \in DOMAIN queue
          /\ \A i \in DOMAIN queue' : i + 1 \in DOMAIN queue /\ queue'[i] = queue[i + 1]
      BY <2>1, <3>1
    <3> QED
      BY <2>1, <2>6, <3>1, <3>2, PopBegins DEF UntouchedInv
  <2>7. CASE SenderNext /\ ~Pop
    <3>1. /\ sender # "pop" /\ UNCHANGED <<msg, moved, queue>>
          /\ entry' \in {entry, None}
      BY <2>7 DEF SenderNext, SenderAt, ReadNumber, NoType, TypeIs, PresetLoad, PresetSave,
         Reserved, NotReserved, ReadName, ControlChange, ReadValue, Convert, GetPath, GetNoPath,
         Send, InvalidType, Reset, history
    <3>2. entry # None => msg.type # "none"
      BY <2>1, <3>1 DEF UntouchedInv, TypeOK, Packets
    <3> QED
      BY <2>1, <2>7, <3>1, <3>2, SenderSends DEF UntouchedInv
  <2>8. CASE UNCHANGED vars
    <3>1. UNCHANGED <<config, msg, queue, sender, entry, data, sent, moved>>
      BY <2>8 DEF vars, code, history
    <3>2. WillSend' <=> WillSend
      BY <3>1 DEF WillSend, Expected
    <3> QED
      BY <2>1, <3>1, <3>2 DEF UntouchedInv
  <2> QED
    BY <2>2, <2>3, <2>4, <2>5, <2>6, <2>7, <2>8
       DEF Next, SerialNext, Finish, Construct, Stray, SetType, CopyNumber, CopyValue, Fill
<1> QED
  BY <1>1, <1>2, Invariance, PTL DEF Spec

(* Whatever the limit of the queue, the OscSender sends what was queued,   *)
(* for the parameter that the controller drives, as long as the serial     *)
(* thread leaves msg and the listener the assignment alone.                *)
THEOREM UntouchedSent == Spec => UntouchedIsSent
<1> DEFINE Step == sender # "pop" /\ sender' = "pop" /\ entry # None /\ ~moved =>
             IF Expected(entry) = {} THEN UNCHANGED sent ELSE sent' \in Expected(entry)
<1>1. UntouchedInv /\ [Next]_vars => [Step]_vars
  <2> SUFFICES ASSUME UntouchedInv, Next, sender # "pop", sender' = "pop", entry # None, ~moved
               PROVE  IF Expected(entry) = {} THEN sent' = sent ELSE sent' \in Expected(entry)
    OBVIOUS
  <2>1. TypeOK /\ moved = FALSE
    BY DEF UntouchedInv, TypeOK
  <2>2. entry = msg /\ WillSend
    BY <2>1 DEF UntouchedInv
  <2>3. msg.type # "none"
    BY <2>1, <2>2 DEF TypeOK, Packets
  <2>4. SenderNext
    BY DEF Next, SerialNext, Finish, Construct, Stray, SetType, CopyNumber, CopyValue, Fill,
           Touch, Ignore, HoldBack, Queue, QueueFull, Finished, ListenerNext, Reassign
  <2> QED
    BY <2>1, <2>2, <2>3, <2>4, SenderSends
<1> QED
  BY <1>1, UntouchedInvariance, PTL DEF Spec, UntouchedIsSent
-----------------------------------------------------------------------------
(* The mapping of OscOut to Mailbox, its parts named.                      *)
State == IF serial # "read" THEN "making"
         ELSE IF msg.type = "none" THEN "empty"
         ELSE IF moved THEN "making"
         ELSE IF newest # None THEN "announced" ELSE "withdrawn"

Notice == queue # <<>>

Reading == IF sender = "pop" THEN "no"
           ELSE IF msg.type = "none" \/ WillSend THEN "bound" ELSE "torn"

LEMMA ExpectedMessages ==
  ASSUME TypeOK'
  PROVE  Expected(msg)' \in SUBSET Messages
<1>1. /\ msg'.number \in Numbers /\ msg'.value \in Values
      /\ config' \in [Numbers -> Paths \cup {NoPath}]
      /\ msg'.type \in {"none", "cc", "preset_load", "preset_save"}
  BY DEF TypeOK, Contents
<1> QED
  BY <1>1 DEF Expected, Messages

(* The serial thread's work on msg alters the packet.                      *)
LEMMA AlterRefines ==
  ASSUME Inv, Inv', Touch, serial' # "read"
  PROVE  Box!Alter
<1>1. Expected(msg)' \in SUBSET Messages
  BY ExpectedMessages DEF Inv
<1>2. State' = "making" /\ UNCHANGED <<sender, sent>>
  BY DEF Touch, State
<1>3. queue \in Seq(Packets \cup {None}) /\ queue' = [i \in DOMAIN queue |-> None]
  BY DEF Inv, TypeOK, Touch
<1>4. Notice' = Notice
  BY <1>3 DEF Notice
<1>5. Reading' \in IF Reading = "no" THEN {"no"} ELSE {"bound", "torn"}
  BY <1>2 DEF Reading
<1> QED
  BY <1>1, <1>2, <1>4, <1>5 DEF Box!Alter, State, Notice, Reading

(* So does a new assignment, unless msg is of no type.                     *)
LEMMA ReassignRefines ==
  ASSUME Inv, Inv', ListenerNext
  PROVE  [Box!Next]_(Box!vars)
<1>1. moved' = TRUE /\ UNCHANGED <<msg, serial, queue, sender, data, sent, newest>>
  BY DEF ListenerNext, Reassign
<1>2. CASE State = "empty"
  <2>1. serial = "read" /\ msg.type = "none"
    BY <1>2 DEF State
  <2>2. Expected(msg) = {} /\ Expected(msg)' = {}
    BY <1>1, <2>1 DEF Expected
  <2>3. State' = State /\ Notice' = Notice /\ Reading' = Reading
    BY <1>1, <2>1 DEF State, Notice, Reading
  <2> QED
    BY <1>1, <2>2, <2>3 DEF Box!vars, State, Notice, Reading
<1>3. CASE State # "empty"
  <2>1. Expected(msg)' \in SUBSET Messages
    BY ExpectedMessages DEF Inv
  <2>2. State' = "making" /\ Notice' = Notice
    BY <1>1, <1>3 DEF State, Notice
  <2>3. Reading' \in IF Reading = "no" THEN {"no"} ELSE {"bound", "torn"}
    BY <1>1 DEF Reading
  <2>4. Box!Alter
    BY <1>1, <2>1, <2>2, <2>3 DEF Box!Alter, State, Notice, Reading
  <2> QED
    BY <2>4 DEF Box!Next
<1> QED
  BY <1>2, <1>3

LEMMA FinishedRefines ==
  ASSUME Inv, Ignore \/ HoldBack \/ Queue \/ QueueFull
  PROVE  [Box!Next]_(Box!vars)
<1>1. /\ UNCHANGED <<config, msg, sender, data, sent, moved>>
      /\ serial = "decide" /\ serial' = "read"
  BY DEF Ignore, HoldBack, Queue, QueueFull, Finished, SerialAt
<1>2. Expected(msg)' = Expected(msg)
  BY <1>1 DEF Expected
<1>3. Reading' = Reading
  BY <1>1, <1>2 DEF Reading, WillSend
<1>4. State = "making" /\ TypeOK
  BY <1>1 DEF State, Inv
<1>5. CASE Ignore
  <2>1. msg.type = "none" /\ Notice' = Notice
    BY <1>5 DEF Ignore, Notice
  <2>2. Expected(msg) = {} /\ State' = "empty"
    BY <1>1, <2>1 DEF Expected, State
  <2>3. Box!Empty
    BY <1>1, <1>2, <1>3, <1>4, <2>1, <2>2 DEF Box!Empty, State, Notice, Reading
  <2> QED
    BY <2>3 DEF Box!Next
<1>6. CASE Queue
  <2>1. queue \in Seq(Packets \cup {None}) /\ queue' = Append(queue, msg) /\ msg.type # "none"
    BY <1>4, <1>6 DEF TypeOK, Queue
  <2>2. Notice' = TRUE
    BY <2>1 DEF Notice
  <2>3. newest' # None
    BY <1>1, <1>6, <2>1, NoneAssumption DEF Queue, Inv, Filled
  <2>4. State' \in {"announced", "making"}
    BY <1>1, <2>1, <2>3 DEF State
  <2>5. Box!Announce
    BY <1>1, <1>2, <1>3, <1>4, <2>2, <2>4 DEF Box!Announce, State, Notice, Reading
  <2> QED
    BY <2>5 DEF Box!Next
<1>7. CASE HoldBack \/ QueueFull
  <2>1. msg.type # "none" /\ Notice' = Notice /\ newest' = newest
    BY <1>7 DEF HoldBack, QueueFull, Notice
  <2>2. newest = None
    BY <1>1, <2>1 DEF Inv, Filled
  <2>3. State' = IF moved THEN "making" ELSE "withdrawn"
    BY <1>1, <2>1, <2>2 DEF State
  <2>4. CASE moved
    BY <1>1, <1>2, <1>3, <1>4, <2>1, <2>3, <2>4 DEF Box!vars, State, Notice, Reading
  <2>5. CASE ~moved
    <3>1. Box!Withdraw
      BY <1>1, <1>2, <1>3, <1>4, <2>1, <2>3, <2>5 DEF Box!Withdraw, State, Notice, Reading
    <3> QED
      BY <3>1 DEF Box!Next
  <2> QED
    BY <2>4, <2>5
<1> QED
  BY <1>5, <1>6, <1>7

(* What a reader that is bound takes: what msg says, which is nothing when *)
(* it is of no type.                                                       *)
LEMMA BoundTakes ==
  ASSUME TypeOK, SenderNext, Reading = "bound"
  PROVE  IF sender' # "pop" THEN Reading' = "bound"
         ELSE sent' \in IF Expected(msg) = {} THEN {sent} ELSE Expected(msg)
<1>1. UNCHANGED <<config, packet, msg, serial, newest, wiped, moved, held>>
  BY SenderSame
<1>2. sender # "pop" /\ (msg.type = "none" \/ WillSend)
  BY DEF Reading
<1>3. CASE msg.type = "none"
  <2>1. Expected(msg) = {}
    BY <1>3 DEF Expected
  <2>2. sent' = sent
    BY <1>3 DEF SenderNext, Pop, ReadNumber, NoType, TypeIs, PresetLoad, PresetSave,
         Reserved, NotReserved, ReadName, ControlChange, ReadValue, Convert, GetPath, GetNoPath,
         Send, InvalidType
  <2> QED
    BY <1>1, <1>3, <2>1, <2>2 DEF Reading
<1>4. CASE msg.type # "none"
  BY <1>1, <1>2, <1>4, SenderSends DEF Reading
<1> QED
  BY <1>3, <1>4

(* Pop begins to read; what comes out of it is what msg says if what was   *)
(* read before was of the same packet.                                     *)
LEMMA SenderRefines ==
  ASSUME Inv, Inv', SenderNext
  PROVE  [Box!Next]_(Box!vars)
<1>1. UNCHANGED <<config, packet, msg, serial, newest, wiped, moved, held>>
  BY SenderSame
<1>2. Expected(msg)' = Expected(msg) /\ State' = State
  BY <1>1 DEF Expected, State
<1>3. Notice' \in BOOLEAN
  BY DEF Notice
<1>4. CASE Pop
  <2>1. Notice /\ sent' = sent /\ sender = "pop" /\ sender' = "number"
    BY <1>4 DEF Pop, SenderAt, Notice
  <2>2. Reading = "no" /\ Reading' \in {"bound", "torn"}
    BY <2>1 DEF Reading
  <2>3. Reading' = "bound"
    BY <1>4, <2>1, PopBegins DEF Reading
  <2>4. Box!Begin
    BY <1>2, <1>3, <2>1, <2>2, <2>3 DEF Box!Begin, State, Notice, Reading
  <2> QED
    BY <2>4 DEF Box!Next
<1>5. CASE ~Pop
  <2>1. sender # "pop" /\ Notice' = Notice
    BY <1>5 DEF SenderNext, SenderAt, ReadNumber, NoType, TypeIs, PresetLoad, PresetSave,
         Reserved, NotReserved, ReadName, ControlChange, ReadValue, Convert, GetPath, GetNoPath,
         Send, InvalidType, Notice
  <2>2. Reading \in {"bound", "torn"}
    BY <2>1 DEF Reading
  <2>3. CASE sender' # "pop"
    <3>1. sent' = sent
      BY <2>3 DEF SenderNext, SenderAt, Pop, ReadNumber, NoType, TypeIs, PresetLoad, PresetSave,
           Reserved, NotReserved, ReadName, ControlChange, ReadValue, Convert, GetPath, GetNoPath,
           Send, InvalidType
    <3>2. Reading = "bound" => Reading' = "bound"
      BY <2>3, BoundTakes DEF Inv
    <3>3. Reading' \in {"bound", "torn"}
      BY <2>3 DEF Reading
    <3>4. Reading' = Reading \/ (Reading = "torn" /\ Reading' = "bound")
      BY <2>2, <3>2, <3>3
    <3>5. Reading' = Reading => UNCHANGED Box!vars
      BY <1>2, <2>1, <3>1 DEF Box!vars, State, Notice, Reading
    <3>6. Reading = "torn" /\ Reading' = "bound" => Box!Agree
      BY <1>2, <2>1, <3>1 DEF Box!Agree, State, Notice, Reading
    <3> QED
      BY <3>4, <3>5, <3>6 DEF Box!Next
  <2>4. CASE sender' = "pop"
    <3>1. Reading' = "no"
      BY <2>4 DEF Reading
    <3>2. sent' \in Messages \cup {sent}
      <4>1. CASE Send
        <5>1. data \in MessageData /\ data.path # NoPath
          BY <4>1 DEF Inv, TypeOK, Send, SenderAt
        <5> QED
          BY <4>1, <5>1 DEF Send, Messages, MessageData
      <4>2. CASE ~Send
        BY <4>2 DEF SenderNext, Pop, ReadNumber, NoType, TypeIs, PresetLoad, PresetSave,
             Reserved, NotReserved, ReadName, ControlChange, ReadValue, Convert, GetPath,
             GetNoPath, InvalidType
      <4> QED
        BY <4>1, <4>2
    <3>3. Reading = "bound" => sent' \in IF Expected(msg) = {} THEN {sent} ELSE Expected(msg)
      BY <2>4, BoundTakes DEF Inv
    <3>4. Box!Take
      BY <1>2, <2>1, <2>2, <3>1, <3>2, <3>3 DEF Box!Take, State, Notice, Reading
    <3> QED
      BY <3>4 DEF Box!Next
  <2> QED
    BY <2>3, <2>4
<1> QED
  BY <1>4, <1>5

(* The queue of pointers to msg, however long, and OscSender's reads of    *)
(* it, field by field and some twice, implement a mailbox: no command that *)
(* is left alone gets lost or garbled on its way to RNBO.  A stray byte    *)
(* loses one whose notice is still there, and a reader then takes nothing. *)
THEOREM MailboxRefinement == Spec => ImplementsMailbox
<1>1. Init => Box!Init
  <2> SUFFICES ASSUME Init PROVE Box!Init
    OBVIOUS
  <2>1. Expected(msg) = {}
    BY DEF Init, Blank, Expected
  <2>2. State = "empty" /\ Notice = FALSE /\ Reading = "no" /\ sent = None
    BY DEF Init, Blank, State, Notice, Reading
  <2> QED
    BY <2>1, <2>2 DEF Box!Init, State, Notice, Reading
<1>2. Inv /\ Inv' /\ [Next]_vars => [Box!Next]_(Box!vars)
  <2> SUFFICES ASSUME Inv, Inv', [Next]_vars PROVE [Box!Next]_(Box!vars)
    OBVIOUS
  <2>1. CASE (\E p \in Packets : Construct(p)) \/ Stray \/ SetType \/ CopyNumber \/ CopyValue
    <3>1. Touch /\ serial' # "read"
      BY <2>1 DEF Construct, Stray, SetType, CopyNumber, CopyValue, Fill, SerialAt
    <3> QED
      BY <3>1, AlterRefines DEF Box!Next
  <2>2. CASE Ignore \/ HoldBack \/ Queue \/ QueueFull
    BY <2>2, FinishedRefines
  <2>3. CASE SenderNext
    BY <2>3, SenderRefines
  <2>4. CASE ListenerNext
    BY <2>4, ReassignRefines
  <2>5. CASE UNCHANGED vars
    <3>1. UNCHANGED <<config, msg, serial, queue, sender, data, sent, newest, moved>>
      BY <2>5 DEF vars, code, history
    <3>2. Expected(msg)' = Expected(msg)
      BY <3>1 DEF Expected
    <3>3. (WillSend <=> WillSend') /\ State' = State /\ Notice' = Notice
      BY <3>1, <3>2 DEF WillSend, State, Notice
    <3>4. Reading' = Reading
      BY <3>1, <3>3 DEF Reading
    <3> QED
      BY <3>1, <3>2, <3>3, <3>4 DEF Box!vars, State, Notice, Reading
  <2> QED
    BY <2>1, <2>2, <2>3, <2>4, <2>5 DEF Next, SerialNext, Finish
<1> QED
  BY <1>1, <1>2, Invariance, PTL DEF Spec, ImplementsMailbox, Box!Spec
=============================================================================
