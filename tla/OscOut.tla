------------------------------- MODULE OscOut -------------------------------
(***************************************************************************)
(* The way out to RNBO: commands that the serial thread has parsed, the    *)
(* OscSender's queue and its thread.                                       *)
(*                                                                         *)
(* Every pointer in this queue is to one variable, msg in                  *)
(* SerialConnector::threadLoop, which the serial thread rebuilds for every *)
(* packet, also for a knob turn that is then held back and not queued, and *)
(* for every stray byte: after a loss, one that no packet begins with is   *)
(* taken for a complete packet of no type.                                 *)
(*                                                                         *)
(* The OscSender reads it field by field, the type and a preset's number   *)
(* twice, and looks the controller's path up again (OscSender.cpp:67).     *)
(*                                                                         *)
(* A packet is a type, a number (byte 1: the controller, or the preset)    *)
(* and a value (bytes 2 and 3, zero in a preset command).  How one is      *)
(* assembled, and when a byte is stray, is in SerialParser; here packets   *)
(* and stray bytes come as they like.  push() and pop() are one step each  *)
(* (TSQueue implements BoundedFifo).  Whether a turn is held back is       *)
(* decided as in PickUp, here by choice.                                   *)
(***************************************************************************)
EXTENDS Integers, Sequences

CONSTANTS
  MaxNumber,  \* numbers are 0..MaxNumber; preset 0 is reserved
  Knobs,      \* the controllers that are knobs, not buttons
  MaxValue,   \* values are 0..MaxValue
  Paths,      \* OSC paths of parameters
  NoPath,     \* "", of a controller that is not assigned
  SizeLimit,  \* of the queue, 400
  None

Numbers == 0 .. MaxNumber
Values == 0 .. MaxValue

(* The paths of the preset commands, and how the code names a preset there.*)
SavePath == "/rnbo/inst/control/sets/presets/save"
LoadPath == "/rnbo/inst/control/sets/presets/load"

ASSUME NumbersAssumption ==
  MaxNumber \in Nat /\ MaxValue \in Nat /\ Knobs \subseteq Numbers

ASSUME PathsAssumption ==
  /\ {SavePath, LoadPath, NoPath} \cap Paths = {}
  /\ NoPath \notin {SavePath, LoadPath}

ASSUME LimitAssumption == SizeLimit \in Nat \ {0}

Packets ==
  [type : {"cc"}, number : Numbers, value : Values]
    \cup [type : {"preset_load", "preset_save"}, number : Numbers, value : {0}]

ASSUME NoneAssumption == None \notin Packets

(* What the OscSender may find in msg, whole or half made.                 *)
Contents == [type : {"none", "cc", "preset_load", "preset_save"},
             number : Numbers, value : Values]

(* What makeValueFLoat makes of a value when the controller is unassigned. *)
Unassigned == -1

(* A message to RNBO: a float for a parameter, or a preset's name.  Mixed  *)
(* is what goes out when the arguments are not what the format says.       *)
Mixed == -2
Messages == [path : Paths \cup {SavePath, LoadPath},
             arg : Numbers \cup Values \cup {Unassigned, Mixed}]

VARIABLES
  config,    \* the path of each controller
  packet,    \* msg_type and msg_packet_buffer
  msg,       \* the variable the pointers are to
  serial,    \* where the serial thread is
  queue,     \* pointers, each with the packet it stood for when it was queued,
             \* or None once msg has been touched (history)
  sender,    \* where the OscSender is
  entry,     \* the pointer it popped
  data,      \* its message_data, as far as it is filled in
  sent,      \* the last message sent

  (* History, which no step of the code reads.                             *)
  newest,    \* the last command, if it was queued, or None
  wiped,     \* a stray byte came before the OscSender was done with it
  moved,     \* since then a controller was assigned anew
  held       \* msg is a turn that was held back

history == <<newest, wiped, moved, held>>
code == <<config, packet, msg, serial, queue, sender, entry, data, sent>>
vars == <<code, history>>

Blank == [type |-> "none", number |-> 0, value |-> 0]

NoData == [number |-> 0, format |-> "", path |-> NoPath, arg |-> Unassigned]

Init ==
  /\ config \in [Numbers -> Paths \cup {NoPath}]
  /\ packet = Blank /\ msg = Blank /\ serial = "read"
  /\ queue = <<>>
  /\ sender = "pop" /\ entry = None /\ data = NoData
  /\ sent = None
  /\ newest = None /\ wiped = FALSE /\ moved = FALSE /\ held = FALSE

(* The OSC listener's thread assigns controllers while all this goes on.   *)
Reassign(n, p) ==
  /\ config[n] # p
  /\ config' = [config EXCEPT ![n] = p]
  /\ moved' = TRUE
  /\ UNCHANGED <<packet, msg, serial, queue, sender, entry, data, sent, newest, wiped, held>>

-----------------------------------------------------------------------------
(* The serial thread, from a complete packet to addToMessageQueue.         *)

SerialAt(here, there) == serial = here /\ serial' = there

(* The pointers now are to something else than what was queued.            *)
Touch ==
  /\ queue' = [i \in DOMAIN queue |-> None]
  /\ entry' = None
  /\ UNCHANGED <<config, sender, data, sent>>

Construct(p) ==
  /\ SerialAt("read", "type")
  /\ packet' = p
  /\ msg' = Blank
  /\ newest' = None /\ wiped' = FALSE /\ moved' = FALSE /\ held' = FALSE
  /\ Touch

Underway == queue # <<>> \/ sender # "pop"

(* A data byte between packets: size and index are both 0, so the code     *)
(* goes through all that it does for a complete packet, with what the      *)
(* buffer still holds of the last one, and no type.                        *)
Stray ==
  /\ SerialAt("read", "type")
  /\ msg' = Blank
  /\ wiped' = (wiped \/ (newest # None /\ Underway)) /\ held' = FALSE
  /\ Touch
  /\ UNCHANGED <<packet, newest, moved>>

Fill(here, there) ==
  /\ SerialAt(here, there)
  /\ Touch
  /\ UNCHANGED <<packet, history>>

SetType == Fill("type", "number") /\ msg' = [msg EXCEPT !.type = packet.type]

CopyNumber == Fill("number", "value") /\ msg' = [msg EXCEPT !.number = packet.number]

CopyValue == Fill("value", "decide") /\ msg' = [msg EXCEPT !.value = packet.value]

(* The end of a turn of the loop, whose packet has no type any more.       *)
Finished ==
  /\ SerialAt("decide", "read")
  /\ packet' = [packet EXCEPT !.type = "none"]
  /\ UNCHANGED <<config, msg, sender, entry, data, sent, wiped, moved>>

(* Of no type: nothing is queued, but msg was rebuilt.                     *)
Ignore ==
  /\ Finished
  /\ msg.type = "none"
  /\ UNCHANGED <<queue, newest, held>>

(* makeValuePickupMessasge may hold back the turn of an assigned knob.     *)
HoldBack ==
  /\ Finished
  /\ msg.type = "cc"
  /\ msg.number \in Knobs
  /\ config[msg.number] # NoPath
  /\ held' = TRUE
  /\ UNCHANGED <<queue, newest>>

(* Mutation of Queue: a pointer that is underway is not queued again.      *)
Queue_UnlessUnderway ==
  /\ Finished
  /\ msg.type # "none"
  /\ Len(queue) < SizeLimit
  /\ queue' = IF sender = "pop" THEN Append(queue, msg) ELSE queue
  /\ newest' = msg
  /\ UNCHANGED held

Queue ==
  /\ Finished
  /\ msg.type # "none"
  /\ Len(queue) < SizeLimit
  /\ queue' = Append(queue, msg)
  /\ newest' = msg
  /\ UNCHANGED held

(* The queue is full: push() ignores the message.                          *)
QueueFull ==
  /\ Finished
  /\ msg.type # "none"
  /\ Len(queue) >= SizeLimit
  /\ UNCHANGED <<queue, newest, held>>

-----------------------------------------------------------------------------
(* OscSender::threadLoop and getOscMessageData, read by read.              *)

SenderAt(here, there) ==
  /\ sender = here
  /\ sender' = there
  /\ UNCHANGED <<config, packet, msg, serial, history>>

(* Mutation of Pop: pop() misses a notification, and wakes at the next one.*)
Pop_WokenByTheNext ==
  /\ SenderAt("pop", "number")
  /\ Len(queue) > 1
  /\ entry' = Head(queue)
  /\ queue' = Tail(queue)
  /\ UNCHANGED <<data, sent>>

Pop ==
  /\ SenderAt("pop", "number")
  /\ queue # <<>>
  /\ entry' = Head(queue)
  /\ queue' = Tail(queue)
  /\ UNCHANGED <<data, sent>>

ReadNumber ==
  /\ SenderAt("number", "type")
  /\ data' = [data EXCEPT !.number = msg.number]
  /\ UNCHANGED <<queue, entry, sent>>

Reset == entry' = None /\ data' = NoData

(* No such type: the path stays "", and nothing is sent.                   *)
NoType ==
  /\ SenderAt("type", "pop")
  /\ msg.type = "none"
  /\ Reset
  /\ UNCHANGED <<queue, sent>>

TypeIs(type, format, path, there) ==
  /\ SenderAt("type", there)
  /\ msg.type = type
  /\ data' = [data EXCEPT !.format = format, !.path = path]
  /\ UNCHANGED <<queue, entry, sent>>

(* A preset command: its name is the number, read anew.                    *)
PresetLoad == TypeIs("preset_load", "s", LoadPath, "name")

PresetSave == TypeIs("preset_save", "s", SavePath, "test")

(* Preset "000" is not saved.                                              *)
Reserved ==
  /\ SenderAt("test", "pop")
  /\ msg.number = 0
  /\ Reset
  /\ UNCHANGED <<queue, sent>>

(* Mutation of NotReserved: the test is forgotten.                         *)
NotReserved_NotTested ==
  /\ SenderAt("test", "name")
  /\ UNCHANGED <<queue, entry, data, sent>>

NotReserved ==
  /\ SenderAt("test", "name")
  /\ msg.number # 0
  /\ UNCHANGED <<queue, entry, data, sent>>

ReadName ==
  /\ SenderAt("name", "send")
  /\ data' = [data EXCEPT !.arg = msg.number]
  /\ UNCHANGED <<queue, entry, sent>>

(* A controller: its value is read, converted, and its path looked up.     *)
ControlChange == TypeIs("cc", "f", NoPath, "value")

ReadValue ==
  /\ SenderAt("value", "convert")
  /\ data' = [data EXCEPT !.arg = msg.value]
  /\ UNCHANGED <<queue, entry, sent>>

Convert ==
  /\ SenderAt("convert", "path")
  /\ data' = [data EXCEPT !.arg = IF config[data.number] = NoPath THEN Unassigned ELSE @]
  /\ UNCHANGED <<queue, entry, sent>>

GetPath ==
  /\ SenderAt("path", "send")
  /\ config[data.number] # NoPath
  /\ data' = [data EXCEPT !.path = config[data.number]]
  /\ UNCHANGED <<queue, entry, sent>>

(* Mutation of GetNoPath: a message without a path is sent all the same.   *)
GetNoPath_SentAllTheSame ==
  /\ SenderAt("path", "send")
  /\ config[data.number] = NoPath
  /\ UNCHANGED <<queue, entry, data, sent>>

GetNoPath ==
  /\ SenderAt("path", "pop")
  /\ config[data.number] = NoPath
  /\ Reset
  /\ UNCHANGED <<queue, sent>>

(* The type is read once more, to choose the argument.                     *)
Send ==
  /\ SenderAt("send", "pop")
  /\ msg.type # "none"
  /\ sent' = [path |-> data.path,
              arg |-> IF data.format = (IF msg.type = "cc" THEN "f" ELSE "s")
                      THEN data.arg ELSE Mixed]
  /\ Reset
  /\ UNCHANGED queue

InvalidType ==
  /\ SenderAt("send", "pop")
  /\ msg.type = "none"
  /\ Reset
  /\ UNCHANGED <<queue, sent>>

-----------------------------------------------------------------------------
Finish ==
  \/ SetType \/ CopyNumber \/ CopyValue
  \/ Ignore \/ HoldBack \/ Queue \/ QueueFull

SerialNext ==
  \/ \E p \in Packets : Construct(p)
  \/ Stray
  \/ Finish

SenderNext ==
  \/ Pop \/ ReadNumber \/ NoType
  \/ PresetLoad \/ PresetSave \/ Reserved \/ NotReserved \/ ReadName
  \/ ControlChange \/ ReadValue \/ Convert \/ GetPath \/ GetNoPath
  \/ Send \/ InvalidType

ListenerNext == \E n \in Numbers : \E p \in Paths \cup {NoPath} : Reassign(n, p)

Next == SerialNext \/ SenderNext \/ ListenerNext

(* The OscSender goes on with what it has, and the serial thread with a    *)
(* packet it has begun.                                                    *)
Fairness ==
  /\ WF_vars(SenderNext)
  /\ WF_vars(Finish)

Spec == Init /\ [][Next]_vars
FairSpec == Spec /\ Fairness

-----------------------------------------------------------------------------
(* What the OscSender's message_data may hold.                             *)
MessageData ==
  [number : Numbers, format : {"", "f", "s"},
   path : Paths \cup {NoPath, SavePath, LoadPath},
   arg : Numbers \cup Values \cup {Unassigned}]

(* Type invariant.                                                         *)
TypeOK ==
  /\ config \in [Numbers -> Paths \cup {NoPath}]
  /\ packet \in Contents /\ msg \in Contents
  /\ serial \in {"read", "type", "number", "value", "decide"}
  /\ queue \in Seq(Packets \cup {None}) /\ Len(queue) <= SizeLimit
  /\ sender \in {"pop", "number", "type", "test", "name", "value", "convert",
                 "path", "send"}
  /\ entry \in Packets \cup {None}
  /\ data \in MessageData
  /\ sent \in Messages \cup {None}
  /\ newest \in Packets \cup {None}
  /\ wiped \in BOOLEAN /\ moved \in BOOLEAN /\ held \in BOOLEAN

(* What RNBO should be told because of packet p: nothing about a           *)
(* controller that drives no parameter, nor to save preset "000".          *)
Expected(p) ==
  CASE p.type = "cc" /\ config[p.number] # NoPath ->
         {[path |-> config[p.number], arg |-> p.value]}
    [] p.type = "preset_save" /\ p.number # 0 -> {[path |-> SavePath, arg |-> p.number]}
    [] p.type = "preset_load" -> {[path |-> LoadPath, arg |-> p.number]}
    [] OTHER -> {}

(* As long as the serial thread does not touch msg before the OscSender is *)
(* done with it, the queue of pointers does what one of messages would:    *)
(* what is sent is what was queued, for the parameter that the controller  *)
(* drives, provided that it was not assigned anew meanwhile.               *)
UntouchedIsSent ==
  [][sender # "pop" /\ sender' = "pop" /\ entry # None /\ ~moved =>
       IF Expected(entry) = {} THEN UNCHANGED sent
       ELSE sent' \in Expected(entry)]_vars

(* Commands that come too fast are lost or mixed up, but RNBO ends up with *)
(* the newest one: if it was queued and nothing is underway, what was sent *)
(* last is what it says.  A stray byte can lose the newest command too,    *)
(* but only if it comes before the OscSender is done with it.              *)
NewestArrives ==
  newest # None /\ queue = <<>> /\ sender = "pop" /\ ~moved /\ ~wiped =>
    Expected(newest) = {} \/ sent \in Expected(newest)

(* So every command that was queued is sent, or makes way for a newer one  *)
(* or for a new assignment, or a stray byte overtakes it on its way.       *)
SentOrReplaced ==
  newest # None
    ~> newest = None \/ moved \/ wiped
       \/ Expected(newest) = {} \/ sent \in Expected(newest)

(* What the OscSender has read so far is of the packet that is in msg now: *)
(* as things are it will send what this asks for, if anything.             *)
WillSend ==
  /\ sender # "pop"
  /\ sender # "number" => data.number = msg.number
  /\ sender \in {"value", "convert", "path"} => msg.type = "cc" /\ data.format = "f"
  /\ sender = "convert" => data.arg = msg.value
  /\ sender = "path" /\ config[msg.number] # NoPath => data.arg = msg.value
  /\ sender = "test" => msg.type = "preset_save"
  /\ sender = "name" => msg.type = "preset_load" \/ (msg.type = "preset_save" /\ msg.number # 0)
  /\ sender \in {"test", "name"} => data.format = "s" /\ data.path =
       IF msg.type = "preset_save" THEN SavePath ELSE LoadPath
  /\ sender = "send" =>
       /\ data.format = IF msg.type = "cc" THEN "f" ELSE "s"
       /\ [path |-> data.path, arg |-> data.arg] \in Expected(msg)

(* However many pointers are queued and however many reads one message     *)
(* takes: towards RNBO, msg is a mailbox, which a stray byte empties.  A   *)
(* controller that is assigned anew changes what its packet leads to, as a *)
(* change of msg does.                                                     *)
Box == INSTANCE Mailbox WITH
  Results  <- Messages,
  NoResult <- None,
  content  <- Expected(msg),
  state    <- IF serial # "read" THEN "making"
              ELSE IF msg.type = "none" THEN "empty"
              ELSE IF moved THEN "making"
              ELSE IF newest # None THEN "announced" ELSE "withdrawn",
  notice   <- queue # <<>>,
  reading  <- IF sender = "pop" THEN "no"
              ELSE IF msg.type = "none" \/ WillSend THEN "bound" ELSE "torn",
  taken    <- sent

ImplementsMailbox == Box!Spec

(* OscSender.cpp:71: "Don't save preset "000" it's reserved".              *)
ReservedIsNotSaved == sent # [path |-> SavePath, arg |-> 0]

(* A knob turn that was held back, because the parameter "neads to be      *)
(* picked up" (SerialConnector.cpp:147), does not go out to RNBO.          *)
HeldBackIsNotSent == held /\ sender = "send" => ~WillSend
=============================================================================
