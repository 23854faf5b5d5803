----------------------------- MODULE SerialOut -----------------------------
(***************************************************************************)
(* The way out to the RainPots device: the queue of SerialConnector, the   *)
(* threads that fill it and SerialSender, which drains it.                 *)
(*                                                                         *)
(* The queue holds POINTERS, to variables that the producers keep and use  *)
(* again (their "slots" here):                                             *)
(*   "pickup"  local of the serial thread's loop, rebuilt at every CC      *)
(*   "meter"   local of the listener's loop, rebuilt at every meter value  *)
(*   "button"  local of the listener's loop, rebuilt at every button value *)
(*   "ping"    local of the pinger's loop, rebuilt every second            *)
(*   "preset"  local of setRainPotsButtons, gone when that returns         *)
(*   a unit    node of the button thread's map, freed when the thread ends *)
(* A local keeps its place from one turn of its loop to the next (the      *)
(* Makefile compiles without optimisation, so no two of these share one).  *)
(* Where one was that is gone, SerialSender may find anything.             *)
(*                                                                         *)
(* push() and pop() are one step each (TSQueue implements BoundedFifo).    *)
(* Each access of SerialSender to an entry, and each stage in which a      *)
(* producer builds one, is a step.                                         *)
(***************************************************************************)
EXTENDS Naturals, Sequences, FiniteSets

CONSTANTS
  Locals,    \* which of "pickup", "meter", "button", "ping" are in use
  Units,     \* the units in param_config, each with a node in the map
  Messages,  \* finished packets in the locals of the loops
  Presets,   \* finished packets about a preset: its number, its buttons
  SizeLimit, \* of the queue, 100
  Blank,     \* all bytes zero, as the constructor leaves them
  Torn,      \* some bytes of a packet written, some not yet
  Garbage,   \* whatever came to be where a packet was
  None       \* no packet

ASSUME LocalsAssumption == Locals \subseteq {"pickup", "meter", "button", "ping"}

ASSUME UnitsAssumption ==
  /\ Units \cap {"pickup", "meter", "button", "ping", "preset"} = {}
  /\ None \notin Units \cup {"pickup", "meter", "button", "ping", "preset"}

ASSUME LimitAssumption == SizeLimit \in Nat \ {0}

ASSUME BodiesAssumption ==
  /\ {Blank, Torn, Garbage, None} \cap (Messages \cup Presets) = {}
  /\ Cardinality({Blank, Torn, Garbage, None}) = 4

Slots == Locals \cup {"preset"} \cup Units

(* The packets that may be made in a slot.                                 *)
PacketsOf(s) == IF s \in Locals THEN Messages ELSE Presets

Packets == Messages \cup Presets

Bodies == Packets \cup {Blank, Torn, Garbage}

(* These get their size before their bytes, the others after them.         *)
SizeFirst == {"pickup", "button"}

OfListener == {"meter", "button", "preset"}

VARIABLES
  slot,      \* each slot: whether buffer_size > 0, and the buffer
  building,  \* the slots whose producer is between constructor and push()
  queue,     \* pointers, each with the packet it stood for when it was queued,
             \* or None once its slot has been touched (history)
  listener,  \* "wait", or where it is in setRainPotsButtons
  buttons,   \* the button thread: "off", "make" or "push"
  rest,      \* the units whose node it has still to queue
  sender,    \* where SerialSender is with its entry
  entry,     \* the pointer it popped
  size,      \* buffer_size > 0, as it read it for write()

  (* History, which no step of the code reads.                             *)
  accepted,  \* the locals whose last push() was not ignored
  shown      \* the last packet written from each local

producers == <<slot, building, queue, listener, buttons, rest, accepted>>
vars == <<producers, sender, entry, size, shown>>

NoPointer == [slot |-> None, made |-> None]

Init ==
  /\ slot = [s \in Slots |-> [positive |-> FALSE, body |-> Garbage]]
  /\ building = {}
  /\ queue = <<>>
  /\ listener = "wait" /\ buttons = "off" /\ rest = {}
  /\ sender = "pop" /\ entry = NoPointer /\ size = FALSE
  /\ accepted = {}
  /\ shown = [s \in Locals |-> None]

-----------------------------------------------------------------------------
(* Changes of a slot, and of the history of the pointers to it.            *)

TouchedIn(pointer, S) ==
  IF pointer.slot \in S THEN [pointer EXCEPT !.made = None] ELSE pointer

Touch(S) ==
  /\ queue' = [i \in DOMAIN queue |-> TouchedIn(queue[i], S)]
  /\ entry' = TouchedIn(entry, S)

SetSlot(s, positive, body) ==
  /\ slot' = [slot EXCEPT ![s] = [positive |-> positive, body |-> body]]
  /\ Touch({s})

(* Mutation of Enqueue: a pointer that is still underway is not queued     *)
(* again.                                                                  *)
Enqueue_UnlessUnderway(s) ==
  IF Len(queue) >= SizeLimit
    THEN /\ accepted' = accepted \ {s}
         /\ UNCHANGED queue
    ELSE /\ accepted' = accepted \cup ({s} \cap Locals)
         /\ queue' = IF entry.slot = s THEN queue
                     ELSE Append(queue,
                            [slot |-> s, made |-> slot[s].body])

(* addToMessageQueue(&slot): ignored if the queue is full.                 *)
Enqueue(s) ==
  IF Len(queue) >= SizeLimit
    THEN /\ accepted' = accepted \ {s}
         /\ UNCHANGED queue
    ELSE /\ accepted' = accepted \cup ({s} \cap Locals)
         /\ queue' = Append(queue, [slot |-> s, made |-> slot[s].body])

-----------------------------------------------------------------------------
(* How a packet is built in its slot.                                      *)

(* The thread that owns s is free to begin with it.                        *)
MayBuild(s) ==
  CASE s = "preset"              -> listener = "preset" /\ s \notin building
    [] s \in {"meter", "button"} -> listener = "wait" /\ building \cap OfListener = {}
    [] OTHER                     -> s \notin building

(* The constructor: no bytes, size 0.                                      *)
Construct(s) ==
  /\ s \in Locals \cup {"preset"}
  /\ MayBuild(s)
  /\ building' = building \cup {s}
  /\ SetSlot(s, FALSE, Blank)
  /\ UNCHANGED <<listener, buttons, rest, accepted, sender, size, shown>>

SetSize(s) ==
  /\ s \in building
  /\ ~slot[s].positive
  /\ slot[s].body \in IF s \in SizeFirst THEN {Blank} ELSE Packets
  /\ SetSlot(s, TRUE, slot[s].body)
  /\ UNCHANGED <<building, listener, buttons, rest, accepted, sender, size, shown>>

SetFirstByte(s) ==
  /\ s \in building
  /\ slot[s].body = Blank
  /\ slot[s].positive <=> s \in SizeFirst
  /\ SetSlot(s, slot[s].positive, Torn)
  /\ UNCHANGED <<building, listener, buttons, rest, accepted, sender, size, shown>>

SetLastByte(s, m) ==
  /\ s \in building
  /\ slot[s].body = Torn
  /\ m \in PacketsOf(s)
  /\ SetSlot(s, slot[s].positive, m)
  /\ UNCHANGED <<building, listener, buttons, rest, accepted, sender, size, shown>>

(* Mutation of Finished: a packet is queued before it is filled in.        *)
Finished_WhenSized(s) == slot[s].positive

(* Mutation of Finished: a packet is queued without its size.              *)
Finished_WithoutSize(s) == slot[s].body \in Packets

(* A pick-up message about a button, or a knob that drives nothing, stays  *)
(* blank, and is queued like any other.                                    *)
Finished(s) ==
  /\ slot[s].positive
  /\ slot[s].body \in Packets \cup IF s = "pickup" THEN {Blank} ELSE {}

Push(s) ==
  /\ s \in building
  /\ Finished(s)
  /\ Enqueue(s)
  /\ building' = building \ {s}
  /\ listener' = IF s = "preset" THEN "start" ELSE listener
  /\ UNCHANGED <<slot, buttons, rest, sender, entry, size, shown>>

-----------------------------------------------------------------------------
(* presets/loaded: setRainPotsButtons waits for the button thread of the   *)
(* last preset, queues the preset's number and starts a new one.           *)

PresetLoaded ==
  /\ listener = "wait"
  /\ building \cap OfListener = {}
  /\ listener' = "join"
  /\ UNCHANGED <<slot, building, queue, buttons, rest, accepted,
                 sender, entry, size, shown>>

Join ==
  /\ listener = "join"
  /\ buttons = "off"
  /\ listener' = "preset"
  /\ UNCHANGED <<slot, building, queue, buttons, rest, accepted,
                 sender, entry, size, shown>>

(* The preset's name is not a number: no message.                          *)
NameIsNoNumber ==
  /\ listener = "preset"
  /\ "preset" \notin building
  /\ listener' = "start"
  /\ UNCHANGED <<slot, building, queue, buttons, rest, accepted,
                 sender, entry, size, shown>>

StartButtons ==
  /\ listener = "start"
  /\ listener' = "wait"
  /\ buttons' = "make"
  /\ Touch({"preset"})
  /\ UNCHANGED <<slot, building, rest, accepted, sender, size, shown>>

(* makeSetButtonValueMessages: the whole map is built first.               *)
MakeButtons ==
  /\ buttons = "make"
  /\ buttons' = "push"
  /\ rest' = Units
  /\ \E made \in [Units -> Presets] :
       slot' = [s \in Slots |-> IF s \in Units
                                THEN [positive |-> TRUE, body |-> made[s]]
                                ELSE slot[s]]
  /\ Touch(Units)
  /\ UNCHANGED <<building, listener, accepted, sender, size, shown>>

(* Mutation of PushButtons: the iterator is not advanced.                  *)
PushButtons_NotAdvanced ==
  /\ buttons = "push"
  /\ \E u \in rest : Enqueue(u)
  /\ UNCHANGED <<rest, slot, building, listener, buttons, sender, entry, size, shown>>

(* One node after the other (the map's order does not matter here).        *)
PushButtons ==
  /\ buttons = "push"
  /\ \E u \in rest : Enqueue(u) /\ rest' = rest \ {u}
  /\ UNCHANGED <<slot, building, listener, buttons, sender, entry, size, shown>>

EndButtons ==
  /\ buttons = "push"
  /\ rest = {}
  /\ buttons' = "off"
  /\ Touch(Units)
  /\ UNCHANGED <<slot, building, listener, rest, accepted, sender, size, shown>>

-----------------------------------------------------------------------------
(* SerialSender                                                            *)

(* Where a variable was that is gone, another call's frame or another      *)
(* allocation may be.                                                      *)
Gone(s) ==
  \/ s = "preset" /\ listener \notin {"preset", "start"}
  \/ s \in Units /\ buttons = "off"

(* What a read through a pointer to s may find.                            *)
Found(s) ==
  {slot[s]} \cup
    IF Gone(s) THEN [positive : BOOLEAN, body : {Garbage}] ELSE {}

(* Mutation of Pop: the front is not removed.                              *)
Pop_FrontStays ==
  /\ sender = "pop"
  /\ queue # <<>>
  /\ entry' = Head(queue)
  /\ sender' = "test"
  /\ UNCHANGED <<queue, slot, building, listener, buttons, rest, accepted, size, shown>>

Pop ==
  /\ sender = "pop"
  /\ queue # <<>>
  /\ entry' = Head(queue)
  /\ queue' = Tail(queue)
  /\ sender' = "test"
  /\ UNCHANGED <<slot, building, listener, buttons, rest, accepted, size, shown>>

Done == sender' = "pop" /\ entry' = NoPointer /\ size' = FALSE

(* buffer_size is not positive: the entry is left out.                     *)
Skip ==
  /\ sender = "test"
  /\ \E c \in Found(entry.slot) : ~c.positive
  /\ Done
  /\ UNCHANGED <<producers, shown>>

Test ==
  /\ sender = "test"
  /\ \E c \in Found(entry.slot) : c.positive
  /\ sender' = "size"
  /\ UNCHANGED <<producers, entry, size, shown>>

(* write()'s arguments are read once more,                                 *)
ReadSize ==
  /\ sender = "size"
  /\ \E c \in Found(entry.slot) : size' = c.positive
  /\ sender' = "write"
  /\ UNCHANGED <<producers, entry, shown>>

(* and its bytes when it copies them; with no size it copies none.         *)
Write ==
  /\ sender = "write"
  /\ Done
  /\ shown' = [s \in Locals |->
                IF s = entry.slot /\ size THEN slot[s].body ELSE shown[s]]
  /\ UNCHANGED producers

-----------------------------------------------------------------------------
Finish(s) ==
  SetSize(s) \/ SetFirstByte(s) \/ (\E m \in Packets : SetLastByte(s, m)) \/ Push(s)

SetButtons ==
  \/ Join \/ NameIsNoNumber \/ Construct("preset") \/ Finish("preset")
  \/ StartButtons

ButtonThread == MakeButtons \/ PushButtons \/ EndButtons

SenderNext == Pop \/ Skip \/ Test \/ ReadSize \/ Write

Next ==
  \/ \E s \in Locals : Construct(s) \/ Finish(s)
  \/ PresetLoaded \/ SetButtons
  \/ ButtonThread
  \/ SenderNext

(* Every thread that has something to do goes on with it.  Nothing is      *)
(* assumed of when a producer begins the next packet.                      *)
Fairness ==
  /\ \A s \in Locals : WF_vars(Finish(s))
  /\ WF_vars(SetButtons)
  /\ WF_vars(ButtonThread)
  /\ WF_vars(SenderNext)

Spec == Init /\ [][Next]_vars
FairSpec == Spec /\ Fairness

-----------------------------------------------------------------------------
Pointers == [slot : Slots, made : Packets \cup {Blank, None}]

(* Type invariant: what the queue takes is always a finished packet.       *)
TypeOK ==
  /\ slot \in [Slots -> [positive : BOOLEAN, body : Bodies]]
  /\ building \subseteq Locals \cup {"preset"}
  /\ queue \in Seq(Pointers)
  /\ Len(queue) <= SizeLimit
  /\ listener \in {"wait", "join", "preset", "start"}
  /\ buttons \in {"off", "make", "push"}
  /\ rest \subseteq Units
  /\ sender \in {"pop", "test", "size", "write"}
  /\ entry \in IF sender = "pop" THEN {NoPointer} ELSE Pointers
  /\ size \in BOOLEAN
  /\ accepted \subseteq Locals
  /\ shown \in [Locals -> Bodies \cup {None}]

(* A pointer to s is queued or in SerialSender's hands.                    *)
Underway(s) ==
  \/ \E i \in DOMAIN queue : queue[i].slot = s
  \/ entry.slot = s

(* The queue of pointers does what one of packets would as long as nobody  *)
(* touches a slot that a pointer is underway to: the entry is written, and *)
(* as it was when it was queued (SerialSender.cpp:13).                     *)
UntouchedIsWritten ==
  [][sender # "pop" /\ sender' = "pop" /\ entry.made # None =>
       /\ sender = "write" /\ size
       /\ \A c \in Found(entry.slot) : c.body = entry.made]_vars

(* A slot that lasts may lose packets and be seen half built, but the      *)
(* device ends up with the newest one: when nothing is underway from a     *)
(* slot and its last push() was not ignored, what was written last is what *)
(* it holds.  The pick-up indicator and the meter rely on it.              *)
NewestArrives ==
  \A s \in accepted :
    s \notin building /\ ~Underway(s) => shown[s] = slot[s].body

(* SerialSender will write the bytes of s, if they do not change.          *)
WillWrite(s) ==
  entry.slot = s /\ IF sender = "write" THEN size ELSE slot[s].positive

(* However many pointers to them are queued, among those to other slots:   *)
(* each slot that lasts is a mailbox, with the device at the other side.   *)
Box(s) == INSTANCE Mailbox WITH
  Results  <- Bodies,
  NoResult <- None,
  content  <- {slot[s].body},
  state    <- IF s \in building THEN "making"
              ELSE IF s \in accepted THEN "announced" ELSE "withdrawn",
  notice   <- \E i \in DOMAIN queue : queue[i].slot = s,
  reading  <- IF entry.slot # s THEN "no" ELSE IF WillWrite(s) THEN "bound" ELSE "torn",
  taken    <- shown[s]

(* That is Box(s)!Spec for every s in Locals, in a form TLC can check.     *)
ImplementsMailboxes ==
  /\ \A s \in Locals : Box(s)!Init
  /\ [][\A s \in Locals : [Box(s)!Next]_(Box(s)!vars)]_vars

(* So every packet that was queued from such a slot gets to the device or  *)
(* makes way for a newer one.                                              *)
ShownOrReplaced ==
  \A s \in Locals : \A m \in Messages :
    s \in accepted /\ s \notin building /\ slot[s].body = m
      ~> shown[s] = m \/ s \in building

(* The listener waits for a button thread, and that for nobody: it always  *)
(* gets back to its socket (OscListener.cpp:195).                          *)
ListenerReturns == listener = "join" ~> listener = "wait"

(* What the guard at SerialSender.cpp:13 is a work-around for: no packet   *)
(* goes out that nobody made.                                              *)
WrittenWereMade ==
  sender = "write" /\ size =>
    \A c \in Found(entry.slot) : c.body \in Packets \cup {Blank}
=============================================================================
