----------------------------- MODULE ButtonSync -----------------------------
(***************************************************************************)
(* How the lamps of the device's buttons follow RNBO.                      *)
(*                                                                         *)
(* Outside a preset load, a value that arrives for a button is recorded    *)
(* and queued for the device at once, from the one variable the listener   *)
(* has for such packets.  During a load ("load" to "loaded") values are    *)
(* only recorded.  Then the listener starts the button thread, which       *)
(* computes the states of all buttons, one packet for each unit, and       *)
(* queues them 20 ms apart while the listener goes on.                     *)
(*                                                                         *)
(* Any message may arrive at any time, so RNBO may send in any order and   *)
(* the datagrams of a load, its begin and its end included, may be lost.   *)
(* Which parameter a button drives is fixed here (PickUp changes it).  The *)
(* stages of a packet and the fields of a variable that is gone are those  *)
(* of SerialOut, cut down to what a lamp shows of them.                    *)
(***************************************************************************)
EXTENDS ControlValues, Sequences

CONSTANTS
  Buttons,   \* the buttons that a parameter is assigned to
  Units,     \* the units of the device
  UnitOf,    \* the unit of each button
  StepsOf,   \* steps of a button 1 or 2, and 2 for the others
  Values,    \* the values RNBO may send
  SizeLimit, \* of the serial queue, 100
  Nothing    \* no button, no value, no pointer, no known state

(* Pointers: to the packet for a unit in the button thread's map; to the   *)
(* listener's variable for single buttons; to variables that are gone.     *)
(* Those to packets that concern no lamp are left out.                     *)
Pointers == Units \cup {"button", "gone"}

ASSUME ButtonsAssumption ==
  /\ UnitOf \in [Buttons -> Units] /\ StepsOf \in [Buttons -> Int]
  /\ Values \subseteq Normalized /\ 0 \in Values
  /\ Units \cap (Buttons \cup {"button", "gone"}) = {}
  /\ SizeLimit \in Nat \ {0}
  /\ Nothing \notin Buttons \cup Pointers
  /\ Nothing \notin Values \cup Shades \cup [button : Buttons, shade : Shades]

VARIABLES
  path_values,     \* the recorded value of each button's parameter
  collect_values,  \* a preset is being loaded
  listener,        \* where the OSC listener is, and with which button
  slot,            \* its variable: Nothing (no bytes) or a button's state
  thread,          \* where the button thread is, and what it has still to do
  node,            \* the states it computed
  queue,           \* the serial queue
  entry,           \* the pointer SerialSender popped
  tested,          \* and found to have a size, if it is the variable's
  lamp,            \* what the device shows; Nothing: never set, or garbage

  (* History, which no step of the code reads.                             *)
  told,    \* what RNBO last said of each button since a load began, or 0
  newer,   \* the buttons of which it did after the button thread computed
           \* another state
  spoilt   \* the buttons on whose way to their lamp something went wrong

recorded == <<path_values, collect_values, told>>
computed == <<thread, node, newer>>
sending == <<entry, tested, lamp>>
vars == <<recorded, listener, slot, computed, queue, sending, spoilt>>

Shade(b, v) == formatButtonValue(StepsOf[b], v)

Right(b, shade) == shade = Shade(b, told[b])

Waiting == [pc |-> "wait", button |-> Nothing]
Off == [running |-> FALSE, rest |-> {}]

Init ==
  /\ path_values = [b \in Buttons |-> 0]
  /\ collect_values = FALSE
  /\ listener = Waiting
  /\ slot = Nothing
  /\ thread = Off
  /\ node = [b \in Buttons |-> Nothing]
  /\ queue = <<>> /\ entry = Nothing /\ tested = FALSE
  /\ lamp = [b \in Buttons |-> Nothing]
  /\ told = path_values
  /\ newer = {}
  /\ spoilt = Buttons

Underway(pointer) == entry = pointer \/ \E i \in DOMAIN queue : queue[i] = pointer

(* addToMessageQueue, of a pointer on which the lamps of S depend: ignored *)
(* if the queue is full, which other packets may make it at any time.      *)
Enqueue(pointer, S) ==
  \/ /\ Len(queue) < SizeLimit
     /\ queue' = Append(queue, pointer)
     /\ UNCHANGED spoilt
  \/ /\ spoilt' = spoilt \cup S
     /\ UNCHANGED queue

-----------------------------------------------------------------------------
(* The OSC listener.                                                       *)

ListenerAt(here) == listener.pc = here

Goto(there) == listener' = [listener EXCEPT !.pc = there]

(* RNBO has something to say of b.                                         *)
Hear(b, v) ==
  /\ told' = [told EXCEPT ![b] = v]
  /\ newer' = IF node[b] \in {Nothing, Shade(b, v)} THEN newer \ {b}
              ELSE newer \cup {b}

(* Mutation of Value: the value is not recorded while a preset loads.      *)
Value_NotCollected(b, v) ==
  /\ ListenerAt("wait")
  /\ path_values' = IF collect_values THEN path_values
                    ELSE [path_values EXCEPT ![b] = v]
  /\ listener' = IF collect_values THEN Waiting
                 ELSE [pc |-> "construct", button |-> b]
  /\ Hear(b, v)
  /\ UNCHANGED <<collect_values, slot, thread, node, queue, sending, spoilt>>

(* A button's value arrives.                                               *)
Value(b, v) ==
  /\ ListenerAt("wait")
  /\ path_values' = [path_values EXCEPT ![b] = v]
  /\ listener' = IF collect_values THEN Waiting
                 ELSE [pc |-> "construct", button |-> b]
  /\ Hear(b, v)
  /\ UNCHANGED <<collect_values, slot, thread, node, queue, sending, spoilt>>

(* makeSetButtonMessage: the packet is constructed in the variable, whose  *)
(* former packet may be queued still.                                      *)
Construct ==
  /\ ListenerAt("construct")
  /\ slot' = Nothing
  /\ spoilt' = IF /\ slot # Nothing /\ slot.button # listener.button
                  /\ Underway("button")
               THEN spoilt \cup {slot.button} ELSE spoilt
  /\ Goto("push")
  /\ UNCHANGED <<recorded, computed, queue, sending>>

(* It is filled and queued.                                                *)
Push ==
  /\ ListenerAt("push")
  /\ LET b == listener.button IN
     /\ slot' = [button |-> b, shade |-> Shade(b, path_values[b])]
     /\ Enqueue("button", {b})
  /\ listener' = Waiting
  /\ UNCHANGED <<recorded, computed, sending>>

(* presets/load: clearPathValues, whose writes meet only the button        *)
(* thread's reads of single values (PickUp has them one by one).           *)
Load ==
  /\ ListenerAt("wait")
  /\ path_values' = [b \in Buttons |-> 0]
  /\ collect_values' = TRUE
  /\ told' = path_values'
  /\ UNCHANGED <<listener, slot, computed, queue, sending, spoilt>>

(* presets/loaded                                                          *)
PresetLoaded ==
  /\ ListenerAt("wait")
  /\ collect_values' = FALSE
  /\ Goto("join")
  /\ UNCHANGED <<path_values, told, slot, computed, queue, sending, spoilt>>

(* The rest of setRainPotsButtons: the join, the preset's number (if its   *)
(* name is one) from a variable that is gone at once, the new thread.      *)
StartThread ==
  /\ ListenerAt("join") /\ thread = Off
  /\ \/ Enqueue("gone", {})
     \/ UNCHANGED <<queue, spoilt>>
  /\ thread' = [running |-> TRUE, rest |-> Buttons \cup Units]
  /\ listener' = Waiting
  /\ UNCHANGED <<recorded, slot, node, newer, sending>>

-----------------------------------------------------------------------------
(* The button thread.                                                      *)

(* makeSetButtonValueMessages, button by button.                           *)
Make(b) ==
  /\ b \in thread.rest
  /\ node' = [node EXCEPT ![b] = Shade(b, path_values[b])]
  /\ thread' = [thread EXCEPT !.rest = @ \ {b}]
  /\ UNCHANGED <<recorded, listener, slot, newer, queue, sending, spoilt>>

(* Mutation of PushUnit: the loop ends before the last unit.               *)
PushUnit_LastOmitted(u) ==
  /\ u \in thread.rest /\ thread.rest \cap Buttons = {}
  /\ IF thread.rest = {u} THEN UNCHANGED <<queue, spoilt>>
     ELSE Enqueue(u, {b \in Buttons : UnitOf[b] = u})
  /\ thread' = [thread EXCEPT !.rest = @ \ {u}]
  /\ UNCHANGED <<recorded, listener, slot, node, newer, sending>>

PushUnit(u) ==
  /\ u \in thread.rest /\ thread.rest \cap Buttons = {}
  /\ Enqueue(u, {b \in Buttons : UnitOf[b] = u})
  /\ thread' = [thread EXCEPT !.rest = @ \ {u}]
  /\ UNCHANGED <<recorded, listener, slot, node, newer, sending>>

Orphaned(pointer) == IF pointer \in Units THEN "gone" ELSE pointer

(* Its map is destroyed with it.                                           *)
EndThread ==
  /\ thread.running /\ thread.rest = {}
  /\ thread' = Off
  /\ node' = [b \in Buttons |-> Nothing] /\ newer' = {}
  /\ queue' = [i \in DOMAIN queue |-> Orphaned(queue[i])]
  /\ entry' = Orphaned(entry)
  /\ spoilt' = spoilt \cup {b \in Buttons : Underway(UnitOf[b])}
  /\ UNCHANGED <<recorded, listener, slot, tested, lamp>>

-----------------------------------------------------------------------------
(* SerialSender.                                                           *)

Pop ==
  /\ entry = Nothing /\ queue # <<>>
  /\ entry' = Head(queue) /\ queue' = Tail(queue)
  /\ UNCHANGED <<recorded, listener, slot, computed, tested, lamp, spoilt>>

Skip == entry' = Nothing /\ tested' = FALSE /\ UNCHANGED <<lamp, spoilt>>

(* buffer_size > 0                                                         *)
Test ==
  /\ entry = "button" /\ ~tested
  /\ IF slot = Nothing THEN Skip
     ELSE tested' = TRUE /\ UNCHANGED <<entry, lamp, spoilt>>
  /\ UNCHANGED <<recorded, listener, slot, computed, queue>>

(* The device is sent states for these buttons (0x0F for the others: no    *)
(* change).                                                                *)
Show(these, states, spoiling) ==
  /\ lamp' = [b \in Buttons |-> IF b \in these THEN states[b] ELSE lamp[b]]
  /\ spoilt' = {b \in spoilt \cup spoiling : b \in these => ~Right(b, states[b])}
  /\ entry' = Nothing /\ tested' = FALSE

(* write() of what is there now.  A state in a unit's packet may have been *)
(* overtaken by a newer value; a packet that is gone may do anything.      *)
Write ==
  /\ \/ /\ entry = "button" /\ tested /\ slot = Nothing
        /\ Skip
     \/ /\ entry = "button" /\ tested /\ slot # Nothing
        /\ Show({slot.button}, [b \in Buttons |-> slot.shade], {})
     \/ /\ entry \in Units
        /\ LET its == {b \in Buttons : UnitOf[b] = entry} IN
           Show(its, node, its \cap newer)
     \/ /\ entry = "gone"
        /\ \E S \in SUBSET Buttons : Show(S, [b \in Buttons |-> Nothing], S)
  /\ UNCHANGED <<recorded, listener, slot, computed, queue>>

-----------------------------------------------------------------------------
Listener == Construct \/ Push \/ StartThread

ButtonThread ==
  \/ EndThread
  \/ \E b \in Buttons : Make(b)
  \/ \E u \in Units : PushUnit(u)

SerialSender == Pop \/ Test \/ Write

Receive ==
  \/ \E b \in Buttons, v \in Values : Value(b, v)
  \/ Load
  \/ PresetLoaded

Next == Receive \/ Listener \/ ButtonThread \/ SerialSender

(* As long as one of the threads can go on, one does.  Nobody has to send. *)
Fairness == WF_vars(Listener \/ ButtonThread \/ SerialSender)

Spec == Init /\ [][Next]_vars /\ Fairness

-----------------------------------------------------------------------------
TypeOK ==
  /\ path_values \in [Buttons -> Values]
  /\ collect_values \in BOOLEAN
  /\ listener \in [pc : {"wait", "construct", "push", "join"},
                   button : Buttons \cup {Nothing}]
  /\ slot \in {Nothing} \cup [button : Buttons, shade : Shades]
  /\ thread \in [running : BOOLEAN, rest : SUBSET (Buttons \cup Units)]
  /\ node \in [Buttons -> Shades \cup {Nothing}]
  /\ queue \in Seq(Pointers) /\ Len(queue) <= SizeLimit
  /\ entry \in Pointers \cup {Nothing} /\ tested \in BOOLEAN
  /\ lamp \in [Buttons -> Shades \cup {Nothing}]
  /\ told \in [Buttons -> Values]
  /\ newer \subseteq Buttons /\ spoilt \subseteq Buttons

Quiet ==
  /\ ListenerAt("wait") /\ ~collect_values
  /\ thread = Off /\ queue = <<>> /\ entry = Nothing

(* When all is said and done, every lamp shows the last value recorded for *)
(* it, in any order of single values, loads and button threads, but for: a *)
(* packet rebuilt for another button before it went out; one dropped by    *)
(* the full queue or by the end of the button thread; garbage written for  *)
(* one that was gone; a state computed before the last value arrived and   *)
(* sent after it; a lamp that was never set.                               *)
LampsFollow ==
  Quiet => \A b \in Buttons : Right(b, lamp[b]) \/ b \in spoilt

(* Once RNBO is silent the lamps come to rest in that state, unless it has *)
(* not said that a load has ended: then nothing is promised.               *)
LampsSettle ==
  <>[]ListenerAt("wait") =>
    <>[](\A b \in Buttons :
           Right(b, lamp[b]) \/ b \in spoilt \/ collect_values)
=============================================================================
