# A TLA+ model of RainPotsRunner

RainPotsRunner sits between a RainPots control surface (knobs, buttons, preset
buttons, level meters, on a serial line) and a Max/RNBO patch that runs on the
same machine and speaks OSC over UDP. It forwards what the player does to RNBO
and shows on the device what RNBO says.

The modules beside this file model it: the queue between its threads, the data
that two threads share without a lock, the parser of the serial line, the two
ways out, the lamps of the buttons after a preset load, and a knob with its
parameter in RNBO while programs start, crash and are restarted. Three small abstract
modules say what the queue, a variable behind a queue of pointers, and the pick-up of a
parameter promise; the detailed ones implement them. TLC checks each on a small
instance; TLAPS proves the safety properties, the refinements among them, for every value
of the constants.

Source files are cited as in the repository (`src/data/TSQueue.hpp`); PROJECT.json
has every definition's lines.

## 1. The system

### Threads and what they share

| Thread | Code | Waits for | Changes |
|---|---|---|---|
| main | `main.cpp` | the serial port's descriptor, then sleeps | starts the others, `running` |
| serial | `SerialConnector::threadLoop` | a byte from the port | parser state, `DataHandler`, both queues |
| OSC listener | `OscListener::threadLoop` | UDP port 5555 | `DataHandler`, serial queue, the button thread |
| button thread | a lambda in `OscListener::setRainPotsButtons` | starts after a preset load, sleeps between messages | serial queue |
| pinger | `Pinger::threadLoop` | one second | serial queue |
| serial sender | `SerialSender::threadLoop` | serial queue | writes to the port |
| OSC sender | `OscSender::threadLoop` | its own queue | sends to RNBO |

```
  device ==bytes==> serial thread --(400 pointers)--> OSC sender ==UDP==> RNBO
     ^                |       \                                             |
     |                |        \ reads and writes                           |
     |                |       DataHandler (no lock)                         |
     |                |        / reads and writes                           |
     |                v       /                                             |
  serial sender <--(100 pointers)-- OSC listener, button thread, pinger <===+
```

Both queues are `TSQueue`s, whose `push` ignores an item at the limit. They hold
*pointers* to variables that the producers use again. `DataHandler` has no lock.

### Components

| Component | State | Operations | Modelled in |
|---|---|---|---|
| `TSQueue` | the queue, a mutex, a condition variable | `push`, `pop` | `TSQueue`, `BoundedFifo` |
| `DataHandler`, assignment and pick-up | `param_config`, `path_values`, `collect_values` | look-ups, `makeValuePickupMessasge`, `setPathValue`, `clearPathValues`, `updateMetaData`, `unassignControllerByPath`, `loadConfig` | `PickUp` |
| `DataHandler`, values | none | `makeValueFLoat`, `scaleValue`, `formatButtonValue` | `ControlValues`, used by `Takeover` and `ButtonSync` |
| `SerialConnector`, parser | five locals of the loop | one turn of the loop for each byte | `SerialParser`; what follows a packet in `PickUp`, `SerialOut`, `OscOut` |
| `SerialSender` | the entry in hand | `pop`, test, `write` | `SerialOut` |
| `OscListener` | the message in hand, the button thread | one branch for each OSC address | its effect on the data in `PickUp`, on the serial queue in `SerialOut`, on the lamps in `ButtonSync` |
| `OscSender` | the message in hand | registers with RNBO; `pop`, `getOscMessageData`, send | `OscOut`; the registration in `Lifecycle`, what becomes of a message in `Takeover` |
| `Pinger` | none | queues a ping | `SerialOut` |
| `main`, `ThreadClass` | thread handles, `running` | start, busy wait, SIGINT, SIGSEGV, return | `Lifecycle` |
| `tinyosc` | none | OSC encoding (vendored) | not modelled |

### What is hard, and what makes each part correct

The hazards, with their lines, are listed in PROJECT.json. The themes:

* **A queue between threads** (`TSQueue`). No item lost, doubled or reordered; no
  wakeup missed; at the limit a drop, never a wait, because a listener that waits
  reads no socket.
* **A read, a decision and a write-back with no lock** (`DataHandler`). A knob turn
  copies an entry, decides, and copies it back whole, while the listener records
  RNBO's values. A knob must be held back exactly until it has reached the value
  that RNBO announced; a parameter has one knob; an assigned parameter has an
  entry.
* **A lossy line** (`SerialConnector`). No command that nobody gave, and
  resynchronisation after a loss, although the parser looks for a status byte only
  between packets.
* **Pointers to variables that are used again** (both queues). What goes out should
  be what was queued. It is not always; the question is what still holds. A stray byte on
  the lossy line rebuilds such a variable too, with nothing to queue.
* **Threads that wait for threads**. The listener joins the button thread.
* **States computed at one moment and sent at another** (the button thread). Single
  button messages go out while the states of a whole unit wait; "loaded" may be lost.
  Each lamp should end at RNBO's last word.
* **Two memories of one value** (RNBO's and `path_values`), with datagrams between them
  that may be late or lost, and a program that forgets its own when it crashes. A turn
  must not make a value jump; a knob must be able to pick its value up.
* **Start and end**. A port or a thread that is not there, RNBO that is not up yet, a
  SIGINT before there is anything to stop.

## 2. The modules

| Module | Contents |
|---|---|
| `BoundedFifo` | what the callers think a queue is: an item is stored or, at the limit, ignored, in one step; the oldest is taken |
| `TSQueue` | the code of `TSQueue.hpp`: mutex, condition variable, each statement a step; implements `BoundedFifo` |
| `PickUpRule` | what a player expects of one parameter: a turn is judged, in one step, by RNBO's last word and by where the knob has been since |
| `PickUp` | the serial thread and the OSC listener on `DataHandler`; implements `PickUpRule` for each parameter |
| `SerialParser` | device, lossy line and byte-wise parser |
| `Mailbox` | what is left of a queue whose entries are pointers to one variable: the newest packet that is left alone gets out as it is |
| `SerialOut` | the producers of the serial queue, the queue of pointers, `SerialSender`; implements a `Mailbox` for each local |
| `OscOut` | the serial thread as a producer, the queue of pointers, `OscSender`; implements a `Mailbox` |
| `ControlValues` | the conversions between positions, values and lamp states, in thousandths |
| `ButtonSync` | the lamps: single messages, preset loads and the button thread; uses `ControlValues` |
| `Takeover` | one knob, its entry and RNBO's value; uses `ControlValues` |
| `Lifecycle` | the program from start to end, its signals and restarts, RNBO's comings and goings |
| `Session` | `Takeover` and `Lifecycle` composed |
| `MC...` | the instances TLC checks; several cfgs may share one |
| `...Proofs`, `PickUpHistoryProofs` | theorems |

`SerialOut` and `OscOut` take `push` and `pop` as one step each. That `TSQueue`
implements `BoundedFifo` is what licenses this. Since `notify_one` and the mutex
live in `TSQueue`, they do not appear again.

### TSQueue

`pc[t]` is the place of thread `t` in `push` or `pop`, `m_mutex` the holder of the
mutex, `m_queue` the contents. A consumer in `wait()` is `blocked`. `Notify` wakes
some blocked consumer if there is one; `SpuriousWakeup` may wake any at any time,
as the standard allows. Producers and consumers are sets of any size, although the
program has one consumer for each queue: the class does not depend on it.

### PickUp

`param_config` maps controllers to paths, `path_values` paths to entries
(`path_value_t`: `loaded`, `value`, `locked`). `serial` is the serial thread in the
middle of a knob turn (`KnobTurned`, `GetPath`, ..., `Snapshot`, `Decide`, `Store`,
`Send`), `listener` the listener in the middle of a message. Every read and write
of a shared map is a step; a `path_value_t` is copied in two moves, because its
`bool` and `float` lie in one word and the second `bool` in the next; the listener
writes its fields one by one.

`announced`, `picked` and `causes` are history: what RNBO last said, whether the
knob has been there since, and what may have spoilt the entry since. No step of the
code reads them.

Abstractions:
* A map operation is one step. Two threads changing one `std::map` at once may
  break its tree; that undefined behaviour is not followed. The exception that
  matters, `getPathForController`'s test followed by `operator[]` (which may insert
  the path `""`), is two steps.
* Values are `0..MaxValue`; two are equal when they differ by at most `Tolerance`.
  The conversion of a knob's position is in `ControlValues`, the real tolerance of
  0.025 in `Takeover`; here only an unassigned controller matters, which gives -1.
* `OscSender`, the third thread that looks paths up, is not an actor here; its reads are
  in `OscOut`. Its `getPathForController` (`DataHandler.cpp:226`) and, inside
  `makeValueFLoat`, its `controllerIsCentered` (`DataHandler.cpp:208`) can insert `""` too,
  when an assignment is removed between test and read. A knob turn makes both look-ups; in
  this module the one at 226 inserts, and the conversion, with the one at 208, is one step.
* Controllers below 6 are buttons, which are not picked up and not in this module.

### PickUpRule

One parameter as the knobs see it, with no map, copy or assignment in it: RNBO's last word
(`announced`), whether a knob has been there since (`picked`), and the turn that is being
judged. `Judge` decides in one step what `PickUp` decides in a read, a comparison and a
write-back. The rule makes two exceptions and no other: `raced`, RNBO's word was written
since the program began to look, and `spoilt`, such a turn or an unrecorded value came
before; in both the verdict may be any, and RNBO's next word (`Renew`) ends the second.
`PickUp`'s history variables are what the rule's state is mapped to, so the rule says at
what step each of them may change, which an invariant does not.

### SerialParser

The device sends packets of a type, byte by byte; the line may lose any byte. A
byte is known by its packet and its place in it, so that a message can be compared
with what was sent. `SkipByte`, `StartPacket`, `AddByte` and `CompletePacket` are
the turns of the loop. The firmware is not in the repository: that a data byte is
below 0x80 is taken from how the parser tells a status byte. A program started
while the device sends sees a packet from the middle, which is the loss of that
packet's first bytes.

### SerialOut

A *slot* is a variable that pointers in the queue point to. `pickup`, `meter`,
`button` and `ping` are locals of endless loops; `preset` is a local of a function
that returns; a unit's slot is a node of the button thread's map. A producer
constructs an entry in its slot, sets the size and the bytes in the order of the
code (some set the size first, some last), and pushes. `SerialSender` pops, tests
the size, reads it and writes, each a step, and may meet any stage.

A stray byte on the line touches no slot: the serial thread builds its entry, `pickup`,
for a controller's packet only.

The `Makefile` builds with `-g -Wall` and no optimisation, so each of these locals
has a place of its own in its thread's stack, and keeps it from turn to turn. Where
a slot is gone (`Gone`), `SerialSender` may find anything there (`Found`): a
nondeterministic choice. The sleeps between button messages are not modelled; the
steps may take any time.

Each pointer in the queue carries `made`, the packet it stood for when it was
queued, or `None` once its slot was touched. No step of the code reads it.

### OscOut

All pointers are to one variable, `msg` in `SerialConnector::threadLoop`. The serial
thread rebuilds it for every packet (`Construct`, `SetType`, `CopyNumber`, `CopyValue`),
also for a knob turn that it then holds back and does not queue (`HoldBack`). It rebuilds
it for a stray byte as well (`Stray`): outside a packet size and index are both 0, so a
data byte, which comes there after a loss, goes through the block for a complete packet
(`SerialConnector.cpp:105`), with no type and what `packet`, the buffer, holds of the last
one; at the end nothing is queued (`Ignore`), but a command whose pointer is still in the
queue is gone. When a byte is stray is in `SerialParser` (`SkipByte`); here one may come at
any time between packets.

`OscSender` reads it field by
field: the number, the type, a preset's number again for the test and for the name, or the
value, and the type once more before sending; it also looks up the controller's path. Whether a turn is
held back is a choice here; `PickUp` says when it is.

Four variables are history: `newest`, the command that was built last, if it was queued;
`wiped`, a stray byte came while `OscSender` was not done with it; `moved`, a controller was
assigned anew since; `held`, `msg` is a turn that was held back. `wiped` does not say that
the command was lost, and a stray byte that comes when nothing is underway does not set it:
what was sent then stays.

`getPathForController`'s test and read are one step here, as are those of
`controllerIsCentered`, and a controller with the path
`""` counts as unassigned: nothing is sent for either, unless the controller is assigned
anew between the steps, which `moved` records. Socket errors are not modelled: the code ignores the result of `sendto`.

### Mailbox

`SerialOut` and `OscOut` have the same shape, and `Mailbox` states it: an owner rewrites a
content (`Alter`) and leaves a notice (`Announce`), drops the packet (`Withdraw`), or ends
with nothing in the mailbox, as after a stray byte (`Empty`); a reader who finds a notice is `bound` to take the content, or may be `torn` between two.
The queue's length, the other pointers in it, and the fields and their order are gone. What
stays: a notice is never lost, only used up by a reader who comes to it; a reader who
began when the packet was finished, and was not disturbed, takes exactly that; one who finds
the mailbox empty takes nothing. So a packet may be lost though its notice is not. One notice
stands for any number of pointers, so `Begin` may leave it there. In `OscOut` the content
is what the message *leads to*, which a reassignment changes too; a reader may read a field
again and so come to agree with the new packet (`Agree`). A unit's slot is no mailbox: it
does not last until it is read.

### ControlValues

`makeValueFLoat` cuts its result to three digits, so values are integers in
thousandths. The module computes them in integers throughout (1.0 is 51 100, a position
100, so that the centre and its margin are integers too); for all 512 positions the
results are those of the code's float arithmetic. `formatButtonValue` gives a lamp's
state from a value and the number of steps.

### ButtonSync

`Value` is a button's value that arrives: recorded, and outside a load turned into a
packet in the listener's one variable (`Construct`, `Push`). `Load` and `PresetLoaded` are
the two ends of a load; `StartThread` is the rest of `setRainPotsButtons` with its join.
The button thread computes the states button by button (`Make`), pushes a packet for each
unit (`PushUnit`) and takes its map with it (`EndThread`). `SerialSender` is `Pop`, `Test`,
`Write`.

`told`, `newer` and `spoilt` are history: RNBO's last word, the buttons whose computed
state it has overtaken, and those on whose way to the lamp something went wrong.

Abstractions:
* A packet is what a lamp shows of it. The stages of a packet under construction and all
  kinds of packets are in `SerialOut`; here a packet is empty or complete.
* Pointers to packets that concern no lamp are left out. Because they may fill the queue
  at any time, any push may be ignored; `spoilt` then has the buttons concerned.
* Which parameter a button drives is fixed; `PickUp` reassigns.
* A pointer to memory that is gone shows anything on any lamps.

### Takeover, Lifecycle, Session

`Takeover` is the pick-up seen from both ends. `entry` is the program's `path_values`
entry, `rnbo` RNBO's value, `back` the datagrams from RNBO to the program. A knob turn
(`Turn`) and the arrival of a value (`Deliver`) are one step each: `PickUp` has their steps
and shows when two of them spoil an entry. `queued` stands for `OscOut`: pointers to the
single `msg` are in the queue, and since when something else has happened
(`"overtaken"`); that a stray byte may wipe one is among the ways in which `Send` comes to
nothing. `Change` is anybody else who sets the parameter, `Clear` a preset load,
`Lose` a lost datagram, `Send` a turn that reaches RNBO or not, and is echoed or not. At a
difference of exactly 0.025 the comparison depends on how floats were rounded, so
`Actions` is a set.

`Lifecycle` goes through `main()` place by place. `pthread_create` may fail, which `start`
does not tell (`Started`); the serial thread publishes its descriptor with a port or without
(`OpenPort`); `OscSender` registers once (`Register`). `handle_sigint` sends SIGKILL through
handles of which one is never assigned: by where `main` is, nothing happens yet, the
process is killed, or the null pointer crashes it. `handler_sigsev` exits with 1, after which
the service manager restarts the program (`Restart`; external: `README.md:67` of the
repository has `Restart=on-failure`). `Crash` is any crash. `Return` destroys objects that threads use: the
process may end, crash, abort, or hang in the destructor of a condition variable with a
waiter. Threads that go on between a crash and the exit do nothing that they might
not have done before it. `configured` is only ever set: a reload that fails half-way is in
`PickUp`.

`Session` says which of `Takeover`'s steps a program in a given state takes (`Handled`,
`Hearing`), and that a process that ends takes the entry with it (`Forget`). RNBO itself is
external: that it answers, repeats, comes back with another value and may do each of them
or not is all that is assumed.

## 3. What the runs show

| Run | Module, cfg | Checks | Outcome |
|---|---|---|---|
| `tsqueue` | `MCTSQueue` | `TypeOK`, `CriticalSection`, `NoLostWakeup`, refinement `ImplementsBoundedFifo`, liveness `PushReturns`, `StoredItemsAreServed` | holds |
| `pickup` | `MCPickUp` | `TypeOK`, `StaleHasCause`, `KnobObeysAnnouncement`, refinement `ImplementsRule` | holds |
| `pickup_assignment` | `MCPickUpAssignment` | `InjectiveAssignment`, `AssignedHaveEntry`, `AssignmentTakesEffect` | holds |
| `pickup_overlap` | `MCPickUpOverlap` | `RecordedValueIsKept` | violated |
| `serial_parser` | `MCSerialParser` | `TypeOK`, `CommandsWereSent`, `IntactPacketArrives` | holds |
| `serial_out` | `MCSerialOut` | `TypeOK`, `NewestArrives`, `UntouchedIsWritten`, refinement `ImplementsMailboxes`, liveness `ShownOrReplaced`, `ListenerReturns` | holds |
| `serial_out_gone` | `MCSerialOutGone` | `WrittenWereMade` | violated |
| `osc_out` | `MCOscOut` | `TypeOK`, `NewestArrives`, `UntouchedIsSent`, refinement `ImplementsMailbox`, liveness `SentOrReplaced` | holds |
| `osc_out_reserved` | `MCOscOutReserved` | `ReservedIsNotSaved` | violated |
| `osc_out_held_back` | `MCOscOutHeldBack` | `HeldBackIsNotSent` | violated |
| `buttons` | `MCButtonSync` | `TypeOK`, `LampsFollow`, liveness `LampsSettle` | holds |
| `session` | `MCSession` | `TypeOK`, `HintLeadsThere`, actions `NoJump`, `SweepPicksUp`, `OwnValueHoldsNot`, liveness `StartupCompletes`, `SigintIsObeyed` | holds |

Distinct states of the passing runs: `tsqueue` 2 355, `pickup` 839 731,
`pickup_assignment` 2 735 874, `serial_parser` 284 923, `serial_out` 162 653, `osc_out`
819 640, `buttons` 1 089 580, `session` 188 679; the longest takes about three minutes
with two workers.

What holds, in words:

* `NoLostWakeup`: while a consumer sleeps, every stored item has a thread on its way
  to it. `ImplementsBoundedFifo`: the code with its mutex is a bounded queue with
  atomic operations.
* `StaleHasCause`: an entry disagrees with what RNBO announced only if the listener
  wrote to it while a knob turn was using its copy, or if RNBO's value came while no
  knob drove the parameter (then the code drops it). No other interleaving does harm,
  and the next value repairs the entry. `KnobObeysAnnouncement`: barring these, a knob
  is held back exactly when it should be, and the device shows the right direction.
* `ImplementsRule`: the same with its history. For each parameter, whichever controllers
  drive it one after the other, every step of either thread is one of the rule's or none
  of its business: what RNBO announced is forgotten only when RNBO says something else, a
  knob counts as having been there only by a turn that was, and a turn is held back or let
  through by both. A turn is spoilt only by a word of RNBO's that was written while it was
  being judged.
* `InjectiveAssignment`, `AssignedHaveEntry`: over every order of meta data, reloads
  (also ones that fail half-way) and knob turns, no parameter has two knobs, and none
  that has one lacks an entry. `AssignmentTakesEffect`: the assignment that meta data ask
  for is made, unless the knob that was just released is turned between test and insert:
  then its turn has put `""` there, and `insert` leaves that (`DataHandler.cpp:451`).
* `CommandsWereSent`, `IntactPacketArrives`: a lost byte may spoil one command's
  value and merge two packets. It never makes a load or save out of data and never
  repeats one, and a packet that follows two intact ones arrives as it was sent.
* `NewestArrives`, in both ways out: packets may be lost, or seen half built, when
  they come faster than the queue drains; but when a slot's last `push` was accepted
  and nothing is underway, what went out last is what the slot holds. In the way out to RNBO
  a stray byte after a loss on the line can lose the newest command as well, but only one
  that `OscSender` is not done with when the byte comes (`wiped`). This is why
  queueing pointers mostly goes unnoticed: each variable's reader ends at the newest packet
  in it. It does not make every *lamp* or *parameter* do so, when one variable serves
  several; that is `LampsFollow`'s question.
  `UntouchedIsWritten` and `UntouchedIsSent`: as long as nobody touches a slot
  before it is read, what goes out is what was queued.
* `ImplementsMailboxes`, `ImplementsMailbox`: each variable that lasts is a mailbox towards
  the device or RNBO. `NewestArrives` speaks of the states in which nothing is underway; this
  says of every step what may be taken, that no notice is lost, and that only a packet
  touched while it was read may come out mixed up. A packet whose notice is there can be
  lost in two ways: a newer one takes its place, or, on the way to RNBO, a stray byte
  leaves the mailbox empty (`Empty`), and the reader who comes for it finds nothing.
* `ShownOrReplaced`, `SentOrReplaced`: every accepted packet goes out, or makes way for a
  newer one; on the way to RNBO also for a new assignment, or a stray byte comes before
  `OscSender` is done with it.
* `ListenerReturns`: the listener's `join` ends.
* `LampsFollow`: when all is quiet, each lamp shows RNBO's last word, in any order of
  single messages, loads and button threads, except for five ways to go wrong which
  the invariant names: the listener's packet was rebuilt for another button before it went
  out (`OscListener.cpp:174`); it was dropped by the full queue, or the unit's by the end
  of the button thread; garbage went out for a packet that was gone; a unit's state
  was overtaken by a newer value and sent after it (`OscListener.cpp:238`); the lamp was
  never set. Anything else that has gone wrong is made good by the lamp's next packet.
  `LampsSettle`: this state is reached once RNBO is silent, unless its "loaded" was lost,
  in which case the program collects for ever (`OscListener.cpp:128`).
* `NoJump`: a turn moves RNBO's value by at most 0.025, unless the value came from that
  knob, or the program did not know RNBO's value: it had heard nothing since it
  started or a load began, or RNBO's value was underway or lost, or the sender was slower
  than what followed the turn. After a restart the knob sends from its first turn on,
  whatever RNBO's value, until a value arrives: `~entry.loaded` is in the exceptions
  because the code treats "nothing known" as "picked up".
* `SweepPicksUp`: a knob turned towards the value meets it, when consecutive samples
  are at most 22 positions apart; the device never asks to turn up and next to turn down.
* `HintLeadsThere`: the device never asks for the impossible. In the direction it shows there
  is a position at which the knob picks the value up, however floats were rounded; with
  values cut to thousandths, a flat middle and two slopes, that is not plain at 0, 1 and the
  middle's edges.
* `OwnValueHoldsNot`: RNBO's repetition of a value that the knob gave itself does not hold
  the knob back while it is at most 11 positions further.
* `StartupCompletes`: after a crash the program is back, and `main` passes its busy wait
  with or without a port and RNBO, unless the serial thread could not be created, or the
  program crashes again or gets a SIGINT.
  `SigintIsObeyed`: SIGINT ends the program whenever it comes, though by a null
  pointer; before there is a sender, `main` first starts everything and then returns. The
  two exceptions are a `main` that waits for a serial thread that was not created, and
  one that hangs in a destructor as it returns.

### Where the code and its comments disagree

1. `pickup_overlap`. A knob turn reads an entry; RNBO's value is recorded; the turn
   writes its old copy back, and the announced value is gone. The comment above the
   write-back (`src/data/DataHandler.cpp:76`) says it "should avoid a race condition";
   line 79 says "FIXME: should be thread safe".
2. `serial_out_gone`. The button thread queues pointers to nodes of its own map and
   ends; `SerialSender` then tests and writes freed memory. `src/serial/SerialSender.cpp:12`
   has a work-around for a size that is "sometimes ... negative" and asks to "find real
   cause". The `cfg` leaves the loops' locals out (`Locals = {}`): this is the cause. The
   same holds for `setRainPotsButtons`' own local.
3. `osc_out_reserved`. `getOscMessageData` tests a preset's number against 0 and reads
   it again for the name. In between, the serial thread's constructor may have blanked
   it, and "000" is saved, which `src/osc/OscSender.cpp:71` says must not be.
4. `osc_out_held_back`. A button's pointer is queued; a knob turn is built in the same
   variable and held back; `OscSender` comes to the pointer and sends the knob's value.
   `src/serial/SerialConnector.cpp:147` says such a turn "neads to be picked up" first.

### Bounds, and why they are enough

* `MCTSQueue`: two producers, two consumers, two items, limit 2. A full queue with a
  producer at the test, both consumers asleep with two notifications underway, and a
  spurious wakeup racing a notified one all occur.
* `MCPickUp`: two knobs and one parameter, so that the parameter can move between
  knobs while it is being picked up; values 0..2 with tolerance 1, so that two values
  can be near, and a third be near to one of them only. `Debug` is TRUE here, which adds
  the branch that catches unusable meta data; the assignment run has FALSE. Knobs are
  interchangeable (no step orders or names one), so `Symmetry` permutes them. The
  properties are invariants and a refinement that is judged step by step and names no
  knob; for both this is sound.
* `MCPickUpAssignment`: two knobs and two parameters, the fewest with which a knob
  can be taken and a parameter be in two places. One value: which it is does not
  influence assignments.
* `MCPickUpOverlap`: one knob, one parameter: the race needs no more.
* `MCSerialParser`: five packets, three losses (`MaxPackets`, `MaxLosses`). A loss
  costs the parser at most the packet it hits and the next two, and two such episodes
  can touch. `CHECK_DEADLOCK FALSE`, because a conversation of five packets ends.
* `MCSerialOut`: one local that is rebuilt (`pickup`), the listener's `preset`, and
  one unit; limit 2. Three different producers, one of each kind, can fill the queue.
  The four locals differ in whether size or bytes come first, which `SizeFirst` keeps;
  theorems cover all of them and any number of units.
* `MCOscOut`: numbers 0 (a button, the reserved preset) and 1 (a knob); values 0 and 1;
  one parameter, which either controller may drive; limit 2. Stray bytes may come between any
  two packets, as many as like, since what they do to `msg` does not depend on how many
  bytes were lost.
* `MCButtonSync`: one unit with two buttons, of two and of three states; values 0 and
  1000; limit 2. Two buttons are the fewest with which the listener's variable is rebuilt for
  another one, and one unit's packet holds an overtaken state and a right one. A lamp depends
  on its own unit's packet only; theorems cover any number of units, buttons and values.
* `MCSession`: positions 281, 292, 303 and 314 of a centred knob (values 500, 523, 547,
  571), where the flat middle meets the steepest slope; samples at most 22 apart (`MaxStep`);
  RNBO's own values 475 and 541, on either side; one datagram underway (`MaxLag`). 22 is the
  exact limit for `SweepPicksUp`: 22 positions are at most 48 thousandths, less than the
  window's two halves of 25, and a knob that is turned faster than that does pass by
  (`DataHandler.cpp:60`). 11 positions are at most 24, less than one half.
  Deadlock is checked in both runs.

Limits 100 and 400 are constants in the models. Nothing depends on them but the test
in `push`, which 2 exercises as well, and the proofs hold for every limit above 0.

### Fairness

* `TSQueue`: a thread inside a function goes on (weak fairness of its next step). A
  thread that finds the mutex free again and again gets it (strong fairness of
  `Lock`): pthread mutexes promise no order, but the critical sections are a few
  instructions and the scheduler does not starve a thread for ever. Nothing is
  assumed of when a producer calls `push`.
* `SerialOut`: `SerialSender`, the button thread and the listener inside
  `setRainPotsButtons` go on, and a producer that has begun an entry finishes it.
  Their loops contain no wait but sleeps and `pop`. Nothing makes a producer begin.
* `OscOut`: `OscSender` goes on, and the serial thread finishes a packet it has begun.
* `ButtonSync`: as long as the listener inside a handler, the button thread or
  `SerialSender` can go on, one of them does (weak fairness of their union, which is less
  than fairness of each). Nobody has to send.
* `Session`: weak fairness of the union of what `main`, the threads it starts, the handler of
  SIGSEGV and the service manager do next. Nobody has to turn a knob, RNBO need not answer
  or start, no signal has to come.

## 4. What is proved

For every value of the constants that satisfies the named assumptions. Each
inductive invariant was first checked by TLC.

| Module | Theorems |
|---|---|
| `TSQueueProofs` | `TypeCorrect`, `MutexProtects`, `WakeupsNotLost`, `Refinement` |
| `PickUpProofs` | `TypeCorrect`, `AssignmentInjective`, `AssignedParametersTracked`, `AssignmentEffective` |
| `PickUpHistoryProofs` | `OnlyTwoCauses` (`StaleHasCause`), `KnobsObey` (`KnobObeysAnnouncement`), `RuleRefinement` (`ImplementsRule`) |
| `SerialParserProofs` | `TypeCorrect`, `OnlySentCommands`, `Resynchronises` |
| `SerialOutProofs` | `TypeCorrect`, `NewestAlwaysArrives`, `UntouchedWritten`, `MailboxRefinement` (`ImplementsMailboxes`) |
| `OscOutProofs` | `TypeCorrect`, `NewestAlwaysArrives`, `UntouchedSent`, `MailboxRefinement` (`ImplementsMailbox`) |
| `ButtonSyncProofs` | `TypeCorrect`, `LampsFollowed` (`LampsFollow`) |
| `SessionProofs` | `TypeCorrect`, `NeverJumps` (`NoJump`), `SweepsPickUp` (`SweepPicksUp`), `HintsLeadThere` (`HintLeadsThere`), `OwnValuesHoldNothing` (`OwnValueHoldsNot`) |

* **TSQueue** (`ThreadsAssumption`, `QueueAssumption`: producers and consumers are
  disjoint finite sets, the limit is positive, the special values are not items). The
  invariant is the type, *items in transit* (a producer between entry and store
  holds an item, and a consumer between front and return does) and the critical
  section. `NoLostWakeup` counts threads, so its proof
  counts too: each step changes the cardinality of the awake or of the notifying by at
  most one, and the number of items with it. `Refinement` maps a step to a step
  of `BoundedFifo` or a stutter; it needs items in transit to know that the item stored
  is the one offered.
* **PickUp, assignment** (`NamesAssumption`, `ValuesAssumption`, `EntryAssumption`).
  Neither property is inductive: they depend on where the listener is. `SerialOK` and
  `ListenerOK` record what each thread's local state implies, e.g. that before `assign`
  the path is unassigned and has an entry, and that `load` may finish only when every
  declared path has its entry. `EffectInv` adds that a controller found free stays so
  until it is assigned, or got the path `""`.
* **PickUp, history**. `Tracked(p)` is `Agrees(p)` weakened to what holds while either
  thread is changing the entry; `ActionTracked` carries the decision from
  `Decide` to `Send`. `RuleRefinement` needs both, to know that the copy a turn decides by
  is RNBO's word, and one fact more: a turn that has not looked yet has not been overtaken
  (`Early`). One lemma for each action that is a step of the rule says which (`WriteRule`,
  `RenewRule`, `DecideRule`, ...); for all others one lemma says that they leave a
  parameter's rule alone.
* **SerialParser** (`BoundsAssumption`). The invariant relates the buffer to the packets
  its bytes come from: they are in order, the first is a status byte, its type is that of
  its packet, and everything delivered is older. Resynchronisation needs, in addition,
  how far the parser may lag behind the line: inside a packet after a loss, at most two
  packets.
* **SerialOut** (`LocalsAssumption`, `UnitsAssumption`, `LimitAssumption`,
  `BodiesAssumption`). `NewestOK`: for an accepted, finished slot, a pointer is
  queued, or `SerialSender` has one in hand and will write it, or it is what is shown.
  `UntouchedInv`: a pointer whose packet is remembered points to a slot that
  still holds it, with a positive size. `MailboxRefinement` needs neither, but that a slot
  that was announced and not touched since has a positive size (`Sized`): otherwise a
  reader who skips it would lose the notice.
* **OscOut** (`NumbersAssumption`, `PathsAssumption`, `LimitAssumption`,
  `NoneAssumption`). The same shape: the newest command is in `msg`, and the queue is not
  empty or `OscSender` will send what `msg` says (`WillSend`, one case for each of its
  places), which is `Arriving`; or it was sent and no pointer is left that could undo that
  (`Arrived`). A stray byte leaves `Arrived` alone, and whatever is `Arriving` is underway,
  so that it counts as `wiped`. `Filled` says that `msg` is filled field by field from the
  packet. `WillSend`, or that `msg` has no type, is also what *bound* means for
  `MailboxRefinement`: a reader who is bound to an empty mailbox takes nothing. Each read of
  the sender takes, agrees, or changes nothing the mailbox knows of.
* **ButtonSync** (`ButtonsAssumption`). `LampsFollow` speaks of quiet states only;
  `LampInv(b)` says of every state where the right packet for `b`'s lamp is: in the lamp,
  on its way in the listener's variable or in a unit's packet, or still to be
  made by the listener or the button thread; `StaleInv(b)` that a single packet with an old state of `b`
  goes out before the unit's; `ThreadInv` what the thread has computed so far, and which
  of its states have been overtaken.
* **Session** (`KnobAssumption`). Lemmas give `makeValueFLoat`'s three pieces
  (`CenteredPieces`) and how far it rises over some positions (`ValueSlope`); every step of
  the composition is one of a few kinds for the knob (`KnobSteps`). `KnownInv`, for `NoJump`:
  what the program knows is RNBO's value, or the value is on its way or was lost, and
  what is queued and not overtaken is within the window. `ShownInv`, for `SweepPicksUp`:
  what the device was told last agrees with the position; `HintsLeadThere` adds to it a
  witness for every value: a position whose value is within 3 thousandths of it, by one lemma
  for each of the conversion's pieces. `SweepsPickUp` assumes
  `MaxStep <= 22`; the others hold for every `MaxStep`.

The refinements are of safety: that a notice is answered and a turn goes on is
`ShownOrReplaced`, `SentOrReplaced` and, for `TSQueue`, `StoredItemsAreServed`.
`ImplementsRule` and `ImplementsMailboxes` spell a refinement for each parameter or slot
out as its initial condition and its steps, since TLC takes no quantifier over
specifications.

Only model-checked: the liveness properties (`PushReturns`, `StoredItemsAreServed`,
`ShownOrReplaced`, `ListenerReturns`, `SentOrReplaced`, `LampsSettle`, `StartupCompletes`,
`SigintIsObeyed`), which need `ENABLED`, out of
the prover's reach; and the counterexamples. No module uses a `RECURSIVE` operator.

## 5. What is not modelled

* `tinyosc`: vendored, and pure encoding. OSC and UDP formats; regular expressions that
  choose a branch; `extractParmFromJson`'s preset index map, which nothing reads.
* Installation scripts and notes, build files: no program state. Of the unit file only
  `Restart=on-failure` is used.
* The serial port's settings (`termios`) and `select`; sockets; command-line options but
  `-d`; printing and `log/`; the stack trace that the SIGSEGV handler prints.
* Time: the second between pings, the 20 ms between button messages, the 200 microseconds
  after a message (`OscListener.cpp:101`). Steps may take any time, which includes these.
* Corruption of a `std::map` by two threads at once (`DataHandler.cpp:259`): undefined
  behaviour that leaves nothing to say about what follows; the one listed hazard without
  a property.
* Errors of `write` and `sendto`, whose results the code ignores.

## 6. Plan

Done: `TSQueue`, `PickUp`, `SerialParser`, `SerialOut`, `OscOut`, `ControlValues`,
`ButtonSync`, `Takeover`, `Lifecycle`, `Session`, with proofs of every invariant and of the
knob's action properties; `BoundedFifo`, `Mailbox` and `PickUpRule` with proofs that the
detailed modules implement them. What could still be added:

1. `ButtonSync` and `Takeover` on top of `Mailbox` instead of their own cut-down queues.
2. That `Takeover`'s one-step `Turn` and `Deliver`, whose values are the code's, judge as
   `PickUpRule` does, whose `Look`, `Judge` and `Answer` they make in one; that would tie
   the two ends of the pick-up together.
3. `OscSender` as a third actor of `PickUp`, for the path `""` that its look-up may insert.
