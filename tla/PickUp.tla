------------------------------- MODULE PickUp -------------------------------
(***************************************************************************)
(* The DataHandler that two threads share without a lock: which controller *)
(* drives which parameter (param_config) and what RNBO last said about     *)
(* each parameter (path_values).                                           *)
(*                                                                         *)
(* The serial thread handles knob turns.  While a knob's position differs  *)
(* from the value RNBO announced, the turn is not forwarded and the device *)
(* shows which way to turn; once the knob has reached the value, the       *)
(* parameter is "locked" to it (makeValuePickupMessasge).                  *)
(*                                                                         *)
(* The OSC listener's thread applies what RNBO sends: parameter values,    *)
(* the start and end of a preset load, meta data that assigns a parameter  *)
(* to a controller, and reloads of the whole configuration.                *)
(*                                                                         *)
(* Each read and each write of the shared maps is a step of its own.  A    *)
(* path_value_t is copied in two moves, {loaded, value} and {locked}, as   *)
(* the compiler does it, and the listener writes its fields one by one.    *)
(* A map operation itself (a find, an insertion, an erasure, the           *)
(* assignment of param_config) is one step.                                *)
(***************************************************************************)
EXTENDS Integers, FiniteSets

CONSTANTS
  Controllers,   \* knobs, each a unit and a controller number >= 6
  NoController,  \* a parameter declared, or sent, without unit or ctl
  Paths,         \* normalized OSC paths of the parameters
  NoPath,        \* the controller is not in param_config
  EmptyPath,     \* the path "", which operator[] gives a new controller
  MaxValue,      \* knob positions and parameter values are 0..MaxValue
  Tolerance,     \* values that differ by at most this are equal (0.025f)
  NoEntry,       \* the path is not in path_values
  Nothing,       \* no announced value
  Debug          \* the -d option

Values == 0 .. MaxValue

ASSUME NamesAssumption ==
  /\ NoController \notin Controllers
  /\ NoPath \notin Paths /\ EmptyPath \notin Paths /\ NoPath # EmptyPath
  /\ Nothing \notin Values

ASSUME ValuesAssumption ==
  MaxValue \in Nat /\ Tolerance \in Nat /\ Debug \in BOOLEAN

(* makeValueFLoat's result for an unassigned controller, -1 in the code:   *)
(* below every value by more than the tolerance.                           *)
Unassigned == -1 - Tolerance

Entry == [loaded : BOOLEAN, value : Values, locked : BOOLEAN]

ASSUME EntryAssumption == NoEntry \notin Entry

(* Mutation of NewEntry: the value is not initialised to one in range.     *)
NewEntry_NotInitialised == [loaded |-> FALSE, value |-> Unassigned, locked |-> FALSE]

(* A path_value_t as its constructor leaves it.                            *)
NewEntry == [loaded |-> FALSE, value |-> 0, locked |-> FALSE]

VARIABLES
  param_config,    \* the parameter each controller drives
  path_values,     \* the entry of each parameter
  collect_values,  \* a preset is being loaded
  serial,          \* the serial thread, in makeValuePickupMessasge
  listener,        \* the OSC listener's thread, in threadLoop

  (* History, which no step of the code reads.                             *)
  announced,  \* the value RNBO last sent since the entry was last reset
  picked,     \* a knob was seen at that value since then
  causes      \* what may have made the entry wrong since then

code == <<param_config, path_values, collect_values, serial, listener>>
history == <<announced, picked, causes>>
vars == <<code, history>>

Near(a, b) == a - b \in -Tolerance .. Tolerance

Present(p) == p \in Paths /\ path_values[p] # NoEntry

(* The configurations loadConfig may build from a document that declares   *)
(* parameter p for controller doc[p]: of several parameters declared for   *)
(* one controller, the one met first gets it.                              *)
Documents == [Paths -> Controllers \cup {NoController}]

ConfigsOf(doc) ==
  {config \in [Controllers -> Paths \cup {NoPath}] :
     \A c \in Controllers :
       IF \E p \in Paths : doc[p] = c
       THEN config[c] \in Paths /\ doc[config[c]] = c
       ELSE config[c] = NoPath}

NoDocument == [p \in Paths |-> NoController]

SerialIdle == [pc |-> "read", ctl |-> NoController, raw |-> 0, path |-> NoPath,
               value |-> 0, state |-> NewEntry, action |-> "locked",
               overtaken |-> FALSE]

ListenerIdle == [pc |-> "wait", path |-> NoPath, value |-> 0,
                 ctl |-> NoController, rest |-> {}, doc |-> NoDocument]

(* main loads the configuration before it starts the threads; if RNBO does *)
(* not answer yet, the configuration stays empty.                          *)
Init ==
  /\ \E doc \in Documents :
       /\ param_config \in ConfigsOf(doc)
       /\ path_values = [p \in Paths |->
                           IF doc[p] = NoController THEN NoEntry ELSE NewEntry]
  /\ collect_values = FALSE
  /\ serial = SerialIdle
  /\ listener = ListenerIdle
  /\ announced = [p \in Paths |-> Nothing]
  /\ picked = [p \in Paths |-> FALSE]
  /\ causes = [p \in Paths |-> {}]

-----------------------------------------------------------------------------
(* The serial thread: one CC packet of a knob.                             *)

SerialAt(here) == serial.pc = here

AssignedAt(c) == param_config[c] # NoPath

(* From the first move of the snapshot to the last write-back.             *)
InWindow(p) ==
  serial.path = p /\ serial.pc \in {"snapshot_locked", "store", "store_locked"}

(* The listener is between the first and the last write to p's entry.      *)
Rewriting(p) ==
  /\ listener.path = p
  /\ listener.pc \in {"set_value", "set_locked", "clear_loaded", "clear_locked"}

KnobTurned(c, v) ==
  /\ SerialAt("read")
  /\ serial' = [SerialIdle EXCEPT !.ctl = c, !.raw = v,
                  !.pc = IF AssignedAt(c) THEN "get_path" ELSE "send"]
  /\ UNCHANGED <<param_config, path_values, collect_values, listener, history>>

(* getPathForController tests again and returns "" if the assignment is    *)
(* gone; no entry has that path.                                           *)
GetPath ==
  /\ SerialAt("get_path")
  /\ serial' = [serial EXCEPT
                  !.pc = IF AssignedAt(serial.ctl) THEN "read_path" ELSE "send"]
  /\ UNCHANGED <<param_config, path_values, collect_values, listener, history>>

(* It then reads through operator[]: if the assignment has gone in between,*)
(* this creates one to the path "".                                        *)
ReadPath ==
  /\ SerialAt("read_path")
  /\ LET c == serial.ctl
         p == IF AssignedAt(c) THEN param_config[c] ELSE EmptyPath
     IN  /\ serial' = [serial EXCEPT !.pc = "find", !.path = p]
         /\ param_config' = [param_config EXCEPT ![c] = p]
  /\ UNCHANGED <<path_values, collect_values, listener, history>>

Find ==
  /\ SerialAt("find")
  /\ serial' = [serial EXCEPT
                  !.pc = IF Present(serial.path) THEN "convert" ELSE "send"]
  /\ UNCHANGED <<param_config, path_values, collect_values, listener, history>>

Convert ==
  /\ SerialAt("convert")
  /\ serial' = [serial EXCEPT !.pc = "snapshot",
                  !.value = IF AssignedAt(serial.ctl) THEN serial.raw ELSE Unassigned]
  /\ UNCHANGED <<param_config, path_values, collect_values, listener, history>>

(* The copy of the entry, first move; operator[] creates an entry that was *)
(* erased since Find.                                                      *)
Snapshot ==
  /\ SerialAt("snapshot")
  /\ LET p == serial.path
         e == IF Present(p) THEN path_values[p] ELSE NewEntry
     IN  /\ path_values' = [path_values EXCEPT ![p] = e]
         /\ serial' = [serial EXCEPT !.pc = "snapshot_locked",
                         !.state.loaded = e.loaded, !.state.value = e.value,
                         !.overtaken = Rewriting(p)]
  /\ UNCHANGED <<param_config, collect_values, listener, history>>

(* Mutation of Action: only a knob that is too high is held back.          *)
Action_OneSided(e, v) ==
  IF e.locked \/ ~e.loaded \/ v <= e.value + Tolerance THEN "locked" ELSE "turn_down"

(* What a knob at position v does to a parameter in state e.               *)
Action(e, v) ==
  IF e.locked \/ ~e.loaded \/ Near(v, e.value) THEN "locked"
  ELSE IF v > e.value THEN "turn_down" ELSE "turn_up"

(* The copy's second move, from freed memory if the entry was erased since *)
(* the first, and the decision.                                            *)
Decide ==
  /\ SerialAt("snapshot_locked")
  /\ LET p == serial.path IN
     \E locked \in IF Present(p) THEN {path_values[p].locked} ELSE BOOLEAN :
       LET e == [serial.state EXCEPT !.locked = locked]
           action == Action(e, serial.value)
       IN  /\ serial' = [serial EXCEPT !.state = e, !.action = action,
                           !.pc = IF action = "locked" /\ ~e.locked
                                  THEN "store" ELSE "send"]
           /\ picked' = [picked EXCEPT ![p] =
                @ \/ (announced[p] # Nothing /\ Near(serial.value, announced[p]))]
           /\ causes' = [causes EXCEPT ![p] =
                IF serial.overtaken THEN @ \cup {"race"} ELSE @]
  /\ UNCHANGED <<param_config, path_values, collect_values, listener, announced>>

(* The copy back, first move: operator[] creates the entry if it is gone.  *)
Store ==
  /\ SerialAt("store")
  /\ LET p == serial.path
         e == IF Present(p) THEN path_values[p] ELSE NewEntry
     IN  path_values' = [path_values EXCEPT ![p] =
           [e EXCEPT !.loaded = serial.state.loaded, !.value = serial.state.value]]
  /\ serial' = [serial EXCEPT !.pc = "store_locked"]
  /\ UNCHANGED <<param_config, collect_values, listener, history>>

(* Second move, lost in freed memory if the entry was erased in between.   *)
StoreLocked ==
  /\ SerialAt("store_locked")
  /\ LET p == serial.path IN
     /\ path_values' = IF Present(p)
                       THEN [path_values EXCEPT ![p].locked = TRUE]
                       ELSE path_values
     /\ causes' = [causes EXCEPT ![p] =
                     IF serial.overtaken THEN @ \cup {"race"} ELSE @]
  /\ serial' = [serial EXCEPT !.pc = "send"]
  /\ UNCHANGED <<param_config, collect_values, listener, announced, picked>>

(* The indicator goes to the device, and a "locked" turn to the OscSender. *)
Send ==
  /\ SerialAt("send")
  /\ serial' = SerialIdle
  /\ UNCHANGED <<param_config, path_values, collect_values, listener, history>>

-----------------------------------------------------------------------------
(* The listener's thread.                                                  *)

ListenerAt(here) == listener.pc = here

(* A write to p's entry overtakes a knob turn that has already read it.    *)
Overtake(p) ==
  serial' = IF serial.path = p /\ serial.pc \in
                 {"snapshot_locked", "store", "store_locked", "send"}
            THEN [serial EXCEPT !.overtaken = TRUE] ELSE serial

(* p's entry starts anew, with value v announced or with Nothing.          *)
Reset(p, v) ==
  /\ announced' = [announced EXCEPT ![p] = v]
  /\ picked' = [picked EXCEPT ![p] = FALSE]
  /\ causes' = [causes EXCEPT ![p] = {}]

(* A parameter's value arrives.  While a preset loads it is recorded for   *)
(* every known parameter, otherwise only for one a controller drives.      *)
Records(p) ==
  Present(p) /\ (collect_values \/ \E c \in Controllers : param_config[c] = p)

Value(p, v) ==
  /\ ListenerAt("wait")
  /\ Records(p)
  /\ path_values' = [path_values EXCEPT ![p].loaded = TRUE]
  /\ listener' = [listener EXCEPT !.pc = "set_value", !.path = p, !.value = v]
  /\ Overtake(p)
  /\ Reset(p, v)
  /\ UNCHANGED <<param_config, collect_values>>

SetValue ==
  /\ ListenerAt("set_value")
  /\ path_values' = [path_values EXCEPT ![listener.path].value = listener.value]
  /\ listener' = [listener EXCEPT !.pc = "set_locked"]
  /\ Overtake(listener.path)
  /\ UNCHANGED <<param_config, collect_values, history>>

(* Mutation of SetLocked: a new value leaves the parameter locked.         *)
SetLocked_Forgotten ==
  /\ ListenerAt("set_locked")
  /\ listener' = ListenerIdle
  /\ Overtake(listener.path)
  /\ UNCHANGED <<param_config, path_values, collect_values, history>>

SetLocked ==
  /\ ListenerAt("set_locked")
  /\ path_values' = [path_values EXCEPT ![listener.path].locked = FALSE]
  /\ listener' = ListenerIdle
  /\ Overtake(listener.path)
  /\ UNCHANGED <<param_config, collect_values, history>>

(* A value for a parameter that is known but not recorded.                 *)
ValueIgnored(p, v) ==
  /\ ListenerAt("wait")
  /\ ~Records(p)
  /\ announced[p] # Nothing
  /\ announced' = [announced EXCEPT ![p] = v]
  /\ picked' = [picked EXCEPT ![p] = FALSE]
  /\ causes' = [causes EXCEPT ![p] = @ \cup {"ignored"}]
  /\ UNCHANGED code

(* presets/load: clearPathValues, entry by entry in the map's order, which *)
(* is any order of the paths; then values are collected.                   *)
PresetLoad ==
  /\ ListenerAt("wait")
  /\ listener' = [listener EXCEPT !.pc = "clear", !.rest = Paths]
  /\ UNCHANGED <<param_config, path_values, collect_values, serial, history>>

ClearValue(p) ==
  /\ ListenerAt("clear")
  /\ p \in listener.rest
  /\ Present(p)
  /\ path_values' = [path_values EXCEPT ![p].value = 0]
  /\ listener' = [listener EXCEPT !.pc = "clear_loaded", !.path = p,
                    !.rest = @ \ {p}]
  /\ Overtake(p)
  /\ Reset(p, Nothing)
  /\ UNCHANGED <<param_config, collect_values>>

(* The iterator passes the place where p would be.                         *)
ClearAbsent(p) ==
  /\ ListenerAt("clear")
  /\ p \in listener.rest
  /\ ~Present(p)
  /\ listener' = [listener EXCEPT !.rest = @ \ {p}]
  /\ UNCHANGED <<param_config, path_values, collect_values, serial, history>>

ClearLoaded ==
  /\ ListenerAt("clear_loaded")
  /\ path_values' = [path_values EXCEPT ![listener.path].loaded = FALSE]
  /\ listener' = [listener EXCEPT !.pc = "clear_locked"]
  /\ Overtake(listener.path)
  /\ UNCHANGED <<param_config, collect_values, history>>

ClearLocked ==
  /\ ListenerAt("clear_locked")
  /\ path_values' = [path_values EXCEPT ![listener.path].locked = FALSE]
  /\ listener' = [listener EXCEPT !.pc = "clear", !.path = NoPath]
  /\ Overtake(listener.path)
  /\ UNCHANGED <<param_config, collect_values, history>>

ClearDone ==
  /\ ListenerAt("clear")
  /\ listener.rest = {}
  /\ collect_values' = TRUE
  /\ listener' = ListenerIdle
  /\ UNCHANGED <<param_config, path_values, serial, history>>

(* presets/loaded.  (What it sends to the device is not modelled here.)    *)
PresetLoaded ==
  /\ ListenerAt("wait")
  /\ collect_values' = FALSE
  /\ UNCHANGED <<param_config, path_values, serial, listener, history>>

-----------------------------------------------------------------------------
(* .../meta: unassignControllerByPath takes the parameter off its          *)
(* controller and erases its entry; updateMetaData then erases the entry   *)
(* once more, assigns the new controller and adds a new entry.             *)

(* Mutation of Unassign: updateMetaData does not release the parameter.    *)
Unassign_Forgotten(p) == p \in Paths /\ UNCHANGED param_config

(* The first controller found that drives p is released.                   *)
Unassign(p) ==
  \/ \E c \in Controllers :
       /\ param_config[c] = p
       /\ param_config' = [param_config EXCEPT ![c] = NoPath]
  \/ /\ \A c \in Controllers : param_config[c] # p
     /\ UNCHANGED param_config

(* Meta data for p that name controller c.                                 *)
Meta(p, c) ==
  /\ ListenerAt("wait")
  /\ Unassign(p)
  /\ listener' = [listener EXCEPT !.pc = "erase", !.path = p, !.ctl = c]
  /\ UNCHANGED <<path_values, collect_values, serial, history>>

(* Meta data that name none: empty, or without a "rainpots" node, a unit   *)
(* or a ctl; or, unless debugging, a unit, ctl, center or steps of the     *)
(* wrong type.                                                             *)
MetaWithoutController(p) ==
  /\ ListenerAt("wait")
  /\ Unassign(p)
  /\ listener' = [listener EXCEPT !.pc = "erase_only", !.path = p]
  /\ UNCHANGED <<path_values, collect_values, serial, history>>

(* Meta data that cannot be used, when debugging: p is unassigned, again   *)
(* if it was already, and everything is loaded anew.                       *)
MetaUnusable(p, doc) ==
  /\ ListenerAt("wait")
  /\ Debug
  /\ Unassign(p)
  /\ listener' = [listener EXCEPT !.pc = "erase", !.path = p, !.doc = doc]
  /\ UNCHANGED <<path_values, collect_values, serial, history>>

EraseEntry(next) ==
  /\ path_values' = [path_values EXCEPT ![listener.path] = NoEntry]
  /\ listener' = next
  /\ Overtake(listener.path)
  /\ Reset(listener.path, Nothing)
  /\ UNCHANGED <<param_config, collect_values>>

(* How often the entry is erased before the handler gives up depends on    *)
(* where it does: up to twice, or three times when debugging.  Here it may *)
(* be erased any number of times.                                          *)
EraseOnly ==
  /\ ListenerAt("erase_only")
  /\ \E next \in {ListenerIdle, listener} : EraseEntry(next)

Erase ==
  /\ ListenerAt("erase")
  /\ \E next \in IF listener.ctl = NoController
                 THEN {"erase", "load"} ELSE {"erase_again"} :
       EraseEntry([listener EXCEPT !.pc = next])

EraseAgain ==
  /\ ListenerAt("erase_again")
  /\ EraseEntry([listener EXCEPT !.pc = "assign"])

(* updateMetaData inserts an assignment for a controller that has none, or *)
(* overwrites the one it has; then the entry of the parameter driven so    *)
(* far stays behind.  insert() does nothing if ReadPath came in between.   *)
Assign ==
  /\ ListenerAt("assign")
  /\ listener' = [listener EXCEPT
       !.pc = IF AssignedAt(listener.ctl) THEN "overwrite" ELSE "add"]
  /\ UNCHANGED <<param_config, path_values, collect_values, serial, history>>

AssignTo(config) ==
  /\ param_config' = config
  /\ listener' = [listener EXCEPT !.pc = "insert"]
  /\ UNCHANGED <<path_values, collect_values, serial, history>>

(* Mutation of Overwrite: insert() is used here too.                       *)
Overwrite_Inserts ==
  /\ ListenerAt("overwrite")
  /\ AssignTo([param_config EXCEPT
                 ![listener.ctl] = IF @ = NoPath THEN listener.path ELSE @])

Overwrite ==
  /\ ListenerAt("overwrite")
  /\ AssignTo([param_config EXCEPT ![listener.ctl] = listener.path])

Add ==
  /\ ListenerAt("add")
  /\ AssignTo([param_config EXCEPT
                 ![listener.ctl] = IF @ = NoPath THEN listener.path ELSE @])

(* Mutation of Insert: a parameter assigned by meta data gets no entry.    *)
Insert_Forgotten ==
  /\ ListenerAt("insert")
  /\ listener' = ListenerIdle
  /\ UNCHANGED <<param_config, path_values, collect_values, serial, history>>

(* insert() leaves an entry alone that is there again.                     *)
Insert ==
  /\ ListenerAt("insert")
  /\ path_values' = [path_values EXCEPT ![listener.path] =
                       IF @ = NoEntry THEN [NewEntry EXCEPT !.locked = TRUE] ELSE @]
  /\ listener' = ListenerIdle
  /\ UNCHANGED <<param_config, collect_values, serial, history>>

-----------------------------------------------------------------------------
(* getParams(true): loadConfig fetches the document, adds an entry for     *)
(* every parameter it declares and then replaces param_config.  Entries of *)
(* parameters that are no longer declared stay, and so do old values.      *)

Reload(doc) ==
  /\ ListenerAt("wait")
  /\ listener' = [listener EXCEPT !.pc = "load", !.doc = doc]
  /\ UNCHANGED <<param_config, path_values, collect_values, serial, history>>

LoadEntry(p) ==
  /\ ListenerAt("load")
  /\ listener.doc[p] # NoController
  /\ ~Present(p)
  /\ path_values' = [path_values EXCEPT ![p] = NewEntry]
  /\ UNCHANGED <<param_config, collect_values, serial, listener, history>>

Loaded == \A p \in Paths : listener.doc[p] # NoController => Present(p)

LoadConfig ==
  /\ ListenerAt("load")
  /\ Loaded
  /\ param_config' \in ConfigsOf(listener.doc)
  /\ listener' = ListenerIdle
  /\ UNCHANGED <<path_values, collect_values, serial, history>>

(* The document cannot be read, or not to its end: param_config stays.     *)
LoadFails ==
  /\ ListenerAt("load")
  /\ listener' = ListenerIdle
  /\ UNCHANGED <<param_config, path_values, collect_values, serial, history>>

-----------------------------------------------------------------------------
SerialNext ==
  \/ \E c \in Controllers, v \in Values : KnobTurned(c, v)
  \/ GetPath \/ ReadPath \/ Find \/ Convert
  \/ Snapshot \/ Decide \/ Store \/ StoreLocked \/ Send

ListenerNext ==
  \/ \E p \in Paths :
       \/ \E v \in Values : Value(p, v) \/ ValueIgnored(p, v)
       \/ ClearValue(p) \/ ClearAbsent(p)
       \/ \E c \in Controllers : Meta(p, c)
       \/ MetaWithoutController(p)
       \/ \E doc \in Documents : MetaUnusable(p, doc)
       \/ LoadEntry(p)
  \/ SetValue \/ SetLocked
  \/ PresetLoad \/ ClearLoaded \/ ClearLocked \/ ClearDone \/ PresetLoaded
  \/ EraseOnly \/ Erase \/ EraseAgain \/ Assign \/ Overwrite \/ Add \/ Insert
  \/ \E doc \in Documents : Reload(doc)
  \/ LoadConfig \/ LoadFails

Next == SerialNext \/ ListenerNext

Spec == Init /\ [][Next]_vars

-----------------------------------------------------------------------------
SerialType ==
  [pc : {"read", "get_path", "read_path", "find", "convert", "snapshot",
         "snapshot_locked", "store", "store_locked", "send"},
   ctl : Controllers \cup {NoController}, raw : Values,
   path : Paths \cup {EmptyPath, NoPath}, value : Values \cup {Unassigned},
   state : Entry, action : {"locked", "turn_up", "turn_down"},
   overtaken : BOOLEAN]

ListenerType ==
  [pc : {"wait", "set_value", "set_locked", "clear", "clear_loaded",
         "clear_locked", "erase_only", "erase", "erase_again", "assign",
         "overwrite", "add", "insert", "load"},
   path : Paths \cup {NoPath}, value : Values,
   ctl : Controllers \cup {NoController}, rest : SUBSET Paths, doc : Documents]

(* Type invariant.                                                         *)
TypeOK ==
  /\ param_config \in [Controllers -> Paths \cup {EmptyPath, NoPath}]
  /\ path_values \in [Paths -> Entry \cup {NoEntry}]
  /\ collect_values \in BOOLEAN
  /\ serial \in SerialType
  /\ listener \in ListenerType
  /\ announced \in [Paths -> Values \cup {Nothing}]
  /\ picked \in [Paths -> BOOLEAN]
  /\ causes \in [Paths -> SUBSET {"race", "ignored"}]

(* No parameter is driven by two knobs.  getUnitCtlIndexFromPath relies on *)
(* it: it returns the first controller it finds, so that a second one      *)
(* would survive unassignControllerByPath and never get a button message.  *)
InjectiveAssignment ==
  \A c, d \in Controllers :
    param_config[c] \in Paths /\ param_config[c] = param_config[d] => c = d

(* A parameter that a knob drives has an entry, or gets it in the step     *)
(* that follows its assignment.  Without one RNBO's values for it would be *)
(* dropped (setPathValue) and its knob would never be held back.           *)
AssignedHaveEntry ==
  \A c \in Controllers :
    param_config[c] \in Paths =>
      \/ Present(param_config[c])
      \/ listener.pc = "insert" /\ listener.path = param_config[c]

(* The assignment that meta data ask for takes effect, whatever the        *)
(* controller drove before and whatever the knobs do meanwhile, with one   *)
(* exception: the turn of a knob that was just released creates the path   *)
(* "" for it first, and insert() leaves that.                              *)
AssignmentTakesEffect ==
  listener.pc = "insert" => param_config[listener.ctl] \in {listener.path, EmptyPath}

(* The entry of p says what RNBO announced and what the knob has done.     *)
Agrees(p) ==
  LET e == path_values[p] IN
  /\ e.loaded <=> announced[p] # Nothing
  /\ e.loaded => e.value = announced[p] /\ (e.locked <=> picked[p])

(* Neither thread is changing the entry of p.                              *)
AtRest(p) == Present(p) /\ ~InWindow(p) /\ ~Rewriting(p)

(* Whenever an entry is wrong there is one of two causes: the listener     *)
(* wrote to it while the serial thread, having read it, had still to act   *)
(* on it; or RNBO's value came while no knob drove the parameter.  No      *)
(* other interleaving of the two threads does harm, and the next recorded  *)
(* value, clearing or erasure repairs the entry.                           *)
StaleHasCause ==
  \A p \in Paths : AtRest(p) /\ causes[p] = {} => Agrees(p)

(* The promise of picking up: a knob's turn is held back exactly when RNBO *)
(* announced a value that the knob has not been at since, with the         *)
(* indicator the right way.  It may fail where StaleHasCause allows.       *)
KnobObeysAnnouncement ==
  LET p == serial.path
      v == announced[p]
  IN  serial.pc = "send" /\ Present(p) /\ ~serial.overtaken /\ causes[p] = {} =>
        CASE serial.action = "locked"    -> v = Nothing \/ picked[p]
          [] serial.action = "turn_up"   -> v # Nothing /\ ~picked[p] /\ serial.value < v
          [] serial.action = "turn_down" -> v # Nothing /\ ~picked[p] /\ serial.value > v

(* The turn that the serial thread handles, if it is of a knob that drives *)
(* p and has looked at p's entry.                                          *)
TurnOf(p) ==
  IF serial.path # p THEN "none"
  ELSE CASE serial.pc = "snapshot_locked"                  -> "looking"
         [] serial.pc \in {"store", "store_locked", "send"} -> serial.action
         [] OTHER                                          -> "none"

Rule(p) == INSTANCE PickUpRule WITH
  Positions <- Values \cup {Unassigned},
  announced <- announced[p],
  picked    <- picked[p],
  spoilt    <- causes[p] # {},
  writing   <- Rewriting(p),
  turn      <- TurnOf(p),
  raced     <- TurnOf(p) # "none" /\ serial.overtaken

(* However the steps of the two threads interleave, however parameters are *)
(* assigned and entries come and go: towards the knobs every parameter     *)
(* obeys the rule of picking up, whose decision falls in one step.         *)
(* That is Rule(p)!Spec for every p in Paths, in a form TLC can check.     *)
ImplementsRule ==
  /\ \A p \in Paths : Rule(p)!Init
  /\ [][\A p \in Paths : [Rule(p)!Next]_(Rule(p)!vars)]_vars

(* What the FIXME at DataHandler.cpp:79 asks for: once neither thread is   *)
(* changing an entry, a value that RNBO announced and the program recorded *)
(* is still there, even if a knob was turned meanwhile.                    *)
RecordedValueIsKept ==
  \A p \in Paths :
    AtRest(p) /\ causes[p] \subseteq {"race"} /\ announced[p] # Nothing =>
      path_values[p].loaded /\ path_values[p].value = announced[p]
=============================================================================
