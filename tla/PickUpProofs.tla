---------------------------- MODULE PickUpProofs ----------------------------
(***************************************************************************)
(* What is proved of PickUp for any knobs, parameters, values and          *)
(* tolerance.                                                              *)
(***************************************************************************)
EXTENDS PickUp, TLAPS

(* Where each thread is, the parameter and the controller it works on are  *)
(* real ones.                                                              *)
SerialOK ==
  /\ serial.pc # "read" => serial.ctl \in Controllers
  /\ serial.pc \in {"convert", "snapshot", "snapshot_locked", "store", "store_locked"} =>
       serial.path \in Paths

(* The pcs of the handlers that rewrite an entry, and of a meta handler up *)
(* to the step that assigns its parameter.                                 *)
Rewrites == {"set_value", "set_locked", "clear_loaded", "clear_locked"}
Unassigns == {"erase_only", "erase", "erase_again", "assign", "overwrite", "add"}

ListenerOK ==
  /\ listener.pc \in Rewrites => Present(listener.path)
  /\ listener.pc \in Unassigns \cup {"insert"} => listener.path \in Paths
  /\ listener.pc \in Unassigns =>
       \A c \in Controllers : param_config[c] # listener.path
  /\ listener.pc \in {"erase_again", "assign", "overwrite", "add"} => listener.ctl \in Controllers

(* The inductive invariant.  That no knob drives the parameter a meta      *)
(* handler is about to assign is what keeps the assignment injective, and  *)
(* what allows it to erase the parameter's entry.                          *)
Inv ==
  /\ TypeOK
  /\ SerialOK
  /\ ListenerOK
  /\ InjectiveAssignment
  /\ AssignedHaveEntry

-----------------------------------------------------------------------------
LEMMA ValueFacts ==
  /\ 0 \in Values
  /\ \A v \in Values : v \in Int
  /\ Unassigned \in Int
  /\ NewEntry \in Entry
BY ValuesAssumption DEF Values, Unassigned, NewEntry, Entry

(* Each step of the serial thread leaves it in a state of its type...      *)
LEMMA SerialStepType ==
  ASSUME Inv, SerialNext
  PROVE  serial' \in SerialType
<1> USE NamesAssumption, EntryAssumption, ValueFacts
<1> USE DEF Inv, TypeOK, SerialOK, SerialAt, SerialType
<1>1. ASSUME NEW c \in Controllers, NEW v \in Values, KnobTurned(c, v)
      PROVE  serial' \in SerialType
  BY <1>1 DEF KnobTurned, SerialIdle
<1>2. CASE GetPath
  BY <1>2 DEF GetPath, Entry, SerialIdle, Present
<1>3. CASE ReadPath
  BY <1>3 DEF ReadPath, Entry, SerialIdle, Present
<1>4. CASE Find
  BY <1>4 DEF Find, Entry, SerialIdle, Present
<1>5. CASE Convert
  BY <1>5 DEF Convert, Entry, SerialIdle, Present
<1>6. CASE Snapshot
  <2> DEFINE p == serial.path
             e == IF Present(p) THEN path_values[p] ELSE NewEntry
  <2>1. e \in Entry
    BY DEF Present
  <2>2. e.loaded \in BOOLEAN /\ e.value \in Values
    BY <2>1 DEF Entry
  <2>3. Rewriting(p) \in BOOLEAN
    BY DEF Rewriting
  <2>4. serial' = [serial EXCEPT !.pc = "snapshot_locked",
                     !.state.loaded = e.loaded, !.state.value = e.value,
                     !.overtaken = Rewriting(p)]
    BY <1>6 DEF Snapshot
  <2> HIDE DEF p, e
  <2>5. [serial.state EXCEPT !.loaded = e.loaded, !.value = e.value] \in Entry
    BY <2>2 DEF Entry
  <2>6. serial' = [serial EXCEPT !.pc = "snapshot_locked",
                     !.state = [serial.state EXCEPT !.loaded = e.loaded, !.value = e.value],
                     !.overtaken = Rewriting(p)]
    BY <2>4
  <2> QED
    BY <2>3, <2>5, <2>6
<1>7. CASE Decide
  <2>1. PICK locked \in BOOLEAN :
          LET e == [serial.state EXCEPT !.locked = locked]
          IN  serial' = [serial EXCEPT !.state = e, !.action = Action(e, serial.value),
                           !.pc = IF Action(e, serial.value) = "locked" /\ ~e.locked
                                  THEN "store" ELSE "send"]
    BY ZenonT(60), <1>7 DEF Decide, Present, Entry
  <2> DEFINE e == [serial.state EXCEPT !.locked = locked]
  <2>2. e \in Entry
    BY <2>1 DEF Entry
  <2>3. Action(e, serial.value) \in {"locked", "turn_up", "turn_down"}
    BY DEF Action
  <2> HIDE DEF e
  <2>4. serial' = [serial EXCEPT !.state = e, !.action = Action(e, serial.value),
                     !.pc = IF Action(e, serial.value) = "locked" /\ ~e.locked
                            THEN "store" ELSE "send"]
    BY <2>1 DEF e
  <2> QED
    BY <2>2, <2>3, <2>4
<1>8. CASE Store
  BY <1>8 DEF Store, Entry, SerialIdle, Present
<1>9. CASE StoreLocked
  BY <1>9 DEF StoreLocked, Entry, SerialIdle, Present
<1>10. CASE Send
  BY <1>10 DEF Send, Entry, SerialIdle, Present
<1> QED
  BY <1>1, <1>2, <1>3, <1>4, <1>5, <1>6, <1>7, <1>8, <1>9, <1>10 DEF SerialNext

(* ... and the shared maps and the history of theirs,                      *)
LEMMA SerialStepMaps ==
  ASSUME Inv, SerialNext
  PROVE  /\ param_config' \in [Controllers -> Paths \cup {EmptyPath, NoPath}]
         /\ path_values' \in [Paths -> Entry \cup {NoEntry}]
         /\ collect_values' = collect_values
         /\ listener' = listener
         /\ announced' = announced
         /\ picked' \in [Paths -> BOOLEAN]
         /\ causes' \in [Paths -> SUBSET {"race", "ignored"}]
<1> USE NamesAssumption, EntryAssumption, ValueFacts
<1> USE DEF Inv, TypeOK, SerialOK, SerialAt, SerialType, history
<1>1. ASSUME NEW c \in Controllers, NEW v \in Values, KnobTurned(c, v)
      PROVE  UNCHANGED <<param_config, path_values, collect_values, listener, history>>
  BY <1>1 DEF KnobTurned
<1>2. CASE GetPath
  BY <1>2 DEF GetPath, Entry, Present
<1>3. CASE ReadPath
  BY <1>3 DEF ReadPath, Entry, Present
<1>4. CASE Find
  BY <1>4 DEF Find, Entry, Present
<1>5. CASE Convert
  BY <1>5 DEF Convert, Entry, Present
<1>6. CASE Snapshot
  BY <1>6 DEF Snapshot, Entry, Present
<1>7. CASE Decide
  BY <1>7 DEF Decide, Entry, Present
<1>8. CASE Store
  BY ZenonT(60), <1>8 DEF Store, Entry, Present
<1>9. CASE StoreLocked
  BY <1>9 DEF StoreLocked, Entry, Present
<1>10. CASE Send
  BY <1>10 DEF Send, Entry, Present
<1> QED
  BY <1>1, <1>2, <1>3, <1>4, <1>5, <1>6, <1>7, <1>8, <1>9, <1>10 DEF SerialNext

(* ... and does what the listener relies on: it only ever assigns a        *)
(* controller to the path "", and never takes an entry away.               *)
LEMMA SerialStepHarmless ==
  ASSUME Inv, SerialNext
  PROVE  /\ \A c \in Controllers :
              param_config'[c] = param_config[c] \/ param_config'[c] = EmptyPath
         /\ \A p \in Paths : path_values[p] # NoEntry => path_values'[p] # NoEntry
         /\ SerialOK'
<1> USE NamesAssumption, EntryAssumption, ValueFacts
<1> USE DEF Inv, TypeOK, SerialOK, SerialAt, SerialType, history
<1>1. ASSUME NEW c \in Controllers, NEW v \in Values, KnobTurned(c, v)
      PROVE  UNCHANGED <<param_config, path_values>> /\ SerialOK'
  BY <1>1 DEF KnobTurned, SerialIdle
<1>2. CASE GetPath
  BY <1>2 DEF GetPath, Entry, Present, SerialIdle, NewEntry
<1>3. CASE ReadPath
  BY <1>3 DEF ReadPath, Entry, Present, SerialIdle, NewEntry
<1>4. CASE Find
  BY <1>4 DEF Find, Entry, Present, SerialIdle, NewEntry
<1>5. CASE Convert
  BY <1>5 DEF Convert, Entry, Present, SerialIdle, NewEntry
<1>6. CASE Snapshot
  BY <1>6 DEF Snapshot, Entry, Present, SerialIdle, NewEntry
<1>7. CASE Decide
  BY <1>7 DEF Decide, Entry, Present, SerialIdle, NewEntry
<1>8. CASE Store
  BY ZenonT(60), <1>8 DEF Store, Entry, Present, SerialIdle, NewEntry
<1>9. CASE StoreLocked
  BY ZenonT(60), <1>9 DEF StoreLocked, Entry, Present, SerialIdle, NewEntry
<1>10. CASE Send
  BY <1>10 DEF Send, Entry, Present, SerialIdle, NewEntry
<1> QED
  BY <1>1, <1>2, <1>3, <1>4, <1>5, <1>6, <1>7, <1>8, <1>9, <1>10 DEF SerialNext

LEMMA SerialStepInv ==
  ASSUME Inv, SerialNext
  PROVE  Inv'
<1>1. TypeOK'
  BY SerialStepType, SerialStepMaps DEF Inv, TypeOK
<1>2. ListenerOK'
  BY SerialStepMaps, SerialStepHarmless, NamesAssumption
  DEF Inv, TypeOK, ListenerOK, Present, Rewrites, Unassigns, ListenerType
<1>3. InjectiveAssignment'
  BY SerialStepHarmless, NamesAssumption DEF Inv, InjectiveAssignment
<1>4. AssignedHaveEntry'
  BY SerialStepMaps, SerialStepHarmless, NamesAssumption
  DEF Inv, AssignedHaveEntry, Present
<1> QED
  BY <1>1, <1>2, <1>3, <1>4, SerialStepHarmless DEF Inv

-----------------------------------------------------------------------------
(* The listener only ever marks a knob turn as overtaken.                  *)
LEMMA OvertakeFacts ==
  ASSUME Inv, NEW p, Overtake(p)
  PROVE  /\ serial' \in SerialType
         /\ serial'.pc = serial.pc /\ serial'.ctl = serial.ctl
         /\ serial'.path = serial.path
BY DEF Inv, TypeOK, SerialType, Overtake

(* Writing one field of an entry, or adding an entry, leaves every entry   *)
(* that is there in place.                                                 *)
LEMMA EntryWrites ==
  ASSUME Inv, NEW p \in Paths, NEW e \in Entry,
         path_values' = [path_values EXCEPT ![p] = e]
  PROVE  /\ path_values' \in [Paths -> Entry \cup {NoEntry}]
         /\ path_values'[p] # NoEntry
         /\ \A q \in Paths : path_values[q] # NoEntry => path_values'[q] # NoEntry
BY EntryAssumption DEF Inv, TypeOK

LEMMA FieldWrites ==
  ASSUME NEW e \in Entry, NEW v \in Values, NEW b \in BOOLEAN
  PROVE  /\ [e EXCEPT !.loaded = b] \in Entry
         /\ [e EXCEPT !.value = v] \in Entry
         /\ [e EXCEPT !.locked = b] \in Entry
BY DEF Entry

LEMMA ListenerIdleFacts ==
  /\ ListenerIdle \in ListenerType
  /\ ListenerIdle.pc = "wait"
BY ValueFacts DEF ListenerIdle, ListenerType, NoDocument, Documents

LEMMA ListenerStepSerial ==
  ASSUME Inv, ListenerNext
  PROVE  serial' \in SerialType /\ SerialOK'
<1>1. serial' = serial => serial' \in SerialType /\ SerialOK'
  BY DEF Inv, TypeOK, SerialOK
<1>2. \A p : Overtake(p) => serial' \in SerialType /\ SerialOK'
  BY OvertakeFacts DEF Inv, SerialOK
<1> QED
  BY <1>1, <1>2
  DEF ListenerNext, Value, ValueIgnored, ClearValue, ClearAbsent, Meta,
      MetaWithoutController, MetaUnusable, LoadEntry, SetValue, SetLocked,
      PresetLoad, ClearLoaded, ClearLocked, ClearDone, PresetLoaded, EraseOnly,
      Erase, EraseAgain, EraseEntry, Assign, Overwrite, Add, AssignTo, Insert,
      Reload, LoadConfig, LoadFails, code

LEMMA ListenerStepType ==
  ASSUME Inv, ListenerNext
  PROVE  listener' \in ListenerType
<1> USE NamesAssumption, ListenerIdleFacts
<1> USE DEF Inv, TypeOK, ListenerOK, ListenerAt, ListenerType, Unassigns
<1>1. ASSUME NEW p \in Paths, NEW v \in Values, Value(p, v)
      PROVE  listener' \in ListenerType
  BY <1>1 DEF Value, Reset
<1>2. ASSUME NEW p \in Paths, NEW v \in Values, ValueIgnored(p, v)
      PROVE  listener' \in ListenerType
  BY <1>2 DEF ValueIgnored, code
<1>3. ASSUME NEW p \in Paths, ClearValue(p)
      PROVE  listener' \in ListenerType
  BY <1>3 DEF ClearValue, Reset
<1>4. ASSUME NEW p \in Paths, ClearAbsent(p)
      PROVE  listener' \in ListenerType
  BY <1>4 DEF ClearAbsent
<1>5. ASSUME NEW p \in Paths, NEW c \in Controllers, Meta(p, c)
      PROVE  listener' \in ListenerType
  BY <1>5 DEF Meta, Unassign
<1>6. ASSUME NEW p \in Paths, MetaWithoutController(p)
      PROVE  listener' \in ListenerType
  BY <1>6 DEF MetaWithoutController, Unassign
<1>7. ASSUME NEW p \in Paths, NEW doc \in Documents, MetaUnusable(p, doc)
      PROVE  listener' \in ListenerType
  BY <1>7 DEF MetaUnusable, Unassign
<1>8. ASSUME NEW p \in Paths, LoadEntry(p)
      PROVE  listener' \in ListenerType
  BY <1>8 DEF LoadEntry
<1>9. ASSUME NEW doc \in Documents, Reload(doc)
      PROVE  listener' \in ListenerType
  BY <1>9 DEF Reload
<1>10. CASE SetValue
  BY <1>10 DEF SetValue
<1>11. CASE SetLocked
  BY <1>11 DEF SetLocked
<1>12. CASE PresetLoad
  BY <1>12 DEF PresetLoad
<1>13. CASE ClearLoaded
  BY <1>13 DEF ClearLoaded
<1>14. CASE ClearLocked
  BY <1>14 DEF ClearLocked
<1>15. CASE ClearDone
  BY <1>15 DEF ClearDone
<1>16. CASE PresetLoaded
  BY <1>16 DEF PresetLoaded
<1>17. CASE EraseOnly
  BY <1>17 DEF EraseOnly, EraseEntry, Reset
<1>18. CASE Erase
  BY <1>18 DEF Erase, EraseEntry, Reset
<1>19. CASE EraseAgain
  BY <1>19 DEF EraseAgain, EraseEntry, Reset
<1>20. CASE Assign
  BY <1>20 DEF Assign
<1>21. CASE Overwrite
  BY <1>21 DEF Overwrite, AssignTo
<1>22. CASE Add
  BY <1>22 DEF Add, AssignTo
<1>23. CASE Insert
  BY <1>23 DEF Insert
<1>24. CASE LoadConfig
  BY <1>24 DEF LoadConfig, ConfigsOf, Loaded
<1>25. CASE LoadFails
  BY <1>25 DEF LoadFails
<1> QED
  BY <1>1, <1>2, <1>3, <1>4, <1>5, <1>6, <1>7, <1>8, <1>9, <1>10, <1>11, <1>12, <1>13,
     <1>14, <1>15, <1>16, <1>17, <1>18, <1>19, <1>20, <1>21, <1>22, <1>23, <1>24, <1>25
  DEF ListenerNext

LEMMA ListenerStepMaps ==
  ASSUME Inv, ListenerNext
  PROVE  /\ param_config' \in [Controllers -> Paths \cup {EmptyPath, NoPath}]
         /\ path_values' \in [Paths -> Entry \cup {NoEntry}]
         /\ collect_values' \in BOOLEAN
         /\ announced' \in [Paths -> Values \cup {Nothing}]
         /\ picked' \in [Paths -> BOOLEAN]
         /\ causes' \in [Paths -> SUBSET {"race", "ignored"}]
<1> USE NamesAssumption, ValueFacts
<1> USE DEF Inv, TypeOK, ListenerOK, ListenerAt, ListenerType, Unassigns, Rewrites,
        Present, Entry, history
<1>1. ASSUME NEW p \in Paths, NEW v \in Values, Value(p, v)
      PROVE  /\ param_config' \in [Controllers -> Paths \cup {EmptyPath, NoPath}]
             /\ path_values' \in [Paths -> Entry \cup {NoEntry}]
             /\ collect_values' \in BOOLEAN
             /\ announced' \in [Paths -> Values \cup {Nothing}]
             /\ picked' \in [Paths -> BOOLEAN]
             /\ causes' \in [Paths -> SUBSET {"race", "ignored"}]
  BY ZenonT(60), <1>1 DEF Value, Reset, Records
<1>2. ASSUME NEW p \in Paths, NEW v \in Values, ValueIgnored(p, v)
      PROVE  /\ param_config' \in [Controllers -> Paths \cup {EmptyPath, NoPath}]
             /\ path_values' \in [Paths -> Entry \cup {NoEntry}]
             /\ collect_values' \in BOOLEAN
             /\ announced' \in [Paths -> Values \cup {Nothing}]
             /\ picked' \in [Paths -> BOOLEAN]
             /\ causes' \in [Paths -> SUBSET {"race", "ignored"}]
  BY <1>2 DEF ValueIgnored, code
<1>3. ASSUME NEW p \in Paths, ClearValue(p)
      PROVE  /\ param_config' \in [Controllers -> Paths \cup {EmptyPath, NoPath}]
             /\ path_values' \in [Paths -> Entry \cup {NoEntry}]
             /\ collect_values' \in BOOLEAN
             /\ announced' \in [Paths -> Values \cup {Nothing}]
             /\ picked' \in [Paths -> BOOLEAN]
             /\ causes' \in [Paths -> SUBSET {"race", "ignored"}]
  BY <1>3 DEF ClearValue, Reset
<1>4. ASSUME NEW p \in Paths, ClearAbsent(p)
      PROVE  /\ param_config' \in [Controllers -> Paths \cup {EmptyPath, NoPath}]
             /\ path_values' \in [Paths -> Entry \cup {NoEntry}]
             /\ collect_values' \in BOOLEAN
             /\ announced' \in [Paths -> Values \cup {Nothing}]
             /\ picked' \in [Paths -> BOOLEAN]
             /\ causes' \in [Paths -> SUBSET {"race", "ignored"}]
  BY <1>4 DEF ClearAbsent
<1>5. ASSUME NEW p \in Paths, NEW c \in Controllers, Meta(p, c)
      PROVE  /\ param_config' \in [Controllers -> Paths \cup {EmptyPath, NoPath}]
             /\ path_values' \in [Paths -> Entry \cup {NoEntry}]
             /\ collect_values' \in BOOLEAN
             /\ announced' \in [Paths -> Values \cup {Nothing}]
             /\ picked' \in [Paths -> BOOLEAN]
             /\ causes' \in [Paths -> SUBSET {"race", "ignored"}]
  BY <1>5 DEF Meta, Unassign
<1>6. ASSUME NEW p \in Paths, MetaWithoutController(p)
      PROVE  /\ param_config' \in [Controllers -> Paths \cup {EmptyPath, NoPath}]
             /\ path_values' \in [Paths -> Entry \cup {NoEntry}]
             /\ collect_values' \in BOOLEAN
             /\ announced' \in [Paths -> Values \cup {Nothing}]
             /\ picked' \in [Paths -> BOOLEAN]
             /\ causes' \in [Paths -> SUBSET {"race", "ignored"}]
  BY <1>6 DEF MetaWithoutController, Unassign
<1>7. ASSUME NEW p \in Paths, NEW doc \in Documents, MetaUnusable(p, doc)
      PROVE  /\ param_config' \in [Controllers -> Paths \cup {EmptyPath, NoPath}]
             /\ path_values' \in [Paths -> Entry \cup {NoEntry}]
             /\ collect_values' \in BOOLEAN
             /\ announced' \in [Paths -> Values \cup {Nothing}]
             /\ picked' \in [Paths -> BOOLEAN]
             /\ causes' \in [Paths -> SUBSET {"race", "ignored"}]
  BY <1>7 DEF MetaUnusable, Unassign
<1>8. ASSUME NEW p \in Paths, LoadEntry(p)
      PROVE  /\ param_config' \in [Controllers -> Paths \cup {EmptyPath, NoPath}]
             /\ path_values' \in [Paths -> Entry \cup {NoEntry}]
             /\ collect_values' \in BOOLEAN
             /\ announced' \in [Paths -> Values \cup {Nothing}]
             /\ picked' \in [Paths -> BOOLEAN]
             /\ causes' \in [Paths -> SUBSET {"race", "ignored"}]
  BY <1>8 DEF LoadEntry
<1>9. ASSUME NEW doc \in Documents, Reload(doc)
      PROVE  /\ param_config' \in [Controllers -> Paths \cup {EmptyPath, NoPath}]
             /\ path_values' \in [Paths -> Entry \cup {NoEntry}]
             /\ collect_values' \in BOOLEAN
             /\ announced' \in [Paths -> Values \cup {Nothing}]
             /\ picked' \in [Paths -> BOOLEAN]
             /\ causes' \in [Paths -> SUBSET {"race", "ignored"}]
  BY <1>9 DEF Reload
<1>10. CASE SetValue
  BY <1>10 DEF SetValue
<1>11. CASE SetLocked
  BY ZenonT(60), <1>11 DEF SetLocked
<1>12. CASE PresetLoad
  BY <1>12 DEF PresetLoad
<1>13. CASE ClearLoaded
  BY ZenonT(60), <1>13 DEF ClearLoaded
<1>14. CASE ClearLocked
  BY ZenonT(60), <1>14 DEF ClearLocked
<1>15. CASE ClearDone
  BY <1>15 DEF ClearDone
<1>16. CASE PresetLoaded
  BY <1>16 DEF PresetLoaded
<1>17. CASE EraseOnly
  BY <1>17 DEF EraseOnly, EraseEntry, Reset
<1>18. CASE Erase
  BY <1>18 DEF Erase, EraseEntry, Reset
<1>19. CASE EraseAgain
  BY <1>19 DEF EraseAgain, EraseEntry, Reset
<1>20. CASE Assign
  BY <1>20 DEF Assign
<1>21. CASE Overwrite
  BY <1>21 DEF Overwrite, AssignTo
<1>22. CASE Add
  BY <1>22 DEF Add, AssignTo
<1>23. CASE Insert
  BY <1>23 DEF Insert
<1>24. CASE LoadConfig
  BY <1>24 DEF LoadConfig, ConfigsOf, Loaded
<1>25. CASE LoadFails
  BY <1>25 DEF LoadFails
<1> QED
  BY <1>1, <1>2, <1>3, <1>4, <1>5, <1>6, <1>7, <1>8, <1>9, <1>10, <1>11, <1>12, <1>13,
     <1>14, <1>15, <1>16, <1>17, <1>18, <1>19, <1>20, <1>21, <1>22, <1>23, <1>24, <1>25
  DEF ListenerNext

LEMMA ListenerStepAssignment ==
  ASSUME Inv, ListenerNext
  PROVE  ListenerOK' /\ InjectiveAssignment' /\ AssignedHaveEntry'
<1> USE NamesAssumption, EntryAssumption, ListenerIdleFacts, ValueFacts
<1> USE DEF Inv, TypeOK, ListenerOK, InjectiveAssignment, AssignedHaveEntry,
        ListenerAt, ListenerType, Present, Rewrites, Unassigns, history, AssignedAt
<1>1. ASSUME NEW p \in Paths, NEW v \in Values, Value(p, v)
      PROVE  ListenerOK' /\ InjectiveAssignment' /\ AssignedHaveEntry'
  <2>1. p \in Paths /\ path_values[p] \in Entry
    BY <1>1 DEF Value, Records
  <2>2. [path_values[p] EXCEPT !.loaded = TRUE] \in Entry
    BY <2>1, FieldWrites
  <2>3. path_values' = [path_values EXCEPT ![p] = [path_values[p] EXCEPT !.loaded = TRUE]]
    BY <1>1 DEF Value
  <2>4. \A q \in Paths : path_values[q] # NoEntry => path_values'[q] # NoEntry
    BY <2>1, <2>2, <2>3, EntryWrites
  <2> QED
    BY <1>1, <2>1, <2>4 DEF Value, Reset
<1>2. ASSUME NEW p \in Paths, NEW v \in Values, ValueIgnored(p, v)
      PROVE  ListenerOK' /\ InjectiveAssignment' /\ AssignedHaveEntry'
  BY <1>2 DEF ValueIgnored, code
<1>3. ASSUME NEW p \in Paths, ClearValue(p)
      PROVE  ListenerOK' /\ InjectiveAssignment' /\ AssignedHaveEntry'
  <2>1. p \in Paths /\ path_values[p] \in Entry
    BY <1>3 DEF ClearValue
  <2>2. [path_values[p] EXCEPT !.value = 0] \in Entry
    BY <2>1, FieldWrites
  <2>3. path_values' = [path_values EXCEPT ![p] = [path_values[p] EXCEPT !.value = 0]]
    BY <1>3 DEF ClearValue
  <2>4. \A q \in Paths : path_values[q] # NoEntry => path_values'[q] # NoEntry
    BY <2>1, <2>2, <2>3, EntryWrites
  <2> QED
    BY <1>3, <2>1, <2>4 DEF ClearValue, Reset
<1>4. ASSUME NEW p \in Paths, ClearAbsent(p)
      PROVE  ListenerOK' /\ InjectiveAssignment' /\ AssignedHaveEntry'
  BY <1>4 DEF ClearAbsent
<1>5. ASSUME NEW p \in Paths, NEW c \in Controllers, Meta(p, c)
      PROVE  ListenerOK' /\ InjectiveAssignment' /\ AssignedHaveEntry'
  BY <1>5 DEF Meta, Unassign
<1>6. ASSUME NEW p \in Paths, MetaWithoutController(p)
      PROVE  ListenerOK' /\ InjectiveAssignment' /\ AssignedHaveEntry'
  BY <1>6 DEF MetaWithoutController, Unassign
<1>7. ASSUME NEW p \in Paths, NEW doc \in Documents, MetaUnusable(p, doc)
      PROVE  ListenerOK' /\ InjectiveAssignment' /\ AssignedHaveEntry'
  BY <1>7 DEF MetaUnusable, Unassign
<1>8. ASSUME NEW p \in Paths, LoadEntry(p)
      PROVE  ListenerOK' /\ InjectiveAssignment' /\ AssignedHaveEntry'
  BY <1>8 DEF LoadEntry
<1>9. ASSUME NEW doc \in Documents, Reload(doc)
      PROVE  ListenerOK' /\ InjectiveAssignment' /\ AssignedHaveEntry'
  BY <1>9 DEF Reload
<1>10. CASE SetValue
  <2>1. listener.path \in Paths /\ path_values[listener.path] \in Entry
    BY <1>10 DEF SetValue
  <2>2. [path_values[listener.path] EXCEPT !.value = listener.value] \in Entry
    BY <2>1, FieldWrites
  <2>3. path_values' = [path_values EXCEPT ![listener.path] = [path_values[listener.path] EXCEPT !.value = listener.value]]
    BY <1>10 DEF SetValue
  <2>4. \A q \in Paths : path_values[q] # NoEntry => path_values'[q] # NoEntry
    BY <2>1, <2>2, <2>3, EntryWrites
  <2> QED
    BY <1>10, <2>1, <2>4 DEF SetValue
<1>11. CASE SetLocked
  <2>1. listener.path \in Paths /\ path_values[listener.path] \in Entry
    BY <1>11 DEF SetLocked
  <2>2. [path_values[listener.path] EXCEPT !.locked = FALSE] \in Entry
    BY <2>1, FieldWrites
  <2>3. path_values' = [path_values EXCEPT ![listener.path] = [path_values[listener.path] EXCEPT !.locked = FALSE]]
    BY <1>11 DEF SetLocked
  <2>4. \A q \in Paths : path_values[q] # NoEntry => path_values'[q] # NoEntry
    BY <2>1, <2>2, <2>3, EntryWrites
  <2> QED
    BY <1>11, <2>1, <2>4 DEF SetLocked
<1>12. CASE PresetLoad
  BY <1>12 DEF PresetLoad
<1>13. CASE ClearLoaded
  <2>1. listener.path \in Paths /\ path_values[listener.path] \in Entry
    BY <1>13 DEF ClearLoaded
  <2>2. [path_values[listener.path] EXCEPT !.loaded = FALSE] \in Entry
    BY <2>1, FieldWrites
  <2>3. path_values' = [path_values EXCEPT ![listener.path] = [path_values[listener.path] EXCEPT !.loaded = FALSE]]
    BY <1>13 DEF ClearLoaded
  <2>4. \A q \in Paths : path_values[q] # NoEntry => path_values'[q] # NoEntry
    BY <2>1, <2>2, <2>3, EntryWrites
  <2> QED
    BY <1>13, <2>1, <2>4 DEF ClearLoaded
<1>14. CASE ClearLocked
  <2>1. listener.path \in Paths /\ path_values[listener.path] \in Entry
    BY <1>14 DEF ClearLocked
  <2>2. [path_values[listener.path] EXCEPT !.locked = FALSE] \in Entry
    BY <2>1, FieldWrites
  <2>3. path_values' = [path_values EXCEPT ![listener.path] = [path_values[listener.path] EXCEPT !.locked = FALSE]]
    BY <1>14 DEF ClearLocked
  <2>4. \A q \in Paths : path_values[q] # NoEntry => path_values'[q] # NoEntry
    BY <2>1, <2>2, <2>3, EntryWrites
  <2> QED
    BY <1>14, <2>1, <2>4 DEF ClearLocked
<1>15. CASE ClearDone
  BY <1>15 DEF ClearDone
<1>16. CASE PresetLoaded
  BY <1>16 DEF PresetLoaded
<1>17. CASE EraseOnly
  BY <1>17 DEF EraseOnly, EraseEntry, Reset
<1>18. CASE Erase
  BY <1>18 DEF Erase, EraseEntry, Reset
<1>19. CASE EraseAgain
  BY <1>19 DEF EraseAgain, EraseEntry, Reset
<1>20. CASE Assign
  BY <1>20 DEF Assign
<1>21. CASE Overwrite
  BY <1>21 DEF Overwrite, AssignTo
<1>22. CASE Add
  BY <1>22 DEF Add, AssignTo
<1>23. CASE Insert
  <2>1. PICK e \in Entry : path_values' = [path_values EXCEPT ![listener.path] = e]
    <3>1. CASE Present(listener.path)
      <4>1. path_values[listener.path] \in Entry
        BY <3>1
      <4>2. path_values' = [path_values EXCEPT ![listener.path] = path_values[listener.path]]
        BY <1>23, <3>1 DEF Insert
      <4> QED
        BY <4>1, <4>2
    <3>2. CASE ~Present(listener.path)
      <4> DEFINE e == [NewEntry EXCEPT !.locked = TRUE]
      <4>1. e \in Entry
        BY FieldWrites
      <4>2. path_values' = [path_values EXCEPT ![listener.path] = e]
        BY <1>23, <3>2 DEF Insert
      <4> QED
        BY <4>1, <4>2
    <3> QED
      BY <3>1, <3>2
  <2>2. /\ path_values'[listener.path] # NoEntry
        /\ \A q \in Paths : path_values[q] # NoEntry => path_values'[q] # NoEntry
    <3>1. listener.path \in Paths
      BY <1>23 DEF Insert
    <3> QED
      BY <2>1, <3>1, EntryWrites
  <2> QED
    BY <1>23, <2>2 DEF Insert
<1>24. CASE LoadConfig
  BY <1>24 DEF LoadConfig, ConfigsOf, Loaded
<1>25. CASE LoadFails
  BY <1>25 DEF LoadFails
<1> QED
  BY <1>1, <1>2, <1>3, <1>4, <1>5, <1>6, <1>7, <1>8, <1>9, <1>10, <1>11, <1>12, <1>13,
     <1>14, <1>15, <1>16, <1>17, <1>18, <1>19, <1>20, <1>21, <1>22, <1>23, <1>24, <1>25
  DEF ListenerNext

LEMMA ListenerStepInv ==
  ASSUME Inv, ListenerNext
  PROVE  Inv'
<1>1. TypeOK'
  BY ListenerStepSerial, ListenerStepType, ListenerStepMaps DEF TypeOK
<1> QED
  BY <1>1, ListenerStepSerial, ListenerStepAssignment DEF Inv

LEMMA InitInv == Init => Inv
<1> SUFFICES ASSUME Init PROVE Inv
  OBVIOUS
<1> USE NamesAssumption, EntryAssumption, ValueFacts
<1>1. serial \in SerialType /\ SerialOK
  BY DEF Init, SerialIdle, SerialType, SerialOK
<1>2. listener \in ListenerType /\ ListenerOK
  BY ListenerIdleFacts DEF Init, ListenerOK, Rewrites, Unassigns
<1>3. PICK doc \in Documents :
        /\ param_config \in ConfigsOf(doc)
        /\ path_values = [p \in Paths |->
                            IF doc[p] = NoController THEN NoEntry ELSE NewEntry]
  BY DEF Init
<1>4. \A c \in Controllers :
        param_config[c] \in Paths => doc[param_config[c]] = c
  BY <1>3 DEF ConfigsOf
<1>5. InjectiveAssignment
  BY <1>4 DEF InjectiveAssignment
<1>6. AssignedHaveEntry
  BY <1>3, <1>4 DEF AssignedHaveEntry, Present
<1>7. TypeOK
  <2>1. param_config \in [Controllers -> Paths \cup {EmptyPath, NoPath}]
    BY <1>3 DEF ConfigsOf
  <2>2. path_values \in [Paths -> Entry \cup {NoEntry}]
    BY <1>3
  <2>3. /\ collect_values \in BOOLEAN
        /\ announced \in [Paths -> Values \cup {Nothing}]
        /\ picked \in [Paths -> BOOLEAN]
        /\ causes \in [Paths -> SUBSET {"race", "ignored"}]
    BY DEF Init
  <2> QED
    BY <1>1, <1>2, <2>1, <2>2, <2>3 DEF TypeOK
<1> QED
  BY <1>1, <1>2, <1>5, <1>6, <1>7 DEF Inv

LEMMA StepInv == Inv /\ [Next]_vars => Inv'
<1> SUFFICES ASSUME Inv, [Next]_vars PROVE Inv'
  OBVIOUS
<1>1. CASE Next
  BY <1>1, SerialStepInv, ListenerStepInv DEF Next
<1>2. CASE UNCHANGED vars
  BY <1>2 DEF vars, code, history, Inv, TypeOK, SerialOK, ListenerOK, Present,
              InjectiveAssignment, AssignedHaveEntry
<1> QED
  BY <1>1, <1>2

LEMMA InvHolds == Spec => []Inv
<1> QED
  BY InitInv, StepInv, PTL DEF Spec

-----------------------------------------------------------------------------
(* Type correctness, whatever the two threads do to each other.            *)
THEOREM TypeCorrect == Spec => []TypeOK
<1>1. Inv => TypeOK
  BY DEF Inv
<1> QED
  BY <1>1, InvHolds, PTL

(* No parameter is ever driven by two knobs, although updateMetaData       *)
(* releases only the first one it finds and loadConfig reads a document    *)
(* that may declare several parameters for one knob.                       *)
THEOREM AssignmentInjective == Spec => []InjectiveAssignment
<1>1. Inv => InjectiveAssignment
  BY DEF Inv
<1> QED
  BY <1>1, InvHolds, PTL

(* A parameter a knob drives always has an entry in path_values, so that   *)
(* setPathValue does not drop what RNBO announces for it.                  *)
THEOREM AssignedParametersTracked == Spec => []AssignedHaveEntry
<1>1. Inv => AssignedHaveEntry
  BY DEF Inv
<1> QED
  BY <1>1, InvHolds, PTL

-----------------------------------------------------------------------------
(* A controller found free stays so until it is assigned, unless a knob    *)
(* turn puts the path "" there.                                            *)
EffectInv ==
  /\ listener.pc \in {"add", "insert"} => listener.ctl \in Controllers
  /\ listener.pc = "add" => param_config[listener.ctl] \in {NoPath, EmptyPath}
  /\ AssignmentTakesEffect

LEMMA SerialStepEffect ==
  ASSUME Inv, EffectInv, SerialNext
  PROVE  EffectInv'
<1> USE DEF EffectInv, AssignmentTakesEffect
<1>1. listener' = listener /\ param_config \in [Controllers -> Paths \cup {EmptyPath, NoPath}]
  BY SerialStepMaps DEF Inv, TypeOK
<1>2. CASE ReadPath
  <2>1. PICK p : /\ p = IF AssignedAt(serial.ctl) THEN param_config[serial.ctl] ELSE EmptyPath
                 /\ param_config' = [param_config EXCEPT ![serial.ctl] = p]
    BY <1>2 DEF ReadPath
  <2>2. \A c \in Controllers :
          param_config'[c] = param_config[c]
          \/ (param_config[c] = NoPath /\ param_config'[c] = EmptyPath)
    BY <1>1, <2>1 DEF AssignedAt
  <2>3. NoPath \notin Paths \cup {EmptyPath}
    BY NamesAssumption
  <2>4. listener.pc = "insert" => listener.path \in Paths
    BY DEF Inv, ListenerOK
  <2> QED BY <1>1, <2>2, <2>3, <2>4
<1>3. CASE UNCHANGED param_config
  BY <1>1, <1>3
<1> QED
  BY <1>2, <1>3 DEF SerialNext, KnobTurned, GetPath, Find, Convert, Snapshot,
                    Decide, Store, StoreLocked, Send

LEMMA ListenerStepEffect ==
  ASSUME Inv, EffectInv, ListenerNext
  PROVE  EffectInv'
<1> USE DEF EffectInv, AssignmentTakesEffect
<1>1. /\ param_config \in [Controllers -> Paths \cup {EmptyPath, NoPath}]
      /\ listener \in ListenerType
  BY DEF Inv, TypeOK
<1>2. CASE listener'.pc \notin {"add", "insert"}
  BY <1>2
<1>3. CASE Assign
  <2>1. listener.pc = "assign" /\ listener.ctl \in Controllers
    BY <1>3 DEF Assign, ListenerAt, Inv, ListenerOK
  <2> QED BY <1>1, <1>3, <2>1 DEF Assign, AssignedAt, ListenerType
<1>4. CASE Overwrite
  <2>1. listener.pc = "overwrite" /\ listener.ctl \in Controllers
    BY <1>4 DEF Overwrite, ListenerAt, Inv, ListenerOK
  <2>2. /\ param_config' = [param_config EXCEPT ![listener.ctl] = listener.path]
        /\ listener' = [listener EXCEPT !.pc = "insert"]
    BY <1>4 DEF Overwrite, AssignTo
  <2> QED BY <1>1, <2>1, <2>2 DEF ListenerType
<1>5. CASE Add
  <2>1. listener.pc = "add" /\ listener.ctl \in Controllers
    BY <1>5 DEF Add, ListenerAt, Inv, ListenerOK
  <2>2. /\ param_config' = [param_config EXCEPT ![listener.ctl] =
                              IF @ = NoPath THEN listener.path ELSE @]
        /\ listener' = [listener EXCEPT !.pc = "insert"]
    BY <1>5 DEF Add, AssignTo
  <2> QED BY <1>1, <2>1, <2>2 DEF ListenerType
<1>6. CASE UNCHANGED <<listener, param_config>>
  BY <1>6
<1>7. ASSUME NEW p \in Paths,
             \/ \E v \in Values : Value(p, v) \/ ValueIgnored(p, v)
             \/ ClearValue(p) \/ ClearAbsent(p) \/ LoadEntry(p)
      PROVE  EffectInv'
  <2>1. CASE \E v \in Values : ValueIgnored(p, v)
    BY <1>6, <2>1 DEF ValueIgnored, code
  <2>2. CASE (\E v \in Values : Value(p, v)) \/ ClearValue(p)
    <3>1. listener'.pc \in {"set_value", "clear_loaded"}
      BY <1>1, <2>2 DEF Value, ClearValue, ListenerType
    <3> QED BY <1>2, <3>1
  <2>3. CASE ClearAbsent(p)
    <3>1. listener'.pc = "clear"
      BY <1>1, <2>3 DEF ClearAbsent, ListenerAt, ListenerType
    <3> QED BY <1>2, <3>1
  <2>4. CASE LoadEntry(p)
    BY <1>6, <2>4 DEF LoadEntry
  <2> QED BY <1>7, <2>1, <2>2, <2>3, <2>4
<1>8. ASSUME NEW p \in Paths,
             \/ \E c \in Controllers : Meta(p, c)
             \/ MetaWithoutController(p)
             \/ \E doc \in Documents : MetaUnusable(p, doc)
      PROVE  EffectInv'
  <2>1. listener'.pc \notin {"add", "insert"}
    BY <1>1, <1>8 DEF Meta, MetaWithoutController, MetaUnusable, ListenerType
  <2> QED BY <1>2, <2>1
<1>9. CASE SetValue \/ SetLocked \/ PresetLoad \/ ClearLoaded \/ ClearLocked
           \/ ClearDone \/ PresetLoaded
  <2>1. CASE SetLocked \/ ClearDone
    <3>1. listener'.pc = "wait"
      BY <2>1 DEF SetLocked, ClearDone, ListenerIdle
    <3> QED BY <1>2, <3>1
  <2>2. CASE SetValue \/ PresetLoad \/ ClearLoaded \/ ClearLocked
    <3>1. listener'.pc \in {"set_locked", "clear", "clear_locked"}
      BY <1>1, <2>2 DEF SetValue, PresetLoad, ClearLoaded, ClearLocked, ListenerType
    <3> QED BY <1>2, <3>1
  <2>3. CASE PresetLoaded
    BY <1>6, <2>3 DEF PresetLoaded
  <2> QED BY <1>9, <2>1, <2>2, <2>3
<1>10. CASE EraseOnly \/ Erase \/ EraseAgain
  <2>1. CASE EraseOnly
    <3>1. listener'.pc \in {"wait", "erase_only"}
      BY <2>1 DEF EraseOnly, EraseEntry, ListenerAt, ListenerIdle
    <3> QED BY <1>2, <3>1
  <2>2. CASE Erase
    <3>1. \E next \in {"erase", "load", "erase_again"} :
            listener' = [listener EXCEPT !.pc = next]
      BY <2>2 DEF Erase, EraseEntry
    <3>2. listener'.pc \in {"erase", "load", "erase_again"}
      BY <1>1, <3>1 DEF ListenerType
    <3> QED BY <1>2, <3>2
  <2>3. CASE EraseAgain
    <3>1. listener'.pc = "assign"
      BY <1>1, <2>3 DEF EraseAgain, EraseEntry, ListenerType
    <3> QED BY <1>2, <3>1
  <2> QED BY <1>10, <2>1, <2>2, <2>3
<1>11. CASE Insert \/ (\E doc \in Documents : Reload(doc)) \/ LoadConfig \/ LoadFails
  <2>1. CASE Insert \/ LoadConfig \/ LoadFails
    <3>1. listener'.pc = "wait"
      BY <2>1 DEF Insert, LoadConfig, LoadFails, ListenerIdle
    <3> QED BY <1>2, <3>1
  <2>2. CASE \E doc \in Documents : Reload(doc)
    <3>1. listener'.pc = "load"
      BY <1>1, <2>2 DEF Reload, ListenerType
    <3> QED BY <1>2, <3>1
  <2> QED BY <1>11, <2>1, <2>2
<1> QED
  BY <1>3, <1>4, <1>5, <1>7, <1>8, <1>9, <1>10, <1>11 DEF ListenerNext

(* Meta data's assignments take effect, for any knobs and parameters.      *)
THEOREM AssignmentEffective == Spec => []AssignmentTakesEffect
<1>1. Init => EffectInv
  BY DEF Init, EffectInv, AssignmentTakesEffect, ListenerIdle
<1>2. Inv /\ EffectInv /\ [Next]_vars => EffectInv'
  <2>1. UNCHANGED vars => UNCHANGED <<listener, param_config>>
    BY DEF vars, code
  <2> QED
    BY <2>1, SerialStepEffect, ListenerStepEffect
    DEF Next, EffectInv, AssignmentTakesEffect
<1>3. EffectInv => AssignmentTakesEffect
  BY DEF EffectInv
<1> QED
  BY <1>1, <1>2, <1>3, InvHolds, PTL DEF Spec
=============================================================================
