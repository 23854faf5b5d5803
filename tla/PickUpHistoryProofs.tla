------------------------ MODULE PickUpHistoryProofs ------------------------
(***************************************************************************)
(* That the two causes PickUp names are the only ones by which an entry of *)
(* path_values can be wrong, and that a knob obeys what RNBO announced     *)
(* everywhere else: StaleHasCause and KnobObeysAnnouncement, for any       *)
(* knobs, parameters, values and tolerance.                                *)
(***************************************************************************)
EXTENDS PickUpProofs

(* Nothing has interfered with p's entry, nor is about to.                 *)
Clean(p) == causes[p] = {} /\ (InWindow(p) => ~serial.overtaken)

(* While the listener rewrites p's entry field by field, the part it has   *)
(* written is right, and a knob turn in its window is marked as overtaken. *)
RewriteTracked(p) ==
  listener.path = p =>
    /\ listener.pc \in {"set_value", "set_locked"} => announced[p] = listener.value
    /\ listener.pc \in {"clear_loaded", "clear_locked"} => announced[p] = Nothing
    /\ Rewriting(p) /\ InWindow(p) => serial.overtaken
    /\ Clean(p) =>
         /\ listener.pc = "set_value" => path_values[p].loaded /\ ~picked[p]
         /\ listener.pc = "set_locked" =>
              path_values[p].loaded /\ path_values[p].value = announced[p] /\ ~picked[p]
         /\ listener.pc = "clear_locked" => ~path_values[p].loaded

(* What the serial thread has copied of p's entry is still there, and from *)
(* the decision to lock until it is stored the entry only lacks that lock. *)
CopyTracked(p) ==
  InWindow(p) /\ ~serial.overtaken =>
    /\ Present(p)
    /\ serial.state.loaded = path_values[p].loaded
    /\ serial.state.value = path_values[p].value

EntryTracked(p) ==
  Present(p) /\ ~Rewriting(p) /\ Clean(p) =>
    IF serial.path = p /\ serial.pc \in {"store", "store_locked"}
    THEN /\ path_values[p].loaded <=> announced[p] # Nothing
         /\ path_values[p].loaded => path_values[p].value = announced[p] /\ picked[p]
    ELSE Agrees(p)

AbsentForgotten(p) == ~Present(p) => announced[p] = Nothing

Tracked(p) ==
  RewriteTracked(p) /\ CopyTracked(p) /\ EntryTracked(p) /\ AbsentForgotten(p)

(* Until it is decided otherwise a turn counts as "locked", and a turn     *)
(* held back is one of a parameter that has an entry.                      *)
ActionTracked ==
  /\ serial.pc # "send" => serial.action = "locked"
  /\ serial.pc \in {"get_path", "read_path"} => serial.path = NoPath
  /\ serial.action # "locked" /\ ~serial.overtaken => Present(serial.path)
  /\ KnobObeysAnnouncement

HistoryInv == (\A p \in Paths : Tracked(p)) /\ ActionTracked

-----------------------------------------------------------------------------
LEMMA ListenerStepTracked ==
  ASSUME Inv, HistoryInv, ListenerNext, NEW q \in Paths
  PROVE  Tracked(q)'
<1> USE NamesAssumption, EntryAssumption
<1> USE DEF HistoryInv, Tracked, RewriteTracked, CopyTracked, EntryTracked,
        AbsentForgotten, Clean, InWindow, Rewriting, Present, Agrees,
        Inv, TypeOK, SerialType, ListenerType, SerialOK, ListenerOK, Rewrites,
        Unassigns, SerialAt, ListenerAt, history, Entry
<1>1. ASSUME NEW p \in Paths, NEW v \in Values, Value(p, v)
      PROVE  Tracked(q)'
  <2>1. p \in Paths /\ path_values[p] \in Entry
    BY <1>1 DEF Value, Records
  <2>2. path_values' = [path_values EXCEPT ![p] = [path_values[p] EXCEPT !.loaded = TRUE]]
    BY <1>1 DEF Value
  <2>3. [path_values[p] EXCEPT !.loaded = TRUE] \in Entry
    BY <2>1, FieldWrites, ValueFacts
  <2>4. CASE q # p
    BY <1>1, <2>1, <2>2, <2>4 DEF Value, Reset, Overtake
  <2>5. CASE q = p
    <3>1. /\ path_values'[p] = [path_values[p] EXCEPT !.loaded = TRUE]
          /\ path_values'[p].loaded /\ path_values'[p] # NoEntry
      BY ZenonT(60), <2>1, <2>2, <2>3
    <3>2. announced'[p] = v /\ ~picked'[p] /\ causes'[p] = {}
      BY <1>1 DEF Value, Reset
    <3>3. listener'.pc = "set_value" /\ listener'.path = p /\ listener'.value = v
      BY <1>1 DEF Value
    <3>4. InWindow(p)' => serial'.overtaken
      BY <1>1 DEF Value, Overtake
    <3>5. RewriteTracked(p)'
      BY <3>1, <3>2, <3>3, <3>4
    <3>6. CopyTracked(p)' /\ EntryTracked(p)' /\ AbsentForgotten(p)'
      BY <3>1, <3>3, <3>4
    <3> QED
      BY <2>5, <3>5, <3>6
  <2> QED
    BY <2>4, <2>5
<1>2. ASSUME NEW p \in Paths, NEW v \in Values, ValueIgnored(p, v)
      PROVE  Tracked(q)'
  <2>1. CASE q # p
    BY <1>2, <2>1 DEF ValueIgnored, code
  <2>2. CASE q = p
    <3>1. "ignored" \in causes'[p]
      BY <1>2 DEF ValueIgnored
    <3>2. ~Rewriting(p)' /\ Present(p)' /\ listener'.pc = "wait"
      BY <1>2 DEF ValueIgnored, code
    <3>3. CopyTracked(p)'
      BY <1>2 DEF ValueIgnored, code
    <3> QED
      BY <2>2, <3>1, <3>2, <3>3
  <2> QED
    BY <2>1, <2>2
<1>3. ASSUME NEW p \in Paths, ClearValue(p)
      PROVE  Tracked(q)'
  BY <1>3 DEF ClearValue, Reset, Overtake
<1>4. ASSUME NEW p \in Paths, ClearAbsent(p)
      PROVE  Tracked(q)'
  BY <1>4 DEF ClearAbsent
<1>5. ASSUME NEW p \in Paths, NEW c \in Controllers, Meta(p, c)
      PROVE  Tracked(q)'
  BY <1>5 DEF Meta
<1>6. ASSUME NEW p \in Paths, MetaWithoutController(p)
      PROVE  Tracked(q)'
  BY <1>6 DEF MetaWithoutController
<1>7. ASSUME NEW p \in Paths, NEW doc \in Documents, MetaUnusable(p, doc)
      PROVE  Tracked(q)'
  BY <1>7 DEF MetaUnusable
<1>8. ASSUME NEW p \in Paths, LoadEntry(p)
      PROVE  Tracked(q)'
  <2>1. CASE q # p
    BY <1>8, <2>1 DEF LoadEntry
  <2>2. CASE q = p
    <3>1. path_values'[p] = NewEntry /\ NewEntry # NoEntry /\ ~NewEntry.loaded
      BY ZenonT(60), <1>8, ValueFacts DEF LoadEntry, NewEntry
    <3>2. announced'[p] = Nothing /\ ~Rewriting(p)' /\ ~Present(p)
      BY <1>8 DEF LoadEntry
    <3>3. CopyTracked(p)' /\ RewriteTracked(p)'
      BY <1>8, <3>2 DEF LoadEntry
    <3>4. InWindow(p) => serial.overtaken
      BY <3>2
    <3>5. EntryTracked(p)'
      BY <1>8, <3>1, <3>2, <3>4 DEF LoadEntry
    <3> QED
      BY <2>2, <3>1, <3>3, <3>5
  <2> QED
    BY <2>1, <2>2
<1>9. ASSUME NEW doc \in Documents, Reload(doc)
      PROVE  Tracked(q)'
  BY <1>9 DEF Reload
<1>10. CASE SetValue
  BY <1>10 DEF SetValue, Overtake
<1>11. CASE SetLocked
  <2>1. listener.path \in Paths /\ path_values[listener.path] \in Entry
    BY <1>11 DEF SetLocked
  <2>2. path_values' = [path_values EXCEPT ![listener.path] = [path_values[listener.path] EXCEPT !.locked = FALSE]]
    BY <1>11 DEF SetLocked
  <2>3. [path_values[listener.path] EXCEPT !.locked = FALSE] \in Entry
    BY <2>1, FieldWrites, ValueFacts
  <2>4. CASE q # listener.path
    BY <1>11, <2>1, <2>2, <2>4 DEF SetLocked, Overtake, ListenerIdle
  <2>5. CASE q = listener.path
    <3>1. /\ path_values'[q] # NoEntry /\ ~path_values'[q].locked
          /\ path_values'[q].loaded = path_values[q].loaded
          /\ path_values'[q].value = path_values[q].value
      BY ZenonT(60), <2>1, <2>2, <2>3, <2>5
    <3>2. UNCHANGED <<announced, picked, causes>> /\ listener'.path = NoPath
      BY <1>11 DEF SetLocked, ListenerIdle
    <3>3. InWindow(q)' => InWindow(q) /\ serial'.overtaken
      BY <1>11, <2>5 DEF SetLocked, Overtake
    <3>4. InWindow(q) => InWindow(q)'
      BY <1>11, <2>5 DEF SetLocked, Overtake
    <3>5. RewriteTracked(q)' /\ CopyTracked(q)' /\ AbsentForgotten(q)'
      BY <3>1, <3>2, <3>3
    <3>6. ASSUME Clean(q)'
          PROVE  Agrees(q)'
      <4>1. Clean(q)
        BY <3>2, <3>3, <3>4, <3>6
      <4>2. /\ path_values[q].loaded /\ path_values[q].value = announced[q]
            /\ ~picked[q] /\ announced[q] = listener.value
        BY <1>11, <2>5, <4>1 DEF SetLocked
      <4>3. announced[q] # Nothing
        BY <4>2
      <4> QED
        BY <3>1, <3>2, <4>2, <4>3
    <3>7. EntryTracked(q)'
      BY <3>3, <3>6
    <3> QED
      BY <3>5, <3>7
  <2> QED
    BY <2>4, <2>5
<1>12. CASE PresetLoad
  BY <1>12 DEF PresetLoad
<1>13. CASE ClearLoaded
  <2>1. listener.path \in Paths /\ path_values[listener.path] \in Entry
    BY <1>13 DEF ClearLoaded
  <2>2. path_values' = [path_values EXCEPT ![listener.path] = [path_values[listener.path] EXCEPT !.loaded = FALSE]]
    BY <1>13 DEF ClearLoaded
  <2>3. [path_values[listener.path] EXCEPT !.loaded = FALSE] \in Entry
    BY <2>1, FieldWrites, ValueFacts
  <2>4. CASE q # listener.path
    BY <1>13, <2>1, <2>2, <2>4 DEF ClearLoaded, Overtake
  <2>5. CASE q = listener.path
    BY ZenonT(60), <1>13, <2>1, <2>2, <2>3, <2>5 DEF ClearLoaded, Overtake
  <2> QED
    BY <2>4, <2>5
<1>14. CASE ClearLocked
  BY <1>14 DEF ClearLocked, Overtake
<1>15. CASE ClearDone
  BY <1>15 DEF ClearDone, ListenerIdle
<1>16. CASE PresetLoaded
  BY <1>16 DEF PresetLoaded
<1>17. CASE EraseOnly
  BY <1>17 DEF EraseOnly, EraseEntry, Reset, Overtake, ListenerIdle
<1>18. CASE Erase
  BY <1>18 DEF Erase, EraseEntry, Reset, Overtake
<1>19. CASE EraseAgain
  BY <1>19 DEF EraseAgain, EraseEntry, Reset, Overtake
<1>20. CASE Assign
  BY <1>20 DEF Assign
<1>21. CASE Overwrite
  BY <1>21 DEF Overwrite, AssignTo
<1>22. CASE Add
  BY <1>22 DEF Add, AssignTo
<1>23. CASE Insert
  <2>1. CASE q # listener.path \/ Present(q)
    BY <1>23, <2>1 DEF Insert, ListenerIdle
  <2>2. CASE q = listener.path /\ ~Present(q)
    <3> DEFINE e == [NewEntry EXCEPT !.locked = TRUE]
    <3>0. e \in Entry /\ ~e.loaded
      BY FieldWrites, ValueFacts DEF NewEntry
    <3> HIDE DEF e
    <3>1. path_values'[q] = e /\ e # NoEntry /\ ~e.loaded
      <4>1. path_values' = [path_values EXCEPT ![q] = e]
        BY <1>23, <2>2 DEF Insert, e
      <4>2. path_values'[q] = e
        BY <4>1
      <4>3. e # NoEntry
        <5> HIDE DEF Entry
        <5> QED
          BY <3>0
      <4> QED
        BY <3>0, <4>2, <4>3
    <3>2. announced'[q] = Nothing /\ ~Rewriting(q)' /\ listener'.path = NoPath
      BY <1>23, <2>2 DEF Insert, ListenerIdle
    <3>3. InWindow(q)' => serial'.overtaken
      BY <1>23, <2>2 DEF Insert
    <3>4. EntryTracked(q)'
      BY <3>1, <3>2, <3>3
    <3> QED
      BY <3>1, <3>2, <3>3, <3>4
  <2> QED
    BY <2>1, <2>2
<1>24. CASE LoadConfig
  BY <1>24 DEF LoadConfig, ListenerIdle
<1>25. CASE LoadFails
  BY <1>25 DEF LoadFails, ListenerIdle
<1> QED
  BY <1>1, <1>2, <1>3, <1>4, <1>5, <1>6, <1>7, <1>8, <1>9, <1>10, <1>11, <1>12, <1>13,
     <1>14, <1>15, <1>16, <1>17, <1>18, <1>19, <1>20, <1>21, <1>22, <1>23, <1>24, <1>25
  DEF ListenerNext

(* In its window the serial thread works on a real parameter, and the copy *)
(* it has taken is one of an entry.                                        *)
LEMMA WindowFacts ==
  ASSUME Inv, serial.pc \in {"snapshot_locked", "store", "store_locked"}
  PROVE  /\ serial.path \in Paths
         /\ InWindow(serial.path)
         /\ serial.state.loaded \in BOOLEAN /\ serial.state.value \in Values
         /\ Present(serial.path) => path_values[serial.path] \in Entry
         /\ ~Present(serial.path) => path_values[serial.path] = NoEntry
<1>1. serial.path \in Paths
  BY DEF Inv, SerialOK
<1>2. serial.state \in Entry
  BY DEF Inv, TypeOK, SerialType
<1>3. path_values[serial.path] \in Entry \cup {NoEntry}
  BY <1>1 DEF Inv, TypeOK
<1> QED
  BY <1>1, <1>2, <1>3, EntryAssumption DEF InWindow, Present, Entry

(* What the fields of an entry determine.                                  *)
LEMMA EntryFields ==
  ASSUME NEW e \in Entry, NEW l, NEW v, NEW k
  PROVE  /\ [e EXCEPT !.loaded = l, !.value = v].loaded = l
         /\ [e EXCEPT !.loaded = l, !.value = v].value = v
         /\ [e EXCEPT !.loaded = l, !.value = v].locked = e.locked
         /\ [e EXCEPT !.locked = k].loaded = e.loaded
         /\ [e EXCEPT !.locked = k].value = e.value
         /\ [e EXCEPT !.locked = k].locked = k
BY DEF Entry

LEMMA EntryFieldTypes ==
  ASSUME NEW e \in Entry
  PROVE  e.loaded \in BOOLEAN /\ e.value \in Values /\ e.locked \in BOOLEAN
BY DEF Entry

LEMMA StoredIsEntry ==
  ASSUME NEW e \in Entry, NEW l \in BOOLEAN, NEW v \in Values
  PROVE  [e EXCEPT !.loaded = l, !.value = v] \in Entry
BY DEF Entry

LEMMA DecideTracked ==
  ASSUME Inv, HistoryInv, Decide, NEW q \in Paths
  PROVE  Tracked(q)'
<1> DEFINE p == serial.path
<1>1. /\ p \in Paths /\ InWindow(p)
      /\ Present(p) => path_values[p] \in Entry
      /\ serial.pc = "snapshot_locked"
  BY WindowFacts DEF Decide, SerialAt
<1>2. /\ UNCHANGED <<path_values, listener, announced>>
      /\ picked' = [picked EXCEPT ![p] =
                      @ \/ (announced[p] # Nothing /\ Near(serial.value, announced[p]))]
      /\ causes' = [causes EXCEPT ![p] =
                      IF serial.overtaken THEN @ \cup {"race"} ELSE @]
  BY DEF Decide
<1>3. PICK locked \in IF Present(p) THEN {path_values[p].locked} ELSE BOOLEAN :
        LET e == [serial.state EXCEPT !.locked = locked]
        IN  serial' = [serial EXCEPT !.state = e, !.action = Action(e, serial.value),
                         !.pc = IF Action(e, serial.value) = "locked" /\ ~e.locked
                                THEN "store" ELSE "send"]
  BY DEF Decide
<1> DEFINE e == [serial.state EXCEPT !.locked = locked]
<1>4. /\ e.loaded = serial.state.loaded /\ e.value = serial.state.value
      /\ e.locked = locked
  BY EntryFields DEF Inv, TypeOK, SerialType
<1>5. /\ serial'.path = p /\ serial'.state = e
      /\ serial'.overtaken = serial.overtaken
      /\ serial'.pc = IF Action(e, serial.value) = "locked" /\ ~e.locked
                      THEN "store" ELSE "send"
  BY <1>3 DEF Inv, TypeOK, SerialType
<1> HIDE DEF e
<1>6. \A r \in Paths : Rewriting(r)' = Rewriting(r) /\ Present(r)' = Present(r)
  BY <1>2 DEF Rewriting, Present
<1>7. InWindow(q)' => InWindow(q)
  BY <1>1, <1>5 DEF InWindow
<1>8. Tracked(q)
  BY DEF HistoryInv
<1>9. picked'[q] \in BOOLEAN /\ picked[q] \in BOOLEAN
  BY <1>2 DEF Inv, TypeOK
<1>10. CASE q # p
  <2>1. picked'[q] = picked[q] /\ causes'[q] = causes[q]
    BY <1>2, <1>10
  <2>2. ~InWindow(q) /\ ~InWindow(q)' /\ serial'.path # q /\ serial.path # q
    BY <1>5, <1>10 DEF InWindow
  <2>3. RewriteTracked(q)'
    BY <1>2, <1>6, <1>8, <2>1, <2>2 DEF Tracked, RewriteTracked, Clean
  <2>4. CopyTracked(q)' /\ AbsentForgotten(q)'
    BY <1>2, <1>6, <1>8, <2>2 DEF Tracked, CopyTracked, AbsentForgotten
  <2>5. EntryTracked(q)'
    BY <1>2, <1>6, <1>8, <2>1, <2>2 DEF Tracked, EntryTracked, Clean, Agrees
  <2> QED
    BY <2>3, <2>4, <2>5 DEF Tracked
<1>11. CASE q = p /\ serial.overtaken
  <2>1. "race" \in causes'[q]
    BY <1>2, <1>11 DEF Inv, TypeOK
  <2>2. ~Clean(q)' /\ serial'.overtaken
    BY <1>5, <1>11, <2>1 DEF Clean
  <2> QED
    BY <1>2, <1>6, <1>8, <2>2
    DEF Tracked, RewriteTracked, CopyTracked, EntryTracked, AbsentForgotten
<1>12. CASE q = p /\ ~serial.overtaken
  <2>1. /\ Present(q) /\ ~Rewriting(q) /\ causes'[q] = causes[q]
        /\ serial.state.loaded = path_values[q].loaded
        /\ serial.state.value = path_values[q].value
    BY <1>1, <1>2, <1>8, <1>12 DEF Tracked, RewriteTracked, CopyTracked, Rewriting, Inv, TypeOK
  <2>2. /\ path_values[q].loaded \in BOOLEAN /\ path_values[q].locked \in BOOLEAN
        /\ e.locked = path_values[q].locked
    BY <1>1, <1>3, <1>4, <1>12, <2>1, EntryFieldTypes
  <2>3. RewriteTracked(q)' /\ CopyTracked(q)' /\ AbsentForgotten(q)'
    BY <1>2, <1>4, <1>5, <1>6, <1>8, <2>1
    DEF Tracked, RewriteTracked, CopyTracked, AbsentForgotten, Rewriting
  <2>4. ASSUME Clean(q)'
        PROVE  EntryTracked(q)'
    <3>1. Agrees(q)
      BY <1>1, <1>8, <1>12, <2>1, <2>4 DEF Tracked, EntryTracked, Clean
    <3>2. picked'[q] = (picked[q] \/ (announced[q] # Nothing /\ Near(serial.value, announced[q])))
      BY <1>2, <1>12 DEF Inv, TypeOK
    <3>3. Action(e, serial.value) = "locked" <=>
            e.locked \/ ~e.loaded \/ Near(serial.value, e.value)
      BY DEF Action
    <3>4. serial'.pc = "store" <=> Action(e, serial.value) = "locked" /\ ~e.locked
      BY <1>5
    <3>5. path_values'[q] = path_values[q] /\ announced'[q] = announced[q]
      BY <1>2
    <3>6. serial'.pc \in {"store", "send"}
      BY <1>5
    <3>7. CASE serial'.pc = "store"
      <4>1. /\ path_values[q].loaded => path_values[q].value = announced[q]
            /\ path_values[q].loaded => Near(serial.value, announced[q])
        BY <1>4, <2>1, <2>2, <3>1, <3>3, <3>4, <3>7 DEF Agrees
      <4> QED
        BY <1>5, <1>12, <3>1, <3>2, <3>5, <3>7, <4>1 DEF EntryTracked, Agrees
    <3>8. CASE serial'.pc = "send"
      <4>1. path_values[q].loaded => (path_values[q].locked <=> picked'[q])
        <5>1. CASE e.locked
          BY <2>2, <3>1, <3>2, <5>1 DEF Agrees
        <5>2. CASE ~e.locked
          BY <1>4, <1>9, <2>1, <2>2, <3>1, <3>2, <3>3, <3>4, <3>8, <5>2 DEF Agrees
        <5> QED
          BY <5>1, <5>2
      <4>2. Agrees(q)'
        BY <3>1, <3>5, <4>1 DEF Agrees
      <4> QED
        BY <3>8, <4>2 DEF EntryTracked
    <3> QED
      BY <3>6, <3>7, <3>8
  <2> QED
    BY <2>3, <2>4 DEF Tracked, EntryTracked
<1> QED
  BY <1>10, <1>11, <1>12

LEMMA StoreTracked ==
  ASSUME Inv, HistoryInv, Store, NEW q \in Paths
  PROVE  Tracked(q)'
<1> DEFINE p == serial.path
           e == IF Present(p) THEN path_values[p] ELSE NewEntry
           stored == [e EXCEPT !.loaded = serial.state.loaded, !.value = serial.state.value]
<1>1. /\ p \in Paths /\ InWindow(p) /\ serial.pc = "store" /\ e \in Entry
      /\ serial.state.loaded \in BOOLEAN /\ serial.state.value \in Values
  BY WindowFacts, ValueFacts DEF Store, SerialAt
<1>2. stored \in Entry /\ stored # NoEntry
  <2> HIDE DEF e
  <2>1. stored \in Entry
    BY <1>1, StoredIsEntry
  <2> QED
    BY <2>1, EntryAssumption
<1>3. /\ stored.loaded = serial.state.loaded /\ stored.value = serial.state.value
      /\ stored.locked = e.locked
  BY <1>1, EntryFields
<1>4. path_values' = [path_values EXCEPT ![p] = stored]
  BY DEF Store
<1>5. /\ UNCHANGED <<announced, picked, causes, listener>>
      /\ serial'.pc = "store_locked" /\ serial'.path = p
      /\ serial'.overtaken = serial.overtaken /\ serial'.state = serial.state
  BY DEF Store, history, Inv, TypeOK, SerialType
<1> HIDE DEF e, stored
<1>6. path_values'[p] = stored /\ \A r \in Paths : r # p => path_values'[r] = path_values[r]
  BY <1>1, <1>4 DEF Inv, TypeOK
<1>7. Tracked(q)
  BY DEF HistoryInv
<1>8. Rewriting(q)' = Rewriting(q) /\ InWindow(q)' = InWindow(q) /\ Clean(q)' = Clean(q)
  BY <1>1, <1>5 DEF Rewriting, InWindow, Clean
<1>9. CASE q # p
  <2>1. path_values'[q] = path_values[q] /\ Present(q)' = Present(q) /\ Agrees(q)' = Agrees(q)
    BY <1>5, <1>6, <1>9 DEF Present, Agrees
  <2> QED
    BY <1>5, <1>7, <1>8, <1>9, <2>1
    DEF Tracked, RewriteTracked, CopyTracked, EntryTracked, AbsentForgotten
<1>10. CASE q = p /\ serial.overtaken
  <2>1. Present(q)' /\ ~Clean(q)
    BY <1>1, <1>2, <1>6, <1>10 DEF Present, Clean
  <2> QED
    BY <1>5, <1>7, <1>8, <1>10, <2>1
    DEF Tracked, RewriteTracked, CopyTracked, EntryTracked, AbsentForgotten
<1>11. CASE q = p /\ ~serial.overtaken
  <2>1. /\ Present(q) /\ Present(q)'
        /\ path_values'[q].loaded = path_values[q].loaded
        /\ path_values'[q].value = path_values[q].value
    BY <1>1, <1>2, <1>3, <1>6, <1>7, <1>11 DEF Tracked, CopyTracked, Present
  <2>2. ~Rewriting(q)
    BY <1>1, <1>7, <1>11 DEF Tracked, RewriteTracked, Rewriting
  <2> QED
    BY <1>1, <1>5, <1>7, <1>8, <1>11, <2>1, <2>2
    DEF Tracked, RewriteTracked, CopyTracked, EntryTracked, AbsentForgotten, Rewriting
<1> QED
  BY <1>9, <1>10, <1>11

LEMMA StoreLockedTracked ==
  ASSUME Inv, HistoryInv, StoreLocked, NEW q \in Paths
  PROVE  Tracked(q)'
<1> DEFINE p == serial.path
           stored == [path_values[p] EXCEPT !.locked = TRUE]
<1>1. /\ p \in Paths /\ InWindow(p) /\ serial.pc = "store_locked"
      /\ Present(p) => path_values[p] \in Entry
  BY WindowFacts DEF StoreLocked, SerialAt
<1>2. ASSUME Present(p)
      PROVE  /\ stored # NoEntry /\ stored.locked
             /\ stored.loaded = path_values[p].loaded
             /\ stored.value = path_values[p].value
  <2>1. path_values[p] \in Entry
    BY <1>1, <1>2
  <2>2. stored \in Entry
    BY <2>1, FieldWrites, ValueFacts
  <2>3. stored # NoEntry
    <3> HIDE DEF stored
    <3> QED
      BY <2>2, EntryAssumption
  <2>4. /\ stored.locked = TRUE /\ stored.loaded = path_values[p].loaded
        /\ stored.value = path_values[p].value
    BY <2>1, EntryFields
  <2> QED
    BY <2>3, <2>4
<1>3. /\ path_values' = IF Present(p) THEN [path_values EXCEPT ![p] = stored] ELSE path_values
      /\ causes' = [causes EXCEPT ![p] =
                      IF serial.overtaken THEN @ \cup {"race"} ELSE @]
  BY DEF StoreLocked
<1>4. /\ UNCHANGED <<announced, picked, listener>>
      /\ serial'.pc = "send" /\ serial'.path = p
      /\ serial'.overtaken = serial.overtaken
  BY DEF StoreLocked, Inv, TypeOK, SerialType
<1> HIDE DEF stored
<1>5. /\ Present(p) => path_values'[p] = stored
      /\ ~Present(p) => path_values'[p] = path_values[p]
      /\ \A r \in Paths : r # p => path_values'[r] = path_values[r]
  BY <1>1, <1>3 DEF Inv, TypeOK
<1>6. Present(q)' = Present(q)
  BY <1>2, <1>5 DEF Present
<1>7. Tracked(q)
  BY DEF HistoryInv
<1>8. Rewriting(q)' = Rewriting(q) /\ ~InWindow(q)'
  BY <1>4 DEF Rewriting, InWindow
<1>9. CASE q # p
  <2>1. /\ path_values'[q] = path_values[q] /\ causes'[q] = causes[q]
        /\ ~InWindow(q) /\ Agrees(q)' = Agrees(q)
    BY <1>3, <1>4, <1>5, <1>9 DEF InWindow, Agrees, Inv, TypeOK
  <2>2. Clean(q)' = Clean(q)
    BY <1>8, <2>1 DEF Clean
  <2> QED
    BY <1>4, <1>6, <1>7, <1>8, <1>9, <2>1, <2>2
    DEF Tracked, RewriteTracked, CopyTracked, EntryTracked, AbsentForgotten
<1>10. CASE q = p /\ serial.overtaken
  <2>1. "race" \in causes'[q]
    BY <1>3, <1>10 DEF Inv, TypeOK
  <2>2. ~Clean(q)'
    BY <2>1 DEF Clean
  <2> QED
    BY <1>4, <1>6, <1>7, <1>8, <2>2
    DEF Tracked, RewriteTracked, CopyTracked, EntryTracked, AbsentForgotten
<1>11. CASE q = p /\ ~serial.overtaken
  <2>1. /\ Present(q) /\ ~Rewriting(q) /\ causes'[q] = causes[q]
    BY <1>1, <1>3, <1>7, <1>11 DEF Tracked, RewriteTracked, CopyTracked, Rewriting, Inv, TypeOK
  <2>2. /\ path_values'[q].locked
        /\ path_values'[q].loaded = path_values[q].loaded
        /\ path_values'[q].value = path_values[q].value
    BY <1>2, <1>5, <1>11, <2>1
  <2>3. Clean(q)' => Clean(q)
    BY <1>11, <2>1 DEF Clean
  <2>4. ASSUME Clean(q)'
        PROVE  Agrees(q)'
    <3>1. /\ path_values[q].loaded <=> announced[q] # Nothing
          /\ path_values[q].loaded => path_values[q].value = announced[q] /\ picked[q]
      BY <1>1, <1>7, <1>11, <2>1, <2>3, <2>4 DEF Tracked, EntryTracked
    <3> QED
      BY <1>4, <2>2, <3>1 DEF Agrees
  <2>5. EntryTracked(q)' /\ CopyTracked(q)' /\ AbsentForgotten(q)'
    BY <1>4, <1>6, <1>8, <2>1, <2>4 DEF EntryTracked, CopyTracked, AbsentForgotten
  <2>6. RewriteTracked(q)'
    BY <1>4, <1>7, <1>8, <2>1 DEF Tracked, RewriteTracked, Rewriting
  <2> QED
    BY <2>5, <2>6 DEF Tracked
<1> QED
  BY <1>9, <1>10, <1>11

LEMMA SerialStepTracked ==
  ASSUME Inv, HistoryInv, SerialNext, NEW q \in Paths
  PROVE  Tracked(q)'
<1> USE NamesAssumption, EntryAssumption
<1> USE DEF HistoryInv, Tracked, RewriteTracked, CopyTracked, EntryTracked,
        AbsentForgotten, Clean, InWindow, Rewriting, Present, Agrees,
        Inv, TypeOK, SerialType, ListenerType, SerialOK, ListenerOK, Rewrites,
        Unassigns, SerialAt, ListenerAt, history, Entry
<1>1. ASSUME NEW c \in Controllers, NEW v \in Values, KnobTurned(c, v)
      PROVE  Tracked(q)'
  BY <1>1 DEF KnobTurned, SerialIdle
<1>2. CASE GetPath
  BY <1>2 DEF GetPath
<1>3. CASE ReadPath
  BY <1>3 DEF ReadPath
<1>4. CASE Find
  BY <1>4 DEF Find
<1>5. CASE Convert
  BY <1>5 DEF Convert
<1>6. CASE Snapshot
  <2> DEFINE p == serial.path
             e == IF Present(p) THEN path_values[p] ELSE NewEntry
  <2>1. p \in Paths /\ e \in Entry /\ e # NoEntry
    BY <1>6, ValueFacts DEF Snapshot
  <2>2. CASE q # p
    BY <1>6, <2>2 DEF Snapshot
  <2>3. CASE q = p
    <3>1. path_values'[q] = e /\ Present(q)'
      BY <1>6, <2>1, <2>3 DEF Snapshot
    <3>2. /\ serial'.state.loaded = e.loaded /\ serial'.state.value = e.value
          /\ serial'.overtaken = Rewriting(p)
          /\ serial'.pc = "snapshot_locked" /\ serial'.path = q
      <4> HIDE DEF e
      <4> QED
        BY <1>6, <2>3 DEF Snapshot, e
    <3>3. ~Present(q) => ~e.loaded /\ ~Rewriting(q) /\ announced[q] = Nothing
      BY <2>3 DEF NewEntry
    <3>4. ~InWindow(q) /\ UNCHANGED <<announced, picked, causes, listener>>
      BY <1>6 DEF Snapshot
    <3>5. Present(q) => path_values'[q] = path_values[q]
      BY <2>3, <3>1
    <3>6. RewriteTracked(q)'
      BY <2>3, <3>2, <3>3, <3>4, <3>5
    <3>7. CopyTracked(q)'
      BY <3>1, <3>2
    <3>8. EntryTracked(q)'
      BY <3>1, <3>2, <3>3, <3>4, <3>5
    <3> QED
      BY <3>1, <3>6, <3>7, <3>8
  <2> QED
    BY <2>2, <2>3
<1>7. CASE Decide
  BY <1>7, DecideTracked
<1>8. CASE Store
  BY <1>8, StoreTracked
<1>9. CASE StoreLocked
  BY <1>9, StoreLockedTracked
<1>10. CASE Send
  BY <1>10 DEF Send, SerialIdle
<1> QED
  BY <1>1, <1>2, <1>3, <1>4, <1>5, <1>6, <1>7, <1>8, <1>9, <1>10
  DEF SerialNext

(* A write by the listener marks the turn it overtakes, and does not touch *)
(* any other.                                                              *)
LEMMA OvertakeTracked ==
  ASSUME Inv, HistoryInv, NEW p \in Paths, Overtake(p),
         \A r \in Paths : r # p =>
           /\ path_values'[r] = path_values[r] /\ announced'[r] = announced[r]
           /\ picked'[r] = picked[r] /\ causes'[r] = causes[r]
  PROVE  ActionTracked'
<1>1. /\ serial'.pc = serial.pc /\ serial'.path = serial.path
      /\ serial'.action = serial.action /\ serial'.value = serial.value
      /\ ~serial'.overtaken => ~serial.overtaken
      /\ serial.pc = "send" /\ serial.path = p => serial'.overtaken
  BY DEF Overtake, Inv, TypeOK, SerialType
<1>2. ActionTracked
  BY DEF HistoryInv
<1>3. serial.path # p => Present(serial.path)' = Present(serial.path)
  BY <1>1 DEF Present
<1>4. serial.pc = "send" /\ ~serial'.overtaken => serial.path # p
  BY <1>1
<1>5. serial'.action # "locked" /\ ~serial'.overtaken => Present(serial.path)'
  BY <1>1, <1>2, <1>3, <1>4 DEF ActionTracked
<1>6. KnobObeysAnnouncement'
  <2> SUFFICES ASSUME serial.pc = "send", Present(serial.path)', ~serial'.overtaken,
                      causes'[serial.path] = {}
               PROVE  LET v == announced'[serial.path] IN
                      CASE serial.action = "locked"    -> v = Nothing \/ picked'[serial.path]
                        [] serial.action = "turn_up"   ->
                             v # Nothing /\ ~picked'[serial.path] /\ serial.value < v
                        [] serial.action = "turn_down" ->
                             v # Nothing /\ ~picked'[serial.path] /\ serial.value > v
    BY <1>1 DEF KnobObeysAnnouncement
  <2>1. serial.path # p /\ serial.path \in Paths
    BY <1>1, <1>4 DEF Present
  <2> QED
    BY <1>1, <1>2, <1>3, <2>1 DEF ActionTracked, KnobObeysAnnouncement
<1> QED
  BY <1>1, <1>2, <1>5, <1>6 DEF ActionTracked

LEMMA EraseTracked ==
  ASSUME Inv, HistoryInv, NEW next, EraseEntry(next),
         listener.pc \in {"erase_only", "erase", "erase_again"}
  PROVE  ActionTracked'
<1>1. listener.path \in Paths
  BY DEF Inv, ListenerOK, Unassigns
<1>2. \A r \in Paths : r # listener.path =>
        /\ path_values'[r] = path_values[r] /\ announced'[r] = announced[r]
        /\ picked'[r] = picked[r] /\ causes'[r] = causes[r]
  BY <1>1 DEF EraseEntry, Reset, Inv, TypeOK
<1>3. Overtake(listener.path)
  BY DEF EraseEntry
<1> QED
  BY <1>1, <1>2, <1>3, OvertakeTracked

(* So does a write to one more field of an entry.                          *)
LEMMA FieldTracked ==
  ASSUME Inv, HistoryInv, Overtake(listener.path), UNCHANGED history,
         listener.pc \in {"set_value", "set_locked", "clear_loaded", "clear_locked"},
         \A r \in Paths : r # listener.path => path_values'[r] = path_values[r]
  PROVE  ActionTracked'
<1>1. listener.path \in Paths
  BY DEF Inv, ListenerOK, Rewrites, Present
<1>2. \A r \in Paths : r # listener.path =>
        /\ path_values'[r] = path_values[r] /\ announced'[r] = announced[r]
        /\ picked'[r] = picked[r] /\ causes'[r] = causes[r]
  BY DEF history
<1> QED
  BY <1>1, <1>2, OvertakeTracked

(* An entry that is added was absent, so that nothing was announced.       *)
LEMMA AddedAction ==
  ASSUME HistoryInv, serial' = serial, UNCHANGED history,
         \A r \in Paths : path_values[r] # NoEntry => path_values'[r] # NoEntry
  PROVE  ActionTracked'
<1>1. ActionTracked
  BY DEF HistoryInv
<1>2. \A r \in Paths : ~Present(r) => announced[r] = Nothing
  BY DEF HistoryInv, Tracked, AbsentForgotten
<1>3. announced' = announced /\ picked' = picked /\ causes' = causes
  BY DEF history
<1>4. CASE Present(serial.path)
  BY <1>1, <1>3, <1>4 DEF ActionTracked, KnobObeysAnnouncement, Present
<1>5. CASE ~Present(serial.path)
  <2>1. serial.action # "locked" => serial.overtaken
    BY <1>1, <1>5 DEF ActionTracked
  <2>2. Present(serial.path)' => announced[serial.path] = Nothing
    BY <1>2, <1>5 DEF Present
  <2>3. KnobObeysAnnouncement'
    BY <1>3, <2>1, <2>2 DEF KnobObeysAnnouncement
  <2> QED
    BY <1>1, <2>1, <2>3 DEF ActionTracked
<1> QED
  BY <1>4, <1>5

LEMMA ListenerStepAction ==
  ASSUME Inv, HistoryInv, ListenerNext
  PROVE  ActionTracked'
<1> USE NamesAssumption, EntryAssumption
<1> USE DEF HistoryInv, Tracked, RewriteTracked, CopyTracked, EntryTracked,
        AbsentForgotten, Clean, InWindow, Rewriting, Present, Agrees,
        Inv, TypeOK, SerialType, ListenerType, SerialOK, ListenerOK, Rewrites,
        Unassigns, SerialAt, ListenerAt, history, Entry
<1> USE DEF ActionTracked, KnobObeysAnnouncement
<1>1. ASSUME NEW p \in Paths, NEW v \in Values, Value(p, v)
      PROVE  ActionTracked'
  <2>1. \A r \in Paths : r # p =>
          /\ path_values'[r] = path_values[r] /\ announced'[r] = announced[r]
          /\ picked'[r] = picked[r] /\ causes'[r] = causes[r]
    BY <1>1 DEF Value, Reset
  <2>2. Overtake(p)
    BY <1>1 DEF Value
  <2> QED
    BY <2>1, <2>2, OvertakeTracked
<1>2. ASSUME NEW p \in Paths, NEW v \in Values, ValueIgnored(p, v)
      PROVE  ActionTracked'
  <2> HIDE DEF HistoryInv, Inv, ActionTracked, KnobObeysAnnouncement
  <2>1. ActionTracked
    BY DEF HistoryInv
  <2>2. serial' = serial /\ path_values' = path_values
    BY <1>2 DEF ValueIgnored, code
  <2>3. /\ causes'[p] # {}
        /\ \A r \in Paths : r # p =>
             announced'[r] = announced[r] /\ picked'[r] = picked[r] /\ causes'[r] = causes[r]
    BY <1>2 DEF ValueIgnored, Inv
  <2>4. CASE serial.path = p
    BY <2>1, <2>2, <2>3, <2>4 DEF ActionTracked, KnobObeysAnnouncement
  <2>5. CASE serial.path # p
    BY <2>1, <2>2, <2>3, <2>5 DEF ActionTracked, KnobObeysAnnouncement
  <2> QED
    BY <2>4, <2>5
<1>3. ASSUME NEW p \in Paths, ClearValue(p)
      PROVE  ActionTracked'
  <2>1. \A r \in Paths : r # p =>
          /\ path_values'[r] = path_values[r] /\ announced'[r] = announced[r]
          /\ picked'[r] = picked[r] /\ causes'[r] = causes[r]
    BY <1>3 DEF ClearValue, Reset
  <2>2. Overtake(p)
    BY <1>3 DEF ClearValue
  <2> QED
    BY <2>1, <2>2, OvertakeTracked
<1>4. ASSUME NEW p \in Paths, ClearAbsent(p)
      PROVE  ActionTracked'
  BY <1>4 DEF ClearAbsent
<1>5. ASSUME NEW p \in Paths, NEW c \in Controllers, Meta(p, c)
      PROVE  ActionTracked'
  BY <1>5 DEF Meta
<1>6. ASSUME NEW p \in Paths, MetaWithoutController(p)
      PROVE  ActionTracked'
  BY <1>6 DEF MetaWithoutController
<1>7. ASSUME NEW p \in Paths, NEW doc \in Documents, MetaUnusable(p, doc)
      PROVE  ActionTracked'
  BY <1>7 DEF MetaUnusable
<1>8. ASSUME NEW p \in Paths, LoadEntry(p)
      PROVE  ActionTracked'
  <2> HIDE DEF HistoryInv, Inv, ActionTracked, KnobObeysAnnouncement
  <2>1. serial' = serial /\ UNCHANGED history
    BY <1>8 DEF LoadEntry
  <2>2. NewEntry \in Entry /\ NewEntry # NoEntry
    BY ValueFacts DEF NewEntry
  <2>3. \A r \in Paths : path_values[r] # NoEntry => path_values'[r] # NoEntry
    BY <1>8, <2>2 DEF LoadEntry, Inv, TypeOK
  <2> QED
    BY <2>1, <2>3, AddedAction
<1>9. ASSUME NEW doc \in Documents, Reload(doc)
      PROVE  ActionTracked'
  BY <1>9 DEF Reload
<1>10. CASE SetValue
  <2>1. /\ Overtake(listener.path) /\ UNCHANGED history
        /\ \A r \in Paths : r # listener.path => path_values'[r] = path_values[r]
    BY <1>10 DEF SetValue, Inv
  <2> QED
    BY <1>10, <2>1, FieldTracked DEF SetValue
<1>11. CASE SetLocked
  <2>1. /\ Overtake(listener.path) /\ UNCHANGED history
        /\ \A r \in Paths : r # listener.path => path_values'[r] = path_values[r]
    BY <1>11 DEF SetLocked, Inv
  <2> QED
    BY <1>11, <2>1, FieldTracked DEF SetLocked
<1>12. CASE PresetLoad
  BY <1>12 DEF PresetLoad
<1>13. CASE ClearLoaded
  <2>1. /\ Overtake(listener.path) /\ UNCHANGED history
        /\ \A r \in Paths : r # listener.path => path_values'[r] = path_values[r]
    BY <1>13 DEF ClearLoaded, Inv
  <2> QED
    BY <1>13, <2>1, FieldTracked DEF ClearLoaded
<1>14. CASE ClearLocked
  <2>1. /\ Overtake(listener.path) /\ UNCHANGED history
        /\ \A r \in Paths : r # listener.path => path_values'[r] = path_values[r]
    BY <1>14 DEF ClearLocked, Inv
  <2> QED
    BY <1>14, <2>1, FieldTracked DEF ClearLocked
<1>15. CASE ClearDone
  BY <1>15 DEF ClearDone, ListenerIdle
<1>16. CASE PresetLoaded
  BY <1>16 DEF PresetLoaded
<1>17. CASE EraseOnly
  <2>1. PICK next : EraseEntry(next)
    BY <1>17 DEF EraseOnly
  <2> QED
    BY <1>17, <2>1, EraseTracked DEF EraseOnly
<1>18. CASE Erase
  <2>1. PICK next : EraseEntry(next)
    BY <1>18 DEF Erase
  <2> QED
    BY <1>18, <2>1, EraseTracked DEF Erase
<1>19. CASE EraseAgain
  <2>1. PICK next : EraseEntry(next)
    BY <1>19 DEF EraseAgain
  <2> QED
    BY <1>19, <2>1, EraseTracked DEF EraseAgain
<1>20. CASE Assign
  BY <1>20 DEF Assign
<1>21. CASE Overwrite
  BY <1>21 DEF Overwrite, AssignTo
<1>22. CASE Add
  BY <1>22 DEF Add, AssignTo
<1>23. CASE Insert
  <2> HIDE DEF HistoryInv, Inv, ActionTracked, KnobObeysAnnouncement
  <2>1. serial' = serial /\ UNCHANGED history
    BY <1>23 DEF Insert
  <2>2. /\ [NewEntry EXCEPT !.locked = TRUE] \in Entry
        /\ [NewEntry EXCEPT !.locked = TRUE] # NoEntry
    BY ValueFacts DEF NewEntry
  <2>3. \A r \in Paths : path_values[r] # NoEntry => path_values'[r] # NoEntry
    BY <1>23, <2>2 DEF Insert, Inv, TypeOK
  <2> QED
    BY <2>1, <2>3, AddedAction
<1>24. CASE LoadConfig
  BY <1>24 DEF LoadConfig, ListenerIdle
<1>25. CASE LoadFails
  BY <1>25 DEF LoadFails, ListenerIdle
<1> QED
  BY <1>1, <1>2, <1>3, <1>4, <1>5, <1>6, <1>7, <1>8, <1>9, <1>10, <1>11, <1>12, <1>13,
     <1>14, <1>15, <1>16, <1>17, <1>18, <1>19, <1>20, <1>21, <1>22, <1>23, <1>24, <1>25
  DEF ListenerNext

LEMMA DecideAction ==
  ASSUME Inv, HistoryInv, Decide
  PROVE  ActionTracked'
<1> DEFINE p == serial.path
<1>1. /\ p \in Paths /\ InWindow(p) /\ serial.pc = "snapshot_locked"
      /\ Present(p) => path_values[p] \in Entry
      /\ serial.state.loaded \in BOOLEAN /\ serial.state.value \in Values
  BY WindowFacts DEF Decide, SerialAt
<1>2. PICK locked \in IF Present(p) THEN {path_values[p].locked} ELSE BOOLEAN :
        LET e == [serial.state EXCEPT !.locked = locked]
        IN  serial' = [serial EXCEPT !.state = e, !.action = Action(e, serial.value),
                         !.pc = IF Action(e, serial.value) = "locked" /\ ~e.locked
                                THEN "store" ELSE "send"]
  BY DEF Decide
<1> DEFINE e == [serial.state EXCEPT !.locked = locked]
<1>3. /\ e.loaded = serial.state.loaded /\ e.value = serial.state.value
      /\ e.locked = locked
  BY EntryFields DEF Inv, TypeOK, SerialType
<1>4. /\ serial'.path = p /\ serial'.value = serial.value
      /\ serial'.overtaken = serial.overtaken
      /\ serial'.action = Action(e, serial.value)
      /\ serial'.pc = IF Action(e, serial.value) = "locked" /\ ~e.locked
                      THEN "store" ELSE "send"
  BY <1>2 DEF Inv, TypeOK, SerialType
<1> HIDE DEF e
<1>5. /\ UNCHANGED <<path_values, listener, announced>>
      /\ picked'[p] = (picked[p] \/ (announced[p] # Nothing /\ Near(serial.value, announced[p])))
      /\ causes'[p] = IF serial.overtaken THEN causes[p] \cup {"race"} ELSE causes[p]
  BY <1>1 DEF Decide, Inv, TypeOK
<1>6. Tracked(p)
  BY <1>1 DEF HistoryInv
<1>7. serial'.pc # "send" => serial'.action = "locked"
  BY <1>4
<1>8. serial'.action # "locked" /\ ~serial'.overtaken => Present(p)
  BY <1>1, <1>4, <1>6 DEF Tracked, CopyTracked
<1>9. KnobObeysAnnouncement'
  <2> SUFFICES ASSUME serial'.pc = "send", Present(p), ~serial.overtaken, causes[p] = {}
               PROVE  LET v == announced[p]
                          a == Action(e, serial.value)
                      IN  CASE a = "locked"    -> v = Nothing \/ picked'[p]
                            [] a = "turn_up"   -> v # Nothing /\ ~picked'[p] /\ serial.value < v
                            [] a = "turn_down" -> v # Nothing /\ ~picked'[p] /\ serial.value > v
    <3>1. announced' = announced /\ path_values' = path_values
      BY <1>5
    <3>2. causes[p] = {} \/ causes'[p] # {}
      BY <1>5
    <3> QED
      BY <1>4, <1>5, <3>1, <3>2 DEF KnobObeysAnnouncement, Present
  <2>1. /\ ~Rewriting(p) /\ Agrees(p)
        /\ serial.state.loaded = path_values[p].loaded
        /\ serial.state.value = path_values[p].value
    BY <1>1, <1>6 DEF Tracked, RewriteTracked, CopyTracked, EntryTracked, Clean, Rewriting
  <2>2. /\ e.locked = path_values[p].locked /\ e.loaded = path_values[p].loaded
        /\ e.value = path_values[p].value
    BY <1>2, <1>3, <2>1
  <2>3. /\ e.loaded <=> announced[p] # Nothing
        /\ e.loaded => e.value = announced[p] /\ (e.locked <=> picked[p])
    BY <2>1, <2>2 DEF Agrees
  <2>4. CASE Action(e, serial.value) = "locked"
    <3>1. e.locked
      BY <1>4, <2>4
    <3> QED
      BY <1>5, <2>3, <2>4, <3>1
  <2>5. CASE Action(e, serial.value) # "locked"
    <3>1. ~e.locked /\ e.loaded /\ ~Near(serial.value, e.value)
      BY <2>5 DEF Action
    <3>2. announced[p] # Nothing /\ e.value = announced[p] /\ ~picked'[p]
      BY <1>5, <2>3, <3>1
    <3>3. Action(e, serial.value) = IF serial.value > e.value THEN "turn_down" ELSE "turn_up"
      BY <3>1 DEF Action
    <3>4. serial.value \in Int /\ e.value \in Int
      BY <1>1, <1>3, ValueFacts DEF Inv, TypeOK, SerialType
    <3>5. serial.value # e.value
      <4>1. 0 \in -Tolerance .. Tolerance
        BY ValuesAssumption
      <4> QED
        BY <3>1, <3>4, <4>1 DEF Near
    <3>6. CASE serial.value > e.value
      BY <3>2, <3>3, <3>6
    <3>7. CASE serial.value < e.value
      <4>1. Action(e, serial.value) = "turn_up"
        BY <3>3, <3>4, <3>7
      <4> QED
        BY <3>2, <3>7, <4>1
    <3>8. serial.value > e.value \/ serial.value < e.value
      BY <3>4, <3>5
    <3> QED
      BY <3>6, <3>7, <3>8
  <2> QED
    BY <2>4, <2>5
<1> QED
  BY <1>1, <1>4, <1>5, <1>7, <1>8, <1>9 DEF ActionTracked, Present

LEMMA StoreLockedAction ==
  ASSUME Inv, HistoryInv, StoreLocked
  PROVE  ActionTracked'
<1> DEFINE p == serial.path
<1>1. /\ serial.pc = "store_locked" /\ serial.action = "locked"
      /\ p \in Paths /\ InWindow(p)
  BY WindowFacts DEF StoreLocked, SerialAt, HistoryInv, ActionTracked, InWindow
<1>2. /\ serial'.pc = "send" /\ serial'.path = p /\ serial'.action = "locked"
      /\ serial'.overtaken = serial.overtaken
  BY <1>1 DEF StoreLocked, Inv, TypeOK, SerialType
<1>3. /\ announced' = announced /\ picked' = picked /\ listener' = listener
      /\ causes'[p] = IF serial.overtaken THEN causes[p] \cup {"race"} ELSE causes[p]
  BY <1>1 DEF StoreLocked, Inv, TypeOK
<1>4. Tracked(p)
  BY <1>1 DEF HistoryInv
<1>5. ASSUME ~serial.overtaken, causes[p] = {}
      PROVE  announced[p] = Nothing \/ picked[p]
  <2>1. Present(p) /\ Clean(p)
    BY <1>1, <1>4, <1>5 DEF Tracked, CopyTracked, Clean
  <2>2. ~Rewriting(p)
    BY <1>1, <1>4, <1>5 DEF Tracked, RewriteTracked, Rewriting
  <2> QED
    BY <1>1, <1>4, <2>1, <2>2 DEF Tracked, EntryTracked
<1>6. KnobObeysAnnouncement'
  BY <1>2, <1>3, <1>5 DEF KnobObeysAnnouncement
<1> QED
  BY <1>2, <1>6 DEF ActionTracked

LEMMA SerialStepAction ==
  ASSUME Inv, HistoryInv, SerialNext
  PROVE  ActionTracked'
<1> USE NamesAssumption, EntryAssumption
<1> USE DEF HistoryInv, Tracked, RewriteTracked, CopyTracked, EntryTracked,
        AbsentForgotten, Clean, InWindow, Rewriting, Present, Agrees,
        Inv, TypeOK, SerialType, ListenerType, SerialOK, ListenerOK, Rewrites,
        Unassigns, SerialAt, ListenerAt, history, Entry
<1> USE DEF ActionTracked, KnobObeysAnnouncement
<1>1. ASSUME NEW c \in Controllers, NEW v \in Values, KnobTurned(c, v)
      PROVE  ActionTracked'
  BY <1>1 DEF KnobTurned, SerialIdle
<1>2. CASE GetPath
  BY ZenonT(60), <1>2 DEF GetPath
<1>3. CASE ReadPath
  BY <1>3 DEF ReadPath
<1>4. CASE Find
  BY <1>4 DEF Find
<1>5. CASE Convert
  BY <1>5 DEF Convert
<1>6. CASE Snapshot
  BY <1>6 DEF Snapshot, NewEntry
<1>7. CASE Decide
  BY <1>7, DecideAction
<1>8. CASE Store
  BY <1>8 DEF Store
<1>9. CASE StoreLocked
  BY <1>9, StoreLockedAction
<1>10. CASE Send
  BY <1>10 DEF Send, SerialIdle
<1> QED
  BY <1>1, <1>2, <1>3, <1>4, <1>5, <1>6, <1>7, <1>8, <1>9, <1>10
  DEF SerialNext

-----------------------------------------------------------------------------
LEMMA HistoryInit == Init => HistoryInv
<1> SUFFICES ASSUME Init PROVE HistoryInv
  OBVIOUS
<1>1. ActionTracked
  BY DEF Init, ActionTracked, KnobObeysAnnouncement, SerialIdle
<1>2. ASSUME NEW p \in Paths
      PROVE  Tracked(p)
  <2>1. /\ serial.pc = "read" /\ listener.pc = "wait" /\ listener.path = NoPath
        /\ announced[p] = Nothing
        /\ path_values[p] \in {NewEntry, NoEntry}
    BY <1>2 DEF Init, SerialIdle, ListenerIdle
  <2>2. ~NewEntry.loaded
    BY DEF NewEntry
  <2>3. ~InWindow(p) /\ ~Rewriting(p) /\ listener.path # p
    BY <1>2, <2>1, NamesAssumption DEF InWindow, Rewriting
  <2>4. Present(p) => Agrees(p)
    BY <2>1, <2>2 DEF Present, Agrees
  <2> QED
    BY <2>1, <2>3, <2>4
    DEF Tracked, RewriteTracked, CopyTracked, EntryTracked, AbsentForgotten
<1> QED
  BY <1>1, <1>2 DEF HistoryInv

LEMMA HistoryStep == Inv /\ HistoryInv /\ [Next]_vars => HistoryInv'
<1> SUFFICES ASSUME Inv, HistoryInv, [Next]_vars PROVE HistoryInv'
  OBVIOUS
<1>1. CASE SerialNext
  BY <1>1, SerialStepTracked, SerialStepAction DEF HistoryInv
<1>2. CASE ListenerNext
  BY <1>2, ListenerStepTracked, ListenerStepAction DEF HistoryInv
<1>3. CASE UNCHANGED vars
  <2>1. UNCHANGED <<path_values, serial, listener, announced, picked, causes>>
    BY <1>3 DEF vars, code, history
  <2>2. ActionTracked'
    BY <2>1 DEF HistoryInv, ActionTracked, KnobObeysAnnouncement, Present
  <2>3. ASSUME NEW p \in Paths
        PROVE  Tracked(p)'
    BY <2>1, <2>3
    DEF HistoryInv, Tracked, RewriteTracked, CopyTracked, EntryTracked,
        AbsentForgotten, Clean, InWindow, Rewriting, Present, Agrees
  <2> QED
    BY <2>2, <2>3 DEF HistoryInv
<1> QED
  BY <1>1, <1>2, <1>3 DEF Next

LEMMA HistoryInvHolds == Spec => []HistoryInv
<1>1. Init => HistoryInv
  BY HistoryInit
<1>2. Inv /\ HistoryInv /\ [Next]_vars => HistoryInv'
  BY HistoryStep
<1> QED
  BY <1>1, <1>2, InvHolds, PTL DEF Spec

(* An entry is wrong only if the listener wrote to it between the moment a *)
(* knob's turn read it and the moment the turn acted on it, or if RNBO's   *)
(* value came while no knob drove the parameter.                           *)
THEOREM OnlyTwoCauses == Spec => []StaleHasCause
<1>1. HistoryInv => StaleHasCause
  BY DEF HistoryInv, Tracked, EntryTracked, Clean, StaleHasCause, AtRest, InWindow
<1> QED
  BY <1>1, HistoryInvHolds, PTL

(* Apart from these two causes a knob is held back exactly while it has    *)
(* not been at the value that RNBO announced.                              *)
THEOREM KnobsObey == Spec => []KnobObeysAnnouncement
<1>1. HistoryInv => KnobObeysAnnouncement
  BY DEF HistoryInv, ActionTracked
<1> QED
  BY <1>1, HistoryInvHolds, PTL

-----------------------------------------------------------------------------
(* That the DataHandler implements PickUpRule for each parameter.          *)

(* A turn is overtaken only once it has looked at an entry.                *)
Early == serial.pc \in {"get_path", "read_path", "find"} => ~serial.overtaken

OvertakenOf(p) == TurnOf(p) # "none" /\ serial.overtaken

LEMMA OvertakeRule ==
  ASSUME Inv, NEW p, Overtake(p), NEW q \in Paths
  PROVE  /\ serial'.pc = serial.pc /\ serial'.path = serial.path
         /\ TurnOf(q)' = TurnOf(q)
         /\ q # p => OvertakenOf(q)' = OvertakenOf(q)
         /\ q = p => OvertakenOf(q)' = (OvertakenOf(q) \/ TurnOf(q) # "none")
         /\ Early => Early'
<1>1. serial \in SerialType
  BY DEF Inv, TypeOK
<1>2. /\ serial'.pc = serial.pc /\ serial'.path = serial.path
      /\ serial'.action = serial.action
  BY <1>1 DEF Overtake, SerialType
<1>3. serial'.overtaken =
        (serial.overtaken \/ (serial.path = p /\ serial.pc \in
           {"snapshot_locked", "store", "store_locked", "send"}))
  BY <1>1 DEF Overtake, SerialType
<1>4. TurnOf(q)' = TurnOf(q)
  BY <1>2 DEF TurnOf
<1>5. TurnOf(q) # "none" <=>
        serial.path = q /\ serial.pc \in {"snapshot_locked", "store", "store_locked", "send"}
  BY <1>1 DEF TurnOf, SerialType
<1> QED BY <1>2, <1>3, <1>4, <1>5 DEF OvertakenOf, Early

(* What a step may do to q's part of the rule.                             *)
LeavesRule(q) ==
  /\ announced'[q] = announced[q] /\ picked'[q] = picked[q]
  /\ (causes'[q] # {}) = (causes[q] # {})
  /\ Rewriting(q)' = Rewriting(q)
  /\ TurnOf(q)' = TurnOf(q) /\ OvertakenOf(q)' = OvertakenOf(q)

LEMMA LeftRule ==
  ASSUME NEW q, LeavesRule(q)
  PROVE  [Rule(q)!Next]_(Rule(q)!vars)
BY DEF LeavesRule, Rule!vars, OvertakenOf

(* A step of the listener that leaves history and serial thread alone.     *)
LEMMA ListenerLeaves ==
  ASSUME UNCHANGED <<serial, history>>, NEW q \in Paths,
         Rewriting(q)' = Rewriting(q)
  PROVE  LeavesRule(q)
BY DEF LeavesRule, history, TurnOf, OvertakenOf

(* A step in which it writes to p's entry.                                 *)
LEMMA WriteRule ==
  ASSUME Inv, NEW p \in Paths, Overtake(p), UNCHANGED history,
         Rewriting(p), \A r \in Paths \ {p} : ~Rewriting(r) /\ ~Rewriting(r)',
         NEW q \in Paths
  PROVE  [Rule(q)!Next]_(Rule(q)!vars)
<1>1. CASE q # p
  <2>1. LeavesRule(q)
    <3>1. Rewriting(q)' = Rewriting(q)
      BY <1>1 DEF Rewriting
    <3>2. TurnOf(q)' = TurnOf(q) /\ OvertakenOf(q)' = OvertakenOf(q)
      BY <1>1, OvertakeRule
    <3> QED BY <3>1, <3>2 DEF LeavesRule, history
  <2> QED BY <2>1, LeftRule
<1>2. CASE q = p
  <2>1. Rewriting(p)' \in BOOLEAN
    BY DEF Rewriting
  <2>2. Rule(p)!Write
    BY <1>2, <2>1, OvertakeRule DEF Rule!Write, Rule!Overtake, history, OvertakenOf
  <2> QED BY <1>2, <2>2 DEF Rule!Next
<1> QED BY <1>1, <1>2

(* A step with which it begins to do so, or erases the entry.              *)
LEMMA RenewRule ==
  ASSUME Inv, NEW p \in Paths, Overtake(p),
         NEW v \in Values \cup {Nothing}, Reset(p, v),
         ~Rewriting(p), Rewriting(p)' \/ v = Nothing,
         \A r \in Paths \ {p} : ~Rewriting(r) /\ ~Rewriting(r)',
         NEW q \in Paths
  PROVE  [Rule(q)!Next]_(Rule(q)!vars)
<1>1. /\ announced'[p] = v /\ picked'[p] = FALSE /\ causes'[p] = {}
      /\ \A r \in Paths \ {p} :
           announced'[r] = announced[r] /\ picked'[r] = picked[r] /\ causes'[r] = causes[r]
  BY DEF Reset, Inv, TypeOK
<1>2. CASE q # p
  <2>1. LeavesRule(q)
    <3>1. Rewriting(q)' = Rewriting(q)
      BY <1>2 DEF Rewriting
    <3>2. TurnOf(q)' = TurnOf(q) /\ OvertakenOf(q)' = OvertakenOf(q)
      BY <1>2, OvertakeRule
    <3> QED BY <1>1, <1>2, <3>1, <3>2 DEF LeavesRule
  <2> QED BY <2>1, LeftRule
<1>3. CASE q = p
  <2>1. Rule(p)!Renew(v) /\ Rule(p)!Overtake
    BY <1>1, <1>3, OvertakeRule DEF Rule!Renew, Rule!Overtake, OvertakenOf
  <2>2. Rewriting(p) \in BOOLEAN /\ Rewriting(p)' \in BOOLEAN
    BY DEF Rewriting
  <2>3. CASE Rewriting(p)'
    <3>1. Rule(p)!Announce
      BY <2>1, <2>2, <2>3 DEF Rule!Announce
    <3> QED BY <1>3, <3>1 DEF Rule!Next
  <2>4. CASE ~Rewriting(p)'
    <3>1. Rule(p)!Forget
      BY <2>1, <2>2, <2>4 DEF Rule!Forget
    <3> QED BY <1>3, <3>1 DEF Rule!Next
  <2> QED BY <2>3, <2>4
<1> QED BY <1>2, <1>3

LEMMA ListenerRule ==
  ASSUME Inv, HistoryInv, ListenerNext, NEW q \in Paths
  PROVE  [Rule(q)!Next]_(Rule(q)!vars)
<1>1. ASSUME NEW p \in Paths, NEW v \in Values, Value(p, v)
      PROVE  [Rule(q)!Next]_(Rule(q)!vars)
  <2>1. listener.pc = "wait" /\ listener'.pc = "set_value" /\ listener'.path = p
    BY <1>1 DEF Value, ListenerAt, Inv, TypeOK, ListenerType
  <2>2. Rewriting(p)' /\ ~Rewriting(p) /\ \A r \in Paths \ {p} : ~Rewriting(r) /\ ~Rewriting(r)'
    BY <2>1 DEF Rewriting
  <2> QED BY <1>1, <2>2, RenewRule DEF Value
<1>2. ASSUME NEW p \in Paths, NEW v \in Values, ValueIgnored(p, v)
      PROVE  [Rule(q)!Next]_(Rule(q)!vars)
  <2>1. /\ UNCHANGED <<serial, listener>> /\ announced[p] # Nothing
        /\ announced'[p] = v /\ picked'[p] = FALSE /\ causes'[p] # {}
        /\ \A r \in Paths \ {p} :
             announced'[r] = announced[r] /\ picked'[r] = picked[r] /\ causes'[r] = causes[r]
    BY <1>2 DEF ValueIgnored, code, Inv, TypeOK
  <2>2. ~Rewriting(q) /\ ~Rewriting(q)'
    BY <1>2, <2>1 DEF ValueIgnored, ListenerAt, Rewriting
  <2>3. TurnOf(q)' = TurnOf(q) /\ OvertakenOf(q)' = OvertakenOf(q)
    BY <2>1 DEF TurnOf, OvertakenOf
  <2>4. CASE q # p
    <3>1. Rewriting(q)' = Rewriting(q)
      BY <2>2 DEF Rewriting
    <3>2. LeavesRule(q)
      BY <2>1, <2>3, <2>4, <3>1 DEF LeavesRule
    <3> QED BY <3>2, LeftRule
  <2>5. CASE q = p
    <3>1. Rule(q)!Ignore
      <4>1. Rewriting(q)' = Rewriting(q)
        BY <2>2 DEF Rewriting
      <4>2. (causes'[q] # {}) = TRUE
        BY <2>1, <2>5
      <4> QED BY <2>1, <2>2, <2>3, <2>5, <4>1, <4>2 DEF Rule!Ignore, OvertakenOf
    <3> QED BY <3>1 DEF Rule!Next
  <2> QED BY <2>4, <2>5
<1>3. ASSUME NEW p \in Paths, ClearValue(p)
      PROVE  [Rule(q)!Next]_(Rule(q)!vars)
  <2>1. listener.pc = "clear" /\ listener'.pc = "clear_loaded" /\ listener'.path = p
    BY <1>3 DEF ClearValue, ListenerAt, Inv, TypeOK, ListenerType
  <2>2. Rewriting(p)' /\ ~Rewriting(p) /\ \A r \in Paths \ {p} : ~Rewriting(r) /\ ~Rewriting(r)'
    BY <2>1 DEF Rewriting
  <2> QED BY <1>3, <2>2, RenewRule DEF ClearValue
<1>4. CASE SetValue \/ SetLocked \/ ClearLoaded \/ ClearLocked
  <2>1. /\ Overtake(listener.path) /\ UNCHANGED history
        /\ listener.pc \in Rewrites /\ listener.path \in Paths
    BY <1>4 DEF SetValue, SetLocked, ClearLoaded, ClearLocked, ListenerAt, Rewrites,
                Inv, ListenerOK, Present
  <2>2. listener'.path \in {listener.path, NoPath}
    <3>1. listener \in ListenerType
      BY DEF Inv, TypeOK
    <3>2. CASE SetValue \/ ClearLoaded
      BY <3>1, <3>2 DEF SetValue, ClearLoaded, ListenerType
    <3>3. CASE SetLocked
      BY <3>3 DEF SetLocked, ListenerIdle
    <3>4. CASE ClearLocked
      BY <3>1, <3>4 DEF ClearLocked, ListenerType
    <3> QED BY <1>4, <3>2, <3>3, <3>4
  <2>3. /\ Rewriting(listener.path)
        /\ \A r \in Paths \ {listener.path} : ~Rewriting(r) /\ ~Rewriting(r)'
    BY <2>1, <2>2, NamesAssumption DEF Rewriting, Rewrites
  <2> QED BY <2>1, <2>3, WriteRule
<1>5. CASE EraseOnly \/ Erase \/ EraseAgain
  <2>0. listener \in ListenerType
    BY DEF Inv, TypeOK
  <2>1. PICK next : EraseEntry(next) /\ next.pc \notin Rewrites
    <3>1. CASE EraseOnly
      <4>1. ListenerIdle.pc \notin Rewrites /\ listener.pc \notin Rewrites
        BY <3>1 DEF EraseOnly, ListenerIdle, ListenerAt, Rewrites
      <4> QED BY <3>1, <4>1 DEF EraseOnly
    <3>2. CASE Erase
      <4>1. \A next \in {"erase", "load", "erase_again"} :
              [listener EXCEPT !.pc = next].pc \notin Rewrites
        BY <2>0 DEF ListenerType, Rewrites
      <4> QED BY <3>2, <4>1 DEF Erase
    <3>3. CASE EraseAgain
      <4>1. [listener EXCEPT !.pc = "assign"].pc \notin Rewrites
        BY <2>0 DEF ListenerType, Rewrites
      <4> QED BY <3>3, <4>1 DEF EraseAgain
    <3> QED BY <1>5, <3>1, <3>2, <3>3
  <2>2. listener.pc \in Unassigns /\ listener.path \in Paths
    BY <1>5 DEF EraseOnly, Erase, EraseAgain, ListenerAt, Unassigns, Inv, ListenerOK
  <2>3. \A r \in Paths : ~Rewriting(r) /\ ~Rewriting(r)'
    BY <2>1, <2>2 DEF EraseEntry, Rewriting, Rewrites, Unassigns
  <2> QED BY <2>1, <2>2, <2>3, RenewRule DEF EraseEntry
<1>6. CASE UNCHANGED <<serial, history>> /\ listener.pc \notin Rewrites /\ listener'.pc \notin Rewrites
  <2>1. Rewriting(q)' = Rewriting(q)
    BY <1>6 DEF Rewriting, Rewrites
  <2> QED BY <1>6, <2>1, ListenerLeaves, LeftRule
<1>7. ASSUME NEW p \in Paths,
             \/ ClearAbsent(p) \/ (\E c \in Controllers : Meta(p, c))
             \/ MetaWithoutController(p) \/ LoadEntry(p)
             \/ (\E doc \in Documents : MetaUnusable(p, doc))
      PROVE  [Rule(q)!Next]_(Rule(q)!vars)
  <2>0. listener \in ListenerType
    BY DEF Inv, TypeOK
  <2>1. UNCHANGED <<serial, history>> /\ listener.pc \notin Rewrites
    BY <1>7 DEF ClearAbsent, Meta, MetaWithoutController, LoadEntry, MetaUnusable,
                ListenerAt, Rewrites
  <2>2. listener'.pc \notin Rewrites
    BY <1>7, <2>0, <2>1 DEF ClearAbsent, Meta, MetaWithoutController, LoadEntry,
                MetaUnusable, Rewrites, ListenerType
  <2> QED BY <1>6, <2>1, <2>2
<1>9. CASE \/ PresetLoad \/ ClearDone \/ PresetLoaded
           \/ (\E doc \in Documents : Reload(doc)) \/ LoadConfig \/ LoadFails
  <2>0. listener \in ListenerType
    BY DEF Inv, TypeOK
  <2>1. UNCHANGED <<serial, history>> /\ listener.pc \notin Rewrites
    BY <1>9 DEF PresetLoad, ClearDone, PresetLoaded, Reload, LoadConfig, LoadFails,
                ListenerAt, Rewrites
  <2>2. listener'.pc \notin Rewrites
    <3>1. CASE PresetLoad \/ PresetLoaded \/ (\E doc \in Documents : Reload(doc))
      BY <2>0, <2>1, <3>1 DEF PresetLoad, PresetLoaded, Reload, Rewrites, ListenerType
    <3>2. CASE ClearDone \/ LoadConfig \/ LoadFails
      BY <3>2 DEF ClearDone, LoadConfig, LoadFails, ListenerIdle, Rewrites
    <3> QED BY <1>9, <3>1, <3>2
  <2> QED BY <1>6, <2>1, <2>2
<1>8. CASE Assign \/ Overwrite \/ Add \/ Insert
  <2>1. UNCHANGED <<serial, history>> /\ listener.pc \notin Rewrites /\ listener'.pc \notin Rewrites
    BY <1>8 DEF Assign, Overwrite, Add, Insert, AssignTo,
                ListenerIdle, ListenerAt, Rewrites, Inv, TypeOK, ListenerType
  <2> QED BY <1>6, <2>1
<1> QED BY <1>1, <1>2, <1>3, <1>4, <1>5, <1>7, <1>8, <1>9 DEF ListenerNext

LEMMA ListenerEarly ==
  ASSUME Inv, Early, ListenerNext
  PROVE  Early'
<1>1. serial' = serial \/ \E p : Overtake(p)
  <2>1. ASSUME NEW p \in Paths, NEW v \in Values, Value(p, v) \/ ValueIgnored(p, v)
        PROVE  serial' = serial \/ Overtake(p)
    BY <2>1 DEF Value, ValueIgnored, code
  <2>2. ASSUME NEW p \in Paths, ClearValue(p) \/ ClearAbsent(p)
        PROVE  serial' = serial \/ Overtake(p)
    BY <2>2 DEF ClearValue, ClearAbsent
  <2>3. ASSUME NEW p \in Paths,
               \/ (\E c \in Controllers : Meta(p, c)) \/ MetaWithoutController(p)
               \/ (\E doc \in Documents : MetaUnusable(p, doc)) \/ LoadEntry(p)
        PROVE  serial' = serial
    BY <2>3 DEF Meta, MetaWithoutController, MetaUnusable, LoadEntry
  <2>4. CASE SetValue \/ SetLocked \/ ClearLoaded \/ ClearLocked
    BY <2>4 DEF SetValue, SetLocked, ClearLoaded, ClearLocked
  <2>5. CASE EraseOnly \/ Erase \/ EraseAgain
    BY <2>5 DEF EraseOnly, Erase, EraseAgain, EraseEntry
  <2>6. CASE PresetLoad \/ ClearDone \/ PresetLoaded \/ Assign \/ Overwrite \/ Add \/ Insert
    BY <2>6 DEF PresetLoad, ClearDone, PresetLoaded, Assign, Overwrite, Add, AssignTo, Insert
  <2>7. CASE (\E doc \in Documents : Reload(doc)) \/ LoadConfig \/ LoadFails
    BY <2>7 DEF Reload, LoadConfig, LoadFails
  <2> QED BY <2>1, <2>2, <2>3, <2>4, <2>5, <2>6, <2>7 DEF ListenerNext
<1>2. ASSUME NEW p, Overtake(p)
      PROVE  Early'
  BY <1>2 DEF Overtake, Early, Inv, TypeOK, SerialType
<1> QED BY <1>1, <1>2 DEF Early

(* A step of the serial thread that leaves history and listener alone.     *)
LEMMA SerialLeaves ==
  ASSUME UNCHANGED <<listener, history>>, NEW q \in Paths,
         TurnOf(q)' = TurnOf(q), OvertakenOf(q)' = OvertakenOf(q)
  PROVE  [Rule(q)!Next]_(Rule(q)!vars)
<1>1. Rewriting(q)' = Rewriting(q)
  BY DEF Rewriting
<1>2. LeavesRule(q)
  BY <1>1 DEF LeavesRule, history
<1> QED BY <1>2, LeftRule

LEMMA DecideRule ==
  ASSUME Inv, HistoryInv, Decide, NEW q \in Paths
  PROVE  [Rule(q)!Next]_(Rule(q)!vars)
<1> DEFINE p == serial.path
<1>1. /\ p \in Paths /\ InWindow(p) /\ serial.pc = "snapshot_locked"
      /\ Present(p) => path_values[p] \in Entry
      /\ serial.state.loaded \in BOOLEAN /\ serial.state.value \in Values
  BY WindowFacts DEF Decide, SerialAt
<1>2. PICK locked \in IF Present(p) THEN {path_values[p].locked} ELSE BOOLEAN :
        LET e == [serial.state EXCEPT !.locked = locked]
        IN  serial' = [serial EXCEPT !.state = e, !.action = Action(e, serial.value),
                         !.pc = IF Action(e, serial.value) = "locked" /\ ~e.locked
                                THEN "store" ELSE "send"]
  BY DEF Decide
<1> DEFINE e == [serial.state EXCEPT !.locked = locked]
<1>3. /\ e.loaded = serial.state.loaded /\ e.value = serial.state.value
      /\ e.locked = locked
  BY EntryFields DEF Inv, TypeOK, SerialType
<1>4. /\ serial'.path = p /\ serial'.overtaken = serial.overtaken
      /\ serial'.action = Action(e, serial.value)
      /\ serial'.pc \in {"store", "send"}
  BY <1>2 DEF Inv, TypeOK, SerialType
<1> HIDE DEF e
<1>5. /\ UNCHANGED <<path_values, listener, announced>>
      /\ picked'[p] = (picked[p] \/ (announced[p] # Nothing /\ Near(serial.value, announced[p])))
      /\ causes'[p] = IF serial.overtaken THEN causes[p] \cup {"race"} ELSE causes[p]
      /\ \A r \in Paths \ {p} : picked'[r] = picked[r] /\ causes'[r] = causes[r]
  BY <1>1 DEF Decide, Inv, TypeOK
<1>6. \A r \in Paths : Rewriting(r)' = Rewriting(r)
  BY <1>5 DEF Rewriting
<1>7. CASE q # p
  <2>1. TurnOf(q)' = TurnOf(q) /\ OvertakenOf(q)' = OvertakenOf(q)
    BY <1>4, <1>7 DEF TurnOf, OvertakenOf
  <2>2. LeavesRule(q)
    BY <1>5, <1>6, <1>7, <2>1 DEF LeavesRule
  <2> QED BY <2>2, LeftRule
<1>8. CASE q = p
  <2> DEFINE v == serial.value
             a == Action(e, v)
  <2>1. TurnOf(q) = "looking" /\ TurnOf(q)' = a /\ a \in {"locked", "turn_up", "turn_down"}
    <3>1. a \in {"locked", "turn_up", "turn_down"}
      BY DEF Action
    <3>2. TurnOf(q)' = a
      BY <1>4, <1>8 DEF TurnOf
    <3> QED BY <1>1, <1>8, <3>1, <3>2 DEF TurnOf
  <2>2. v \in Values \cup {Unassigned} /\ v \in Int
    BY ValueFacts DEF Inv, TypeOK, SerialType
  <2>3. ASSUME ~serial.overtaken, causes[q] = {}
        PROVE  a = Rule(q)!Verdict(v)
    <3>1. Tracked(q)
      BY <1>1, <1>8 DEF HistoryInv
    <3>2. /\ Present(q) /\ Agrees(q)
          /\ serial.state.loaded = path_values[q].loaded
          /\ serial.state.value = path_values[q].value
      BY <1>1, <1>8, <2>3, <3>1
      DEF Tracked, RewriteTracked, CopyTracked, EntryTracked, Clean, Rewriting
    <3>3. /\ e.locked = path_values[q].locked /\ e.loaded = path_values[q].loaded
          /\ e.value = path_values[q].value
      BY <1>2, <1>3, <1>8, <3>2
    <3>4. /\ e.loaded <=> announced[q] # Nothing
          /\ e.loaded => e.value = announced[q] /\ (e.locked <=> picked[q])
      BY <3>2, <3>3 DEF Agrees
    <3>5. announced[q] \in Values \cup {Nothing} /\ e.value \in Values
      BY <1>1, <1>3, <1>8 DEF Inv, TypeOK
    <3>6. CASE announced[q] = Nothing
      BY <3>4, <3>6 DEF Action, Rule!Verdict
    <3>7. CASE announced[q] # Nothing
      <4>1. e.value = announced[q] /\ e.loaded /\ (e.locked <=> picked[q])
        BY <3>4, <3>7
      <4>2. Near(v, e.value) <=> Rule(q)!Near(v)
        BY <4>1 DEF Near, Rule!Near
      <4> QED BY <3>7, <4>1, <4>2 DEF Action, Rule!Verdict
    <3> QED BY <3>6, <3>7
  <2>4. /\ OvertakenOf(q) = serial.overtaken /\ OvertakenOf(q)' = serial.overtaken
    BY <1>4, <2>1 DEF OvertakenOf, Inv, TypeOK, SerialType
  <2>5. (causes'[q] # {}) = ((causes[q] # {}) \/ serial.overtaken)
    BY <1>5, <1>8
  <2>6. picked'[q] = (picked[q] \/ (announced[q] # Nothing /\ Rule(q)!Near(v)))
    BY <1>5, <1>8 DEF Near, Rule!Near
  <2> HIDE DEF v, a
  <2>7. Rule(q)!Judge(v)
    <3>1. TurnOf(q)' \in IF OvertakenOf(q) \/ causes[q] # {} THEN Rule(q)!Verdicts
                         ELSE {Rule(q)!Verdict(v)}
      BY <2>1, <2>3, <2>4 DEF Rule!Verdicts
    <3>2. Rewriting(q)' = Rewriting(q) /\ announced'[q] = announced[q]
      BY <1>5, <1>6
    <3> QED BY <3>2, <2>1, <2>4, <2>5, <2>6, <3>1 DEF Rule!Judge, OvertakenOf
  <2> QED BY <1>8, <2>2, <2>7 DEF Rule!Next
<1> QED BY <1>7, <1>8

LEMMA StoreLockedRule ==
  ASSUME Inv, HistoryInv, StoreLocked, NEW q \in Paths
  PROVE  [Rule(q)!Next]_(Rule(q)!vars)
<1> DEFINE p == serial.path
<1>1. /\ serial.pc = "store_locked" /\ serial.action = "locked" /\ p \in Paths
  BY WindowFacts DEF StoreLocked, SerialAt, HistoryInv, ActionTracked
<1>2. /\ serial'.pc = "send" /\ serial'.path = p /\ serial'.action = "locked"
      /\ serial'.overtaken = serial.overtaken
  BY <1>1 DEF StoreLocked, Inv, TypeOK, SerialType
<1>3. /\ UNCHANGED <<announced, picked, listener>>
      /\ causes'[p] = IF serial.overtaken THEN causes[p] \cup {"race"} ELSE causes[p]
      /\ \A r \in Paths \ {p} : causes'[r] = causes[r]
  BY <1>1 DEF StoreLocked, Inv, TypeOK
<1>4. Rewriting(q)' = Rewriting(q)
  BY <1>3 DEF Rewriting
<1>5. TurnOf(q)' = TurnOf(q) /\ OvertakenOf(q)' = OvertakenOf(q)
  BY <1>1, <1>2 DEF TurnOf, OvertakenOf
<1>6. CASE q # p \/ ~serial.overtaken
  <2>1. LeavesRule(q)
    BY <1>1, <1>3, <1>4, <1>5, <1>6 DEF LeavesRule
  <2> QED BY <2>1, LeftRule
<1>7. CASE q = p /\ serial.overtaken
  <2>1. TurnOf(q) = "locked" /\ OvertakenOf(q)
    BY <1>1, <1>7 DEF TurnOf, OvertakenOf
  <2>2. (causes'[q] # {}) = TRUE
    BY <1>3, <1>7
  <2>3. Rule(q)!Spoil
    BY <1>3, <1>4, <1>5, <1>7, <2>1, <2>2 DEF Rule!Spoil, OvertakenOf
  <2> QED BY <1>7, <2>3 DEF Rule!Next
<1> QED BY <1>6, <1>7

LEMMA SerialRule ==
  ASSUME Inv, HistoryInv, Early, SerialNext, NEW q \in Paths
  PROVE  [Rule(q)!Next]_(Rule(q)!vars)
<1>0. serial \in SerialType /\ q # NoPath
  BY NamesAssumption DEF Inv, TypeOK
<1>1. ASSUME NEW c \in Controllers, NEW v \in Values, KnobTurned(c, v)
      PROVE  [Rule(q)!Next]_(Rule(q)!vars)
  <2>1. serial.pc = "read" /\ serial'.path = NoPath
    BY <1>1 DEF KnobTurned, SerialAt, SerialIdle
  <2>2. TurnOf(q) = "none" /\ TurnOf(q)' = "none"
    BY <1>0, <2>1 DEF TurnOf
  <2> QED BY <1>1, <2>2, SerialLeaves DEF KnobTurned, OvertakenOf
<1>2. CASE GetPath
  <2>1. serial.path = NoPath /\ serial'.path = NoPath
    BY <1>0, <1>2 DEF GetPath, SerialAt, HistoryInv, ActionTracked, SerialType
  <2>2. TurnOf(q) = "none" /\ TurnOf(q)' = "none"
    BY <1>0, <2>1 DEF TurnOf
  <2> QED BY <1>2, <2>2, SerialLeaves DEF GetPath, OvertakenOf
<1>3. CASE ReadPath
  <2>1. serial.pc = "read_path" /\ serial'.pc = "find"
    BY <1>0, <1>3 DEF ReadPath, SerialAt, SerialType
  <2>2. TurnOf(q) = "none" /\ TurnOf(q)' = "none"
    BY <2>1 DEF TurnOf
  <2> QED BY <1>3, <2>2, SerialLeaves DEF ReadPath, OvertakenOf
<1>4. CASE Find
  <2>1. /\ serial.pc = "find" /\ serial.action = "locked" /\ ~serial.overtaken
        /\ serial'.path = serial.path /\ serial'.action = "locked" /\ ~serial'.overtaken
        /\ serial'.pc = IF Present(serial.path) THEN "convert" ELSE "send"
        /\ UNCHANGED <<listener, history>>
    BY <1>0, <1>4 DEF Find, SerialAt, SerialType, Early, HistoryInv, ActionTracked
  <2>2. TurnOf(q) = "none" /\ ~OvertakenOf(q) /\ ~OvertakenOf(q)'
    BY <2>1 DEF TurnOf, OvertakenOf
  <2>3. CASE q # serial.path \/ Present(q)
    <3>1. TurnOf(q)' = "none"
      BY <2>1, <2>3 DEF TurnOf
    <3>2. OvertakenOf(q)' = OvertakenOf(q)
      BY <2>2 DEF OvertakenOf
    <3> QED BY <2>1, <2>2, <3>1, <3>2, SerialLeaves
  <2>4. CASE q = serial.path /\ ~Present(q)
    <3>1. TurnOf(q)' = "locked"
      BY <2>1, <2>4 DEF TurnOf
    <3>2. announced[q] = Nothing
      BY <2>4 DEF HistoryInv, Tracked, AbsentForgotten
    <3>3. Rewriting(q)' = Rewriting(q)
      BY <2>1 DEF Rewriting
    <3>4. Rule(q)!Pass
      BY <2>1, <2>2, <3>1, <3>2, <3>3 DEF Rule!Pass, OvertakenOf, history
    <3> QED BY <3>4 DEF Rule!Next
  <2> QED BY <2>3, <2>4
<1>5. CASE Convert
  <2>1. serial.pc = "convert" /\ serial'.pc = "snapshot"
    BY <1>0, <1>5 DEF Convert, SerialAt, SerialType
  <2>2. TurnOf(q) = "none" /\ TurnOf(q)' = "none"
    BY <2>1 DEF TurnOf
  <2> QED BY <1>5, <2>2, SerialLeaves DEF Convert, OvertakenOf
<1>6. CASE Snapshot
  <2>1. /\ serial.pc = "snapshot" /\ serial'.pc = "snapshot_locked"
        /\ serial'.path = serial.path /\ serial'.overtaken = Rewriting(serial.path)
        /\ UNCHANGED <<listener, history>>
    BY <1>0, <1>6 DEF Snapshot, SerialAt, SerialType
  <2>2. TurnOf(q) = "none" /\ Rewriting(q)' = Rewriting(q) /\ Rewriting(q) \in BOOLEAN
    BY <2>1 DEF TurnOf, Rewriting
  <2>3. CASE q # serial.path
    <3>1. TurnOf(q)' = "none"
      BY <2>1, <2>3 DEF TurnOf
    <3> QED BY <2>1, <2>2, <3>1, SerialLeaves DEF OvertakenOf
  <2>4. CASE q = serial.path
    <3>1. TurnOf(q)' = "looking"
      BY <2>1, <2>4 DEF TurnOf
    <3>2. Rule(q)!Look
      BY <2>1, <2>2, <2>4, <3>1 DEF Rule!Look, history
    <3> QED BY <3>2 DEF Rule!Next
  <2> QED BY <2>3, <2>4
<1>7. CASE Decide
  BY <1>7, DecideRule
<1>8. CASE Store
  <2>1. /\ serial.pc = "store" /\ serial'.pc = "store_locked"
        /\ serial'.path = serial.path /\ serial'.action = serial.action
        /\ serial'.overtaken = serial.overtaken
    BY <1>0, <1>8 DEF Store, SerialAt, SerialType
  <2>2. TurnOf(q)' = TurnOf(q) /\ OvertakenOf(q)' = OvertakenOf(q)
    BY <2>1 DEF TurnOf, OvertakenOf
  <2> QED BY <1>8, <2>2, SerialLeaves DEF Store
<1>9. CASE StoreLocked
  BY <1>9, StoreLockedRule
<1>10. CASE Send
  <2>1. /\ serial.pc = "send" /\ serial'.path = NoPath
        /\ UNCHANGED <<listener, history>>
    BY <1>10 DEF Send, SerialAt, SerialIdle
  <2>2. TurnOf(q)' = "none"
    BY <1>0, <2>1 DEF TurnOf
  <2>3. CASE q # serial.path
    <3>1. TurnOf(q) = "none"
      BY <2>3 DEF TurnOf
    <3> QED BY <2>1, <2>2, <3>1, SerialLeaves DEF OvertakenOf
  <2>4. CASE q = serial.path
    <3>1. TurnOf(q) \in {"locked", "turn_up", "turn_down"}
      BY <1>0, <2>1, <2>4 DEF TurnOf, SerialType
    <3>2. Rewriting(q)' = Rewriting(q)
      BY <2>1 DEF Rewriting
    <3>3. Rule(q)!Answer
      BY <2>1, <2>2, <3>1, <3>2 DEF Rule!Answer, Rule!Verdicts, history
    <3> QED BY <3>3 DEF Rule!Next
  <2> QED BY <2>3, <2>4
<1> QED
  BY <1>1, <1>2, <1>3, <1>4, <1>5, <1>6, <1>7, <1>8, <1>9, <1>10 DEF SerialNext

LEMMA SerialEarly ==
  ASSUME Inv, Early, SerialNext
  PROVE  Early'
<1>0. serial \in SerialType
  BY DEF Inv, TypeOK
<1>1. ASSUME NEW c \in Controllers, NEW v \in Values, KnobTurned(c, v)
      PROVE  ~serial'.overtaken
  BY <1>1 DEF KnobTurned, SerialIdle
<1>2. CASE GetPath \/ ReadPath
  BY <1>0, <1>2 DEF GetPath, ReadPath, SerialAt, Early, SerialType
<1>3. CASE Find \/ Convert \/ Snapshot \/ Store \/ StoreLocked
  <2>1. serial'.pc \in {"convert", "snapshot", "snapshot_locked", "store_locked", "send"}
    <3>1. CASE Find
      BY <1>0, <3>1 DEF Find, SerialType
    <3>2. CASE Convert \/ Snapshot
      BY <1>0, <3>2 DEF Convert, Snapshot, SerialType
    <3>3. CASE Store \/ StoreLocked
      BY <1>0, <3>3 DEF Store, StoreLocked, SerialType
    <3> QED BY <1>3, <3>1, <3>2, <3>3
  <2> QED BY <2>1 DEF Early
<1>4. CASE Decide
  BY <1>0, <1>4 DEF Decide, Early, SerialType
<1>5. CASE Send
  BY <1>5 DEF Send, SerialIdle, Early
<1> QED BY <1>1, <1>2, <1>3, <1>4, <1>5 DEF SerialNext, Early

(* However the two threads interleave, towards the knobs each parameter    *)
(* obeys the rule of picking up; each turn is judged in one step.         *)
THEOREM RuleRefinement == Spec => ImplementsRule
<1>1. Init => Early /\ \A p \in Paths : Rule(p)!Init
  <2>1. Init => Early
    BY DEF Init, Early, SerialIdle
  <2>2. ASSUME Init, NEW p \in Paths
        PROVE  Rule(p)!Init
    <3>1. /\ serial.pc = "read" /\ listener.pc = "wait" /\ announced[p] = Nothing
          /\ picked[p] = FALSE /\ causes[p] = {}
      BY <2>2 DEF Init, SerialIdle, ListenerIdle
    <3>2. TurnOf(p) = "none" /\ Rewriting(p) = FALSE
      BY <3>1 DEF TurnOf, Rewriting
    <3> QED BY <3>1, <3>2 DEF Rule!Init
  <2> QED BY <2>1, <2>2
<1>2. Inv /\ HistoryInv /\ Early /\ [Next]_vars => Early'
  BY SerialEarly, ListenerEarly DEF Next, vars, code, Early
<1>3. Inv /\ HistoryInv /\ Early /\ [Next]_vars =>
        [\A p \in Paths : [Rule(p)!Next]_(Rule(p)!vars)]_vars
  <2> SUFFICES ASSUME Inv, HistoryInv, Early, Next, NEW p \in Paths
               PROVE  [Rule(p)!Next]_(Rule(p)!vars)
    OBVIOUS
  <2> QED BY SerialRule, ListenerRule DEF Next
<1> QED BY <1>1, <1>2, <1>3, InvHolds, HistoryInvHolds, PTL DEF Spec, ImplementsRule
=============================================================================
