-------------------------- MODULE ButtonSyncProofs --------------------------
(***************************************************************************)
(* Theorems about ButtonSync, for any buttons and units, values and limit  *)
(* of the queue: its types, and that the lamps follow RNBO.                *)
(***************************************************************************)
EXTENDS ButtonSync, SequenceTheorems, TLAPS

(* There is a lamp state for every value.                                  *)
LEMMA ShadeExists ==
  ASSUME NEW b \in Buttons, NEW v \in Values
  PROVE  Shade(b, v) \in Shades /\ Shade(b, v) # Nothing
<1> DEFINE n == clipValue(StepsOf[b], 2, 5)
<1>1. v \in 0 .. 1000
  BY ButtonsAssumption DEF Normalized
<1>2. StepsOf[b] \in Int
  BY ButtonsAssumption
<1>3. n \in 2 .. 5
  BY <1>2 DEF clipValue
<1>4. Shade(b, v) = ((n - 1) * v + 500) \div 1000
  BY DEF Shade, formatButtonValue
<1> HIDE DEF n
<1>5. CASE n = 2
  <2>1. Shade(b, v) = (v + 500) \div 1000
    BY <1>1, <1>4, <1>5
  <2> QED BY <1>1, <2>1, ButtonsAssumption DEF Shades
<1>6. CASE n = 3
  <2>1. Shade(b, v) = (2 * v + 500) \div 1000
    BY <1>1, <1>4, <1>6
  <2> QED BY <1>1, <2>1, ButtonsAssumption DEF Shades
<1>7. CASE n = 4
  <2>1. Shade(b, v) = (3 * v + 500) \div 1000
    BY <1>1, <1>4, <1>7
  <2> QED BY <1>1, <2>1, ButtonsAssumption DEF Shades
<1>8. CASE n = 5
  <2>1. Shade(b, v) = (4 * v + 500) \div 1000
    BY <1>1, <1>4, <1>8
  <2> QED BY <1>1, <2>1, ButtonsAssumption DEF Shades
<1> QED BY <1>3, <1>5, <1>6, <1>7, <1>8

-----------------------------------------------------------------------------
(* Every state will be computed and sent anew.                             *)
Collecting == collect_values \/ ListenerAt("join")

Constructing(b) == ListenerAt("construct") /\ listener.button = b

Handling(b) == listener.pc \in {"construct", "push"} /\ listener.button = b

Current(b) == node[b] = Shade(b, told[b])

(* The button thread has still to compute or to queue b's state, or did.   *)
ComesWithUnit(b) ==
  \/ b \in thread.rest
  \/ Current(b) /\ (UnitOf[b] \in thread.rest \/ Underway(UnitOf[b]))

Alone(b) == slot # Nothing /\ slot.button = b

ComesAlone(b) == Alone(b) /\ Right(b, slot.shade) /\ Underway("button")

Stale(b) == Alone(b) /\ ~Right(b, slot.shade)

(* No packet of unit u is before one for a single button.                  *)
Ordered(u) ==
  /\ entry = u => \A i \in DOMAIN queue : queue[i] # "button"
  /\ \A i, j \in DOMAIN queue : i < j /\ queue[i] = u => queue[j] # "button"

ListenerInv ==
  /\ told = path_values
  /\ listener.pc \in {"construct", "push"} => listener.button \in Buttons
  /\ ListenerAt("push") => slot = Nothing

ThreadInv ==
  /\ thread.running \/ thread.rest = {}
  /\ \A b \in Buttons : node[b] = Nothing <=> ~thread.running \/ b \in thread.rest
  /\ \A u \in Units : Underway(u) => thread.running /\ thread.rest \cap Buttons = {}
  /\ thread.rest \cap Buttons = {} \/ Units \subseteq thread.rest
  /\ \A b \in Buttons :
       node[b] = Nothing \/ Current(b) \/ b \in newer \/ Collecting

(* What is wrong with a lamp is known or about to be put right.            *)
LampInv(b) ==
  \/ Right(b, lamp[b]) \/ b \in spoilt
  \/ Collecting \/ Handling(b) \/ ComesWithUnit(b) \/ ComesAlone(b)

(* A packet with an old state of b, if there may be one, goes out before   *)
(* the one that the button thread sends for it.                            *)
StaleInv(b) ==
  Stale(b) =>
    \/ Collecting \/ Constructing(b)
    \/ /\ Ordered(UnitOf[b])
       /\ Underway("button") => b \in spoilt \/ ComesWithUnit(b)

IInv ==
  /\ TypeOK /\ ListenerInv /\ ThreadInv
  /\ \A b \in Buttons : LampInv(b) /\ StaleInv(b)

-----------------------------------------------------------------------------
(* What the steps do to the queue and to the pointer taken from it.        *)
Appends(p) == queue' = Append(queue, p) /\ Len(queue) < SizeLimit /\ entry' = entry
Pops == /\ entry = Nothing /\ queue # <<>>
        /\ entry' = Head(queue) /\ queue' = Tail(queue)
Drops == entry' = Nothing /\ queue' = queue
Orphans == /\ queue' = [i \in DOMAIN queue |-> Orphaned(queue[i])]
           /\ entry' = Orphaned(entry)

PointersOK ==
  /\ queue \in Seq(Pointers) /\ Len(queue) <= SizeLimit
  /\ entry \in Pointers \cup {Nothing}

LEMMA AppendsLemma ==
  ASSUME PointersOK, NEW p \in Pointers, Appends(p)
  PROVE  /\ PointersOK'
         /\ \A q : Underway(q)' <=> Underway(q) \/ q = p
         /\ \A u : p # "button" /\ Ordered(u) => Ordered(u)'
<1> USE DEF PointersOK, Appends
<1>1. /\ queue' \in Seq(Pointers) /\ Len(queue') = Len(queue) + 1
      /\ \A i \in 1 .. Len(queue) : queue'[i] = queue[i]
      /\ queue'[Len(queue) + 1] = p
      /\ Len(queue) \in Nat
      /\ DOMAIN queue = 1 .. Len(queue) /\ DOMAIN queue' = 1 .. Len(queue) + 1
  BY AppendProperties
<1>2. PointersOK'
  BY <1>1, ButtonsAssumption
<1>3. \A i \in DOMAIN queue' : i \in DOMAIN queue \/ i = Len(queue) + 1
  BY <1>1
<1>4. Len(queue) + 1 \in DOMAIN queue' /\ DOMAIN queue \subseteq DOMAIN queue'
  BY <1>1
<1>5. \A q : Underway(q)' <=> Underway(q) \/ q = p
  BY <1>1, <1>3, <1>4 DEF Underway
<1>6. ASSUME NEW u, p # "button", Ordered(u)
      PROVE  Ordered(u)'
  <2>1. entry' = u => \A i \in DOMAIN queue' : queue'[i] # "button"
    BY <1>1, <1>3, <1>6 DEF Ordered
  <2>2. ASSUME NEW i \in DOMAIN queue', NEW j \in DOMAIN queue', i < j, queue'[i] = u
        PROVE  queue'[j] # "button"
    <3>1. i \in DOMAIN queue
      BY <1>1, <2>2
    <3>2. CASE j \in DOMAIN queue
      BY <1>1, <1>6, <2>2, <3>1, <3>2 DEF Ordered
    <3>3. CASE j = Len(queue) + 1
      BY <1>1, <1>6, <3>3
    <3> QED BY <1>3, <3>2, <3>3
  <2> QED BY <2>1, <2>2 DEF Ordered
<1> QED BY <1>2, <1>5, <1>6

LEMMA PopsLemma ==
  ASSUME PointersOK, Pops
  PROVE  /\ PointersOK'
         /\ \A q : q # Nothing => (Underway(q)' <=> Underway(q))
         /\ \A u : u # Nothing /\ Ordered(u) => Ordered(u)'
<1> USE DEF PointersOK, Pops
<1>1. /\ queue' \in Seq(Pointers) /\ Len(queue') = Len(queue) - 1
      /\ \A i \in 1 .. Len(queue') : queue'[i] = queue[i + 1]
      /\ Len(queue) \in Nat \ {0} /\ entry' = queue[1] /\ queue[1] \in Pointers
      /\ DOMAIN queue = 1 .. Len(queue) /\ DOMAIN queue' = 1 .. Len(queue')
  BY HeadTailProperties, EmptySeq
<1>2. PointersOK'
  BY <1>1, ButtonsAssumption
<1>3. /\ 1 \in DOMAIN queue
      /\ \A i \in DOMAIN queue' : i + 1 \in DOMAIN queue /\ i + 1 > 1
      /\ \A i \in DOMAIN queue : i = 1 \/ (i - 1 \in DOMAIN queue' /\ queue'[i - 1] = queue[i])
  BY <1>1
<1>4. ASSUME NEW q, q # Nothing
      PROVE  Underway(q)' <=> Underway(q)
  <2>1. ASSUME Underway(q)
        PROVE  Underway(q)'
    <3>1. PICK i \in DOMAIN queue : queue[i] = q
      BY <1>4, <2>1 DEF Underway
    <3> QED BY <1>1, <1>3, <3>1 DEF Underway
  <2>2. ASSUME Underway(q)'
        PROVE  Underway(q)
    <3>1. CASE entry' = q
      BY <1>1, <1>3, <3>1 DEF Underway
    <3>2. CASE \E i \in DOMAIN queue' : queue'[i] = q
      BY <1>1, <1>3, <3>2 DEF Underway
    <3> QED BY <2>2, <3>1, <3>2 DEF Underway
  <2> QED BY <2>1, <2>2
<1>5. ASSUME NEW u, u # Nothing, Ordered(u)
      PROVE  Ordered(u)'
  <2>1. entry' = u => \A i \in DOMAIN queue' : queue'[i] # "button"
    BY <1>1, <1>3, <1>5 DEF Ordered
  <2>2. ASSUME NEW i \in DOMAIN queue', NEW j \in DOMAIN queue', i < j, queue'[i] = u
        PROVE  queue'[j] # "button"
    <3>1. i + 1 \in DOMAIN queue /\ j + 1 \in DOMAIN queue /\ i + 1 < j + 1
      BY <1>1, <2>2
    <3> QED BY <1>1, <1>5, <2>2, <3>1 DEF Ordered
  <2> QED BY <2>1, <2>2 DEF Ordered
<1> QED BY <1>2, <1>4, <1>5

LEMMA DropsLemma ==
  ASSUME PointersOK, Drops
  PROVE  /\ PointersOK'
         /\ \A q : q # Nothing => (Underway(q)' <=> \E i \in DOMAIN queue : queue[i] = q)
         /\ \A u : u # Nothing /\ Ordered(u) => Ordered(u)'
BY DEF PointersOK, Drops, Underway, Ordered

LEMMA OrphansLemma ==
  ASSUME PointersOK, Orphans
  PROVE  /\ PointersOK'
         /\ \A u \in Units : ~Underway(u)'
         /\ Underway("button")' <=> Underway("button")
<1> USE DEF PointersOK, Orphans
<1>1. /\ Len(queue) \in Nat /\ DOMAIN queue = 1 .. Len(queue)
      /\ DOMAIN queue' = DOMAIN queue
      /\ \A i \in DOMAIN queue : queue[i] \in Pointers /\ queue'[i] = Orphaned(queue[i])
  OBVIOUS
<1>2. \A p \in Pointers \cup {Nothing} :
        /\ Orphaned(p) \notin Units
        /\ Orphaned(p) = "button" <=> p = "button"
        /\ p \in Pointers => Orphaned(p) \in Pointers
        /\ p = Nothing => Orphaned(p) = Nothing
  BY ButtonsAssumption DEF Pointers, Orphaned
<1>3. queue' \in Seq(Pointers) /\ Len(queue') = Len(queue)
  BY <1>1, <1>2
<1>4. PointersOK'
  BY <1>2, <1>3
<1>5. \A u \in Units : ~Underway(u)'
  BY <1>1, <1>2 DEF Underway
<1>6. Underway("button")' <=> Underway("button")
  BY <1>1, <1>2 DEF Underway
<1> QED BY <1>4, <1>5, <1>6

-----------------------------------------------------------------------------
(* Types.                                                                  *)
LEMMA EnqueueLemma ==
  ASSUME PointersOK, NEW p \in Pointers, NEW S, Enqueue(p, S), entry' = entry
  PROVE  /\ PointersOK'
         /\ \/ Appends(p) /\ spoilt' = spoilt
            \/ queue' = queue /\ spoilt' = spoilt \cup S
BY AppendsLemma DEF Enqueue, Appends, PointersOK

LEMMA TypeStep ==
  ASSUME TypeOK, ListenerInv, [Next]_vars
  PROVE  TypeOK'
<1> USE DEF TypeOK
<1>0. PointersOK /\ Units \subseteq Pointers /\ {"button", "gone"} \subseteq Pointers
  BY DEF PointersOK, Pointers
<1>1. ASSUME NEW b \in Buttons, NEW v \in Values, Value(b, v)
      PROVE  TypeOK'
  BY <1>1 DEF Value, Hear, Waiting, sending
<1>2. CASE Load
  <2>1. [b \in Buttons |-> 0] \in [Buttons -> Values]
    BY ButtonsAssumption
  <2> QED BY <1>2, <2>1 DEF Load, computed, sending
<1>3. CASE PresetLoaded
  BY <1>3 DEF PresetLoaded, Goto, computed, sending
<1>4. CASE Construct
  <2>1. spoilt' \subseteq Buttons
    BY <1>4 DEF Construct
  <2>2. listener' \in [pc : {"wait", "construct", "push", "join"}, button : Buttons \cup {Nothing}]
    BY <1>4 DEF Construct, Goto
  <2> QED BY <1>4, <2>1, <2>2 DEF Construct, recorded, computed, sending
<1>5. CASE Push
  <2> DEFINE b == listener.button
  <2>1. b \in Buttons
    BY <1>5 DEF Push, ListenerInv, ListenerAt
  <2>2. Shade(b, path_values[b]) \in Shades
    BY <2>1, ShadeExists
  <2>3. slot' \in [button : Buttons, shade : Shades]
    BY <1>5, <2>1, <2>2 DEF Push
  <2>4. Enqueue("button", {b}) /\ listener' = Waiting
        /\ UNCHANGED <<recorded, computed, sending>>
    BY <1>5 DEF Push
  <2>5. PointersOK' /\ spoilt' \subseteq Buttons
    BY <1>0, <2>1, <2>4, EnqueueLemma DEF sending
  <2> QED BY <2>1, <2>3, <2>4, <2>5 DEF recorded, computed, sending, PointersOK, Waiting
<1>6. CASE StartThread
  <2>1. PointersOK' /\ spoilt' \subseteq Buttons
    BY <1>0, <1>6, EnqueueLemma DEF StartThread, sending, PointersOK
  <2> QED BY <1>6, <2>1 DEF StartThread, recorded, sending, PointersOK, Waiting
<1>7. ASSUME NEW b \in Buttons, Make(b)
      PROVE  TypeOK'
  <2>1. Shade(b, path_values[b]) \in Shades
    BY ShadeExists
  <2> QED BY <1>7, <2>1 DEF Make, recorded, sending
<1>8. ASSUME NEW u \in Units, PushUnit(u)
      PROVE  TypeOK'
  <2>1. PointersOK' /\ spoilt' \subseteq Buttons
    BY <1>0, <1>8, EnqueueLemma DEF PushUnit, sending
  <2> QED BY <1>8, <2>1 DEF PushUnit, recorded, sending, PointersOK
<1>9. CASE EndThread
  <2>1. PointersOK'
    BY <1>0, <1>9, OrphansLemma DEF EndThread, Orphans
  <2> QED BY <1>9, <2>1 DEF EndThread, recorded, Off, PointersOK
<1>10. CASE Pop
  <2>1. PointersOK'
    BY <1>0, <1>10, PopsLemma DEF Pop, Pops
  <2> QED BY <1>10, <2>1 DEF Pop, recorded, computed, PointersOK
<1>11. CASE Test
  BY <1>11 DEF Test, Skip, recorded, computed
<1>12. ASSUME NEW these, NEW states \in [Buttons -> Shades \cup {Nothing}],
              NEW spoiling \in SUBSET Buttons, Show(these, states, spoiling),
              UNCHANGED <<recorded, listener, slot, computed, queue>>
       PROVE  TypeOK'
  BY <1>12 DEF Show, recorded, computed
<1>13. CASE Write
  <2>1. UNCHANGED <<recorded, listener, slot, computed, queue>>
    BY <1>13 DEF Write
  <2>2. CASE Skip
    BY <2>1, <2>2 DEF Skip, recorded, computed
  <2>3. CASE slot # Nothing /\ Show({slot.button}, [b \in Buttons |-> slot.shade], {})
    <3>1. slot.shade \in Shades
      BY <2>3
    <3>2. /\ [b \in Buttons |-> slot.shade] \in [Buttons -> Shades \cup {Nothing}]
          /\ {} \in SUBSET Buttons
      BY <3>1
    <3> QED BY <1>12, <2>1, <2>3, <3>2
  <2>4. ASSUME NEW S \in SUBSET Buttons,
               Show(S, node, S \cap newer) \/ Show(S, [b \in Buttons |-> Nothing], S)
        PROVE  TypeOK'
    <3>1. S \cap newer \in SUBSET Buttons /\ [b \in Buttons |-> Nothing] \in [Buttons -> Shades \cup {Nothing}]
      OBVIOUS
    <3> QED BY <1>12, <2>1, <2>4, <3>1
  <2>5. CASE entry \in Units /\ LET its == {b \in Buttons : UnitOf[b] = entry} IN
                                  Show(its, node, its \cap newer)
    <3>1. {b \in Buttons : UnitOf[b] = entry} \in SUBSET Buttons
      OBVIOUS
    <3> QED BY <2>4, <2>5, <3>1
  <2>6. CASE \E S \in SUBSET Buttons : Show(S, [b \in Buttons |-> Nothing], S)
    BY <2>4, <2>6
  <2> QED BY <1>13, <2>2, <2>3, <2>5, <2>6 DEF Write
<1>14. CASE UNCHANGED vars
  BY <1>14 DEF vars, recorded, computed, sending
<1> QED BY <1>1, <1>2, <1>3, <1>4, <1>5, <1>6, <1>7, <1>8, <1>9, <1>10, <1>11, <1>13, <1>14
        DEF Next, Receive, Listener, ButtonThread, SerialSender

LEMMA TypeInit == Init => TypeOK
<1> SUFFICES ASSUME Init
             PROVE  TypeOK
  OBVIOUS
<1>1. path_values \in [Buttons -> Values] /\ told \in [Buttons -> Values]
  BY ButtonsAssumption DEF Init
<1>2. queue \in Seq(Pointers) /\ Len(queue) <= SizeLimit
  BY ButtonsAssumption, EmptySeq DEF Init
<1>3. node \in [Buttons -> Shades \cup {Nothing}] /\ lamp \in [Buttons -> Shades \cup {Nothing}]
  BY DEF Init
<1>4. /\ listener \in [pc : {"wait", "construct", "push", "join"},
                       button : Buttons \cup {Nothing}]
      /\ thread \in [running : BOOLEAN, rest : SUBSET (Buttons \cup Units)]
  BY DEF Init, Waiting, Off
<1> QED BY <1>1, <1>2, <1>3, <1>4 DEF Init, TypeOK

LEMMA ListenerStep ==
  ASSUME TypeOK, ListenerInv, [Next]_vars
  PROVE  ListenerInv'
<1> USE DEF ListenerInv, ListenerAt, Goto, TypeOK
<1>1. ASSUME NEW b \in Buttons, NEW v \in Values, Value(b, v)
      PROVE  ListenerInv'
  BY <1>1 DEF Value, Hear, Waiting
<1>2. CASE Load \/ PresetLoaded \/ StartThread
  BY <1>2 DEF Load, PresetLoaded, StartThread, recorded, Waiting
<1>3. CASE Construct
  BY <1>3 DEF Construct, recorded
<1>4. CASE Push
  BY <1>4 DEF Push, recorded, Waiting
<1>5. CASE ButtonThread
  BY <1>5 DEF ButtonThread, EndThread, Make, PushUnit, recorded
<1>6. CASE SerialSender
  BY <1>6 DEF SerialSender, Pop, Test, Write, recorded
<1>7. CASE UNCHANGED vars
  BY <1>7 DEF vars, recorded
<1> QED BY <1>1, <1>2, <1>3, <1>4, <1>5, <1>6, <1>7 DEF Next, Receive, Listener

LEMMA ListenerInit == Init => ListenerInv
BY DEF Init, ListenerInv, ListenerAt, Waiting

(* Every variable keeps its type.                                          *)
THEOREM TypeCorrect == Spec => []TypeOK
<1>1. Init => TypeOK /\ ListenerInv
  BY TypeInit, ListenerInit
<1>2. TypeOK /\ ListenerInv /\ [Next]_vars => (TypeOK /\ ListenerInv)'
  BY TypeStep, ListenerStep
<1> QED BY <1>1, <1>2, PTL DEF Spec

-----------------------------------------------------------------------------
(* The lamps: one lemma for every step.                                    *)
LampsOK ==
  /\ ThreadInv
  /\ \A b \in Buttons : LampInv(b) /\ StaleInv(b)

LEMMA Distinct ==
  /\ \A u \in Units : u # "button" /\ u # "gone" /\ u # Nothing
  /\ \A b \in Buttons : UnitOf[b] \in Units
  /\ "button" # Nothing /\ "gone" # Nothing
BY ButtonsAssumption DEF Pointers

LEMMA NoneIsOrdered ==
  ASSUME NEW u, ~Underway(u)
  PROVE  Ordered(u)
BY DEF Underway, Ordered

LEMMA ValueStep ==
  ASSUME IInv, NEW b \in Buttons, NEW v \in Values, Value(b, v)
  PROVE  LampsOK'
<1> USE DEF IInv
<1>1. /\ UNCHANGED <<collect_values, slot, thread, node, queue, entry, lamp, spoilt>>
      /\ told' = [told EXCEPT ![b] = v]
      /\ newer' = IF node[b] \in {Nothing, Shade(b, v)} THEN newer \ {b}
                  ELSE newer \cup {b}
      /\ ~ListenerAt("join") /\ told \in [Buttons -> Values]
  BY DEF Value, Hear, sending, ListenerAt, TypeOK
<1>2. told'[b] = v /\ \A c \in Buttons \ {b} : told'[c] = told[c]
  BY <1>1
<1>3. \A u : (Underway(u)' <=> Underway(u)) /\ (Ordered(u)' <=> Ordered(u))
  BY <1>1 DEF Underway, Ordered
<1>4. CASE collect_values
  <2>1. Collecting'
    BY <1>1, <1>4 DEF Collecting
  <2> QED BY <1>1, <1>3, <2>1 DEF LampsOK, LampInv, StaleInv, ThreadInv
<1>5. CASE ~collect_values
  <2>1. /\ listener' = [pc |-> "construct", button |-> b]
        /\ ListenerAt("wait") /\ ~Collecting
    BY <1>1, <1>5 DEF Value, Collecting
  <2>2. Constructing(b)' /\ Handling(b)'
    BY <2>1 DEF Constructing, Handling, ListenerAt
  <2>3. /\ \A c \in Buttons \ {b} : Current(c)' <=> Current(c)
        /\ node[b] # Nothing => Current(b)' \/ b \in newer'
    BY <1>1, <1>2 DEF Current, Shade
  <2>4. ThreadInv'
    BY <1>1, <1>3, <2>1, <2>3 DEF ThreadInv
  <2>5. ASSUME NEW c \in Buttons, c # b
        PROVE  LampInv(c)' /\ StaleInv(c)'
    <3>1. \A shade : Right(c, shade)' <=> Right(c, shade)
      BY <1>1, <1>2, <2>5 DEF Right, Shade
    <3>2. /\ Current(c)' <=> Current(c)
          /\ ~Handling(c) /\ ~Constructing(c)
      BY <2>1, <2>3, <2>5 DEF Handling, Constructing, ListenerAt
    <3>3. ComesWithUnit(c) => ComesWithUnit(c)'
      BY <1>1, <1>3, <3>2 DEF ComesWithUnit
    <3>4. /\ ComesAlone(c) => ComesAlone(c)'
          /\ Stale(c)' => Stale(c)
      BY <1>1, <1>3, <3>1 DEF ComesAlone, Stale, Alone
    <3>5. Right(c, lamp[c]) => Right(c, lamp[c])'
      BY <1>1, <3>1
    <3>6. LampInv(c)'
      BY <1>1, <2>1, <3>2, <3>3, <3>4, <3>5 DEF LampInv
    <3>7. StaleInv(c)'
      BY <1>1, <1>3, <2>1, <3>2, <3>3, <3>4 DEF StaleInv
    <3> QED BY <3>6, <3>7
  <2>6. LampInv(b)' /\ StaleInv(b)'
    BY <2>2 DEF LampInv, StaleInv
  <2> QED BY <2>4, <2>5, <2>6 DEF LampsOK
<1> QED BY <1>4, <1>5

LEMMA LoadStep ==
  ASSUME IInv, Load \/ PresetLoaded
  PROVE  LampsOK'
<1>1. Collecting'
  BY DEF IInv, TypeOK, Load, PresetLoaded, Goto, Collecting, ListenerAt
<1>2. UNCHANGED <<thread, node, queue, entry>>
  BY DEF Load, PresetLoaded, computed, sending
<1>3. \A u : Underway(u)' <=> Underway(u)
  BY <1>2 DEF Underway
<1> QED BY <1>1, <1>2, <1>3 DEF LampsOK, LampInv, StaleInv, ThreadInv, IInv

LEMMA ConstructStep ==
  ASSUME IInv, Construct
  PROVE  LampsOK'
<1> USE DEF IInv
<1>1. /\ UNCHANGED <<path_values, collect_values, told, thread, node, newer, queue, entry, lamp>>
      /\ slot' = Nothing /\ spoilt \subseteq spoilt'
      /\ slot # Nothing /\ slot.button # listener.button /\ Underway("button")
           => slot.button \in spoilt'
      /\ listener.pc = "construct" /\ listener'.pc = "push"
      /\ listener'.button = listener.button
  BY DEF Construct, recorded, computed, sending, Goto, ListenerAt, TypeOK
<1>2. \A u : Underway(u)' <=> Underway(u)
  BY <1>1 DEF Underway
<1>3. Collecting' <=> Collecting
  BY <1>1 DEF Collecting, ListenerAt
<1>4. \A b \in Buttons : (Current(b)' <=> Current(b)) /\ (ComesWithUnit(b) => ComesWithUnit(b)')
  BY <1>1, <1>2 DEF Current, ComesWithUnit, Shade
<1>5. ThreadInv'
  BY <1>1, <1>2, <1>3, <1>4 DEF ThreadInv
<1>6. ASSUME NEW b \in Buttons
      PROVE  LampInv(b)' /\ StaleInv(b)'
  <2>1. ~Stale(b)'
    BY <1>1 DEF Stale, Alone
  <2>2. Handling(b) => Handling(b)'
    BY <1>1 DEF Handling
  <2>3. ComesAlone(b) => b \in spoilt' \/ Handling(b)'
    BY <1>1 DEF ComesAlone, Alone, Handling
  <2>4. Right(b, lamp[b]) => Right(b, lamp[b])'
    BY <1>1 DEF Right, Shade
  <2> QED BY <1>1, <1>3, <1>4, <2>1, <2>2, <2>3, <2>4 DEF LampInv, StaleInv
<1> QED BY <1>5, <1>6 DEF LampsOK

LEMMA PushStep ==
  ASSUME IInv, Push
  PROVE  LampsOK'
<1> USE DEF IInv
<1>0. PICK b \in Buttons : b = listener.button
  BY DEF Push, ListenerInv, ListenerAt
<1>1. /\ UNCHANGED <<path_values, collect_values, told, thread, node, newer, entry, lamp>>
      /\ Enqueue("button", {b}) /\ listener' = Waiting
      /\ slot' = [button |-> b, shade |-> Shade(b, path_values[b])]
      /\ listener.pc = "push"
  BY <1>0 DEF Push, recorded, computed, sending, ListenerAt
<1>2. slot = Nothing /\ told = path_values
  BY <1>1 DEF ListenerInv, ListenerAt
<1>3. PointersOK /\ "button" \in Pointers
  BY DEF PointersOK, Pointers, TypeOK
<1>4. /\ \A u \in Units : Underway(u)' <=> Underway(u)
      /\ spoilt \subseteq spoilt'
      /\ Underway("button")' \/ b \in spoilt'
  <2>1. CASE Appends("button") /\ spoilt' = spoilt
    BY <1>3, <2>1, AppendsLemma, Distinct
  <2>2. CASE queue' = queue /\ spoilt' = spoilt \cup {b}
    BY <1>1, <2>2 DEF Underway
  <2> QED BY <1>1, <1>3, <2>1, <2>2, EnqueueLemma
<1>5. Collecting' <=> Collecting
  BY <1>1 DEF Collecting, ListenerAt, Waiting
<1>6. \A c \in Buttons : (Current(c)' <=> Current(c)) /\ (ComesWithUnit(c) => ComesWithUnit(c)')
  BY <1>1, <1>4, Distinct DEF Current, ComesWithUnit, Shade
<1>7. ThreadInv'
  BY <1>1, <1>4, <1>5, <1>6 DEF ThreadInv
<1>8. slot'.button = b /\ slot' # Nothing /\ Right(b, slot.shade)'
  <2>1. Nothing # [button |-> b, shade |-> Shade(b, path_values[b])]
    BY ShadeExists, ButtonsAssumption DEF TypeOK
  <2>2. slot'.shade = Shade(b, told[b]) /\ told' = told
    BY <1>1, <1>2
  <2> QED BY <1>1, <2>1, <2>2 DEF Right, Shade
<1>9. ASSUME NEW c \in Buttons
      PROVE  LampInv(c)' /\ StaleInv(c)'
  <2>1. ~Stale(c)'
    BY <1>8 DEF Stale, Alone
  <2>2. Handling(c) => c = b
    BY <1>0 DEF Handling
  <2>3. ~ComesAlone(c)
    BY <1>2 DEF ComesAlone, Alone
  <2>4. Right(c, lamp[c]) => Right(c, lamp[c])'
    BY <1>1 DEF Right, Shade
  <2>5. c = b => ComesAlone(c)' \/ c \in spoilt'
    BY <1>4, <1>8 DEF ComesAlone, Alone
  <2> QED BY <1>4, <1>5, <1>6, <2>1, <2>2, <2>3, <2>4, <2>5 DEF LampInv, StaleInv
<1> QED BY <1>7, <1>9 DEF LampsOK

LEMMA StartThreadStep ==
  ASSUME IInv, StartThread
  PROVE  LampsOK'
<1> USE DEF IInv
<1>1. /\ thread = Off /\ UNCHANGED <<node, entry>>
      /\ thread' = [running |-> TRUE, rest |-> Buttons \cup Units]
      /\ Enqueue("gone", {}) \/ queue' = queue
  BY DEF StartThread, sending
<1>2. \A u \in Units : ~Underway(u)
  BY <1>1 DEF ThreadInv, Off
<1>3. PointersOK /\ "gone" \in Pointers
  BY DEF PointersOK, Pointers, TypeOK
<1>4. \A u \in Units : ~Underway(u)'
  <2>1. CASE Enqueue("gone", {})
    <3>1. Appends("gone") \/ queue' = queue
      BY <1>1, <1>3, <2>1, EnqueueLemma
    <3>2. Appends("gone") => \A u \in Units : ~Underway(u)'
      BY <1>2, <1>3, AppendsLemma, Distinct
    <3>3. queue' = queue => \A u \in Units : ~Underway(u)'
      BY <1>1, <1>2 DEF Underway
    <3> QED BY <3>1, <3>2, <3>3
  <2>2. CASE queue' = queue
    BY <1>1, <1>2, <2>2 DEF Underway
  <2> QED BY <1>1, <2>1, <2>2
<1>5. ThreadInv'
  <2>1. \A b \in Buttons : node[b] = Nothing
    BY <1>1 DEF ThreadInv, Off
  <2> QED BY <1>1, <1>4, <2>1 DEF ThreadInv
<1>6. ASSUME NEW b \in Buttons
      PROVE  LampInv(b)' /\ StaleInv(b)'
  <2>1. ComesWithUnit(b)'
    BY <1>1 DEF ComesWithUnit
  <2>2. Ordered(UnitOf[b])'
    <3>1. ~Underway(UnitOf[b])'
      BY <1>4, Distinct
    <3> QED BY <3>1 DEF Underway, Ordered
  <2> QED BY <2>1, <2>2 DEF LampInv, StaleInv
<1> QED BY <1>5, <1>6 DEF LampsOK

LEMMA MakeStep ==
  ASSUME IInv, NEW b \in Buttons, Make(b)
  PROVE  LampsOK'
<1> USE DEF IInv
<1>1. /\ UNCHANGED <<path_values, collect_values, told, listener, slot, newer, queue, entry, lamp, spoilt>>
      /\ b \in thread.rest /\ node' = [node EXCEPT ![b] = Shade(b, path_values[b])]
      /\ thread'.running = thread.running /\ thread'.rest = thread.rest \ {b}
      /\ node \in [Buttons -> Shades \cup {Nothing}]
  BY DEF Make, recorded, sending, TypeOK
<1>2. /\ thread.running /\ Units \subseteq thread.rest
      /\ \A u \in Units : ~Underway(u)
  BY <1>1 DEF ThreadInv
<1>3. \A u : (Underway(u)' <=> Underway(u)) /\ (Ordered(u)' <=> Ordered(u))
  BY <1>1 DEF Underway, Ordered
<1>4. Units \subseteq thread'.rest
  BY <1>1, <1>2, Distinct, ButtonsAssumption
<1>5. /\ node'[b] = Shade(b, told[b]) /\ node'[b] # Nothing
      /\ \A c \in Buttons \ {b} : node'[c] = node[c]
  <2>1. path_values[b] \in Values /\ told = path_values
    BY DEF TypeOK, ListenerInv
  <2> QED BY <1>1, <2>1, ShadeExists
<1>6. Current(b)' /\ \A c \in Buttons \ {b} : Current(c)' <=> Current(c)
  BY <1>1, <1>5 DEF Current, Shade
<1>7. Collecting' <=> Collecting
  BY <1>1 DEF Collecting, ListenerAt
<1>8. ThreadInv'
  <2>1. \A c \in Buttons : node'[c] = Nothing <=> ~thread'.running \/ c \in thread'.rest
    BY <1>1, <1>2, <1>5 DEF ThreadInv
  <2>2. \A c \in Buttons :
          node'[c] = Nothing \/ Current(c)' \/ c \in newer' \/ Collecting'
    BY <1>1, <1>5, <1>6, <1>7 DEF ThreadInv
  <2> QED BY <1>1, <1>2, <1>3, <1>4, <2>1, <2>2 DEF ThreadInv
<1>9. ASSUME NEW c \in Buttons
      PROVE  LampInv(c)' /\ StaleInv(c)'
  <2>1. ComesWithUnit(c) => ComesWithUnit(c)'
    <3>1. UnitOf[c] \in thread'.rest
      BY <1>4, Distinct
    <3>2. c \in thread.rest => c = b \/ c \in thread'.rest
      BY <1>1
    <3> QED BY <1>1, <1>6, <3>1, <3>2 DEF ComesWithUnit
  <2>2. \A shade : Right(c, shade)' <=> Right(c, shade)
    BY <1>1 DEF Right, Shade
  <2>3. /\ Handling(c)' <=> Handling(c)
        /\ Constructing(c)' <=> Constructing(c)
        /\ ComesAlone(c) => ComesAlone(c)'
        /\ Stale(c)' => Stale(c)
        /\ Right(c, lamp[c]) => Right(c, lamp[c])'
    BY <1>1, <1>3, <2>2 DEF Handling, Constructing, ListenerAt, ComesAlone, Stale, Alone
  <2> QED BY <1>1, <1>3, <1>7, <2>1, <2>3 DEF LampInv, StaleInv
<1> QED BY <1>8, <1>9 DEF LampsOK

LEMMA PushUnitStep ==
  ASSUME IInv, NEW u \in Units, PushUnit(u)
  PROVE  LampsOK'
<1> USE DEF IInv
<1>1. /\ UNCHANGED <<path_values, collect_values, told, listener, slot, node, newer, entry, lamp>>
      /\ u \in thread.rest /\ thread.rest \cap Buttons = {}
      /\ thread'.running = thread.running /\ thread'.rest = thread.rest \ {u}
      /\ Enqueue(u, {b \in Buttons : UnitOf[b] = u})
  BY DEF PushUnit, recorded, sending, TypeOK
<1>2. PointersOK /\ u \in Pointers
  BY DEF PointersOK, Pointers, TypeOK
<1>3. /\ \A q : Underway(q)' => Underway(q) \/ q = u
      /\ \A q : Underway(q) => Underway(q)'
      /\ \A w : Ordered(w) => Ordered(w)'
      /\ spoilt \subseteq spoilt'
      /\ Underway(u)' \/ \A b \in Buttons : UnitOf[b] = u => b \in spoilt'
  <2>1. CASE Appends(u) /\ spoilt' = spoilt
    BY <1>2, <2>1, AppendsLemma, Distinct
  <2>2. CASE queue' = queue /\ spoilt' = spoilt \cup {b \in Buttons : UnitOf[b] = u}
    BY <1>1, <2>2 DEF Underway, Ordered
  <2> QED BY <1>1, <1>2, <2>1, <2>2, EnqueueLemma
<1>4. Collecting' <=> Collecting
  BY <1>1 DEF Collecting, ListenerAt
<1>5. \A b \in Buttons : Current(b)' <=> Current(b)
  BY <1>1 DEF Current, Shade
<1>6. ThreadInv'
  <2>1. thread.running /\ thread'.rest \cap Buttons = {}
    BY <1>1 DEF ThreadInv
  <2>2. \A b \in Buttons : b \notin thread.rest /\ b \notin thread'.rest
    BY <1>1, <2>1
  <2>3. \A b \in Buttons : node'[b] = Nothing <=> ~thread'.running \/ b \in thread'.rest
    BY <1>1, <2>2 DEF ThreadInv
  <2>4. \A b \in Buttons :
          node'[b] = Nothing \/ Current(b)' \/ b \in newer' \/ Collecting'
    BY <1>1, <1>4, <1>5 DEF ThreadInv
  <2> QED BY <1>1, <2>1, <2>3, <2>4 DEF ThreadInv
<1>7. ASSUME NEW b \in Buttons
      PROVE  LampInv(b)' /\ StaleInv(b)'
  <2>1. ComesWithUnit(b) => ComesWithUnit(b)' \/ b \in spoilt'
    BY <1>1, <1>3, <1>5 DEF ComesWithUnit
  <2>2. \A shade : Right(b, shade)' <=> Right(b, shade)
    BY <1>1 DEF Right, Shade
  <2>3. /\ Handling(b)' <=> Handling(b)
        /\ Constructing(b)' <=> Constructing(b)
        /\ ComesAlone(b) => ComesAlone(b)'
        /\ Stale(b)' => Stale(b)
        /\ Right(b, lamp[b]) => Right(b, lamp[b])'
    BY <1>1, <1>3, <2>2 DEF Handling, Constructing, ListenerAt, ComesAlone, Stale, Alone
  <2>4. Underway("button")' => Underway("button")
    BY <1>3, Distinct
  <2> QED BY <1>3, <1>4, <2>1, <2>3, <2>4 DEF LampInv, StaleInv
<1> QED BY <1>6, <1>7 DEF LampsOK

LEMMA EndThreadStep ==
  ASSUME IInv, EndThread
  PROVE  LampsOK'
<1> USE DEF IInv
<1>1. /\ UNCHANGED <<path_values, collect_values, told, listener, slot, lamp>>
      /\ thread.rest = {} /\ thread' = Off /\ Orphans
      /\ node' = [b \in Buttons |-> Nothing]
      /\ spoilt' = spoilt \cup {b \in Buttons : Underway(UnitOf[b])}
  BY DEF EndThread, recorded, Orphans
<1>2. PointersOK
  BY DEF PointersOK, TypeOK
<1>3. /\ \A u \in Units : ~Underway(u)'
      /\ Underway("button")' <=> Underway("button")
  BY <1>1, <1>2, OrphansLemma
<1>4. ThreadInv'
  BY <1>1, <1>3 DEF ThreadInv, Off
<1>5. ASSUME NEW b \in Buttons
      PROVE  LampInv(b)' /\ StaleInv(b)'
  <2>1. ComesWithUnit(b) => b \in spoilt'
    BY <1>1 DEF ComesWithUnit
  <2>2. Ordered(UnitOf[b])'
    <3>1. ~Underway(UnitOf[b])'
      BY <1>3, Distinct
    <3> QED BY <3>1 DEF Underway, Ordered
  <2>3. \A shade : Right(b, shade)' <=> Right(b, shade)
    BY <1>1 DEF Right, Shade
  <2>4. /\ Collecting' <=> Collecting
        /\ Handling(b)' <=> Handling(b)
        /\ Constructing(b)' <=> Constructing(b)
        /\ ComesAlone(b) => ComesAlone(b)'
        /\ Stale(b)' => Stale(b)
        /\ Right(b, lamp[b]) => Right(b, lamp[b])'
    BY <1>1, <1>3, <2>3 DEF Collecting, Handling, Constructing, ListenerAt, ComesAlone, Stale, Alone
  <2>5. spoilt \subseteq spoilt'
    BY <1>1
  <2> QED BY <1>3, <2>1, <2>2, <2>4, <2>5 DEF LampInv, StaleInv
<1> QED BY <1>4, <1>5 DEF LampsOK

(* What every step of SerialSender leaves alone.                           *)
SendersFrame == UNCHANGED <<recorded, listener, slot, computed>>

LEMMA SendersLemma ==
  ASSUME SendersFrame
  PROVE  /\ Collecting' <=> Collecting
         /\ \A b, shade : Right(b, shade)' <=> Right(b, shade)
         /\ \A b : /\ Current(b)' <=> Current(b)
                   /\ Handling(b)' <=> Handling(b)
                   /\ Constructing(b)' <=> Constructing(b)
                   /\ Alone(b)' <=> Alone(b)
                   /\ Stale(b)' <=> Stale(b)
<1> USE DEF SendersFrame, recorded, computed
<1>1. \A b, shade : Right(b, shade)' <=> Right(b, shade)
  BY DEF Right, Shade
<1>2. \A b : (Alone(b)' <=> Alone(b)) /\ (Stale(b)' <=> Stale(b))
  BY <1>1 DEF Stale, Alone
<1> QED BY <1>1, <1>2 DEF Collecting, Current, Handling, Constructing, ListenerAt, Shade

LEMMA SendersThread ==
  ASSUME IInv, SendersFrame, \A u \in Units : Underway(u)' => Underway(u)
  PROVE  ThreadInv'
<1>1. UNCHANGED <<thread, node, newer>>
  BY DEF SendersFrame, computed
<1> QED BY <1>1, SendersLemma DEF IInv, ThreadInv

LEMMA PopStep ==
  ASSUME IInv, Pop
  PROVE  LampsOK'
<1> USE DEF IInv
<1>1. SendersFrame /\ Pops /\ UNCHANGED <<lamp, spoilt, thread>>
  BY DEF Pop, SendersFrame, Pops, computed
<1>2. /\ Underway("button")' <=> Underway("button")
      /\ \A u \in Units : (Underway(u)' <=> Underway(u)) /\ (Ordered(u) => Ordered(u)')
  <2>1. PointersOK
    BY DEF PointersOK, TypeOK
  <2> QED BY <1>1, <2>1, PopsLemma, Distinct
<1>3. ThreadInv'
  BY <1>1, <1>2, SendersThread
<1>4. ASSUME NEW b \in Buttons
      PROVE  LampInv(b)' /\ StaleInv(b)'
  <2>1. UnitOf[b] \in Units
    BY Distinct
  <2>2. ComesWithUnit(b) => ComesWithUnit(b)'
    BY <1>1, <1>2, <2>1, SendersLemma DEF ComesWithUnit
  <2>3. Right(b, slot.shade)' <=> Right(b, slot.shade)
    BY <1>1, SendersLemma DEF SendersFrame
  <2>4. ComesAlone(b) => ComesAlone(b)'
    BY <1>1, <1>2, <2>3, SendersLemma DEF ComesAlone
  <2>5. Right(b, lamp[b]) => Right(b, lamp[b])'
    BY <1>1, SendersLemma
  <2> QED BY <1>1, <1>2, <2>1, <2>2, <2>4, <2>5, SendersLemma DEF LampInv, StaleInv
<1> QED BY <1>3, <1>4 DEF LampsOK

(* The lamps do not depend on tested.                                      *)
LEMMA StutterStep ==
  ASSUME IInv, UNCHANGED <<entry, lamp, spoilt, queue, recorded, listener, slot, computed>>
  PROVE  LampsOK'
<1> USE DEF IInv
<1>1. SendersFrame /\ UNCHANGED thread
  BY DEF SendersFrame, computed
<1>2. \A u : (Underway(u)' <=> Underway(u)) /\ (Ordered(u)' <=> Ordered(u))
  BY DEF Underway, Ordered
<1>3. ThreadInv'
  BY <1>1, <1>2, SendersThread
<1>4. ASSUME NEW b \in Buttons
      PROVE  LampInv(b)' /\ StaleInv(b)'
  <2>1. ComesWithUnit(b) => ComesWithUnit(b)'
    BY <1>1, <1>2, SendersLemma DEF ComesWithUnit
  <2>2. (Right(b, slot.shade)' <=> Right(b, slot.shade)) /\ (Right(b, lamp[b]) => Right(b, lamp[b])')
    BY <1>1, SendersLemma
  <2>3. ComesAlone(b) => ComesAlone(b)'
    BY <1>1, <1>2, <2>2, SendersLemma DEF ComesAlone
  <2> QED BY <1>1, <1>2, <2>1, <2>2, <2>3, SendersLemma DEF LampInv, StaleInv
<1> QED BY <1>3, <1>4 DEF LampsOK

(* Nothing is sent for a variable that has no size.                        *)
LEMMA SkipStep ==
  ASSUME IInv, SendersFrame, queue' = queue, entry = "button", slot = Nothing, Skip
  PROVE  LampsOK'
<1> USE DEF IInv
<1>1. Drops /\ UNCHANGED <<lamp, spoilt, thread>>
  BY DEF Skip, Drops, SendersFrame, computed
<1>2. \A u \in Units : Underway(u)' <=> Underway(u)
  BY <1>1, Distinct DEF Drops, Underway
<1>3. ThreadInv'
  BY <1>2, SendersThread
<1>4. ASSUME NEW b \in Buttons
      PROVE  LampInv(b)' /\ StaleInv(b)'
  <2>1. ~Alone(b) /\ ~Stale(b)
    BY DEF Alone, Stale
  <2>2. ComesWithUnit(b) => ComesWithUnit(b)'
    BY <1>1, <1>2, SendersLemma, Distinct DEF ComesWithUnit
  <2>3. Right(b, lamp[b]) => Right(b, lamp[b])'
    BY <1>1, SendersLemma
  <2> QED BY <1>1, <2>1, <2>2, <2>3, SendersLemma DEF LampInv, StaleInv, ComesAlone
<1> QED BY <1>3, <1>4 DEF LampsOK

LEMMA TestStep ==
  ASSUME IInv, Test
  PROVE  LampsOK'
<1>1. SendersFrame /\ queue' = queue
  BY DEF Test, SendersFrame
<1>2. CASE slot = Nothing
  BY <1>1, <1>2, SkipStep DEF Test
<1>3. CASE slot # Nothing
  <2>1. UNCHANGED <<entry, lamp, spoilt, queue, recorded, listener, slot, computed>>
    BY <1>3 DEF Test
  <2> QED BY <2>1, StutterStep
<1> QED BY <1>2, <1>3

LEMMA ShowLemma ==
  ASSUME TypeOK, NEW these, NEW states, NEW spoiling,
         Show(these, states, spoiling), SendersFrame, NEW b \in Buttons
  PROVE  /\ b \in these => lamp'[b] = states[b]
         /\ b \notin these => lamp'[b] = lamp[b]
         /\ b \in these /\ Right(b, states[b]) => Right(b, lamp[b])'
         /\ b \notin these /\ Right(b, lamp[b]) => Right(b, lamp[b])'
         /\ b \in spoilt \cup spoiling => b \in spoilt' \/ (b \in these /\ Right(b, states[b]))
<1>1. /\ lamp' = [c \in Buttons |-> IF c \in these THEN states[c] ELSE lamp[c]]
      /\ spoilt' = {c \in spoilt \cup spoiling : c \in these => ~Right(c, states[c])}
  BY DEF Show
<1>2. (b \in these => lamp'[b] = states[b]) /\ (b \notin these => lamp'[b] = lamp[b])
  BY <1>1
<1>3. told' = told
  BY DEF SendersFrame, recorded
<1> QED BY <1>1, <1>2, <1>3 DEF Right, Shade

(* What a write leaves of the queue.                                       *)
LEMMA WriteLemma ==
  ASSUME TypeOK, entry # Nothing, entry' = Nothing, queue' = queue
  PROVE  /\ \A q \in Units \cup {"button"} : Underway(q)' => Underway(q)
         /\ \A q \in Units \cup {"button"} : q # entry /\ Underway(q) => Underway(q)'
         /\ \A u \in Units : Ordered(u) => Ordered(u)'
         /\ \A u \in Units : entry = u /\ Ordered(u) => ~Underway("button")'
<1>1. PointersOK /\ Drops
  BY DEF PointersOK, Drops, TypeOK
<1> QED BY <1>1, DropsLemma, Distinct DEF Underway, Ordered, Drops

LEMMA WriteAloneStep ==
  ASSUME IInv, SendersFrame, queue' = queue, entry = "button", slot # Nothing,
         Show({slot.button}, [b \in Buttons |-> slot.shade], {})
  PROVE  LampsOK'
<1> USE DEF IInv
<1>1. entry # Nothing /\ entry' = Nothing /\ UNCHANGED <<thread, slot, told>>
  BY Distinct DEF Show, SendersFrame, computed, recorded
<1>2. /\ \A u \in Units : (Underway(u)' <=> Underway(u)) /\ (Ordered(u) => Ordered(u)')
      /\ Underway("button")
  BY <1>1, WriteLemma, Distinct DEF Underway
<1>3. ThreadInv'
  BY <1>2, SendersThread
<1>4. ASSUME NEW b \in Buttons
      PROVE  LampInv(b)' /\ StaleInv(b)'
  <2>1. UnitOf[b] \in Units
    BY Distinct
  <2>2. ComesWithUnit(b)' <=> ComesWithUnit(b)
    BY <1>1, <1>2, <2>1, SendersLemma DEF ComesWithUnit
  <2> DEFINE states == [c \in Buttons |-> slot.shade]
  <2>3. states[b] = slot.shade
    OBVIOUS
  <2> HIDE DEF states
  <2>4. Show({slot.button}, states, {})
    BY DEF states
  <2>5. /\ b = slot.button /\ Right(b, slot.shade) => Right(b, lamp[b])'
        /\ b # slot.button /\ Right(b, lamp[b]) => Right(b, lamp[b])'
        /\ b \in spoilt => b \in spoilt' \/ (b = slot.button /\ Right(b, slot.shade))
    BY <2>3, <2>4, ShowLemma
  <2>6. CASE b # slot.button
    <3>1. ~ComesAlone(b) /\ ~Stale(b)
      BY <2>6 DEF ComesAlone, Stale, Alone
    <3> QED BY <1>1, <2>2, <2>5, <2>6, <3>1, SendersLemma DEF LampInv, StaleInv
  <2>7. CASE b = slot.button /\ Right(b, slot.shade)
    <3>1. ~Stale(b)
      BY <2>7 DEF Stale, Alone
    <3> QED BY <2>5, <2>7, <3>1, SendersLemma DEF LampInv, StaleInv
  <2>8. CASE b = slot.button /\ ~Right(b, slot.shade)
    <3>1. Stale(b)
      BY <2>8 DEF Stale, Alone
    <3>2. \/ Collecting \/ Constructing(b)
          \/ Ordered(UnitOf[b]) /\ (b \in spoilt \/ ComesWithUnit(b))
      BY <1>2, <3>1 DEF StaleInv
    <3>3. Constructing(b) => Handling(b)
      BY DEF Constructing, Handling, ListenerAt
    <3>4. b \in spoilt => b \in spoilt'
      BY <2>5, <2>8
    <3>5. LampInv(b)'
      BY <2>2, <3>2, <3>3, <3>4, SendersLemma DEF LampInv
    <3>6. StaleInv(b)'
      BY <1>2, <2>1, <2>2, <3>2, <3>4, SendersLemma DEF StaleInv
    <3> QED BY <3>5, <3>6
  <2> QED BY <2>6, <2>7, <2>8
<1> QED BY <1>3, <1>4 DEF LampsOK

LEMMA WriteUnitStep ==
  ASSUME IInv, SendersFrame, queue' = queue, NEW u \in Units, entry = u,
         NEW its, its = {b \in Buttons : UnitOf[b] = u}, Show(its, node, its \cap newer)
  PROVE  LampsOK'
<1> USE DEF IInv
<1>1. entry # Nothing /\ entry' = Nothing /\ UNCHANGED <<thread, slot, told>>
  BY Distinct DEF Show, SendersFrame, computed, recorded
<1>2. /\ \A w \in Units : (Underway(w)' => Underway(w)) /\ (Ordered(w) => Ordered(w)')
      /\ \A w \in Units \ {u} : Underway(w) => Underway(w)'
      /\ Underway("button")' <=> Underway("button")
      /\ Ordered(u) => ~Underway("button")'
  BY <1>1, WriteLemma, Distinct
<1>3. ThreadInv'
  BY <1>2, SendersThread
<1>4. thread.running /\ thread.rest \cap Buttons = {}
  <2>1. Underway(u)
    BY DEF Underway
  <2> QED BY <2>1 DEF ThreadInv
<1>5. ASSUME NEW b \in Buttons
      PROVE  LampInv(b)' /\ StaleInv(b)'
  <2>1. UnitOf[b] \in Units
    BY Distinct
  <2>2. /\ b \in its /\ Right(b, node[b]) => Right(b, lamp[b])'
        /\ b \notin its /\ Right(b, lamp[b]) => Right(b, lamp[b])'
        /\ b \in spoilt \cup (its \cap newer) => b \in spoilt' \/ (b \in its /\ Right(b, node[b]))
    BY ShowLemma
  <2>3. CASE b \in its
    <3>1. Right(b, node[b]) \/ b \in newer \/ Collecting
      <4>1. node[b] # Nothing
        BY <1>4 DEF ThreadInv
      <4> QED BY <4>1 DEF ThreadInv, Current, Right
    <3>2. LampInv(b)'
      BY <2>2, <2>3, <3>1, SendersLemma DEF LampInv
    <3>3. StaleInv(b)'
      BY <1>2, <2>1, <2>3, SendersLemma DEF StaleInv
    <3> QED BY <3>2, <3>3
  <2>4. CASE b \notin its
    <3>1. UnitOf[b] # u
      BY <2>4
    <3>2. ComesWithUnit(b) => ComesWithUnit(b)'
      BY <1>1, <1>2, <2>1, <3>1, SendersLemma DEF ComesWithUnit
    <3>3. Right(b, slot.shade)' <=> Right(b, slot.shade)
      BY <1>1, SendersLemma
    <3>4. ComesAlone(b) => ComesAlone(b)'
      BY <1>2, <3>3, SendersLemma DEF ComesAlone
    <3>5. b \in spoilt => b \in spoilt'
      BY <2>2, <2>4
    <3>6. LampInv(b)'
      BY <2>2, <2>4, <3>2, <3>4, <3>5, SendersLemma DEF LampInv
    <3>7. StaleInv(b)'
      BY <1>2, <2>1, <3>2, <3>5, SendersLemma DEF StaleInv
    <3> QED BY <3>6, <3>7
  <2> QED BY <2>3, <2>4
<1> QED BY <1>3, <1>5 DEF LampsOK

LEMMA WriteGoneStep ==
  ASSUME IInv, SendersFrame, queue' = queue, entry = "gone",
         NEW S, Show(S, [b \in Buttons |-> Nothing], S)
  PROVE  LampsOK'
<1> USE DEF IInv
<1>1. entry # Nothing /\ entry' = Nothing /\ UNCHANGED <<thread, slot, told>>
  BY Distinct DEF Show, SendersFrame, computed, recorded
<1>2. /\ \A u \in Units : (Underway(u)' <=> Underway(u)) /\ (Ordered(u) => Ordered(u)')
      /\ Underway("button")' <=> Underway("button")
  BY <1>1, WriteLemma, Distinct
<1>3. ThreadInv'
  BY <1>2, SendersThread
<1>4. ASSUME NEW b \in Buttons
      PROVE  LampInv(b)' /\ StaleInv(b)'
  <2>1. UnitOf[b] \in Units
    BY Distinct
  <2>2. ComesWithUnit(b) => ComesWithUnit(b)'
    BY <1>1, <1>2, <2>1, SendersLemma DEF ComesWithUnit
  <2>3. Right(b, slot.shade)' <=> Right(b, slot.shade)
    BY <1>1, SendersLemma
  <2>4. ComesAlone(b) => ComesAlone(b)'
    BY <1>2, <2>3, SendersLemma DEF ComesAlone
  <2> DEFINE states == [c \in Buttons |-> Nothing]
  <2>5. ~Right(b, states[b])
    <3>1. told[b] \in Values
      BY DEF TypeOK
    <3> QED BY <3>1, ShadeExists DEF Right
  <2> HIDE DEF states
  <2>6. Show(S, states, S)
    BY DEF states
  <2>7. /\ b \notin S /\ Right(b, lamp[b]) => Right(b, lamp[b])'
        /\ b \in spoilt \cup S => b \in spoilt'
    BY <2>5, <2>6, ShowLemma
  <2>8. LampInv(b)'
    BY <2>2, <2>4, <2>7, SendersLemma DEF LampInv
  <2>9. StaleInv(b)'
    BY <1>2, <2>1, <2>2, <2>7, SendersLemma DEF StaleInv
  <2> QED BY <2>8, <2>9
<1> QED BY <1>3, <1>4 DEF LampsOK

LEMMA WriteStep ==
  ASSUME IInv, Write
  PROVE  LampsOK'
<1>1. SendersFrame /\ queue' = queue
  BY DEF Write, SendersFrame
<1>2. CASE entry = "button" /\ slot = Nothing /\ Skip
  BY <1>1, <1>2, SkipStep
<1>3. CASE /\ entry = "button" /\ slot # Nothing
           /\ Show({slot.button}, [b \in Buttons |-> slot.shade], {})
  BY <1>1, <1>3, WriteAloneStep
<1>4. CASE entry \in Units /\ LET its == {b \in Buttons : UnitOf[b] = entry} IN
                              Show(its, node, its \cap newer)
  BY <1>1, <1>4, WriteUnitStep
<1>5. CASE entry = "gone" /\ \E S \in SUBSET Buttons : Show(S, [b \in Buttons |-> Nothing], S)
  BY <1>1, <1>5, WriteGoneStep
<1> QED BY <1>2, <1>3, <1>4, <1>5 DEF Write

-----------------------------------------------------------------------------
LEMMA InvInit == Init => IInv
<1> SUFFICES ASSUME Init
             PROVE  IInv
  OBVIOUS
<1>1. \A u \in Units : ~Underway(u)
  BY Distinct DEF Init, Underway
<1>2. ThreadInv
  BY <1>1 DEF Init, ThreadInv, Off
<1>3. \A b \in Buttons : LampInv(b) /\ StaleInv(b)
  BY DEF Init, LampInv, StaleInv, Stale, Alone
<1> QED BY <1>2, <1>3, TypeInit, ListenerInit DEF IInv

LEMMA InvStep == IInv /\ [Next]_vars => IInv'
<1> SUFFICES ASSUME IInv, [Next]_vars
             PROVE  IInv'
  OBVIOUS
<1>1. TypeOK' /\ ListenerInv'
  BY TypeStep, ListenerStep DEF IInv
<1>2. LampsOK'
  <2>1. CASE Receive
    BY <2>1, ValueStep, LoadStep DEF Receive
  <2>2. CASE Listener
    BY <2>2, ConstructStep, PushStep, StartThreadStep DEF Listener
  <2>3. CASE ButtonThread
    BY <2>3, MakeStep, PushUnitStep, EndThreadStep DEF ButtonThread
  <2>4. CASE SerialSender
    BY <2>4, PopStep, TestStep, WriteStep DEF SerialSender
  <2>5. CASE UNCHANGED vars
    <3>1. UNCHANGED <<entry, lamp, spoilt, queue, recorded, listener, slot, computed>>
      BY <2>5 DEF vars, sending
    <3> QED BY <3>1, StutterStep
  <2> QED BY <2>1, <2>2, <2>3, <2>4, <2>5 DEF Next
<1> QED BY <1>1, <1>2 DEF IInv, LampsOK

LEMMA InvImplies == IInv => LampsFollow
<1> SUFFICES ASSUME IInv, Quiet, NEW b \in Buttons
             PROVE  Right(b, lamp[b]) \/ b \in spoilt
  BY DEF LampsFollow
<1>1. ~Collecting /\ ~Handling(b)
  BY DEF Quiet, Collecting, Handling, ListenerAt
<1>2. \A q : q # Nothing => ~Underway(q)
  BY DEF Quiet, Underway
<1>3. thread.rest = {}
  BY DEF Quiet, Off
<1>4. ~ComesWithUnit(b) /\ ~ComesAlone(b)
  BY <1>2, <1>3, Distinct DEF ComesWithUnit, ComesAlone
<1> QED BY <1>1, <1>4 DEF IInv, LampInv

(* The lamps follow RNBO.                                                  *)
THEOREM LampsFollowed == Spec => []LampsFollow
BY InvInit, InvStep, InvImplies, PTL DEF Spec
=============================================================================
