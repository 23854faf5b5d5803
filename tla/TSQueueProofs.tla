--------------------------- MODULE TSQueueProofs ---------------------------
(***************************************************************************)
(* What is proved of TSQueue for any sets of threads and items and any     *)
(* size limit: it is type correct, its mutex protects both functions, no   *)
(* wakeup is lost, and it implements BoundedFifo.                          *)
(***************************************************************************)
EXTENDS TSQueue, TLAPS, FiniteSetTheorems, SequenceTheorems

(* A thread that is going to store or to return an item has one.           *)
ItemsInTransit ==
  /\ \A p \in Producers : pc[p] \in {"lock", "test", "store"} => item[p] \in Items
  /\ \A c \in Consumers : pc[c] \in {"remove", "unlock"} => item[c] \in Items

(* The inductive invariant behind all four theorems.                       *)
Inv == TypeOK /\ ItemsInTransit /\ CriticalSection

-----------------------------------------------------------------------------
(* Appending to a queue and removing its head, as push() and pop() do.     *)
LEMMA AppendFacts ==
  ASSUME NEW q \in Seq(Items), NEW x \in Items
  PROVE  /\ Append(q, x) \in Seq(Items)
         /\ Len(Append(q, x)) = Len(q) + 1
         /\ Append(q, x) # <<>>
<1>1. Append(q, x) \in Seq(Items) /\ Len(Append(q, x)) = Len(q) + 1
  OBVIOUS
<1>2. Len(q) \in Nat
  OBVIOUS
<1> QED
  BY <1>1, <1>2, EmptySeq

LEMMA TailFacts ==
  ASSUME NEW q \in Seq(Items), q # <<>>
  PROVE  /\ Tail(q) \in Seq(Items)
         /\ Head(q) \in Items
         /\ Len(Tail(q)) = Len(q) - 1
         /\ Len(q) \in Nat \ {0}
BY HeadTailProperties, EmptySeq

LEMMA InitInv == Init => Inv
<1> SUFFICES ASSUME Init PROVE Inv
  OBVIOUS
<1> QED
  BY ThreadsAssumption, QueueAssumption
  DEF Init, Inv, TypeOK, ItemsInTransit, CriticalSection, Threads, Holding

(* One step of push(), of pop(), or of acquiring and releasing the mutex   *)
(* preserves the invariant.                                                *)
LEMMA PushStepInv ==
  ASSUME Inv, NEW p \in Producers, PushStep(p)
  PROVE  Inv'
<1> USE ThreadsAssumption, QueueAssumption DEF Goto
<1>0. p \in Threads /\ p \notin Consumers
  BY DEF Threads
<1>1. CASE \E x \in Items : CallPush(p, x)
  BY <1>0, <1>1 DEF CallPush, Inv, TypeOK, ItemsInTransit, CriticalSection, Threads, Holding
<1>2. CASE PushIgnored(p)
  BY <1>0, <1>2 DEF PushIgnored, Inv, TypeOK, ItemsInTransit, CriticalSection, Threads, Holding
<1>3. CASE PushFindsRoom(p)
  BY <1>0, <1>3 DEF PushFindsRoom, Inv, TypeOK, ItemsInTransit, CriticalSection, Threads, Holding
<1>4. CASE PushStored(p)
  <2>1. item[p] \in Items /\ m_queue' = Append(m_queue, item[p])
    BY <1>4 DEF PushStored, Inv, ItemsInTransit
  <2>2. m_queue' \in Seq(Items)
    BY <2>1, AppendFacts DEF Inv, TypeOK
  <2>3. \A t \in Threads : pc[t] \in Holding => t = p
    BY <1>0, <1>4 DEF PushStored, Inv, CriticalSection, Holding
  <2> QED
    BY <1>0, <1>4, <2>2, <2>3
    DEF PushStored, Inv, TypeOK, ItemsInTransit, CriticalSection, Threads, Holding
<1>5. CASE Notify(p)
  <2>1. CASE Blocked = {} /\ pc' = [pc EXCEPT ![p] = "unlock"]
    BY <1>0, <1>5, <2>1
    DEF Notify, Inv, TypeOK, ItemsInTransit, CriticalSection, Threads, Holding
  <2>2. ASSUME NEW c \in Blocked, pc' = [pc EXCEPT ![p] = "unlock", ![c] = "lock"]
        PROVE  Inv'
    BY <1>0, <1>5, <2>2
    DEF Notify, Blocked, Inv, TypeOK, ItemsInTransit, CriticalSection, Threads, Holding
  <2> QED
    BY <1>5, <2>1, <2>2 DEF Notify
<1> QED
  BY <1>1, <1>2, <1>3, <1>4, <1>5 DEF PushStep

LEMMA PopStepInv ==
  ASSUME Inv, NEW c \in Consumers, PopStep(c)
  PROVE  Inv'
<1> USE ThreadsAssumption, QueueAssumption DEF Goto
<1>0. c \in Threads /\ c \notin Producers
  BY DEF Threads
<1>1. CASE CallPop(c)
  BY <1>0, <1>1 DEF CallPop, Inv, TypeOK, ItemsInTransit, CriticalSection, Threads, Holding
<1>2. CASE PopWaits(c)
  BY <1>0, <1>2 DEF PopWaits, Inv, TypeOK, ItemsInTransit, CriticalSection, Threads, Holding
<1>3. CASE SpuriousWakeup(c)
  BY <1>0, <1>3 DEF SpuriousWakeup, Inv, TypeOK, ItemsInTransit, CriticalSection, Threads, Holding
<1>4. CASE PopReadsFront(c)
  <2>1. Head(m_queue) \in Items
    BY <1>4, TailFacts DEF PopReadsFront, Inv, TypeOK
  <2> QED
    BY <1>0, <1>4, <2>1
    DEF PopReadsFront, Inv, TypeOK, ItemsInTransit, CriticalSection, Threads, Holding
<1>5. CASE PopRemoves(c)
  <2>1. m_queue # <<>> /\ m_queue' = Tail(m_queue)
    BY <1>5 DEF PopRemoves, Inv, CriticalSection
  <2>2. m_queue' \in Seq(Items) /\ Len(m_queue') = Len(m_queue) - 1
    BY <2>1, TailFacts DEF Inv, TypeOK
  <2>3. \A t \in Threads : pc[t] \in Holding => t = c
    BY <1>0, <1>5 DEF PopRemoves, Inv, CriticalSection, Holding
  <2> QED
    BY <1>0, <1>5, <2>2, <2>3
    DEF PopRemoves, Inv, TypeOK, ItemsInTransit, CriticalSection, Threads, Holding
<1> QED
  BY <1>1, <1>2, <1>3, <1>4, <1>5 DEF PopStep

LEMMA MutexStepInv ==
  ASSUME Inv, NEW t \in Threads, Lock(t) \/ Unlock(t)
  PROVE  Inv'
<1> USE ThreadsAssumption, QueueAssumption DEF Goto
<1>1. CASE Lock(t)
  BY <1>1 DEF Lock, Inv, TypeOK, ItemsInTransit, CriticalSection, Threads, Holding
<1>2. CASE Unlock(t)
  BY <1>2 DEF Unlock, Inv, TypeOK, ItemsInTransit, CriticalSection, Threads, Holding
<1> QED
  BY <1>1, <1>2

LEMMA StepInv == Inv /\ [Next]_vars => Inv'
<1> SUFFICES ASSUME Inv, [Next]_vars PROVE Inv'
  OBVIOUS
<1>1. CASE Next
  BY <1>1, PushStepInv, PopStepInv, MutexStepInv DEF Next
<1>2. CASE UNCHANGED vars
  BY <1>2 DEF vars, Inv, TypeOK, ItemsInTransit, CriticalSection
<1> QED
  BY <1>1, <1>2

LEMMA InvHolds == Spec => []Inv
<1> QED
  BY InitInv, StepInv, PTL DEF Spec

-----------------------------------------------------------------------------
(* Type correctness: whatever the threads do, m_queue holds items somebody *)
(* pushed and every pop() returns one of them.                             *)
THEOREM TypeCorrect == Spec => []TypeOK
<1>1. Inv => TypeOK
  BY DEF Inv
<1> QED
  BY <1>1, InvHolds, PTL

(* The mutex makes push() and pop() critical sections (TSQueue.hpp:19, 40):*)
(* one holder at a time, and what a thread tested stays true until it acts.*)
THEOREM MutexProtects == Spec => []CriticalSection
<1>1. Inv => CriticalSection
  BY DEF Inv
<1> QED
  BY <1>1, InvHolds, PTL

-----------------------------------------------------------------------------
(* Counting for NoLostWakeup.  The sets counted are finite.                *)
LEMMA CountsAreNaturals ==
  /\ IsFiniteSet(Awake) /\ Cardinality(Awake) \in Nat
  /\ IsFiniteSet(Notifying) /\ Cardinality(Notifying) \in Nat
<1>1. IsFiniteSet(Awake) /\ IsFiniteSet(Notifying)
  BY ThreadsAssumption, FS_Subset DEF Awake, Notifying
<1> QED
  BY <1>1, FS_CardinalityType

(* Sets that grow do not lose members to the count.                        *)
LEMMA CountsMonotone ==
  ASSUME Blocked' # {} => Blocked # {},
         Awake \subseteq Awake', Notifying \subseteq Notifying',
         m_queue' = m_queue, TypeOK, NoLostWakeup
  PROVE  NoLostWakeup'
<1>0. IsFiniteSet(Awake') /\ IsFiniteSet(Notifying')
  BY ThreadsAssumption, FS_Subset DEF Awake, Notifying
<1>1. Cardinality(Awake) <= Cardinality(Awake')
  BY <1>0, FS_Subset
<1>2. Cardinality(Notifying) <= Cardinality(Notifying')
  BY <1>0, FS_Subset
<1>3. Cardinality(Awake') \in Nat /\ Cardinality(Notifying') \in Nat
  BY <1>0, FS_CardinalityType
<1>4. Len(m_queue) \in Nat
  BY DEF TypeOK
<1> QED
  BY <1>1, <1>2, <1>3, <1>4, CountsAreNaturals DEF NoLostWakeup

LEMMA PushStepWakeup ==
  ASSUME Inv, NoLostWakeup, NEW p \in Producers, PushStep(p)
  PROVE  NoLostWakeup'
<1> USE ThreadsAssumption DEF Goto
<1>0. p \in Threads /\ p \notin Consumers
  BY DEF Threads
<1>a. pc \in [Threads -> {"idle", "lock", "test", "store", "notify",
                         "remove", "unlock", "blocked"}] /\ TypeOK
  BY DEF Inv, TypeOK
<1>1. CASE \E x \in Items : CallPush(p, x)
  <2>1. Blocked' = Blocked /\ Awake' = Awake /\ Notifying \subseteq Notifying'
    BY <1>0, <1>a, <1>1 DEF CallPush, Blocked, Awake, Notifying, Threads
  <2> QED
    BY <1>1, <1>a, <2>1, CountsMonotone DEF CallPush
<1>2. CASE PushIgnored(p) \/ PushFindsRoom(p)
  <2>1. Blocked' = Blocked /\ Awake' = Awake /\ Notifying \subseteq Notifying'
    BY <1>0, <1>a, <1>2 DEF PushIgnored, PushFindsRoom, Blocked, Awake, Notifying, Threads
  <2> QED
    BY <1>2, <1>a, <2>1, CountsMonotone DEF PushIgnored, PushFindsRoom
<1>4. CASE PushStored(p)
  <2>1. Blocked' = Blocked /\ Awake' = Awake
    BY <1>0, <1>a, <1>4 DEF PushStored, Blocked, Awake, Threads
  <2>2. Notifying' = Notifying \cup {p} /\ p \notin Notifying
    BY <1>0, <1>a, <1>4 DEF PushStored, Notifying, Threads
  <2>3. Cardinality(Notifying') = Cardinality(Notifying) + 1
    BY <2>2, CountsAreNaturals, FS_AddElement
  <2>4. m_queue \in Seq(Items) /\ Len(m_queue') = Len(m_queue) + 1
    BY <1>4, AppendFacts DEF PushStored, Inv, TypeOK, ItemsInTransit
  <2>5. Len(m_queue) \in Nat
    BY <2>4
  <2> QED
    BY <2>1, <2>3, <2>4, <2>5, CountsAreNaturals DEF NoLostWakeup
<1>5. CASE Notify(p)
  <2>1. CASE Blocked = {} /\ pc' = [pc EXCEPT ![p] = "unlock"]
    <3>1. Blocked' = {}
      BY <1>0, <1>a, <2>1 DEF Blocked, Threads
    <3> QED
      BY <3>1 DEF NoLostWakeup
  <2>2. ASSUME NEW c \in Blocked, pc' = [pc EXCEPT ![p] = "unlock", ![c] = "lock"]
        PROVE  NoLostWakeup'
    <3>1. c \in Consumers /\ c \in Threads /\ pc[p] = "notify" /\ pc[c] = "blocked"
      BY <1>5 DEF Notify, Blocked, Threads
    <3>2. Awake' = Awake \cup {c} /\ c \notin Awake
      BY <1>0, <1>a, <2>2, <3>1 DEF Awake, Threads
    <3>3. Notifying' = Notifying \ {p} /\ p \in Notifying
      BY <1>0, <1>a, <2>2, <3>1 DEF Notifying, Threads
    <3>4. Cardinality(Awake') = Cardinality(Awake) + 1
      BY <3>2, CountsAreNaturals, FS_AddElement
    <3>5. Cardinality(Notifying') = Cardinality(Notifying) - 1
      BY <3>3, CountsAreNaturals, FS_RemoveElement
    <3>6. Len(m_queue) \in Nat /\ m_queue' = m_queue
      BY <1>5, <1>a DEF Notify, TypeOK
    <3> QED
      BY <2>2, <3>4, <3>5, <3>6, CountsAreNaturals DEF NoLostWakeup
  <2> QED
    BY <1>5, <2>1, <2>2 DEF Notify
<1> QED
  BY <1>1, <1>2, <1>4, <1>5 DEF PushStep

LEMMA PopStepWakeup ==
  ASSUME Inv, NoLostWakeup, NEW c \in Consumers, PopStep(c)
  PROVE  NoLostWakeup'
<1> USE ThreadsAssumption DEF Goto
<1>0. c \in Threads /\ c \notin Producers
  BY DEF Threads
<1>a. pc \in [Threads -> {"idle", "lock", "test", "store", "notify",
                         "remove", "unlock", "blocked"}] /\ TypeOK
  BY DEF Inv, TypeOK
<1>1. CASE CallPop(c) \/ SpuriousWakeup(c) \/ PopReadsFront(c)
  <2>1. Blocked' \subseteq Blocked /\ Awake \subseteq Awake' /\ Notifying' = Notifying
    BY <1>0, <1>a, <1>1
    DEF CallPop, SpuriousWakeup, PopReadsFront, Blocked, Awake, Notifying, Threads
  <2> QED
    BY <1>1, <1>a, <2>1, CountsMonotone DEF CallPop, SpuriousWakeup, PopReadsFront
<1>2. CASE PopWaits(c)
  <2>1. Len(m_queue') = 0
    BY <1>2 DEF PopWaits
  <2>2. IsFiniteSet(Awake') /\ IsFiniteSet(Notifying')
    BY FS_Subset DEF Awake, Notifying
  <2>3. Cardinality(Awake') \in Nat /\ Cardinality(Notifying') \in Nat
    BY <2>2, FS_CardinalityType
  <2> QED
    BY <2>1, <2>3 DEF NoLostWakeup
<1>3. CASE PopRemoves(c)
  <2>1. Blocked' = Blocked /\ Notifying' = Notifying
    BY <1>0, <1>a, <1>3 DEF PopRemoves, Blocked, Notifying, Threads
  <2>2. Awake' = Awake \ {c} /\ c \in Awake
    BY <1>0, <1>a, <1>3 DEF PopRemoves, Awake, Threads
  <2>3. Cardinality(Awake') = Cardinality(Awake) - 1
    BY <2>2, CountsAreNaturals, FS_RemoveElement
  <2>4. m_queue # <<>> /\ m_queue' = Tail(m_queue)
    BY <1>3 DEF PopRemoves, Inv, CriticalSection
  <2>5. Len(m_queue') = Len(m_queue) - 1 /\ Len(m_queue) \in Nat
    BY <1>a, <2>4, TailFacts DEF TypeOK
  <2> QED
    BY <2>1, <2>3, <2>5, CountsAreNaturals DEF NoLostWakeup
<1> QED
  BY <1>1, <1>2, <1>3 DEF PopStep

LEMMA MutexStepWakeup ==
  ASSUME Inv, NoLostWakeup, NEW t \in Threads, Lock(t) \/ Unlock(t)
  PROVE  NoLostWakeup'
<1>1. Blocked' = Blocked /\ Awake' = Awake /\ Notifying' = Notifying
  BY DEF Inv, TypeOK, Lock, Unlock, Goto, Blocked, Awake, Notifying, Threads
<1> QED
  BY <1>1 DEF Lock, Unlock, NoLostWakeup

(* No wakeup is lost, whatever the number of producers and consumers: an   *)
(* item is never left in the queue with every consumer asleep and nobody   *)
(* about to wake one (TSQueue.hpp:29, 43).                                 *)
THEOREM WakeupsNotLost == Spec => []NoLostWakeup
<1>1. Init => NoLostWakeup
  BY ThreadsAssumption DEF Init, NoLostWakeup, Blocked, Threads
<1>2. Inv /\ NoLostWakeup /\ [Next]_vars => NoLostWakeup'
  <2> SUFFICES ASSUME Inv, NoLostWakeup, [Next]_vars PROVE NoLostWakeup'
    OBVIOUS
  <2>1. CASE Next
    BY <2>1, PushStepWakeup, PopStepWakeup, MutexStepWakeup DEF Next
  <2>2. CASE UNCHANGED vars
    BY <2>2 DEF vars, NoLostWakeup, Blocked, Awake, Notifying
  <2> QED
    BY <2>1, <2>2
<1> QED
  BY <1>1, <1>2, InvHolds, PTL DEF Spec

-----------------------------------------------------------------------------
(* Each step of the code is a step of BoundedFifo, or changes nothing it   *)
(* can see.                                                                *)
Offered == [p \in Producers |->
              IF pc[p] \in {"lock", "test", "store"} THEN item[p] ELSE NoItem]
Taken == [c \in Consumers |-> IF pc[c] = "unlock" THEN item[c] ELSE NoItem]

LEMMA PushStepRefines ==
  ASSUME Inv, NEW p \in Producers, PushStep(p)
  PROVE  [Fifo!Next]_(Fifo!vars)
<1> USE ThreadsAssumption, QueueAssumption DEF Goto
<1>0. p \in Threads /\ p \notin Consumers
  BY DEF Threads
<1>a. /\ pc \in [Threads -> {"idle", "lock", "test", "store", "notify",
                            "remove", "unlock", "blocked"}]
      /\ item \in [Threads -> Items \cup {NoItem}]
  BY DEF Inv, TypeOK
<1>1. ASSUME NEW x \in Items, CallPush(p, x)
      PROVE  Fifo!Offer(p, x)
  <2>1. Offered[p] = NoItem /\ Offered' = [Offered EXCEPT ![p] = x]
    BY <1>0, <1>a, <1>1 DEF CallPush, Offered, Threads
  <2>2. Taken' = Taken /\ m_queue' = m_queue
    BY <1>0, <1>a, <1>1 DEF CallPush, Taken, Threads
  <2> QED
    BY <2>1, <2>2 DEF Fifo!Offer, Offered, Taken
<1>2. CASE PushIgnored(p)
  <2>1. Offered[p] # NoItem /\ Offered' = [Offered EXCEPT ![p] = NoItem]
    BY <1>0, <1>a, <1>2 DEF PushIgnored, Inv, ItemsInTransit, Offered, Threads
  <2>2. Taken' = Taken /\ m_queue' = m_queue /\ Len(m_queue) >= SizeLimit
    BY <1>0, <1>a, <1>2 DEF PushIgnored, Taken, Threads
  <2>3. Fifo!Ignore(p)
    BY <2>1, <2>2 DEF Fifo!Ignore, Offered, Taken
  <2> QED
    BY <2>3 DEF Fifo!Next
<1>3. CASE PushFindsRoom(p)
  <2>1. Offered' = Offered /\ Taken' = Taken /\ m_queue' = m_queue
    BY <1>0, <1>a, <1>3 DEF PushFindsRoom, Offered, Taken, Threads
  <2> QED
    BY <2>1 DEF Fifo!vars, Offered, Taken
<1>4. CASE PushStored(p)
  <2>1. /\ Offered[p] # NoItem /\ Offered[p] = item[p]
        /\ Offered' = [Offered EXCEPT ![p] = NoItem]
    BY <1>0, <1>a, <1>4 DEF PushStored, Inv, ItemsInTransit, Offered, Threads
  <2>2. Taken' = Taken /\ m_queue' = Append(m_queue, item[p])
    BY <1>0, <1>a, <1>4 DEF PushStored, Taken, Threads
  <2>3. Len(m_queue) < SizeLimit
    BY <1>4 DEF PushStored, Inv, CriticalSection
  <2>4. Fifo!Store(p)
    BY <2>1, <2>2, <2>3 DEF Fifo!Store, Offered, Taken
  <2> QED
    BY <2>4 DEF Fifo!Next
<1>5. CASE Notify(p)
  <2>1. CASE Blocked = {} /\ pc' = [pc EXCEPT ![p] = "unlock"]
    <3>1. Offered' = Offered /\ Taken' = Taken /\ m_queue' = m_queue
      BY <1>0, <1>a, <1>5, <2>1 DEF Notify, Offered, Taken, Threads
    <3> QED
      BY <3>1 DEF Fifo!vars, Offered, Taken
  <2>2. ASSUME NEW c \in Blocked, pc' = [pc EXCEPT ![p] = "unlock", ![c] = "lock"]
        PROVE  UNCHANGED Fifo!vars
    <3>1. Offered' = Offered /\ Taken' = Taken /\ m_queue' = m_queue
      BY <1>0, <1>a, <1>5, <2>2 DEF Notify, Blocked, Offered, Taken, Threads
    <3> QED
      BY <3>1 DEF Fifo!vars, Offered, Taken
  <2> QED
    BY <1>5, <2>1, <2>2 DEF Notify
<1> QED
  BY <1>1, <1>2, <1>3, <1>4, <1>5 DEF PushStep, Fifo!Next

LEMMA PopStepRefines ==
  ASSUME Inv, NEW c \in Consumers, PopStep(c)
  PROVE  [Fifo!Next]_(Fifo!vars)
<1> USE ThreadsAssumption, QueueAssumption DEF Goto
<1>0. c \in Threads /\ c \notin Producers
  BY DEF Threads
<1>a. /\ pc \in [Threads -> {"idle", "lock", "test", "store", "notify",
                            "remove", "unlock", "blocked"}]
      /\ item \in [Threads -> Items \cup {NoItem}]
  BY DEF Inv, TypeOK
<1>1. CASE CallPop(c) \/ PopWaits(c) \/ SpuriousWakeup(c) \/ PopReadsFront(c)
  <2>1. Offered' = Offered /\ Taken' = Taken /\ m_queue' = m_queue
    BY <1>0, <1>a, <1>1
    DEF CallPop, PopWaits, SpuriousWakeup, PopReadsFront, Offered, Taken, Threads
  <2> QED
    BY <2>1 DEF Fifo!vars, Offered, Taken
<1>2. CASE PopRemoves(c)
  <2>1. m_queue # <<>> /\ item[c] = Head(m_queue)
    BY <1>2 DEF PopRemoves, Inv, CriticalSection
  <2>2. Offered' = Offered /\ m_queue' = Tail(m_queue)
    BY <1>0, <1>a, <1>2 DEF PopRemoves, Offered, Threads
  <2>3. Taken[c] = NoItem /\ Taken' = [Taken EXCEPT ![c] = item[c]]
    BY <1>0, <1>a, <1>2 DEF PopRemoves, Taken, Threads
  <2>4. Fifo!Take(c)
    BY <2>1, <2>2, <2>3 DEF Fifo!Take, Offered, Taken
  <2> QED
    BY <2>4 DEF Fifo!Next
<1> QED
  BY <1>1, <1>2 DEF PopStep

LEMMA MutexStepRefines ==
  ASSUME Inv, NEW t \in Threads, Lock(t) \/ Unlock(t)
  PROVE  [Fifo!Next]_(Fifo!vars)
<1> USE ThreadsAssumption, QueueAssumption DEF Goto
<1>a. /\ pc \in [Threads -> {"idle", "lock", "test", "store", "notify",
                            "remove", "unlock", "blocked"}]
      /\ item \in [Threads -> Items \cup {NoItem}]
  BY DEF Inv, TypeOK
<1>1. CASE Lock(t)
  <2>1. Offered' = Offered /\ Taken' = Taken /\ m_queue' = m_queue
    BY <1>a, <1>1 DEF Lock, Offered, Taken, Threads
  <2> QED
    BY <2>1 DEF Fifo!vars, Offered, Taken
<1>2. CASE Unlock(t) /\ t \in Producers
  <2>1. Offered' = Offered /\ Taken' = Taken /\ m_queue' = m_queue
    BY <1>a, <1>2 DEF Unlock, Offered, Taken, Threads
  <2> QED
    BY <2>1 DEF Fifo!vars, Offered, Taken
<1>3. CASE Unlock(t) /\ t \in Consumers
  <2>1. Offered' = Offered /\ m_queue' = m_queue
    BY <1>a, <1>3 DEF Unlock, Offered, Threads
  <2>2. Taken[t] # NoItem /\ Taken' = [Taken EXCEPT ![t] = NoItem]
    BY <1>a, <1>3 DEF Unlock, Inv, ItemsInTransit, Taken, Threads
  <2>3. Fifo!Return(t)
    BY <2>1, <2>2 DEF Fifo!Return, Offered, Taken
  <2> QED
    BY <1>3, <2>3 DEF Fifo!Next
<1> QED
  BY <1>1, <1>2, <1>3 DEF Threads

(* TSQueue implements the bounded queue its users think of, for any number *)
(* of threads: the locking, the wait loop and the two-step pop are not     *)
(* observable.                                                             *)
THEOREM Refinement == Spec => ImplementsBoundedFifo
<1>1. Init => Fifo!Init
  BY ThreadsAssumption DEF Init, Fifo!Init, Threads
<1>2. Inv /\ [Next]_vars => [Fifo!Next]_(Fifo!vars)
  <2> SUFFICES ASSUME Inv, [Next]_vars PROVE [Fifo!Next]_(Fifo!vars)
    OBVIOUS
  <2>1. CASE Next
    BY <2>1, PushStepRefines, PopStepRefines, MutexStepRefines DEF Next
  <2>2. CASE UNCHANGED vars
    BY <2>2 DEF vars, Fifo!vars
  <2> QED
    BY <2>1, <2>2
<1> QED
  BY <1>1, <1>2, InvHolds, PTL DEF Spec, ImplementsBoundedFifo, Fifo!Spec
=============================================================================
