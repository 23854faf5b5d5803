------------------------------ MODULE TSQueue ------------------------------
(***************************************************************************)
(* TSQueue.hpp: the queue between the program's threads, a std::queue      *)
(* guarded by one mutex and one condition variable.  Two instances exist:  *)
(* SerialConnector's (drained by SerialSender) and OscSender's own.        *)
(*                                                                         *)
(* Every lock, test, store, notification and unlock is a step of its own,  *)
(* so that threads interleave wherever the code lets them.  A thread is    *)
(*   "idle"     outside push() and pop()                                   *)
(*   "lock"     about to acquire m_mutex (first time, or after waking)     *)
(*   "test"     holding m_mutex, about to look at m_queue                  *)
(*   "store"    a producer that found room, about to store its item        *)
(*   "notify"   a producer that stored its item, about to notify_one()     *)
(*   "remove"   a consumer that copied the front item, about to remove it  *)
(*   "unlock"   done, about to release m_mutex and return                  *)
(*   "blocked"  a consumer asleep in m_cond.wait()                         *)
(***************************************************************************)
EXTENDS Naturals, Sequences, FiniteSets

CONSTANTS Producers, Consumers, Items, SizeLimit, NoItem, NoThread

Threads == Producers \cup Consumers

ASSUME ThreadsAssumption ==
  /\ IsFiniteSet(Producers)
  /\ IsFiniteSet(Consumers)
  /\ Producers \cap Consumers = {}
  /\ NoThread \notin Threads

ASSUME QueueAssumption ==
  /\ SizeLimit \in Nat \ {0}
  /\ NoItem \notin Items

VARIABLES
  m_queue,  \* the stored items, oldest first
  m_mutex,  \* the thread that holds the mutex, or NoThread
  pc,       \* where each thread is in push() or pop()
  item      \* push()'s argument; pop()'s result

vars == <<m_queue, m_mutex, pc, item>>

(* m_cond's wait set.                                                      *)
Blocked == {c \in Consumers : pc[c] = "blocked"}

(* Consumers that will take an item without any further notification.      *)
Awake == {c \in Consumers : pc[c] \in {"lock", "test", "remove"}}

(* Producers that stored an item and have not yet called notify_one().     *)
Notifying == {p \in Producers : pc[p] = "notify"}

Init ==
  /\ m_queue = <<>>
  /\ m_mutex = NoThread
  /\ pc = [t \in Threads |-> "idle"]
  /\ item = [t \in Threads |-> NoItem]

Goto(t, here, there) ==
  /\ pc[t] = here
  /\ pc' = [pc EXCEPT ![t] = there]

-----------------------------------------------------------------------------
(* push(item)                                                              *)

(* Mutation of CallPush: the argument is lost on the way in.               *)
CallPush_ArgumentLost(p, x) ==
  /\ Goto(p, "idle", "lock")
  /\ x \in Items
  /\ UNCHANGED <<m_queue, m_mutex, item>>

CallPush(p, x) ==
  /\ Goto(p, "idle", "lock")
  /\ item' = [item EXCEPT ![p] = x]
  /\ UNCHANGED <<m_queue, m_mutex>>

(* Mutation of Lock: the mutex is not waited for.                          *)
Lock_NotExclusive(t) ==
  /\ Goto(t, "lock", "test")
  /\ m_mutex' = t
  /\ UNCHANGED <<m_queue, item>>

Lock(t) ==
  /\ m_mutex = NoThread
  /\ Goto(t, "lock", "test")
  /\ m_mutex' = t
  /\ UNCHANGED <<m_queue, item>>

(* The early return of a full queue: the entry is dropped, nobody is told. *)
PushIgnored(p) ==
  /\ Len(m_queue) >= SizeLimit
  /\ Goto(p, "test", "unlock")
  /\ UNCHANGED <<m_queue, m_mutex, item>>

(* Mutation of PushFindsRoom: one item more than SIZE_LIMIT.               *)
PushFindsRoom_OffByOne(p) ==
  /\ Len(m_queue) <= SizeLimit
  /\ Goto(p, "test", "store")
  /\ UNCHANGED <<m_queue, m_mutex, item>>

PushFindsRoom(p) ==
  /\ Len(m_queue) < SizeLimit
  /\ Goto(p, "test", "store")
  /\ UNCHANGED <<m_queue, m_mutex, item>>

(* Mutation of PushStored: a sleeper is woken only if the queue was empty. *)
PushStored_NotifiesOnlyWhenEmpty(p) ==
  /\ Goto(p, "store", IF m_queue = <<>> THEN "notify" ELSE "unlock")
  /\ m_queue' = Append(m_queue, item[p])
  /\ UNCHANGED <<m_mutex, item>>

PushStored(p) ==
  /\ Goto(p, "store", "notify")
  /\ m_queue' = Append(m_queue, item[p])
  /\ UNCHANGED <<m_mutex, item>>

(* Mutation of Notify: the notification is forgotten.                      *)
Notify_Forgotten(p) ==
  /\ Goto(p, "notify", "unlock")
  /\ UNCHANGED <<m_queue, m_mutex, item>>

(* notify_one() wakes one of the waiting consumers, if there is one; it    *)
(* then has to acquire the mutex again.                                    *)
Notify(p) ==
  /\ pc[p] = "notify"
  /\ \/ \E c \in Blocked :
          pc' = [pc EXCEPT ![p] = "unlock", ![c] = "lock"]
     \/ /\ Blocked = {}
        /\ pc' = [pc EXCEPT ![p] = "unlock"]
  /\ UNCHANGED <<m_queue, m_mutex, item>>

(* Mutation of Unlock: the early return leaves the mutex locked.           *)
Unlock_Forgotten(t) ==
  /\ Goto(t, "unlock", "idle")
  /\ m_mutex' = IF Len(m_queue) >= SizeLimit THEN m_mutex ELSE NoThread
  /\ item' = [item EXCEPT ![t] = NoItem]
  /\ UNCHANGED m_queue

(* The return of push() or pop(), whose unique_lock releases the mutex.    *)
Unlock(t) ==
  /\ Goto(t, "unlock", "idle")
  /\ m_mutex' = NoThread
  /\ item' = [item EXCEPT ![t] = NoItem]
  /\ UNCHANGED m_queue

-----------------------------------------------------------------------------
(* pop()                                                                   *)

CallPop(c) ==
  /\ Goto(c, "idle", "lock")
  /\ UNCHANGED <<m_queue, m_mutex, item>>

(* wait() releases the mutex and joins the wait set in one atomic step.    *)
PopWaits(c) ==
  /\ m_queue = <<>>
  /\ Goto(c, "test", "blocked")
  /\ m_mutex' = NoThread
  /\ UNCHANGED <<m_queue, item>>

(* A condition variable may wake without being notified; the predicate     *)
(* passed to wait() is then tested again.                                  *)
SpuriousWakeup(c) ==
  /\ Goto(c, "blocked", "lock")
  /\ UNCHANGED <<m_queue, m_mutex, item>>

PopReadsFront(c) ==
  /\ m_queue # <<>>
  /\ Goto(c, "test", "remove")
  /\ item' = [item EXCEPT ![c] = Head(m_queue)]
  /\ UNCHANGED <<m_queue, m_mutex>>

PopRemoves(c) ==
  /\ Goto(c, "remove", "unlock")
  /\ m_queue' = Tail(m_queue)
  /\ UNCHANGED <<m_mutex, item>>

-----------------------------------------------------------------------------
PushStep(p) ==
  \/ \E x \in Items : CallPush(p, x)
  \/ PushIgnored(p) \/ PushFindsRoom(p) \/ PushStored(p) \/ Notify(p)

PopStep(c) ==
  \/ CallPop(c) \/ PopWaits(c) \/ SpuriousWakeup(c)
  \/ PopReadsFront(c) \/ PopRemoves(c)

Next ==
  \/ \E p \in Producers : PushStep(p)
  \/ \E c \in Consumers : PopStep(c)
  \/ \E t \in Threads : Lock(t) \/ Unlock(t)

(* A thread inside push() or pop() keeps running until it returns or       *)
(* sleeps, and one that finds the mutex free again and again gets it       *)
(* eventually.  SerialSender and OscSender call pop() in an endless loop.  *)
(* Nothing is assumed of the threads that push, nor of spurious wakeups.   *)
Fairness ==
  /\ \A p \in Producers :
       WF_vars(PushIgnored(p) \/ PushFindsRoom(p) \/ PushStored(p) \/ Notify(p))
  /\ \A c \in Consumers :
       WF_vars(CallPop(c) \/ PopWaits(c) \/ PopReadsFront(c) \/ PopRemoves(c))
  /\ \A t \in Threads : SF_vars(Lock(t)) /\ WF_vars(Unlock(t))

Spec == Init /\ [][Next]_vars
FairSpec == Spec /\ Fairness

-----------------------------------------------------------------------------
(* Type invariant: only what a caller pushed is ever stored or handed out, *)
(* and each thread is somewhere in the function it calls.                  *)
TypeOK ==
  /\ m_queue \in Seq(Items)
  /\ m_mutex \in Threads \cup {NoThread}
  /\ pc \in [Threads -> {"idle", "lock", "test", "store", "notify",
                         "remove", "unlock", "blocked"}]
  /\ item \in [Threads -> Items \cup {NoItem}]
  /\ \A p \in Producers : pc[p] \notin {"remove", "blocked"}
  /\ \A c \in Consumers : pc[c] \notin {"store", "notify"}

(* m_mutex does what the two functions rely on: a thread between acquiring *)
(* and releasing it is its holder, so there is one; the room a producer    *)
(* found is still there when it stores, and the front a consumer copied is *)
(* still the front when it removes it.                                     *)
Holding == {"test", "store", "notify", "remove", "unlock"}

CriticalSection ==
  /\ \A t \in Threads : pc[t] \in Holding <=> m_mutex = t
  /\ \A p \in Producers : pc[p] = "store" => Len(m_queue) < SizeLimit
  /\ \A c \in Consumers :
       pc[c] = "remove" => m_queue # <<>> /\ item[c] = Head(m_queue)

(* No wakeup is lost: while a consumer sleeps in wait(), every stored item *)
(* has a thread on its way to it, a consumer that will test the queue      *)
(* again or a producer that still has to notify.  This is what notifying   *)
(* after every stored push, under the mutex, and re-testing in a loop is   *)
(* for (TSQueue.hpp:29, 43).                                               *)
NoLostWakeup ==
  Blocked # {} =>
    Len(m_queue) <= Cardinality(Awake) + Cardinality(Notifying)

(* The code implements the bounded queue its callers think of: the item is *)
(* stored or ignored in one step somewhere between call and return, and a  *)
(* pop returns the oldest stored item.                                     *)
Fifo == INSTANCE BoundedFifo WITH
  queue   <- m_queue,
  offered <- [p \in Producers |->
                IF pc[p] \in {"lock", "test", "store"} THEN item[p] ELSE NoItem],
  taken   <- [c \in Consumers |->
                IF pc[c] = "unlock" THEN item[c] ELSE NoItem]

ImplementsBoundedFifo == Fifo!Spec

(* push() never waits for room: whatever the consumers do, a producer that *)
(* entered push() returns.  The OSC and serial threads rely on it, because *)
(* nothing else reads their socket and port meanwhile.                     *)
PushReturns == \A p \in Producers : pc[p] = "lock" ~> pc[p] = "idle"

(* A stored item does not stay behind: some consumer's pop gets to return. *)
StoredItemsAreServed == m_queue # <<>> ~> \E c \in Consumers : pc[c] = "unlock"
=============================================================================
