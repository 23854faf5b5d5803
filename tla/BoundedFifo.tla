---------------------------- MODULE BoundedFifo ----------------------------
(***************************************************************************)
(* What the users of TSQueue rely on: a first-in first-out queue of at     *)
(* most SizeLimit items.  A push is answered at once, by storing the item  *)
(* or, when the queue is full, by ignoring it; a pop hands out the oldest  *)
(* item.  Neither the mutex nor the condition variable is visible here.    *)
(***************************************************************************)
EXTENDS Naturals, Sequences

CONSTANTS
  Producers,  \* threads that push
  Consumers,  \* threads that pop
  Items,      \* what is queued: in this program, pointers to messages
  SizeLimit,  \* the template parameter SIZE_LIMIT
  NoItem      \* not an item

VARIABLES
  queue,      \* the stored items, oldest first
  offered,    \* offered[p]: the item p's push still has to place, or NoItem
  taken       \* taken[c]: the item c's pop is about to return, or NoItem

vars == <<queue, offered, taken>>

Init ==
  /\ queue = <<>>
  /\ offered = [p \in Producers |-> NoItem]
  /\ taken = [c \in Consumers |-> NoItem]

Offer(p, x) ==
  /\ offered[p] = NoItem
  /\ offered' = [offered EXCEPT ![p] = x]
  /\ UNCHANGED <<queue, taken>>

Store(p) ==
  /\ offered[p] # NoItem
  /\ Len(queue) < SizeLimit
  /\ queue' = Append(queue, offered[p])
  /\ offered' = [offered EXCEPT ![p] = NoItem]
  /\ UNCHANGED taken

(* "Ignore the entry" (TSQueue.hpp:23): a full queue swallows the push.    *)
Ignore(p) ==
  /\ offered[p] # NoItem
  /\ Len(queue) >= SizeLimit
  /\ offered' = [offered EXCEPT ![p] = NoItem]
  /\ UNCHANGED <<queue, taken>>

Take(c) ==
  /\ taken[c] = NoItem
  /\ queue # <<>>
  /\ taken' = [taken EXCEPT ![c] = Head(queue)]
  /\ queue' = Tail(queue)
  /\ UNCHANGED offered

Return(c) ==
  /\ taken[c] # NoItem
  /\ taken' = [taken EXCEPT ![c] = NoItem]
  /\ UNCHANGED <<queue, offered>>

Next ==
  \/ \E p \in Producers : Store(p) \/ Ignore(p) \/ \E x \in Items : Offer(p, x)
  \/ \E c \in Consumers : Take(c) \/ Return(c)

Spec == Init /\ [][Next]_vars
=============================================================================
