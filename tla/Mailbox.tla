------------------------------ MODULE Mailbox ------------------------------
(***************************************************************************)
(* What is left of a queue if its entries are pointers to one variable     *)
(* that its owner rewrites: a mailbox.  The owner puts one packet after    *)
(* the other into it and leaves a notice that there is one; a reader who   *)
(* finds a notice takes what the mailbox holds.                            *)
(*                                                                         *)
(* A packet may be replaced before it is read, also by nothing, and then   *)
(* it is lost although there is a notice of it; one replaced while it is   *)
(* read may come out mixed up.  But no notice is lost, and a packet that   *)
(* is left alone is taken as it is.                                        *)
(***************************************************************************)
CONSTANTS
  Results,   \* what may become of a packet in the reader's hands
  NoResult   \* nothing was taken yet

VARIABLES
  content,   \* what the packet should lead to: one result, or none
  state,     \* "making", "announced", or "withdrawn": it is finished and
             \* meant to go out, or not; "empty": there is none
  notice,    \* there is one
  reading,   \* "no", or the reader is bound to take the content ("bound"),
             \* or may have read something else ("torn")
  taken      \* the last result

vars == <<content, state, notice, reading, taken>>

Init ==
  /\ content \in SUBSET Results
  /\ state = "withdrawn" \/ (state = "empty" /\ content = {})
  /\ notice = FALSE
  /\ reading = "no" /\ taken = NoResult

(* The reader may be lucky, if what it has read does not change.           *)
Alter ==
  /\ content' \in SUBSET Results
  /\ state' = "making"
  /\ reading' \in IF reading = "no" THEN {"no"} ELSE {"bound", "torn"}
  /\ UNCHANGED <<notice, taken>>

(* Something else may have changed what the packet leads to meanwhile.     *)
Announce ==
  /\ state = "making" /\ state' \in {"announced", "making"}
  /\ notice' = TRUE
  /\ UNCHANGED <<content, reading, taken>>

(* The notice for an earlier packet may still be there.                    *)
Withdraw ==
  /\ state = "making" /\ state' = "withdrawn"
  /\ UNCHANGED <<content, notice, reading, taken>>

(* What the owner took for a packet was none.  The one before is gone, and *)
(* its notice is not: a reader will find nothing.                          *)
Empty ==
  /\ state = "making" /\ state' = "empty"
  /\ content = {}
  /\ UNCHANGED <<content, notice, reading, taken>>

Begin ==
  /\ notice /\ notice' \in BOOLEAN
  /\ reading = "no"
  /\ reading' \in IF state = "making" THEN {"bound", "torn"} ELSE {"bound"}
  /\ UNCHANGED <<content, state, taken>>

Take ==
  /\ reading # "no" /\ reading' = "no"
  /\ taken' \in IF reading = "torn" THEN Results \cup {taken}
                ELSE IF content = {} THEN {taken} ELSE content
  /\ UNCHANGED <<content, state, notice>>

(* What was read of another packet agrees with this one.                   *)
Agree ==
  /\ reading = "torn" /\ reading' = "bound"
  /\ UNCHANGED <<content, state, notice, taken>>

Next == Alter \/ Announce \/ Withdraw \/ Empty \/ Begin \/ Take \/ Agree

Spec == Init /\ [][Next]_vars
=============================================================================
