---------------------------- MODULE SerialParser ----------------------------
(***************************************************************************)
(* The serial line from the RainPots device and the byte-wise parser in    *)
(* SerialConnector::threadLoop.                                            *)
(*                                                                         *)
(* The device (whose firmware is not in the repository) sends packets: a   *)
(* status byte, from which the parser takes the packet's type and size,    *)
(* and data bytes, which are below 0x80 and so never look like one.  The   *)
(* line has neither flow control nor parity, so any byte may be lost; and  *)
(* a program started while the device sends sees its first packet from the *)
(* middle, which is the loss of that packet's first bytes.                 *)
(*                                                                         *)
(* A byte is known by the packet it belongs to and its place there.        *)
(***************************************************************************)
EXTENDS Integers, Sequences

CONSTANTS
  MaxPackets,  \* packets the device sends
  MaxLosses    \* bytes the line loses

ASSUME BoundsAssumption == MaxPackets \in Nat /\ MaxLosses \in Nat

(* A knob or button, a preset to load, a preset to save.                   *)
Types == {"cc", "preset_load", "preset_save"}

(* What the device sends for each.                                         *)
DeviceSize == [type \in Types |-> IF type = "cc" THEN 4 ELSE 2]

(* Mutation of PacketSize: the size of a CC packet without its status byte.*)
PacketSize_WithoutStatus == [type \in Types |-> IF type = "cc" THEN 3 ELSE 2]

(* MSG_CC_PACKET_SIZE, MSG_PGM_PACKET_SIZE and MSG_SAVE_PACKET_SIZE.       *)
PacketSize == [type \in Types |-> IF type = "cc" THEN 4 ELSE 2]

VARIABLES
  (* The device and the line.                                              *)
  sent,     \* the types of the packets sent so far, the last one in part
  at,       \* the place of its next byte, 0 if it is complete
  losses,   \* how many bytes were lost
  damaged,  \* the packets that lost a byte

  (* The parser.                                                           *)
  is_parsing, msg_type, msg_packet_size,
  msg_packet_buffer,  \* its first msg_packet_index bytes
  delivered           \* messages passed on to the DataHandler or OscSender

device == <<sent, at, losses, damaged>>
parser == <<is_parsing, msg_type, msg_packet_size, msg_packet_buffer, delivered>>
vars == <<device, parser>>

Last == Len(sent)

Bytes == [packet : Nat, at : 1 .. 4]

BytesOf(n) == [i \in 1 .. DeviceSize[sent[n]] |-> [packet |-> n, at |-> i]]

Init ==
  /\ sent = <<>> /\ at = 0 /\ losses = 0 /\ damaged = {}
  /\ is_parsing = FALSE /\ msg_type = "none" /\ msg_packet_size = 0
  /\ msg_packet_buffer = <<>>
  /\ delivered = <<>>

-----------------------------------------------------------------------------
NextPacket(type) ==
  /\ at = 0
  /\ Last < MaxPackets
  /\ sent' = Append(sent, type)
  /\ at' = 1
  /\ UNCHANGED <<losses, damaged, parser>>

(* The line passes on, or loses, the packet's next byte.                   *)
Byte == [packet |-> Last, at |-> at]

Advance == at > 0 /\ at' = IF at = DeviceSize[sent[Last]] THEN 0 ELSE at + 1

LoseByte ==
  /\ losses < MaxLosses
  /\ Advance
  /\ losses' = losses + 1
  /\ damaged' = damaged \cup {Last}
  /\ UNCHANGED <<sent, parser>>

Arrives == Advance /\ UNCHANGED <<sent, losses, damaged>>

-----------------------------------------------------------------------------
(* One turn of the read loop each.                                         *)

(* Mutation of IsStatus: any byte starts a packet.                         *)
IsStatus_NotTested(byte) == byte \in Bytes

IsStatus(byte) == byte.at = 1

(* Between packets: a data byte.  Size and index are both 0 then, so the   *)
(* code takes the packet for complete, of type NONE, and passes nothing on *)
(* (but rebuilds the variable that earlier ones were passed on in: Stray   *)
(* in OscOut).                                                             *)
SkipByte ==
  /\ Arrives
  /\ ~is_parsing
  /\ ~IsStatus(Byte)
  /\ UNCHANGED parser

(* Between packets: a status byte.                                         *)
StartPacket ==
  /\ Arrives
  /\ ~is_parsing
  /\ IsStatus(Byte)
  /\ is_parsing' = TRUE
  /\ msg_type' = sent[Last]
  /\ msg_packet_size' = PacketSize[sent[Last]]
  /\ msg_packet_buffer' = <<Byte>>
  /\ UNCHANGED delivered

(* Within a packet any byte counts as data, a status byte too.             *)
AddByte ==
  /\ Arrives
  /\ is_parsing
  /\ Len(msg_packet_buffer) + 1 # msg_packet_size
  /\ msg_packet_buffer' = Append(msg_packet_buffer, Byte)
  /\ UNCHANGED <<is_parsing, msg_type, msg_packet_size, delivered>>

(* Mutation of CompletePacket: is_parsing is not reset.                    *)
CompletePacket_StillParsing ==
  /\ Arrives
  /\ is_parsing
  /\ Len(msg_packet_buffer) + 1 = msg_packet_size
  /\ delivered' = Append(delivered,
       [type |-> msg_type, bytes |-> Append(msg_packet_buffer, Byte)])
  /\ msg_type' = "none" /\ msg_packet_size' = 0 /\ msg_packet_buffer' = <<>>
  /\ UNCHANGED is_parsing

CompletePacket ==
  /\ Arrives
  /\ is_parsing
  /\ Len(msg_packet_buffer) + 1 = msg_packet_size
  /\ delivered' = Append(delivered,
       [type |-> msg_type, bytes |-> Append(msg_packet_buffer, Byte)])
  /\ is_parsing' = FALSE /\ msg_type' = "none" /\ msg_packet_size' = 0
  /\ msg_packet_buffer' = <<>>

-----------------------------------------------------------------------------
Next ==
  \/ \E type \in Types : NextPacket(type)
  \/ LoseByte
  \/ SkipByte \/ StartPacket \/ AddByte \/ CompletePacket

Spec == Init /\ [][Next]_vars

-----------------------------------------------------------------------------
Messages == [type : Types, bytes : Seq(Bytes)]

(* Type invariant: the packet buffer, of 100 bytes, never holds more than 3*)
(* bytes from one turn of the loop to the next.                            *)
TypeOK ==
  /\ sent \in Seq(Types) /\ Last <= MaxPackets
  /\ at \in 0 .. 4
  /\ losses \in 0 .. MaxLosses
  /\ damaged \subseteq 1 .. Last
  /\ is_parsing \in BOOLEAN
  /\ msg_type \in Types \cup {"none"}
  /\ msg_packet_size \in 0 .. 4
  /\ msg_packet_buffer \in Seq(Bytes) /\ Len(msg_packet_buffer) <= 3
  /\ delivered \in Seq(Messages)

(* The packet a message begins with.                                       *)
Origin(message) == message.bytes[1].packet

(* Whatever the line loses, the program never takes up a command that the  *)
(* device did not send: a message has the type of the packet that it       *)
(* begins with, messages come in the order of these packets, at most one   *)
(* for each, and it has exactly that packet's bytes unless one was lost.   *)
(* So a lost byte can spoil a preset's number or a knob's position, but it *)
(* can neither turn data into a save nor repeat one.                       *)
CommandsWereSent ==
  \A i \in DOMAIN delivered :
    LET m == delivered[i] IN
    /\ Origin(m) \in 1 .. Last
    /\ m.type = sent[Origin(m)]
    /\ m.bytes[1].at = 1
    /\ Origin(m) \notin damaged => m.bytes = BytesOf(Origin(m))
    /\ \A j \in DOMAIN delivered : j < i => Origin(delivered[j]) < Origin(m)

LastThreeIntact ==
  Last - 2 \notin damaged /\ Last - 1 \notin damaged /\ Last \notin damaged

(* The parser has no way to recognise a status byte within a packet, and   *)
(* still resynchronises: a packet that lost no byte, and follows two that  *)
(* lost none, is delivered as soon as its last byte has come.              *)
IntactPacketArrives ==
  at = 0 /\ Last > 0 /\ LastThreeIntact =>
    /\ ~is_parsing
    /\ delivered # <<>>
    /\ delivered[Len(delivered)] = [type |-> sent[Last], bytes |-> BytesOf(Last)]
=============================================================================
