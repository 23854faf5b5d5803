------------------------- MODULE SerialParserProofs -------------------------
(***************************************************************************)
(* What is proved of SerialParser for any number of packets and of losses. *)
(***************************************************************************)
EXTENDS SerialParser, TLAPS, SequenceTheorems

(* The packet that the parser is assembling a message for.                 *)
Current == msg_packet_buffer[1].packet

(* How many bytes of the last packet have left the line.                   *)
Passed == IF at = 0 THEN DeviceSize[sent[Last]] ELSE at - 1

LineOK ==
  /\ at > 0 => Last > 0
  /\ Last > 0 => at <= DeviceSize[sent[Last]]

(* What the parser holds began with a status byte, and no message for that *)
(* packet has been delivered.                                              *)
HeldOK ==
  is_parsing =>
    /\ Len(msg_packet_buffer) > 0
    /\ msg_packet_buffer[1].at = 1
    /\ Current \in 1 .. Last
    /\ msg_type = sent[Current]
    /\ msg_packet_size = PacketSize[sent[Current]]
    /\ Len(msg_packet_buffer) < msg_packet_size
    /\ \A j \in DOMAIN delivered : Origin(delivered[j]) < Current

(* It holds a packet that is still being sent as far as that has come...   *)
InStep ==
  is_parsing /\ Current \notin damaged =>
    /\ Current = Last
    /\ at = Len(msg_packet_buffer) + 1
    /\ \A i \in 1 .. Len(msg_packet_buffer) :
         msg_packet_buffer[i] = [packet |-> Last, at |-> i]

(* ... and of a packet that has lost a byte it makes up the rest from      *)
(* whatever came since, so that it can take in at most one more packet.    *)
Swallows ==
  is_parsing /\ Current < Last /\ Last \notin damaged =>
    /\ Len(msg_packet_buffer) >= 1 + Passed
    /\ Current < Last - 1 /\ Last - 1 \notin damaged =>
         Len(msg_packet_buffer) >= 3 + Passed

DeliveredInOrder ==
  at = 1 => \A j \in DOMAIN delivered : Origin(delivered[j]) < Last

(* A packet that follows two intact ones meets an idle parser.             *)
MeetsIdleParser ==
  Last > 0 /\ LastThreeIntact =>
    /\ at = 1 => ~is_parsing
    /\ at > 1 => is_parsing /\ Current = Last

Inv ==
  /\ TypeOK /\ LineOK /\ HeldOK /\ InStep /\ Swallows
  /\ DeliveredInOrder /\ CommandsWereSent
  /\ MeetsIdleParser /\ IntactPacketArrives

-----------------------------------------------------------------------------
LEMMA SizeFacts ==
  /\ \A type \in Types : DeviceSize[type] \in {2, 4} /\ PacketSize[type] = DeviceSize[type]
  /\ "none" \notin Types
BY DEF Types, DeviceSize, PacketSize

(* The byte on the line, and the place of the next one.                    *)
LEMMA AdvanceFacts ==
  ASSUME Inv, Advance
  PROVE  /\ Last \in Nat \ {0} /\ sent[Last] \in Types
         /\ at \in 1 .. 4 /\ at <= DeviceSize[sent[Last]]
         /\ Byte \in Bytes
         /\ Byte.packet = Last /\ Byte.at = at
         /\ at' = IF at = DeviceSize[sent[Last]] THEN 0 ELSE at + 1
         /\ at' \in 0 .. 4 /\ at' # 1
<1>1. Last \in Nat /\ at \in 1 .. 4 /\ Last > 0 /\ at <= DeviceSize[sent[Last]]
  BY DEF Inv, TypeOK, LineOK, Advance, Last
<1>2. sent[Last] \in Types
  BY <1>1 DEF Inv, TypeOK, Last
<1>3. DeviceSize[sent[Last]] \in {2, 4}
  BY <1>2, SizeFacts
<1>4. Byte \in Bytes /\ Byte.packet = Last /\ Byte.at = at
  BY <1>1 DEF Byte, Bytes
<1> QED
  BY <1>1, <1>2, <1>3, <1>4 DEF Advance

LEMMA TypeFacts ==
  ASSUME Inv
  PROVE  /\ Last \in Nat /\ Last <= MaxPackets
         /\ Len(msg_packet_buffer) \in Nat /\ Len(msg_packet_buffer) <= 3
         /\ is_parsing => Current \in Nat /\ Current > 0 /\ Current <= Last
         /\ \A n \in 1 .. Last : sent[n] \in Types
         /\ \A n \in damaged : n \in Nat /\ n > 0 /\ n <= Last
BY DEF Inv, TypeOK, HeldOK, Last

LEMMA InitInv == Init => Inv
<1> SUFFICES ASSUME Init PROVE Inv
  OBVIOUS
<1>1. Last = 0 /\ sent \in Seq(Types) /\ delivered \in Seq(Messages)
      /\ msg_packet_buffer \in Seq(Bytes) /\ Len(msg_packet_buffer) = 0
      /\ DOMAIN delivered = {}
  BY DEF Init, Last
<1>2. /\ at = 0 /\ losses = 0 /\ damaged = {} /\ is_parsing = FALSE
      /\ msg_type = "none" /\ msg_packet_size = 0
  BY DEF Init
<1>3. TypeOK
  <2>1. losses \in 0 .. MaxLosses /\ Last <= MaxPackets
    BY <1>1, <1>2, BoundsAssumption
  <2>2. at \in 0 .. 4 /\ msg_packet_size \in 0 .. 4 /\ damaged \subseteq 1 .. Last
    BY <1>2
  <2>3. Len(msg_packet_buffer) <= 3
    BY <1>1
  <2> QED
    BY <1>1, <1>2, <2>1, <2>2, <2>3 DEF TypeOK
<1> QED
  BY <1>1, <1>2, <1>3
  DEF Inv, LineOK, HeldOK, InStep, Swallows, DeliveredInOrder,
      CommandsWereSent, MeetsIdleParser, IntactPacketArrives

(* A new packet begins.                                                    *)
LEMMA NextPacketInv ==
  ASSUME Inv, NEW type \in Types, NextPacket(type)
  PROVE  Inv'
<1>1. /\ sent' \in Seq(Types) /\ Last \in Nat /\ Last' = Last + 1
      /\ sent'[Last'] = type
      /\ \A n \in 1 .. Last : sent'[n] = sent[n] /\ BytesOf(n)' = BytesOf(n)
      /\ \A n \in 1 .. Last : sent[n] \in Types
  BY DEF NextPacket, Inv, TypeOK, Last, BytesOf
<1>2. UNCHANGED <<damaged, losses, parser>> /\ at = 0 /\ at' = 1 /\ Last' <= MaxPackets
  BY <1>1, BoundsAssumption DEF NextPacket, Inv, TypeOK
<1>3. TypeOK'
  BY <1>1, <1>2, TypeFacts DEF Inv, TypeOK, parser
<1>4. LineOK'
  BY <1>1, <1>2, SizeFacts DEF LineOK
<1>5. HeldOK' /\ (is_parsing => Current' = Current)
  BY <1>1, <1>2 DEF Inv, HeldOK, Current, parser, Origin
<1>6. is_parsing => Current \in damaged
  BY <1>1, <1>2 DEF Inv, TypeOK, HeldOK, InStep
<1>7. InStep'
  BY <1>2, <1>5, <1>6 DEF InStep, parser
<1>8. \A j \in DOMAIN delivered : Origin(delivered[j]) \in 1 .. Last
  BY DEF Inv, CommandsWereSent
<1>9. DeliveredInOrder'
  BY <1>1, <1>2, <1>8 DEF DeliveredInOrder, parser, Origin
<1>10. CommandsWereSent'
  <2> SUFFICES ASSUME NEW i \in DOMAIN delivered
               PROVE  LET m == delivered[i] IN
                      /\ Origin(m) \in 1 .. Last'
                      /\ m.type = sent'[Origin(m)]
                      /\ m.bytes[1].at = 1
                      /\ Origin(m) \notin damaged => m.bytes = BytesOf(Origin(m))'
                      /\ \A j \in DOMAIN delivered : j < i => Origin(delivered[j]) < Origin(m)
    BY <1>2 DEF CommandsWereSent, parser, Origin
  <2> QED
    <3>1. delivered' = delivered /\ damaged' = damaged
      BY <1>2 DEF parser
    <3>2. LET m == delivered[i] IN
          /\ Origin(m) \in 1 .. Last
          /\ m.type = sent[Origin(m)]
          /\ m.bytes[1].at = 1
          /\ Origin(m) \notin damaged => m.bytes = BytesOf(Origin(m))
          /\ \A j \in DOMAIN delivered : j < i => Origin(delivered[j]) < Origin(m)
      BY DEF Inv, CommandsWereSent
    <3>3. \A n \in 1 .. Last :
            n \in 1 .. Last' /\ sent'[n] = sent[n] /\ BytesOf(n)' = BytesOf(n)
      BY <1>1
    <3> QED
      BY <3>1, <3>2, <3>3 DEF Origin
<1>11. Last > 0 /\ Last \notin damaged /\ is_parsing =>
         Current < Last /\ Len(msg_packet_buffer) >= 3
  <2>1. Last > 0 => DeviceSize[sent[Last]] \in {2, 4}
    BY TypeFacts, SizeFacts
  <2> QED
    BY <1>2, <1>6, <2>1, TypeFacts DEF Inv, Swallows, Passed
<1>12. Swallows'
  BY <1>1, <1>2, <1>5, <1>11, TypeFacts DEF Inv, HeldOK, Swallows, Passed, parser
<1>13. MeetsIdleParser'
  <2> SUFFICES ASSUME Last - 1 \notin damaged, Last \notin damaged, is_parsing
               PROVE  FALSE
    BY <1>1, <1>2 DEF MeetsIdleParser, LastThreeIntact, parser
  <2>1. Current < Last - 1
    BY <1>6, TypeFacts
  <2>2. DeviceSize[sent[Last]] \in {2, 4}
    BY <2>1, TypeFacts, SizeFacts
  <2>3. Len(msg_packet_buffer) >= 5
    BY <1>2, <2>1, <2>2, TypeFacts DEF Inv, Swallows, Passed
  <2> QED
    BY <2>3, TypeFacts
<1>14. IntactPacketArrives'
  BY <1>2 DEF IntactPacketArrives
<1> QED
  BY <1>3, <1>4, <1>5, <1>7, <1>9, <1>10, <1>12, <1>13, <1>14 DEF Inv

(* While the device sends nothing new, neither Last nor a packet changes.  *)
LEMMA SentFacts ==
  ASSUME UNCHANGED sent
  PROVE  Last' = Last /\ \A n : BytesOf(n)' = BytesOf(n)
BY DEF Last, BytesOf

(* The line, whether the byte is lost or arrives.                          *)
LEMMA AdvanceLine ==
  ASSUME Inv, Advance, UNCHANGED sent
  PROVE  LineOK' /\ DeliveredInOrder'
<1>1. DeviceSize[sent[Last]] \in {2, 4}
  BY AdvanceFacts, SizeFacts
<1> QED
  BY <1>1, AdvanceFacts, SentFacts DEF LineOK, DeliveredInOrder

LEMMA LoseByteInv ==
  ASSUME Inv, LoseByte
  PROVE  Inv'
<1>1. UNCHANGED <<sent, parser>> /\ Last' = Last /\ damaged' = damaged \cup {Last}
  BY SentFacts DEF LoseByte
<1>2. TypeOK'
  <2>1. losses' \in 0 .. MaxLosses
    BY BoundsAssumption DEF LoseByte, Inv, TypeOK
  <2>2. at' \in 0 .. 4 /\ Last \in 1 .. Last
    BY AdvanceFacts DEF LoseByte
  <2> QED
    BY <1>1, <2>1, <2>2 DEF Inv, TypeOK, parser
<1>3. LineOK' /\ DeliveredInOrder'
  BY <1>1, AdvanceLine DEF LoseByte
<1>4. HeldOK'
  BY <1>1 DEF Inv, HeldOK, Current, Origin, parser
<1>5. InStep'
  BY <1>1 DEF Inv, InStep, Current, parser
<1>6. Swallows' /\ MeetsIdleParser' /\ IntactPacketArrives'
  BY <1>1 DEF Swallows, MeetsIdleParser, IntactPacketArrives, LastThreeIntact
<1>7. CommandsWereSent'
  BY <1>1, SentFacts DEF Inv, CommandsWereSent, Origin, parser
<1> QED
  BY <1>2, <1>3, <1>4, <1>5, <1>6, <1>7 DEF Inv

LEMMA SkipByteInv ==
  ASSUME Inv, SkipByte
  PROVE  Inv'
<1>1. UNCHANGED <<sent, losses, damaged, parser>> /\ ~is_parsing /\ Advance
  BY DEF SkipByte, Arrives
<1>2. Last' = Last /\ at' \in 0 .. 4 /\ at # 1
  BY <1>1, AdvanceFacts, SentFacts DEF SkipByte, IsStatus
<1>3. TypeOK'
  BY <1>1, <1>2 DEF Inv, TypeOK, parser
<1>4. LineOK' /\ DeliveredInOrder'
  BY <1>1, AdvanceLine
<1>5. HeldOK' /\ InStep' /\ Swallows'
  BY <1>1 DEF HeldOK, InStep, Swallows, parser
<1>6. CommandsWereSent'
  BY <1>1, SentFacts DEF Inv, CommandsWereSent, Origin, parser
<1>7. ~LastThreeIntact'
  BY <1>1, <1>2, AdvanceFacts DEF Inv, MeetsIdleParser, LastThreeIntact, SkipByte
<1>8. MeetsIdleParser' /\ IntactPacketArrives'
  BY <1>7 DEF MeetsIdleParser, IntactPacketArrives
<1> QED
  BY <1>3, <1>4, <1>5, <1>6, <1>8 DEF Inv

LEMMA StartPacketInv ==
  ASSUME Inv, StartPacket
  PROVE  Inv'
<1>1. /\ UNCHANGED <<sent, losses, damaged, delivered>> /\ Advance
      /\ is_parsing' = TRUE /\ msg_type' = sent[Last]
      /\ msg_packet_size' = PacketSize[sent[Last]]
      /\ msg_packet_buffer' = <<Byte>>
  BY DEF StartPacket, Arrives
<1>2. /\ Last' = Last /\ Last \in Nat \ {0} /\ sent[Last] \in Types
      /\ Byte \in Bytes /\ Byte.packet = Last /\ Byte.at = 1 /\ at = 1
      /\ at' = 2
      /\ PacketSize[sent[Last]] \in {2, 4}
  BY <1>1, AdvanceFacts, SizeFacts, SentFacts DEF StartPacket, IsStatus
<1>3. /\ msg_packet_buffer' \in Seq(Bytes) /\ Len(msg_packet_buffer') = 1
      /\ msg_packet_buffer'[1] = Byte /\ Current' = Last
  BY <1>1, <1>2 DEF Current
<1>4. TypeOK'
  BY <1>1, <1>2, <1>3 DEF Inv, TypeOK
<1>5. LineOK' /\ DeliveredInOrder'
  BY <1>1, AdvanceLine
<1>6. \A j \in DOMAIN delivered' : Origin(delivered[j])' < Last
  BY <1>1, <1>2 DEF Inv, DeliveredInOrder, Origin
<1>7. HeldOK'
  BY <1>1, <1>2, <1>3, <1>6 DEF HeldOK
<1>8. InStep'
  <2>1. Byte = [packet |-> Last, at |-> 1]
    BY <1>2 DEF Byte
  <2> QED
    BY <1>1, <1>2, <1>3, <2>1 DEF InStep
<1>9. Swallows' /\ MeetsIdleParser' /\ IntactPacketArrives'
  BY <1>1, <1>2, <1>3 DEF Swallows, MeetsIdleParser, IntactPacketArrives
<1>10. CommandsWereSent'
  BY <1>1, SentFacts DEF Inv, CommandsWereSent, Origin
<1> QED
  BY <1>4, <1>5, <1>7, <1>8, <1>9, <1>10 DEF Inv

(* What both ways to take in a byte within a packet have in common: where  *)
(* the byte stands if the packet held is still intact, and how many bytes  *)
(* are held if it is not.                                                  *)
LEMMA WithinPacketFacts ==
  ASSUME Inv, Arrives, is_parsing
  PROVE  /\ Len(msg_packet_buffer) \in Nat \ {0} /\ Len(msg_packet_buffer) <= 3
         /\ Current \notin damaged =>
              Current = Last /\ at = Len(msg_packet_buffer) + 1
         /\ Current < Last /\ Last \notin damaged =>
              Len(msg_packet_buffer) >= at
         /\ LastThreeIntact => Current = Last /\ at # 1
<1>1. at \in 1 .. 4 /\ Last \in Nat \ {0}
  BY AdvanceFacts DEF Arrives
<1>2. Len(msg_packet_buffer) \in Nat /\ Len(msg_packet_buffer) <= 3
      /\ Len(msg_packet_buffer) > 0 /\ Current \in Nat /\ Current <= Last
  BY TypeFacts DEF Inv, HeldOK
<1>3. Current < Last /\ Last \notin damaged => Len(msg_packet_buffer) >= at
  BY <1>1, <1>2 DEF Inv, Swallows, Passed
<1>4. LastThreeIntact => Current = Last /\ at # 1
  BY <1>1, <1>2 DEF Inv, MeetsIdleParser, LastThreeIntact
<1> QED
  BY <1>1, <1>2, <1>3, <1>4 DEF Inv, InStep

LEMMA AddByteInv ==
  ASSUME Inv, AddByte
  PROVE  Inv'
<1> DEFINE b == msg_packet_buffer
<1>1. /\ UNCHANGED <<sent, losses, damaged, is_parsing, msg_type, msg_packet_size, delivered>>
      /\ Advance /\ Arrives /\ is_parsing
      /\ Len(b) + 1 # msg_packet_size /\ b' = Append(b, Byte)
  BY DEF AddByte, Arrives
<1>2. /\ Last' = Last /\ Last \in Nat \ {0} /\ at \in 1 .. 4
      /\ at <= DeviceSize[sent[Last]]
      /\ Byte \in Bytes /\ Byte = [packet |-> Last, at |-> at]
      /\ at' = IF at = DeviceSize[sent[Last]] THEN 0 ELSE at + 1
      /\ at' \in 0 .. 4 /\ at' # 1
  BY <1>1, AdvanceFacts, SentFacts DEF Byte
<1>3. /\ b \in Seq(Bytes) /\ Len(b) \in Nat \ {0} /\ Len(b) <= 3
      /\ Len(b) < msg_packet_size
      /\ msg_packet_size = PacketSize[sent[Current]]
      /\ PacketSize[sent[Current]] \in {2, 4} /\ Current \in 1 .. Last
      /\ sent[Current] \in Types
  BY <1>1, WithinPacketFacts, TypeFacts, SizeFacts DEF Inv, TypeOK, HeldOK
<1>4. /\ b' \in Seq(Bytes) /\ Len(b') = Len(b) + 1 /\ Len(b') <= 3
      /\ Len(b') < msg_packet_size /\ Len(b') > 0
      /\ b'[1] = b[1] /\ Current' = Current
      /\ \A i \in 1 .. Len(b) : b'[i] = b[i]
      /\ b'[Len(b) + 1] = Byte
  BY <1>1, <1>2, <1>3 DEF Current
<1> HIDE DEF b
<1>5. TypeOK'
  BY <1>1, <1>2, <1>4 DEF Inv, TypeOK, b
<1>6. LineOK' /\ DeliveredInOrder'
  BY <1>1, AdvanceLine
<1>7. HeldOK'
  BY <1>1, <1>2, <1>3, <1>4 DEF Inv, HeldOK, Origin, b
<1>8. InStep'
  <2> SUFFICES ASSUME Current \notin damaged
               PROVE  /\ Current = Last
                      /\ at' = Len(b') + 1
                      /\ \A i \in 1 .. Len(b') : b'[i] = [packet |-> Last, at |-> i]
    BY <1>1, <1>2, <1>4 DEF InStep, b
  <2>1. /\ Current = Last /\ at = Len(b) + 1
        /\ \A i \in 1 .. Len(b) : b[i] = [packet |-> Last, at |-> i]
    BY <1>1 DEF Inv, InStep, b
  <2>2. PacketSize[sent[Last]] = DeviceSize[sent[Last]]
    BY <1>3, <2>1, SizeFacts
  <2>3. at' = Len(b') + 1
    BY <1>1, <1>2, <1>3, <1>4, <2>1, <2>2
  <2>4. ASSUME NEW i \in 1 .. Len(b')
        PROVE  b'[i] = [packet |-> Last, at |-> i]
    <3>1. i \in 1 .. Len(b) \/ i = Len(b) + 1
      BY <1>3, <1>4
    <3> QED
      BY <1>2, <1>4, <2>1, <3>1
  <2> QED
    BY <2>1, <2>3, <2>4
<1>9. Swallows'
  <2> SUFFICES ASSUME Current < Last, Last \notin damaged
               PROVE  /\ Len(b') >= 1 + Passed'
                      /\ Current < Last - 1 /\ Last - 1 \notin damaged =>
                           Len(b') >= 3 + Passed'
    BY <1>1, <1>2, <1>4 DEF Swallows, b
  <2>1. Passed = at - 1 /\ Passed' = at
    BY <1>1, <1>2 DEF Passed
  <2>2. /\ Len(b) >= 1 + Passed
        /\ Current < Last - 1 /\ Last - 1 \notin damaged => Len(b) >= 3 + Passed
    BY <1>1 DEF Inv, Swallows, b
  <2> QED
    BY <1>2, <1>3, <1>4, <2>1, <2>2
<1>10. LastThreeIntact' => LastThreeIntact
  BY <1>1, <1>2 DEF LastThreeIntact
<1>11. LastThreeIntact => Current = Last /\ at' # 0
  <2> SUFFICES ASSUME LastThreeIntact PROVE Current = Last /\ at' # 0
    OBVIOUS
  <2>1. Current = Last /\ Current \notin damaged
    BY <1>1, WithinPacketFacts DEF LastThreeIntact
  <2>2. at = Len(b) + 1 /\ PacketSize[sent[Last]] = DeviceSize[sent[Last]]
    BY <1>1, <1>3, <2>1, WithinPacketFacts, SizeFacts DEF b
  <2> QED
    BY <1>1, <1>2, <1>3, <2>1, <2>2
<1>12. MeetsIdleParser' /\ IntactPacketArrives'
  BY <1>1, <1>2, <1>4, <1>10, <1>11 DEF MeetsIdleParser, IntactPacketArrives
<1>13. CommandsWereSent'
  BY <1>1, SentFacts DEF Inv, CommandsWereSent, Origin
<1> QED
  BY <1>5, <1>6, <1>7, <1>8, <1>9, <1>12, <1>13 DEF Inv

LEMMA CompletePacketInv ==
  ASSUME Inv, CompletePacket
  PROVE  Inv'
<1> DEFINE b == msg_packet_buffer
           bytes == Append(b, Byte)
           m == [type |-> msg_type, bytes |-> bytes]
<1>1. /\ UNCHANGED <<sent, losses, damaged>> /\ Advance /\ Arrives /\ is_parsing
      /\ Len(b) + 1 = msg_packet_size /\ delivered' = Append(delivered, m)
      /\ is_parsing' = FALSE /\ msg_type' = "none" /\ msg_packet_size' = 0
      /\ msg_packet_buffer' = <<>>
  BY DEF CompletePacket, Arrives
<1>2. /\ Last' = Last /\ Last \in Nat \ {0} /\ at \in 1 .. 4
      /\ Byte \in Bytes /\ Byte = [packet |-> Last, at |-> at]
      /\ at' = IF at = DeviceSize[sent[Last]] THEN 0 ELSE at + 1
      /\ at' \in 0 .. 4 /\ at' # 1
  BY <1>1, AdvanceFacts, SentFacts DEF Byte
<1>3. /\ b \in Seq(Bytes) /\ Len(b) \in Nat \ {0}
      /\ b[1].at = 1 /\ b[1].packet = Current
      /\ msg_type = sent[Current] /\ msg_packet_size = PacketSize[sent[Current]]
      /\ Current \in 1 .. Last /\ sent[Current] \in Types
      /\ \A j \in DOMAIN delivered : Origin(delivered[j]) < Current
  BY <1>1, WithinPacketFacts, TypeFacts DEF Inv, TypeOK, HeldOK, Current
<1>4. /\ bytes \in Seq(Bytes) /\ Len(bytes) = Len(b) + 1
      /\ bytes[1] = b[1] /\ bytes[Len(b) + 1] = Byte
      /\ \A i \in 1 .. Len(b) : bytes[i] = b[i]
  BY <1>2, <1>3
<1> HIDE DEF b, bytes
<1>5. m \in Messages /\ m.type = sent[Current] /\ m.bytes = bytes /\ Origin(m) = Current
      /\ m.bytes[1].at = 1
  BY <1>3, <1>4 DEF Messages, Origin
<1> HIDE DEF m
<1>6. /\ delivered' \in Seq(Messages) /\ DOMAIN delivered' = 1 .. Len(delivered) + 1
      /\ Len(delivered') = Len(delivered) + 1 /\ Len(delivered) \in Nat
      /\ DOMAIN delivered = 1 .. Len(delivered)
      /\ \A j \in DOMAIN delivered : delivered'[j] = delivered[j]
      /\ delivered'[Len(delivered) + 1] = m
  BY <1>1, <1>5 DEF Inv, TypeOK
<1>7. TypeOK'
  <2>1. msg_packet_buffer' \in Seq(Bytes) /\ Len(msg_packet_buffer') = 0
    BY <1>1
  <2>2. 0 \in 0 .. 4 /\ Len(msg_packet_buffer') <= 3
    BY <2>1
  <2> QED
    BY <1>1, <1>2, <1>6, <2>1, <2>2 DEF Inv, TypeOK
<1>8. LineOK' /\ DeliveredInOrder'
  BY <1>1, AdvanceLine
<1>9. HeldOK' /\ InStep' /\ Swallows'
  BY <1>1 DEF HeldOK, InStep, Swallows
<1>10. Current \notin damaged =>
         Current = Last /\ at' = 0 /\ bytes = BytesOf(Last)
  <2> SUFFICES ASSUME Current \notin damaged
               PROVE  Current = Last /\ at' = 0 /\ bytes = BytesOf(Last)
    OBVIOUS
  <2>1. /\ Current = Last /\ at = Len(b) + 1
        /\ \A i \in 1 .. Len(b) : b[i] = [packet |-> Last, at |-> i]
    BY <1>1 DEF Inv, InStep, b
  <2>2. Len(bytes) = DeviceSize[sent[Last]] /\ at = DeviceSize[sent[Last]]
    BY <1>1, <1>3, <1>4, <2>1, SizeFacts
  <2>3. ASSUME NEW i \in 1 .. Len(bytes)
        PROVE  bytes[i] = [packet |-> Last, at |-> i]
    <3>1. i \in 1 .. Len(b) \/ i = Len(b) + 1
      BY <1>3, <1>4
    <3> QED
      BY <1>2, <1>4, <2>1, <3>1
  <2>4. bytes = [i \in 1 .. Len(bytes) |-> bytes[i]]
    BY <1>4
  <2>5. bytes = BytesOf(Last)
    BY <2>2, <2>3, <2>4 DEF BytesOf
  <2> QED
    BY <1>2, <2>1, <2>2, <2>5
<1>11. CommandsWereSent'
  <2> SUFFICES ASSUME NEW i \in DOMAIN delivered'
               PROVE  /\ Origin(delivered'[i]) \in 1 .. Last
                      /\ delivered'[i].type = sent[Origin(delivered'[i])]
                      /\ delivered'[i].bytes[1].at = 1
                      /\ Origin(delivered'[i]) \notin damaged =>
                           delivered'[i].bytes = BytesOf(Origin(delivered'[i]))
                      /\ \A j \in DOMAIN delivered' :
                           j < i => Origin(delivered'[j]) < Origin(delivered'[i])
    BY <1>1, <1>2, SentFacts DEF CommandsWereSent, Origin, BytesOf
  <2>1. CASE i \in DOMAIN delivered
    <3>1. \A j \in DOMAIN delivered' : j < i => j \in DOMAIN delivered
      BY <1>6, <2>1
    <3> QED
      BY <1>6, <2>1, <3>1 DEF Inv, CommandsWereSent
  <2>2. CASE i = Len(delivered) + 1
    <3>1. \A j \in DOMAIN delivered' : j < i => j \in DOMAIN delivered
      BY <1>6, <2>2
    <3> QED
      BY <1>3, <1>5, <1>6, <1>10, <2>2, <3>1
  <2> QED
    BY <1>6, <2>1, <2>2
<1>12. LastThreeIntact' => LastThreeIntact
  BY <1>1, <1>2 DEF LastThreeIntact
<1>13. LastThreeIntact => Current \notin damaged
  BY <1>1, WithinPacketFacts DEF LastThreeIntact
<1>14. MeetsIdleParser'
  BY <1>10, <1>12, <1>13 DEF MeetsIdleParser
<1>15. IntactPacketArrives'
  <2> SUFFICES ASSUME LastThreeIntact
               PROVE  /\ delivered' # <<>>
                      /\ delivered'[Len(delivered')]
                           = [type |-> sent[Last], bytes |-> BytesOf(Last)]
    BY <1>1, <1>2, <1>12, SentFacts DEF IntactPacketArrives
  <2>1. Current = Last /\ bytes = BytesOf(Last)
    BY <1>10, <1>13
  <2>2. m = [type |-> sent[Last], bytes |-> BytesOf(Last)]
    BY <1>3, <2>1 DEF m
  <2>3. delivered' # <<>>
    BY <1>6
  <2> QED
    BY <1>6, <2>2, <2>3
<1> QED
  BY <1>7, <1>8, <1>9, <1>11, <1>14, <1>15 DEF Inv

-----------------------------------------------------------------------------
LEMMA StepInv == Inv /\ [Next]_vars => Inv'
<1> SUFFICES ASSUME Inv, [Next]_vars PROVE Inv'
  OBVIOUS
<1>1. CASE \E type \in Types : NextPacket(type)
  BY <1>1, NextPacketInv
<1>2. CASE LoseByte
  BY <1>2, LoseByteInv
<1>3. CASE SkipByte
  BY <1>3, SkipByteInv
<1>4. CASE StartPacket
  BY <1>4, StartPacketInv
<1>5. CASE AddByte
  BY <1>5, AddByteInv
<1>6. CASE CompletePacket
  BY <1>6, CompletePacketInv
<1>7. CASE UNCHANGED vars
  BY <1>7
  DEF vars, device, parser, Inv, TypeOK, LineOK, HeldOK, InStep, Swallows,
      DeliveredInOrder, CommandsWereSent, MeetsIdleParser, IntactPacketArrives,
      LastThreeIntact, Last, Current, Passed, Origin, BytesOf
<1> QED
  BY <1>1, <1>2, <1>3, <1>4, <1>5, <1>6, <1>7 DEF Next

LEMMA InvHolds == Spec => []Inv
BY InitInv, StepInv, PTL DEF Spec

(* The parser's variables keep their types; in particular it never writes  *)
(* past the end of its packet buffer, whatever bytes it is sent.           *)
THEOREM TypeCorrect == Spec => []TypeOK
<1>1. Inv => TypeOK
  BY DEF Inv
<1> QED
  BY <1>1, InvHolds, PTL

(* The parser passes on only commands that the device has sent, in order   *)
(* and once each, however many bytes are lost.                             *)
THEOREM OnlySentCommands == Spec => []CommandsWereSent
<1>1. Inv => CommandsWereSent
  BY DEF Inv
<1> QED
  BY <1>1, InvHolds, PTL

(* Two intact packets are always enough for the parser to find the start   *)
(* of the third.                                                           *)
THEOREM Resynchronises == Spec => []IntactPacketArrives
<1>1. Inv => IntactPacketArrives
  BY DEF Inv
<1> QED
  BY <1>1, InvHolds, PTL
=============================================================================
