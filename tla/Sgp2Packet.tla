----------------------------- MODULE Sgp2Packet -----------------------------
(***************************************************************************)
(* The packets of SGP2 (SGP2.c), byte by byte: a header that grows by the  *)
(* data put in, a size and a checksum added at the end, and the functions  *)
(* that decode or validate what has been received so far.  A message       *)
(* travels in a packet's data in whole encryption blocks; module Sgp2 has  *)
(* the exchange of packets, where they are records.                        *)
(***************************************************************************)
EXTENDS Integers, Sequences, Crc16

CONSTANTS
    PacketAttrs,    \* pxSrcAttr: connection type, direction, address, type, error code
    BufferSizes,    \* usDstDataArraySize
    PacketPuts,     \* what the caller puts: how, and the bytes
    MaxPuts,
    Garbled         \* what a byte may become on the way

ASSUME PacketAssumption ==
    /\ PacketAttrs \subseteq [global : BOOLEAN, response : BOOLEAN, address : Nat,
                              type : {0, 1, 2, 3, 15}, error : 0..15]
    /\ \A attr \in PacketAttrs : attr.address \div 65536 < 65536
    /\ PacketPuts \subseteq [kind : {"data", "string", "value"}, bytes : Seq(Byte)]
    /\ BufferSizes \subseteq Nat /\ \A size \in BufferSizes : size < 65536
    /\ MaxPuts \in Nat /\ Garbled \subseteq Byte

VARIABLES
    packetPhase,    \* none, building, message (a message is being filled), sent, failed
    packetAttr,
    packet,         \* the handle: the bytes so far (usSize of them) and the room
    packetData,     \* what the puts have reported as taken
    xMessage,       \* the message's bytes and its usDataMaxSize
    puts

packetVars == <<packetPhase, packetAttr, packet, packetData, xMessage, puts>>

Smaller(m, n) == IF m < n THEN m ELSE n
Prefix(s, n) == SubSeq(s, 1, n)
BlockSize == 16

-----------------------------------------------------------------------------
(* Synchronisation bytes, the size of a header and what its type may be.     *)
Sync(global, response) ==
    IF global THEN IF response THEN 136 ELSE 119 ELSE IF response THEN 170 ELSE 85

GlobalSyncs == {119, 136}
ResponseSyncs == {136, 170}
RequestSyncs == {119, 85}
TypeAt(sync) == IF sync \in GlobalSyncs THEN 6 ELSE 3    \* counted from 1
KnownTypes == {0, 1, 2, 3, 15}

(* Mutant: only the header is covered. *)
HeaderCRC16(bytes) == Crc(SubSeq(bytes, 1, 5), {0, 2, 4, 5, 6, 8, 12, 14, 15})

usGetCRC16(bytes) == Crc(bytes, {0, 2, 4, 5, 6, 8, 12, 14, 15})    \* 0xD175

(* Mutant: the room for the checksum is forgotten. *)
WholeBuffer(p) == IF Len(p.bytes) >= p.size THEN 0 ELSE p.size - Len(p.bytes)

usGetPacketFreeSpace(p) ==
    IF Len(p.bytes) >= p.size - 2 THEN 0 ELSE p.size - (Len(p.bytes) + 2)

(* vSGP2_PL_InitPacket: the header with no data yet. *)
Header(attr) ==
    <<Sync(attr.global, attr.response)>>
        \o (IF attr.global THEN Long(attr.address) ELSE <<attr.address % 256>>)
        \o <<attr.type + 16 * attr.error, 0, 0>>

Fits(attr, size) == size >= IF attr.global THEN 10 ELSE 7

(* Put functions return how many bytes they took: data are cut to the room,  *)
(* a string keeps its terminator, a byte, short or integer is put or not.    *)
Taken(put, free) ==
    CASE put.kind = "data"   -> Prefix(put.bytes, Smaller(Len(put.bytes), free))
      [] put.kind = "string" -> IF free < 1 THEN <<>>
                                ELSE Append(Prefix(put.bytes, Smaller(Len(put.bytes), free - 1)), 0)
      [] put.kind = "value"  -> IF free < Len(put.bytes) THEN <<>> ELSE put.bytes

Extended(p, bytes) == [bytes |-> p.bytes \o bytes, size |-> p.size]

SetRespErrorCode(p, code) ==
    LET s == TypeAt(p.bytes[1])
    IN  IF p.bytes[1] \in ResponseSyncs
        THEN [bytes |-> [p.bytes EXCEPT ![s] = (@ % 16) + 16 * (code % 16)], size |-> p.size]
        ELSE p

(* usSGP2_PL_AssemblePacket: the size of the data, then the checksum. *)
Assembled(p) ==
    LET s == TypeAt(p.bytes[1])
        size == Short(Len(p.bytes) - (s + 2))
        sized == [p.bytes EXCEPT ![s + 1] = size[1], ![s + 2] = size[2]]
    IN  [bytes |-> sized \o Short(usGetCRC16(sized)), size |-> p.size]

-----------------------------------------------------------------------------
(* The number of bytes of the packet that starts the bytes b, 0 if none: the *)
(* sync byte, the least size, the type, the size field and the checksum.     *)
Parsed(b, syncs) ==
    LET s == TypeAt(b[1])
        data == ShortAt(b, s + 1)
        size == s + 2 + data + 2
    IN  IF \/ b = <<>> \/ b[1] \notin syncs \/ Len(b) < s + 4
           \/ b[s] % 16 \notin KnownTypes \/ size > Len(b)
           \/ usGetCRC16(Prefix(b, size - 2)) # ShortAt(b, size - 1)
        THEN 0 ELSE size

AddressOf(b) == IF b[1] \in GlobalSyncs THEN LongAt(b, 2) ELSE b[2]

ValidatePacket(b) == Parsed(b, RequestSyncs \cup ResponseSyncs)
ValidateRequestPacket(b) == Parsed(b, RequestSyncs)
ValidateResponsePacket(b) == Parsed(b, ResponseSyncs)

(* usSGP2_PL_DecodePacket: attributes and data of a packet that is valid. *)
Decoded(b) ==
    LET s == TypeAt(b[1])
    IN  [attr |-> [global |-> b[1] \in GlobalSyncs, response |-> b[1] \in ResponseSyncs,
                   address |-> AddressOf(b), type |-> b[s] % 16, error |-> b[s] \div 16],
         data |-> SubSeq(b, s + 3, s + 2 + ShortAt(b, s + 1))]

(* usSGP2_PL_ExtractResponseHS_Data: the buffer size and the server's ID of  *)
(* a handshake response that reports no error.                               *)
IsHandshake(b) ==
    /\ ValidateResponsePacket(b) > 0
    /\ b[TypeAt(b[1])] = 0
    /\ Len(Decoded(b).data) >= 6

HandshakeOf(b) == [buffer |-> ShortAt(Decoded(b).data, 1), id |-> LongAt(Decoded(b).data, 3)]

(* usSGP2_PL_CreateGlobalPingRequest puts the same bytes together by hand. *)
PingRequest(address, data) ==
    LET b == <<119>> \o Long(address) \o <<15>> \o Short(Len(data)) \o data
    IN  b \o Short(usGetCRC16(b))

-----------------------------------------------------------------------------
PacketInit ==
    /\ packetPhase = "none" /\ puts = 0
    /\ packetAttr = [global |-> FALSE, response |-> FALSE, address |-> 0, type |-> 0, error |-> 0]
    /\ packet = [bytes |-> <<>>, size |-> 0]
    /\ packetData = <<>>
    /\ xMessage = [bytes |-> <<>>, max |-> 0]

(* A buffer without room for a header and the checksum is left alone. *)
InitPacket ==
    /\ packetPhase = "none"
    /\ \E attr \in PacketAttrs, size \in BufferSizes :
           /\ Fits(attr, size)
           /\ packetAttr' = attr
           /\ packet' = [bytes |-> Header(attr), size |-> size]
    /\ packetPhase' = "building"
    /\ UNCHANGED <<packetData, xMessage, puts>>

Put(put) ==
    /\ packetPhase = "building" /\ puts < MaxPuts
    /\ LET taken == Taken(put, usGetPacketFreeSpace(packet))
       IN  packet' = Extended(packet, taken) /\ packetData' = packetData \o taken
    /\ puts' = puts + 1
    /\ UNCHANGED <<packetPhase, packetAttr, xMessage>>

(* Errors are reported by setting the code of a response once more. *)
Refuse(code) ==
    /\ packetPhase = "building"
    /\ packet' = SetRespErrorCode(packet, code)
    /\ packetAttr' = [global |-> packetAttr.global, response |-> packetAttr.response,
                      address |-> packetAttr.address, type |-> packetAttr.type,
                      error |-> IF packetAttr.response THEN code % 16 ELSE packetAttr.error]
    /\ UNCHANGED <<packetPhase, packetData, xMessage, puts>>

Assemble ==
    /\ packetPhase = "building"
    /\ packet' = Assembled(packet)
    /\ packetPhase' = "sent"
    /\ UNCHANGED <<packetAttr, packetData, xMessage, puts>>

-----------------------------------------------------------------------------
(* Mutant: room that is not rounded down to blocks. *)
UnroundedRoom(free) == free - 6

MessageRoom(free) == (free \div BlockSize) * BlockSize - 6

(* A message in an empty packet.  Client and server give the caller the      *)
(* packet's own room, five bytes in, as far as whole blocks go.              *)
OpenMessage ==
    /\ packetPhase = "building" /\ packetAttr.type = 3 /\ puts = 0
    /\ LET s == usGetPacketFreeSpace(packet)
       IN  /\ s >= BlockSize
           /\ xMessage' = [bytes |-> <<>>, max |-> MessageRoom(s)]
    /\ packetPhase' = "message"
    /\ UNCHANGED <<packetAttr, packet, packetData, puts>>

usCheckMessageFreeSize == IF xMessage.max <= Len(xMessage.bytes) THEN 0
                          ELSE xMessage.max - Len(xMessage.bytes)

MessagePut(put) ==
    /\ packetPhase = "message" /\ puts < MaxPuts
    /\ xMessage' = [bytes |-> xMessage.bytes \o Taken(put, usCheckMessageFreeSize),
                    max |-> xMessage.max]
    /\ puts' = puts + 1
    /\ UNCHANGED <<packetPhase, packetAttr, packet, packetData>>

(* Command, parameter and size before the data, a checksum behind them and   *)
(* filling up to whole blocks, which are then encrypted where they are.      *)
Sum(bytes) ==
    LET sum[n \in 0..Len(bytes)] == IF n = 0 THEN 0 ELSE (sum[n - 1] + bytes[n]) % 256
    IN  sum[Len(bytes)]

Packed(bytes) ==
    LET body == Short(513) \o <<7>> \o Short(Len(bytes)) \o bytes
        blocks == (Len(body) + BlockSize) \div BlockSize
    IN  body \o [i \in 1..blocks * BlockSize - Len(body) |->
                    IF i = 1 THEN 255 - Sum(body) ELSE Sum(body)]

(* Each put up to the checksum is checked, and the call ends when there is   *)
(* no room; those of the filling are not.                                    *)
PackMessage ==
    /\ packetPhase = "message"
    /\ LET free == usGetPacketFreeSpace(packet)
           packed == Packed(xMessage.bytes)
           bytes == Prefix(packed, Smaller(Len(packed), free))
       IN  IF Len(xMessage.bytes) + 6 > free
           THEN packetPhase' = "failed" /\ UNCHANGED <<packet, packetData>>
           ELSE /\ packetPhase' = "sent"
                /\ packet' = Assembled(Extended(packet, bytes))
                /\ packetData' = bytes
    /\ UNCHANGED <<packetAttr, xMessage, puts>>

(* What the other side makes of the data: usDataSize bytes, if they and the  *)
(* checksum behind them are there.                                           *)
Unpacked(data) ==
    LET size == ShortAt(data, 4)
    IN  IF Len(data) >= BlockSize /\ size + 6 <= Len(data)
           /\ data[size + 6] = 255 - Sum(Prefix(data, size + 5))
        THEN SubSeq(data, 6, size + 5) ELSE <<-1>>

PacketNext ==
    \/ InitPacket \/ Assemble \/ OpenMessage \/ PackMessage
    \/ \E code \in {0, 17} : Refuse(code)
    \/ \E put \in PacketPuts : Put(put) \/ MessagePut(put)

-----------------------------------------------------------------------------
(* A receiver that looks at the bytes arrived so far accepts a packet when   *)
(* it is whole, not before, however it was cut into pieces, whatever follows *)
(* it and whoever sent it; it then has the sender's attributes and every     *)
(* byte the sender's puts reported.  The checksum always has its two bytes.  *)
Expected ==
    [attr |-> [global |-> packetAttr.global, response |-> packetAttr.response,
               address |-> IF packetAttr.global THEN packetAttr.address ELSE packetAttr.address % 256,
               type |-> packetAttr.type, error |-> packetAttr.error],
     data |-> packetData]

PacketArrives ==
    packetPhase = "sent" =>
        LET b == packet.bytes
            whole == Len(b)
            For(n, accepted) == IF n >= whole /\ accepted THEN whole ELSE 0
        IN  /\ whole <= packet.size
            /\ \A n \in 0..whole + 2 :
                   LET arrived == Prefix(b \o <<85, 0>>, n)
                   IN  /\ ValidatePacket(arrived) = For(n, TRUE)
                       /\ ValidateRequestPacket(arrived) = For(n, ~packetAttr.response)
                       /\ ValidateResponsePacket(arrived) = For(n, packetAttr.response)
            /\ Decoded(b) = Expected
            /\ packetAttr = [global |-> TRUE, response |-> FALSE, address |-> packetAttr.address,
                             type |-> 15, error |-> 0] =>
                   b = PingRequest(packetAttr.address, packetData)
            /\ IsHandshake(b) => Short(HandshakeOf(b).buffer) \o Long(HandshakeOf(b).id) = Prefix(packetData, 6)

(* A packet of which one byte has become another on the way is not accepted. *)
(* Excepted are another synchronisation byte and a smaller size: they change *)
(* which bytes are checked, and the checksum may fit those by chance.        *)
Harmful(b, i, v) ==
    LET s == TypeAt(b[1])
    IN  /\ v # b[i]
        /\ i = 1 => v \notin RequestSyncs \cup ResponseSyncs
        /\ i \in {s + 1, s + 2} => v > b[i]

DamageNoticed ==
    packetPhase = "sent" =>
        \A i \in 1..Len(packet.bytes), v \in Garbled :
            Harmful(packet.bytes, i, v) => ValidatePacket([packet.bytes EXCEPT ![i] = v]) = 0

(* Whatever a handler puts into the message it was given, and however small  *)
(* the buffer, the message fits into the packet together with its header,    *)
(* the filling and both checksums, and the other side reads the same bytes.  *)
MessageFits ==
    /\ packetPhase # "failed"
    /\ packetPhase = "sent" /\ xMessage.max > 0 =>
           /\ Len(Decoded(packet.bytes).data) % BlockSize = 0
           /\ Unpacked(Decoded(packet.bytes).data) = xMessage.bytes
=============================================================================
