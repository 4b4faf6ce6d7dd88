------------------------------- MODULE Legacy -------------------------------
(***************************************************************************)
(* The older packets of ProtocolsLib.c: a Midep message, with attributes   *)
(* and up to sixteen blocks of data, and the SGP shuttle that establishes  *)
(* a connection.  Both end in a checksum and carry no size of their own.   *)
(***************************************************************************)
EXTENDS Integers, Sequences, SequencesExt, Crc16

CONSTANTS
    MidepAttrs,     \* server, command, subcommand, transaction index and result code
    MidepBlocks,    \* the blocks of data a caller may write
    MaxBlocks,      \* how many it writes, at most
    Servers,        \* server IDs of shuttles
    Mangled         \* what a byte may become on the way

MIDEP_DATA_BLOCKS_MAX_COUNT == 16

(* Server IDs are of 32 bits, sizes of blocks of eight, and a message has    *)
(* room for no more blocks.                                                  *)
ASSUME LegacyAssumption ==
    /\ MidepAttrs \subseteq [server : Nat, command : Byte, sub : Byte, index : 0..3, result : 0..63]
    /\ \A attr \in MidepAttrs : attr.server \div 65536 < 65536
    /\ \A b \in MidepBlocks : b \in Seq(Byte) /\ Len(b) < 256
    /\ MaxBlocks \in 0..MIDEP_DATA_BLOCKS_MAX_COUNT
    /\ Servers \subseteq Nat /\ \A server \in Servers : server \div 65536 < 65536
    /\ Mangled \subseteq Byte

VARIABLES
    legacyKind,     \* none, midep (being filled), sent, shuttle, received
    midep,          \* attributes and blocks of the message
    legacyBytes     \* what is sent

legacyVars == <<legacyKind, midep, legacyBytes>>

BigEndian(n) == Reverse(Long(n))
BigEndianAt(s, i) == LongAt(Reverse(SubSeq(s, i, i + 3)), 1)

usGetMidepMessageCRC(bytes) == Crc(bytes, {0, 3, 8, 9, 12, 13, 15})        \* 0xB309
usGet_PL_CRC16(bytes) == Crc(bytes, {0, 2, 4, 5, 6, 8, 12, 14, 15})        \* 0xD175

LegacyInit ==
    /\ legacyKind = "none" /\ legacyBytes = <<>>
    /\ midep = [attr |-> [server |-> 0, command |-> 0, sub |-> 0, index |-> 0, result |-> 0],
                blocks |-> <<>>]

(* vProtocolsLibMidepInitMessage, and the caller's attributes. *)
InitMessage ==
    /\ legacyKind = "none" /\ legacyKind' = "midep"
    /\ \E attr \in MidepAttrs : midep' = [attr |-> attr, blocks |-> <<>>]
    /\ UNCHANGED legacyBytes

(* The caller writes a block's data behind those before it. *)
AddBlock ==
    /\ legacyKind = "midep" /\ Len(midep.blocks) < MaxBlocks
    /\ \E b \in MidepBlocks :
           midep' = [attr |-> midep.attr, blocks |-> Append(midep.blocks, b)]
    /\ UNCHANGED <<legacyKind, legacyBytes>>

Blocks(blocks) ==
    LET bytes[n \in 0..Len(blocks)] ==
            IF n = 0 THEN <<>> ELSE bytes[n - 1] \o <<Len(blocks[n])>> \o blocks[n]
    IN  bytes[Len(blocks)]

(* Attributes, blocks, a block of no data that ends them, and the checksum,  *)
(* high byte first.                                                          *)
Compiled(attr, blocks) ==
    LET bytes == BigEndian(attr.server)
                 \o <<attr.command, attr.sub, (64 * (attr.index % 4)) + (attr.result % 64)>>
                 \o Blocks(blocks) \o <<0>>
    IN  bytes \o Reverse(Short(usGetMidepMessageCRC(bytes)))

CompileMessage ==
    /\ legacyKind = "midep" /\ legacyKind' = "sent"
    /\ legacyBytes' = Compiled(midep.attr, midep.blocks)
    /\ UNCHANGED midep

(* Mutant: the size byte is left out of a block's size. *)
NextWithoutSize(b, s) == s + b[s]

NextBlock(b, s) == s + b[s] + 1

(* Where the blocks begin, from the eighth byte on, and the block of no data *)
(* that ends them or a place behind the bytes that came.                     *)
BlockStarts(b) ==
    LET starts[n \in 0..Len(b)] ==
            IF n = 0 THEN <<8>>
            ELSE LET s == starts[n - 1]
                 IN  IF Last(s) <= Len(b) /\ b[Last(s)] # 0 THEN Append(s, NextBlock(b, Last(s)))
                     ELSE s
    IN  starts[Len(b)]

DecodedBlocks(b) ==
    LET starts == Front(BlockStarts(b))
    IN  [n \in 1..Len(starts) |-> SubSeq(b, starts[n] + 1, starts[n] + b[starts[n]])]

(* The code reads one byte behind blocks that run past the end before it     *)
(* refuses them.                                                             *)
MidepValid(b) ==
    /\ Len(b) >= 10 /\ b[Len(b) - 2] = 0
    /\ usGetMidepMessageCRC(SubSeq(b, 1, Len(b) - 2)) = b[Len(b)] + 256 * b[Len(b) - 1]
    /\ Last(BlockStarts(b)) <= Len(b)
    /\ Len(BlockStarts(b)) <= MIDEP_DATA_BLOCKS_MAX_COUNT + 1

DecodeMessage(b) ==
    [attr |-> [server |-> BigEndianAt(b, 1), command |-> b[5], sub |-> b[6],
               index |-> b[7] \div 64, result |-> b[7] % 64],
     blocks |-> DecodedBlocks(b)]

-----------------------------------------------------------------------------
(* SGP shuttles. *)
CreateEstConShuttle(server, inBuffer) ==
    LET bytes == <<119>> \o Long(server) \o <<0>> \o Short(inBuffer) \o <<9>>
    IN  bytes \o Short(usGet_PL_CRC16(bytes))

ShuttleValid(b) ==
    /\ Len(b) >= 6 /\ b[1] \in {85, 170, 119, 136}
    /\ usGet_PL_CRC16(SubSeq(b, 1, Len(b) - 2)) = ShortAt(b, Len(b) - 1)

LoadIndex(b) == IF b[1] \in {119, 136} THEN 6 ELSE 3

ExtractAddress(b) == IF LoadIndex(b) = 6 THEN LongAt(b, 2) ELSE b[2]

(* usProtocolsLibSGP_CompileShuttle on the load a received shuttle had. *)
CompileShuttle(b) == b \o Short(usGet_PL_CRC16(b))

EstablishConnection ==
    /\ legacyKind = "none" /\ legacyKind' = "shuttle"
    /\ \E server \in Servers : legacyBytes' = CreateEstConShuttle(server, 1024)
    /\ UNCHANGED midep

LegacyNext == InitMessage \/ AddBlock \/ CompileMessage \/ EstablishConnection

-----------------------------------------------------------------------------
Swapped(b, i, v) == [b EXCEPT ![i] = v]

(* What was put into a Midep message is decoded again, if no block is empty  *)
(* (an empty one would end the blocks), and the shuttle that establishes a   *)
(* connection says which server wants it and compiles to the same bytes      *)
(* again; neither is accepted when one of its bytes has become another.      *)
LegacyArrives ==
    /\ legacyKind = "sent" /\ <<>> \notin ToSet(midep.blocks) =>
           /\ MidepValid(legacyBytes)
           /\ DecodeMessage(legacyBytes) = midep
    /\ legacyKind = "sent" =>
           \A i \in 1..Len(legacyBytes), v \in Mangled :
               v # legacyBytes[i] => ~MidepValid(Swapped(legacyBytes, i, v))
    /\ legacyKind = "shuttle" =>
           /\ ShuttleValid(legacyBytes)
           /\ CompileShuttle(SubSeq(legacyBytes, 1, Len(legacyBytes) - 2)) = legacyBytes
           /\ \E server \in Servers :
                  legacyBytes = CreateEstConShuttle(server, 1024) /\ ExtractAddress(legacyBytes) = server
           /\ \A i \in 1..Len(legacyBytes), v \in Mangled :
                  v # legacyBytes[i] => ~ShuttleValid(Swapped(legacyBytes, i, v))
=============================================================================
