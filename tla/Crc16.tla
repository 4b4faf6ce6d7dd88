------------------------------- MODULE Crc16 --------------------------------
(***************************************************************************)
(* Bytes, little-endian numbers and the 16-bit checksum of the protocols   *)
(* (SGP2.c, ProtocolsLib.c).  A word is the set of its one bits: exclusive *)
(* or is the symmetric difference.                                         *)
(***************************************************************************)
EXTENDS Naturals, Sequences

Byte == 0..255

Bits(b) == {i \in 0..7 : (b \div 2^i) % 2 = 1}
Xor(v, w) == (v \ w) \cup (w \ v)

(* The number of the sixteen bits, from the highest on. *)
Number(bits) ==
    LET upper[n \in 0..16] ==
            IF n = 0 THEN 0 ELSE 2 * upper[n - 1] + (IF 16 - n \in bits THEN 1 ELSE 0)
    IN  upper[16]

(* Numbers in the byte order of the protocol. *)
Short(n) == <<n % 256, (n \div 256) % 256>>
Long(n) == Short(n) \o Short(n \div 65536)
ShortAt(s, i) == s[i] + 256 * s[i + 1]
LongAt(s, i) == ShortAt(s, i) + 65536 * ShortAt(s, i + 2)

(* One bit shifted out of the register, and the polynomial if it was set. *)
Shifted(r, poly) ==
    LET s == {i - 1 : i \in r \ {0}} IN IF 0 \in r THEN Xor(s, poly) ELSE s

(* What the eight bits of a byte make of the register. *)
AddByte(b, poly) ==
    [r \in SUBSET (0..15) |->
        LET shifted[n \in 0..8] ==
                IF n = 0 THEN Xor(r, Bits(b)) ELSE Shifted(shifted[n - 1], poly)
        IN  shifted[8]]

Crc(bytes, poly) ==
    LET register[n \in 0..Len(bytes)] ==
            IF n = 0 THEN 0..15 ELSE AddByte(bytes[n], poly)[register[n - 1]]
    IN  Number(register[Len(bytes)])
=============================================================================
