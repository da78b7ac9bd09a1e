------------------------------ MODULE HashSlot ------------------------------
(***************************************************************************)
(* The cluster key-to-slot function of spec.md section 4.4, computed in    *)
(* the native core (not in this repository's sources):                      *)
(*   slot_of(key) = CRC16(hash_tag(key)) mod 16384                          *)
(* hash_tag is the part between the first "{" and the next "}" when that   *)
(* part is non-empty, else the whole key.  CRC16 is CRC-16/XMODEM           *)
(* (polynomial 0x1021, initial value 0).  A key is a sequence of byte       *)
(* values.                                                                  *)
(***************************************************************************)
EXTENDS Naturals, Sequences, Bitwise

NumSlots == 16384
LBrace == 123     \* "{"
RBrace == 125     \* "}"

\* Index of the first byte b in k at or after position from, 0 if none.
FirstIndexFrom(k, b, from) ==
    LET is == {i \in from .. Len(k) : k[i] = b}
    IN IF is = {} THEN 0 ELSE CHOOSE i \in is : \A j \in is : i <= j

HashTag(k) ==
    LET o == FirstIndexFrom(k, LBrace, 1)
        c == IF o = 0 THEN 0 ELSE FirstIndexFrom(k, RBrace, o + 1)
    IN IF o # 0 /\ c > o + 1 THEN SubSeq(k, o + 1, c - 1) ELSE k

\* The table's entries are computed bit by bit: 8 rounds of shifting the
\* 16-bit register left and XOR-ing the polynomial 0x1021 when the bit
\* shifted out was set.
Poly == 4129

BitRound(n) ==
    LET shifted == (n * 2) % 65536
    IN IF n >= 32768 THEN shifted ^^ Poly ELSE shifted

\* r rounds from register n.  The test of n evaluates the register before
\* the next round (see CrcFrom).
RECURSIVE Rounds(_, _)
Rounds(n, r) == IF n \notin 0 .. 65535 \/ r = 0 THEN n ELSE Rounds(BitRound(n), r - 1)

EightRounds(n) == Rounds(n, 8)

\* The server's table-driven form (crc16tab): entry x is the register after
\* 8 rounds from x * 256.
CrcTable == [x \in 0 .. 255 |-> EightRounds(x * 256)]

\* crc = (crc << 8) ^ crc16tab[((crc >> 8) ^ b) & 0xFF]
CrcByte(crc, b) ==
    ((crc * 256) % 65536) ^^ CrcTable[(crc \div 256) ^^ b]

\* The per-byte loop of crc16, from byte i with register crc.  The test of
\* crc evaluates the register before the next call, so that TLC does not
\* build a chain of pending evaluations as deep as the key is long.
RECURSIVE CrcFrom(_, _, _)
CrcFrom(k, i, crc) ==
    IF crc \notin 0 .. 65535 \/ i > Len(k) THEN crc
    ELSE CrcFrom(k, i + 1, CrcByte(crc, k[i]))

Crc16(k) == CrcFrom(k, 1, 0)

KeySlot(k) == Crc16(HashTag(k)) % NumSlots

====
