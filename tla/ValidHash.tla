----------------------------- MODULE ValidHash -----------------------------
(* The test a hash must pass (validhash in ProtocoloMPS.hpp), which miners, *)
(* and the central server after them, run on every block.  A hash is a      *)
(* function from 0 .. Size-1 to bytes; the test reads it from its last byte *)
(* downwards, and each byte with its nibbles exchanged.                     *)
EXTENDS Integers

CONSTANT Size  \* hashlenght, 32 in the code

ASSUME SizeAssumption == Size \in Nat \ {0}

Byte   == 0..255
Hashes == [0..(Size - 1) -> Byte]
Diffs  == 0..(8 * Size - 1)

\* A plausible bug: the nibbles left as they are
NotShifted(b) == b

\* lut[m]: the m highest bits of a byte
lut == <<0, 128, 192, 224, 240, 248, 252, 254>>

Shifted(b) == (b % 16) * 16 + b \div 16

\* b & mask, for a mask of highest bits
Has(b, mask) == b >= 256 - mask

validhash(valid, d) ==
    LET cociente == d \div 8
        modulo   == d % 8
    IN  /\ \A i \in 0..(cociente - 1) : valid[Size - 1 - i] = 0
        /\ ~Has(Shifted(valid[Size - 1 - cociente]), lut[modulo + 1])

-----------------------------------------------------------------------------
(* What the test is for: with the nibbles of a hash written from the last   *)
(* byte's low one on, its first d bits are 0.                            *)

Weight == <<8, 4, 2, 1>>

Nibble(b, k) == IF k < 4 THEN b % 16 ELSE b \div 16

\* bit k of a byte read so, 0 <= k < 8
ByteBit(b, k) == (Nibble(b, k) \div Weight[(k % 4) + 1]) % 2

Bit(valid, k) == ByteBit(valid[Size - 1 - k \div 8], k % 8)

StartsWithZeros(valid, d) == \A k \in 0..(d - 1) : Bit(valid, k) = 0
=============================================================================
