--------------------------- MODULE IndicatorBits ---------------------------
(***************************************************************************)
(* The indicators of the older codec, one bit for each block, the first in *)
(* the highest bit: convertIntArray2ByteArray_fast_1b_to_result_sz and     *)
(* convertByteArray2IntArray_fast_1b_sz.                                   *)
(*                                                                         *)
(* A definition whose name ends in an underscore and a word is a slip in   *)
(* the definition that follows it, which no specification uses.            *)
(***************************************************************************)
EXTENDS Integers, Sequences

\* The writer's number of bytes for n bits, and the reader's.
ByteLength(n) == IF n % 8 = 0 THEN n \div 8 ELSE n \div 8 + 1
ByteArrayLength(n) == (n - 1) \div 8 + 1

\* The bit at offset j of byte b, where there is one.
BitAt(bits, b, j) ==
  IF 8 * (b - 1) + j < Len(bits) /\ bits[8 * (b - 1) + j + 1] = 1 THEN 1 ELSE 0

Packed_lowFirst(bits) ==
  [b \in 1 .. ByteLength(Len(bits)) |->
     BitAt(bits, b, 0) + 2 * BitAt(bits, b, 1) + 4 * BitAt(bits, b, 2)
       + 8 * BitAt(bits, b, 3) + 16 * BitAt(bits, b, 4) + 32 * BitAt(bits, b, 5)
       + 64 * BitAt(bits, b, 6) + 128 * BitAt(bits, b, 7)]
Packed(bits) ==
  [b \in 1 .. ByteLength(Len(bits)) |->
     128 * BitAt(bits, b, 0) + 64 * BitAt(bits, b, 1) + 32 * BitAt(bits, b, 2)
       + 16 * BitAt(bits, b, 3) + 8 * BitAt(bits, b, 4) + 4 * BitAt(bits, b, 5)
       + 2 * BitAt(bits, b, 6) + BitAt(bits, b, 7)]

Mask == <<128, 64, 32, 16, 8, 4, 2, 1>>

\* All bytes but the last are taken whole, of the last as many bits as are left.
Unpacked(n, bytes) ==
  LET whole == 8 * (ByteArrayLength(n) - 1)
  IN  [k \in 1 .. IF n > whole THEN n ELSE whole |->
         (bytes[(k - 1) \div 8 + 1] \div Mask[((k - 1) % 8) + 1]) % 2]
=============================================================================
