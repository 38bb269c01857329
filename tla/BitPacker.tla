----------------------------- MODULE BitPacker -----------------------------
(***************************************************************************)
(* How encode() writes codes of varying length into memory whose smallest  *)
(* unit is a byte, a whole word at a time: each word overwrites what lies  *)
(* ahead, so the next code has to land exactly on the first bit after the  *)
(* last.  A code is a sequence of bits; a word is left-justified.  Codes   *)
(* of more than one word, which take a Fibonacci number of 10^13 symbols   *)
(* to arise, are not modelled.                                             *)
(***************************************************************************)
EXTENDS Integers, Sequences

CONSTANTS ByteBits, WordBytes    \* 8 and 8 on the machine

ASSUME PackerAssumption == ByteBits \in Nat \ {0} /\ WordBytes \in Nat \ {0}

WordBits == ByteBits * WordBytes

\* Words and memory are the sets of their one-bits, most significant first.
Word(code) == {b \in 0 .. Len(code) - 1 : code[b + 1] = 1}
ShiftLeft(word, n) == {b - n : b \in {c \in word : c >= n}}

\* longToBytes_bigEndian(p, word)
StoreWord(ones, p, word) ==
  (ones \ (ByteBits * p .. ByteBits * p + WordBits - 1)) \cup {ByteBits * p + b : b \in word}
\* *p |= word >> (64 - lackBits)
OrTopBits(ones, p, word, lackBits) ==
  ones \cup {ByteBits * p + ByteBits - lackBits + b : b \in {c \in word : c < lackBits}}

Bytes_whole(bits) == bits \div ByteBits
Bytes(bits) == (bits + ByteBits - 1) \div ByteBits
Lacking(bits) == IF bits % ByteBits = 0 THEN 0 ELSE ByteBits - (bits % ByteBits)

\* p, the byte to write next; lackBits, how many of its low bits are free when
\* it is begun; ones, the memory; outSize, the bytes in use.
PackerStart(ones) == [p |-> 0, lackBits |-> 0, ones |-> ones, outSize |-> 0]

\* A code written on a byte boundary.
PackAligned(k, ones, word, bits) ==
  [p |-> k.p + bits \div ByteBits, lackBits |-> Lacking(bits),
   ones |-> StoreWord(ones, k.p, word), outSize |-> k.outSize + Bytes(bits)]

Pack_staysInByte(k, code) ==
  LET word == Word(code)
      ones == OrTopBits(k.ones, k.p, word, k.lackBits)
      next == [k EXCEPT !.p = @ + 1]
  IN  IF k.lackBits = 0 THEN PackAligned(k, k.ones, word, Len(code))
      ELSE IF k.lackBits < Len(code)
      THEN PackAligned(next, ones, ShiftLeft(word, k.lackBits), Len(code) - k.lackBits)
      ELSE [k EXCEPT !.ones = ones, !.lackBits = @ - Len(code)]
\* One symbol: the first lackBits bits complete the byte begun, the rest
\* starts on the next; when the byte is not completed only lackBits goes down.
Pack(k, code) ==
  LET word == Word(code)
      ones == OrTopBits(k.ones, k.p, word, k.lackBits)
      next == [k EXCEPT !.p = @ + 1]
  IN  IF k.lackBits = 0 THEN PackAligned(k, k.ones, word, Len(code))
      ELSE IF k.lackBits < Len(code)
      THEN PackAligned(next, ones, ShiftLeft(word, k.lackBits), Len(code) - k.lackBits)
      ELSE [k EXCEPT !.ones = ones, !.lackBits = @ - Len(code),
                     !.p = @ + (IF k.lackBits = Len(code) THEN 1 ELSE 0)]

\* The number of bits a packer has written.
BitsWritten(k) == ByteBits * k.p + (IF k.lackBits = 0 THEN 0 ELSE ByteBits - k.lackBits)
=============================================================================
