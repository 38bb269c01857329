--------------------------- MODULE LosslessFrame ---------------------------
(***************************************************************************)
(* What is done to a finished stream before it leaves the program:         *)
(* sz_lossless_compress, after which the caller has to remember the length *)
(* of the stream, and sz_lossless_compress_v2, which puts it in front of   *)
(* what zstd makes of the stream.                                          *)
(*                                                                         *)
(* Of zstd, whose sources the repository contains, only the sizes are      *)
(* modelled: the header of the frame, and a header for each block, which   *)
(* is stored as it is or in fewer bytes.                                   *)
(*                                                                         *)
(* A definition whose name ends in an underscore and a word is a slip in   *)
(* the definition that follows it, which no specification uses.            *)
(***************************************************************************)
EXTENDS Integers

CONSTANTS
  BlockBytes,   (* ZSTD_BLOCKSIZE_MAX                                      *)
  WindowBytes   (* the window of the compression level                     *)

\* They are 128 KB and, at the level all callers ask for, 1 MB.
ASSUME FrameAssumption ==
  /\ BlockBytes \in Nat /\ BlockBytes >= 64
  /\ WindowBytes \in Nat

\* sizeof(dataLength), written in front by the second version.
HeaderBytes(version) == IF version = "v2" THEN 8 ELSE 0

Allocation_noSlack(n) == IF n < 100 THEN 200 ELSE n
\* estimatedCompressedSize; zstd is told that this much is free behind the
\* header too.
Allocation(n) == IF n < 100 THEN 200 ELSE (n * 12) \div 10

\* Magic number, descriptor, the window unless it holds all n bytes, and n
\* itself, in as few bytes as it takes.
FrameHeader(n) ==
  LET singleSegment == WindowBytes >= n
      contentSize   == IF n < 256 THEN (IF singleSegment THEN 1 ELSE 0)
                       ELSE IF n < 65792 THEN 2 ELSE IF n < 2 ^ 32 - 1 THEN 4 ELSE 8
  IN  4 + 1 + (IF singleSegment THEN 0 ELSE 1) + contentSize

\* One empty block is written when there is nothing to write.
Blocks(n) == IF n = 0 THEN 1 ELSE (n + BlockBytes - 1) \div BlockBytes
Overhead(n) == FrameHeader(n) + 3 * Blocks(n)

\* Some blocks kept as they are and the others down to the smallest there is.
FrameSizes(n) ==
  {Overhead(n) + (LET body == kept * BlockBytes + 3 * (Blocks(n) - kept)
                  IN  IF body < n THEN body ELSE n) : kept \in 0 .. Blocks(n)}

\* zstd gives up if the longest frame header does not fit, if there is no room
\* for a smallest block before it tries one, or if a block fits in no form; so
\* never when all blocks fit as they are and two bytes are left.
ZstdError == -1
ZSTD_compress(dstCapacity, n) ==
  {size \in FrameSizes(n) : size <= dstCapacity}
    \cup (IF dstCapacity >= 18 /\ dstCapacity >= Overhead(n) + n + 2 THEN {} ELSE {ZstdError})

Unframed == [pc |-> "none"]

Returned_withHeader(version, size) == size + HeaderBytes(version)
\* The size the caller is given: what zstd returned, an error or not.
Returned(version, size) == size

Frame(version, n, size) ==
  [pc |-> "framed", version |-> version, allocated |-> Allocation(n),
   first |-> HeaderBytes(version), size |-> size,
   returned |-> Returned(version, size)]

\* zstd recognizes its frame only when it is given the bytes it made.
Unframe(f) ==
  [f EXCEPT !.pc = IF f.size # ZstdError
                        /\ <<HeaderBytes(f.version), f.returned>> = <<f.first, f.size>>
                   THEN "restored" ELSE "corrupt"]
=============================================================================
