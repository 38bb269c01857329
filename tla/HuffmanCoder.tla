---------------------------- MODULE HuffmanCoder ----------------------------
(***************************************************************************)
(* Huffman_encode_tree_and_data followed by Huffman_decode_tree_and_data:  *)
(* the tree of the symbols' frequencies is built with a heap, the codes    *)
(* are read off it, the tree and then the codes of all symbols are written *)
(* one after the other; the decoder rebuilds the tree and walks it bit by  *)
(* bit.  Every array of SZauto (predictors, coefficients, quantization     *)
(* codes) travels through this coder, one segment behind another, so a     *)
(* segment must not need a bit beyond the size it states.                  *)
(***************************************************************************)
EXTENDS HuffmanHeap, BitPacker, TreeBytes, FiniteSets, Functions

CONSTANTS
  Arrays,     (* the arrays of symbols considered, not empty               *)
  MemoryBits  (* size of the memory the segment is written to, and bound   *)
              (* of the decoder's reads                                    *)

ASSUME ArraysAssumption == \A a \in Arrays : a \in Seq(Nat) /\ a # <<>>
ASSUME MemoryAssumption == MemoryBits \in Nat
\* convert_HuffTree_to_bytes_anyStates takes nodeCount as an int: no array has more
\* symbols than give a tree with so many nodes.
ASSUME NodesAssumption ==
  \A a \in Arrays : 2 * Cardinality({a[i] : i \in DOMAIN a}) - 1 <= Wide

VARIABLES
  s,          (* the array, fixed                                          *)
  phase,      (* "leaves", "merge", "code", "encode", "rebuild", "decode"  *)
              (* or "done"                                                 *)
  pool, qq,   (* the nodes made so far and the priority queue              *)
  code,       (* the code of each symbol                                   *)
  segment,    (* what is written: the tree's nodeCount and bytes           *)
  packer,     (* the local state of encode()                               *)
  encoded,    (* its loop counter i                                        *)
  tree,       (* the decoder's tree                                        *)
  decoder     (* the local state of decode(): bit i, node n, out           *)

coding == <<s, phase, pool, qq, code, segment, packer, encoded, tree, decoder>>

Symbols == {s[i] : i \in DOMAIN s}
freq(c) == Cardinality({i \in DOMAIN s : s[i] = c})

Freq == [n \in DOMAIN pool |-> pool[n].freq]
LeafNode(c, f) == [freq |-> f, c |-> c, t |-> 1, left |-> 0, right |-> 0]
InnerNode(a, b) == [freq |-> pool[a].freq + pool[b].freq, c |-> 0, t |-> 0,
                    left |-> a, right |-> b]
Root == qq[1]

CoderInit ==
  /\ s \in Arrays
  /\ phase = "leaves"
  /\ pool = <<>> /\ qq = <<>> /\ code = <<>> /\ segment = <<>> /\ tree = <<>>
  /\ encoded = 0
  /\ \E garbage \in {{}, 0 .. MemoryBits - 1} : packer = PackerStart(garbage)
  /\ decoder = [i |-> 0, n |-> 0, out |-> <<>>]

\* init(): a leaf for each symbol that occurs, in ascending order.
InsertLeaf ==
  /\ phase = "leaves"
  /\ \E c \in Symbols :
       LET made == {pool[n].c : n \in DOMAIN pool}
           new  == Append(pool, LeafNode(c, freq(c)))
       IN  /\ c \notin made /\ \A d \in Symbols \ made : c <= d
           /\ pool' = new
           /\ qq' = qinsert(qq, [n \in DOMAIN new |-> new[n].freq], Len(new))
           /\ phase' = IF made \cup {c} = Symbols THEN "merge" ELSE phase
  /\ UNCHANGED <<s, code, segment, packer, encoded, tree, decoder>>

\* The two lightest nodes become the children of a new one.  Which of the two
\* calls of qremove in new_node's argument list comes first is unspecified.
Merge ==
  /\ phase = "merge" /\ Len(qq) > 1
  /\ \E first \in {Head(qq)}, q1 \in {qremove(qq, Freq)} :
     \E second \in {Head(q1)}, q2 \in {qremove(q1, Freq)} :
     \E node \in {InnerNode(first, second), InnerNode(second, first)} :
       /\ pool' = Append(pool, node)
       /\ qq' = qinsert(q2, [n \in 1 .. Len(pool) + 1 |->
                               IF n \in DOMAIN pool THEN pool[n].freq ELSE node.freq],
                        Len(pool) + 1)
  /\ UNCHANGED <<s, phase, code, segment, packer, encoded, tree, decoder>>

\* build_code: 0 to the left and 1 to the right, from the root down.
CodeOfLeaf ==
  LET path[n \in DOMAIN pool] ==
        IF n = Root THEN <<>>
        ELSE LET up == Parent(pool, n)
             IN  Append(path[up], IF pool[up].left = n THEN 0 ELSE 1)
  IN  [c \in Symbols |-> path[CHOOSE n \in DOMAIN pool : IsLeaf(pool[n]) /\ pool[n].c = c]]

BuildCode ==
  /\ phase = "merge" /\ Len(qq) = 1
  /\ code' = CodeOfLeaf
  /\ phase' = "code"
  /\ UNCHANGED <<s, pool, qq, segment, packer, encoded, tree, decoder>>

WriteTree ==
  /\ phase = "code"
  /\ \E nodeCount \in {2 * Cardinality(DOMAIN code) - 1} :
       segment' = [nodeCount |-> nodeCount, bytes |-> PadTree(pool, Root, nodeCount)]
  /\ phase' = "encode"
  /\ UNCHANGED <<s, pool, qq, code, packer, encoded, tree, decoder>>

EncodeSymbol ==
  /\ phase = "encode" /\ encoded < Len(s)
  /\ packer' = Pack(packer, code[s[encoded + 1]])
  /\ encoded' = encoded + 1
  /\ UNCHANGED <<s, phase, pool, qq, code, segment, tree, decoder>>

\* The bytes the segment states it uses.
InUse(k) == k.outSize

\* The next segment is written behind the bytes in use, over what the last
\* word left there.
CloseSegment ==
  /\ phase = "encode" /\ encoded = Len(s)
  /\ \E next \in {{}, ByteBits * InUse(packer) .. MemoryBits - 1} :
       packer' = [packer EXCEPT
         !.ones = {b \in @ : b < ByteBits * InUse(packer)} \cup next]
  /\ phase' = "rebuild"
  /\ UNCHANGED <<s, pool, qq, code, segment, encoded, tree, decoder>>

ReadTree ==
  /\ phase = "rebuild"
  /\ tree' = UnpadTree(segment.bytes, segment.nodeCount)
  /\ phase' = "decode"
  /\ UNCHANGED <<s, pool, qq, code, segment, packer, encoded, decoder>>

\* A tree of one leaf: every symbol is the same, no bit is read.
DecodeConstant ==
  /\ phase = "decode" /\ tree.t[0] = 1
  /\ decoder' = [decoder EXCEPT !.out = [i \in 1 .. Len(s) |-> tree.C[0]]]
  /\ phase' = "done"
  /\ UNCHANGED <<s, pool, qq, code, segment, packer, encoded, tree>>

DecodeBit ==
  /\ phase = "decode" /\ tree.t[0] = 0 /\ decoder.i < MemoryBits
  /\ LET n    == IF decoder.i \in packer.ones THEN tree.R[decoder.n] ELSE tree.L[decoder.n]
         leaf == tree.t[n] = 1
         out  == IF leaf THEN Append(decoder.out, tree.C[n]) ELSE decoder.out
     IN  /\ decoder' = [i |-> decoder.i + 1, n |-> IF leaf THEN 0 ELSE n, out |-> out]
         /\ phase' = IF Len(out) = Len(s) THEN "done" ELSE phase
  /\ UNCHANGED <<s, pool, qq, code, segment, packer, encoded, tree>>

Coded == (phase = "done" \/ decoder.i = MemoryBits) /\ UNCHANGED coding

Encode == InsertLeaf \/ Merge \/ BuildCode \/ WriteTree \/ EncodeSymbol \/ CloseSegment
Decode == ReadTree \/ DecodeConstant \/ DecodeBit

CoderNext == Encode \/ Decode \/ Coded

CoderSpec == CoderInit /\ [][CoderNext]_coding /\ WF_coding(Encode \/ Decode)

----------------------------------------------------------------------------
\* No prefix code is shorter on this array: any lengths that satisfy Kraft's
\* equality cost at least as many bits.
Cost(len) == SumFunction([k \in DOMAIN s |-> len[s[k]]])
OptimalCode ==
  phase = "code" =>
    LET d == Cardinality(Symbols)
        power[n \in 0 .. d] == IF n = 0 THEN 1 ELSE 2 * power[n - 1]
        kraft(len) == SumFunction([c \in Symbols |-> power[d - len[c]]]) = power[d]
    IN  d > 1 => \A len \in [Symbols -> 1 .. d - 1] :
                   kraft(len) => Cost([c \in Symbols |-> Len(code[c])]) <= Cost(len)

\* The memory up to the packer's position holds the codes of the symbols so
\* far, one behind the other, and outSize counts exactly the bytes they take.
Concatenation(n) ==
  LET all[k \in 0 .. n] == IF k = 0 THEN <<>> ELSE all[k - 1] \o code[s[k]]
  IN  all[n]
PackedCodes ==
  phase = "encode" =>
    LET bits == Concatenation(encoded)
    IN  /\ BitsWritten(packer) = Len(bits) /\ packer.outSize = Bytes(Len(bits))
        /\ \A b \in 1 .. Len(bits) : bits[b] = 1 <=> b - 1 \in packer.ones

\* The decoder reads no bit behind the bytes the segment states, and ends at
\* the root, so the segment behind is not misread and "garbage input" is never
\* printed.
ReadsInsideSegment ==
  /\ decoder.i <= ByteBits * InUse(packer)
  /\ phase = "done" => decoder.n = 0

\* Decoding ends, and with the whole array.
DecodesAll == <>(phase = "done" /\ decoder.out = s)
=============================================================================
