---------------------------- MODULE StreamLayout ----------------------------
(***************************************************************************)
(* The compressed stream, field by field: what sz_compress_3d_knl_2 and    *)
(* the older sz_compress_3d write one behind the other, without a table of *)
(* contents, and what sz_decompress_3d_knl and sz_decompress_3d read,      *)
(* which know how far to move only from the fields they have read before.  *)
(* In between the stream passes through the lossless compressor.           *)
(*                                                                         *)
(* A message m is what there is to send:                                   *)
(*   format        "knl" or "legacy"                                       *)
(*   sizeof_T      of the type the program was instantiated for            *)
(*   block_size    all of sz_params that the layout depends on             *)
(*   unpred        how many values each lane of a block's slice holds; the *)
(*                 older codec has one for all                             *)
(*   count         per regression ("reg", "reg_poly"), the blocks that     *)
(*                 selected it                                             *)
(*   free          per regression, the coefficients without a code         *)
(*   symbols, bits per Huffman-coded array, the different symbols in it    *)
(*                 and the bits their codes take together                  *)
(*   indicator     the older codec's indicators, one for each block        *)
(* A field is a pair <<what, which>>.                                      *)
(*                                                                         *)
(* A definition whose name ends in an underscore and a word is a slip in   *)
(* the definition that follows it, which no specification uses.            *)
(***************************************************************************)
EXTENDS IndicatorBits, LosslessFrame

CONSTANTS
  Messages,
  NumElements,    (* size.num_elements of every message                    *)
  ParamsBytes,    (* sizeof(sz_params)                                     *)
  Estimate        (* est_size per byte of data, <<numerator, denominator>> *)

Regressions == {"reg", "reg_poly"}
\* The Huffman-coded arrays.
Arrays == Regressions \cup {"indicator", "type"}

ASSUME LayoutAssumption ==
  /\ NumElements \in Nat \ {0} /\ ParamsBytes \in Nat \ {0}
  /\ \A msg \in Messages :
       /\ msg.format \in {"knl", "legacy"} /\ msg.sizeof_T \in {4, 8}
       /\ msg.block_size \in Nat \ {0}
       /\ LET lanes == IF msg.format = "knl" THEN msg.block_size * msg.block_size ELSE 1
          IN  msg.unpred \in [1 .. lanes -> Nat]
       /\ msg.count \in [Regressions -> Nat] /\ msg.free \in [Regressions -> Nat]
       /\ msg.symbols \in [Arrays -> Nat \ {0}] /\ msg.bits \in [Arrays -> Nat]
       /\ msg.indicator \in Seq({0, 1})
       \* sz_compress_3d and sz_decompress_3d are instantiated for float only.
       /\ msg.format = "legacy" => msg.sizeof_T = 4 /\ Len(msg.indicator) > 0
  /\ Estimate \in (Nat \ {0}) \X (Nat \ {0})

VARIABLES
  m,           (* the message, fixed                                       *)
  compressed,  (* the fields written, by the offset of their first byte    *)
  written,     (* how many fields are written                              *)
  wpos,        (* the compressor's compressed_pos                          *)
  read,        (* how many fields are read                                 *)
  rpos,        (* the decompressor's compressed_pos                        *)
  got,         (* the fields read and their values                         *)
  frame        (* the stream in its lossless frame                         *)

vars == <<m, compressed, written, wpos, read, rpos, got, frame>>

\* Their sizes in bytes.
size_t == 8
int == 4
float == 4

Huffman(array) ==
  <<<<"node_count", array>>, <<"tree_size", array>>, <<"tree", array>>,
    <<"type_array_size", array>>, <<"codes", array>>>>
Coefficients(r) ==
  <<<<"reg_unpredictable_count", r>>, <<"reg_unpredictable_data", r>>>> \o Huffman(r)
Header(format) ==
  IF format = "knl"
  THEN <<<<"params", "">>, <<"precision", "">>, <<"intv_radius", "">>, <<"mean_info", "">>,
         <<"count", "reg">>, <<"count", "reg_poly">>, <<"unpred_count_buffer", "">>>>
  ELSE <<<<"params", "">>, <<"precision", "">>, <<"intv_radius", "">>, <<"mean_info", "">>,
         <<"count", "reg">>, <<"unpredictable_count", "">>>>
LaneFields(block_size) == [n \in 1 .. block_size * block_size |-> <<"lane", n>>]

LegacyFields == <<<<"unpredictable_data", "">>, <<"indicator_bits", "">>>>

\* A regression no block selected has no fields.
Selected(r, count) == IF count > 0 THEN Coefficients(r) ELSE <<>>

KnlWriteOrder ==
  Header("knl") \o LaneFields(m.block_size) \o Huffman("indicator")
    \o Selected("reg", m.count["reg"]) \o Selected("reg_poly", m.count["reg_poly"])
    \o Huffman("type")
LegacyWriteOrder ==
  Header("legacy") \o LegacyFields \o Selected("reg", m.count["reg"]) \o Huffman("type")
WriteOrder == IF m.format = "knl" THEN KnlWriteOrder ELSE LegacyWriteOrder

NodeCount(distinct) == 2 * distinct - 1
\* Two children, a symbol and a kind for each node, and a byte in front.
TreeSize(nodes) ==
  LET width == IF nodes <= 256 THEN 1 ELSE IF nodes <= 65536 THEN 2 ELSE 4
  IN  1 + nodes * (2 * width + int + 1)
TypeArraySize(bits) == (bits + 7) \div 8

\* What the decompressor learns from a field.
Value(f) ==
  CASE f[1] = "params" -> m.block_size
    [] f[1] = "count" -> m.count[f[2]]
    [] f[1] = "unpred_count_buffer" -> m.unpred
    [] f[1] = "unpredictable_count" -> m.unpred[1]
    [] f[1] = "indicator_bits" -> Packed(m.indicator)
    [] f[1] = "tree_size" -> TreeSize(NodeCount(m.symbols[f[2]]))
    [] f[1] = "type_array_size" -> TypeArraySize(m.bits[f[2]])
    [] f[1] = "reg_unpredictable_count" -> m.free[f[2]]
    [] OTHER -> "data"

\* The bytes of the fields that always take the same.
FixedLength(f) ==
  CASE f[1] = "params" -> ParamsBytes
    [] f[1] = "mean_info" -> 2 * m.sizeof_T
    [] f[1] \in {"intv_radius", "tree_size"} -> int
    [] OTHER -> size_t

WrittenLength(f) ==
  CASE f[1] = "unpred_count_buffer" -> int * m.block_size * m.block_size
    [] f[1] = "lane" -> m.sizeof_T * m.unpred[f[2]]
    [] f[1] = "unpredictable_data" -> m.sizeof_T * m.unpred[1]
    [] f[1] = "indicator_bits" -> ByteLength(Len(m.indicator))
    [] f[1] = "reg_unpredictable_data" -> float * m.free[f[2]]
    [] f[1] = "tree" -> TreeSize(NodeCount(m.symbols[f[2]]))
    [] f[1] = "codes" -> TypeArraySize(m.bits[f[2]])
    [] OTHER -> FixedLength(f)

Advance_sizeInPlace(f) == IF f[1] = "type_array_size" THEN 0 ELSE WrittenLength(f)
\* How far the compressor moves.  The place of type_array_size is kept free
\* until the codes behind it are written.
Advance(f) == WrittenLength(f)

\* How far the decompressor moves, by what it has read; it knows T and the
\* number of blocks from its caller.
ReadLength(f) ==
  CASE f[1] = "unpred_count_buffer" -> int * got[<<"params", "">>] * got[<<"params", "">>]
    [] f[1] = "lane" -> m.sizeof_T * got[<<"unpred_count_buffer", "">>][f[2]]
    [] f[1] = "unpredictable_data" -> float * got[<<"unpredictable_count", "">>]
    [] f[1] = "indicator_bits" -> ByteArrayLength(Len(m.indicator))
    [] f[1] = "reg_unpredictable_data" -> float * got[<<"reg_unpredictable_count", f[2]>>]
    [] f[1] = "tree" -> got[<<"tree_size", f[2]>>]
    [] f[1] = "codes" -> got[<<"type_array_size", f[2]>>]
    [] OTHER -> FixedLength(f)

KnlReadOrder_codesFirst(block_size, count) ==
  Header("knl") \o LaneFields(block_size) \o Huffman("indicator") \o Huffman("type")
    \o Selected("reg", count["reg"]) \o Selected("reg_poly", count["reg_poly"])
KnlReadOrder(block_size, count) ==
  Header("knl") \o LaneFields(block_size) \o Huffman("indicator")
    \o Selected("reg", count["reg"]) \o Selected("reg_poly", count["reg_poly"])
    \o Huffman("type")
LegacyReadOrder(count) ==
  Header("legacy") \o LegacyFields \o Selected("reg", count["reg"]) \o Huffman("type")

Init ==
  /\ m \in Messages
  /\ compressed = [p \in {} |-> <<>>] /\ written = 0 /\ wpos = 0
  /\ read = 0 /\ rpos = 0 /\ got = [f \in {} |-> 0]
  /\ frame = Unframed

WriteField ==
  /\ written < Len(WriteOrder)
  /\ \E f \in {WriteOrder[written + 1]} :
       /\ compressed' = IF WrittenLength(f) = 0 THEN compressed
                        ELSE [p \in DOMAIN compressed \cup {wpos} |->
                                IF p = wpos THEN f ELSE compressed[p]]
       /\ wpos' = wpos + Advance(f)
  /\ written' = written + 1
  /\ UNCHANGED <<m, read, rpos, got, frame>>

\* The finished stream is compressed, and the result decompressed again.
Pack ==
  /\ written = Len(WriteOrder) /\ frame.pc = "none"
  /\ \E version \in {"plain", "v2"}, size \in ZSTD_compress(Allocation(wpos), wpos) :
       frame' = Frame(version, wpos, size)
  /\ UNCHANGED <<m, compressed, written, wpos, read, rpos, got>>

Unpack ==
  /\ frame.pc = "framed"
  /\ frame' = Unframe(frame)
  /\ UNCHANGED <<m, compressed, written, wpos, read, rpos, got>>

\* The fields the decompressor expects; what follows the header it only knows
\* when it has read the header.
Expected ==
  IF read < Len(Header(m.format)) THEN Header(m.format)
  ELSE IF m.format = "legacy" THEN LegacyReadOrder([r \in {"reg"} |-> got[<<"count", r>>]])
  ELSE KnlReadOrder(got[<<"params", "">>], [r \in Regressions |-> got[<<"count", r>>]])
Left == read < Len(Expected)
NextField == Expected[read + 1]

\* The decompressor takes whatever it finds.  The model lets it go on only while
\* that is the field the compressor put at this place; one without bytes is
\* anywhere.
There(f) == ReadLength(f) = 0 \/ (rpos \in DOMAIN compressed /\ compressed[rpos] = f)

ReadField ==
  /\ frame.pc = "restored" /\ Left
  /\ There(NextField)
  /\ got' = [f \in DOMAIN got \cup {NextField} |->
               IF f = NextField THEN Value(f) ELSE got[f]]
  /\ rpos' = rpos + ReadLength(NextField)
  /\ read' = read + 1
  /\ UNCHANGED <<m, compressed, written, wpos, frame>>

Finished ==
  /\ frame.pc = "corrupt" \/ (frame.pc = "restored" /\ (Left => ~There(NextField)))
  /\ UNCHANGED vars

Next == WriteField \/ Pack \/ Unpack \/ ReadField \/ Finished

Spec == Init /\ [][Next]_vars /\ WF_vars(WriteField \/ Pack \/ Unpack \/ ReadField)

----------------------------------------------------------------------------
\* The fields written do not overlap and end where the compressor stands; the
\* decompressor stands before that.
TypeOK ==
  /\ m \in Messages
  /\ written \in 0 .. Len(WriteOrder) /\ wpos \in Nat /\ rpos \in 0 .. wpos
  /\ \A p \in DOMAIN compressed :
       /\ p + WrittenLength(compressed[p]) <= wpos
       /\ \A q \in DOMAIN compressed : p < q => p + WrittenLength(compressed[p]) <= q

\* Whatever has bytes, the decompressor finds it exactly where the fields read
\* so far make it look.
FieldsLineUp ==
  frame.pc = "restored" /\ Left => There(NextField)

\* The decompressor ends, having got the stream back from the lossless
\* compressor, which hands on a size that does not count its header, and having
\* read it to its last byte.
ReadsWholeStream == <>(written = Len(WriteOrder) /\ ~Left /\ rpos = wpos)

\* The indicators the older codec reads are those it wrote, no more and no
\* fewer, whether or not the last byte is full.
IndicatorsSurvive ==
  <<"indicator_bits", "">> \in DOMAIN got =>
    Unpacked(Len(m.indicator), got[<<"indicator_bits", "">>]) = m.indicator

\* However badly zstd compresses the stream, and however many blocks it makes
\* of it, the frame lies inside its allocation, which zstd believes to be eight
\* bytes larger than it is; and zstd does not give up, which nobody would notice.
FrameFits ==
  frame.pc = "framed" =>
    frame.size # ZstdError /\ frame.first + frame.size <= frame.allocated

\* The stream never outgrows the memory allocated for it by its estimated
\* size.
FitsEstimate == wpos * Estimate[2] <= NumElements * m.sizeof_T * Estimate[1]
=============================================================================
