---------------------------- MODULE KnlRoundTrip ----------------------------
(***************************************************************************)
(* Compression followed by decompression on the knl path: the compressor   *)
(* runs to its end and the decompressor replays the stream it left.  Every *)
(* decision of the decompressor has to repeat the compressor's from the    *)
(* stream alone, or every later element is wrong.                          *)
(*                                                                         *)
(* trace and replayed are history variables: the compressor's local state  *)
(* before each of its steps, and the number of steps the decompressor made.*)
(***************************************************************************)
EXTENDS KnlCompress, KnlDecompress, Sequences

VARIABLES trace, replayed

vars == <<call, data, stream, enc, dec, dec_data, trace, replayed>>

Init == CompressInit /\ DecompressInit /\ trace = <<>> /\ replayed = 0

Compress ==
  /\ CompressStep
  /\ trace' = Append(trace, enc)
  /\ UNCHANGED <<dec, dec_data, replayed>>

Decompress ==
  /\ enc.pc = "done"
  /\ DecompressStep
  /\ replayed' = replayed + 1
  /\ UNCHANGED <<enc, trace>>

Finished == enc.pc = "done" /\ dec.pc = "done" /\ UNCHANGED vars

Next == Compress \/ Decompress \/ Finished

Spec == Init /\ [][Next]_vars /\ WF_vars(Compress \/ Decompress)

----------------------------------------------------------------------------
\* A pass stays inside its array: inside the blocks, inside the block, inside
\* the lanes; the buffer and the lanes keep their length.
PassOK(k, s) ==
  /\ DOMAIN s = {"pc", "c", "pred_buffer", "unpred_count", "selection", "coeffs",
                  "indicator_pos", "reg_pos", "reg_poly_pos"}
  /\ s.pc \in {"block", "element", "leave", "done"}
  /\ s.c \in Cursors
  /\ s.pc # "done" => AtElement(k.size, s.c)
  /\ DOMAIN s.pred_buffer = 0 .. BufferLength(k.size, k.layer) - 1
  /\ s.unpred_count \in [Lanes(k.size) -> Nat]
  /\ s.indicator_pos \in Nat /\ s.reg_pos \in Nat /\ s.reg_poly_pos \in Nat

\* Both passes stay inside their arrays, every element handed out has its place
\* in the output, and no more is replayed than was recorded.
TypeOK ==
  /\ call \in Calls /\ data \in Inputs(call)
  /\ PassOK(call, enc) /\ PassOK(call, dec)
  /\ DOMAIN dec_data = 0 .. call.size.num_elements - 1
  /\ replayed \in 0 .. Len(trace)

\* The compressor's state after n steps.
EncoderAfter(n) == IF n < Len(trace) THEN trace[n + 1] ELSE enc

\* After n steps the decompressor is in the state the compressor was in after
\* n steps: same cursor, same prediction buffer bit for bit, same lane counts,
\* same predictor and coefficients.  Codes 0 and 1 are therefore never mistaken
\* and every lane is read in the order it was written.
Lockstep == dec = EncoderAfter(replayed)

\* Every element handed out is within the precision of the datum: what
\* "error-bounded" means.
ErrorBound ==
  \A a \in DOMAIN dec_data :
    dec_data[a] # Unset => WithinPrecision(data[a], dec_data[a])

\* Every code is an interval number within 0 .. capacity - 1, so it is a symbol
\* of the Huffman tree, which sz_compress_3d_knl_2 sizes for 2 * capacity.
TypeInAlphabet ==
  \A n \in DOMAIN stream.type : stream.type[n] \in 0 .. call.capacity - 1

\* No lane of unpred_data_buffer outgrows its slots, whatever part of the data
\* is unpredictable, so no lane overwrites the next.
LaneFits ==
  \A l \in Lanes(call.size) : enc.unpred_count[l] <= LaneLength(call.size)

\* The round trip is an error-bounded codec: the output appears element by
\* element, each once and within the bound, and nothing else changes it.
Codec == INSTANCE ErrorBoundedCodec
           WITH output <- dec_data, Within <- WithinPrecision
ImplementsCodec == Codec!Spec

\* Both passes end and every element has been produced by then.
OutputCompletes == <>(Codec!Completed /\ dec.pc = "done")
=============================================================================
