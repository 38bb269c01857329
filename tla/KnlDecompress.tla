--------------------------- MODULE KnlDecompress ---------------------------
(***************************************************************************)
(* prediction_and_decompression_3d_with_border_prediction_and_knl_         *)
(* optimization, the pass of sz_decompress_3d_knl that replays the         *)
(* compressor's: it reads the stream arrays, never the data.               *)
(***************************************************************************)
EXTENDS KnlPass

CONSTANT Unset   (* an element of dec_data that has not been written       *)

VARIABLES
  dec,           (* the local state of the pass                            *)
  dec_data       (* the output array                                       *)

\* The state inside a block whose predictor and coefficients st holds.
EnteredBlock(st, s) ==
  LET sel == st.indicator[s.indicator_pos]
  IN  [s EXCEPT !.pc = "element", !.selection = sel,
         !.coeffs = CASE sel = "REGRESSION" -> st.reg_params[s.reg_pos]
                      [] sel = "REGRESSION_POLY" -> st.reg_poly_params[s.reg_poly_pos]
                      [] OTHER -> <<>>]

EnterBlock ==
  /\ dec.pc = "block"
  /\ dec' = EnteredBlock(stream, dec)
  /\ UNCHANGED <<call, data, stream, dec_data>>

Decoded_meanAnywhere(k, s, t, v) ==
  IF t = 0 THEN v
  ELSE IF t = 1 /\ k.use_mean THEN k.mean
  ELSE Recover(Prediction(k, s), t, Radius(k))
\* The value of code t: the next of the lane, v, for code 0; the mean for code
\* 1 of a Lorenzo block when it is used; else the recovered prediction.
Decoded(k, s, t, v) ==
  IF t = 0 THEN v
  ELSE IF t = 1 /\ k.use_mean /\ IsLorenzo(s.selection) THEN k.mean
  ELSE Recover(Prediction(k, s), t, Radius(k))

CodeOf(k, st, s) == st.type[TypeAt(k.size, s.c)]
NextOfLane(st, s, lane) == st.unpred[<<lane, s.unpred_count[lane]>>]
ElementValue(k, st, s) ==
  Decoded(k, s, CodeOf(k, st, s), NextOfLane(st, s, LaneOf(k.size, s.c)))

\* The state after the element of code t has been given the value v.
DecodedElement(k, s, t, v) ==
  [s EXCEPT !.pred_buffer[BufAt(k.size, k.layer, s.c)] = v,
            !.unpred_count[LaneOf(k.size, s.c)] = @ + (IF t = 0 THEN 1 ELSE 0),
            !.c = AfterElement(k, @),
            !.pc = PcAfterElement(k, s.c)]

DecodeElement ==
  /\ dec.pc = "element"
  /\ \E v \in {ElementValue(call, stream, dec)} :
       /\ dec_data' = [dec_data EXCEPT ![DataAt(call.size, dec.c)] = v]
       /\ dec' = DecodedElement(call, dec, CodeOf(call, stream, dec), v)
  /\ UNCHANGED <<call, data, stream>>

ExitBlock ==
  /\ dec.pc = "leave"
  /\ dec' = AfterBlock(call, dec)
  /\ UNCHANGED <<call, data, stream, dec_data>>

DecompressInit ==
  /\ dec = PassStart(call)
  /\ dec_data = [a \in 0 .. call.size.num_elements - 1 |-> Unset]

DecompressStep == EnterBlock \/ DecodeElement \/ ExitBlock
=============================================================================
