---------------------------- MODULE KnlCompress ----------------------------
(***************************************************************************)
(* prediction_and_quantization_3d_with_border_predicition_and_knl_         *)
(* optimization, the prediction and quantization pass of                   *)
(* sz_compress_3d_knl_2.  The regression coefficients a block gets and the *)
(* predictor it selects depend on the data through code modelled           *)
(* elsewhere; here any coefficients and any enabled predictor may come.    *)
(***************************************************************************)
EXTENDS KnlPass

CONSTANTS
  RegCoeffs,     (* dequantized linear coefficients, 4-tuples              *)
  RegPolyCoeffs  (* dequantized polynomial coefficients, 10-tuples         *)

VARIABLE enc     (* the local state of the pass                            *)

MinSizeAtLeast(size, c, n) ==
  SizeX(size, c) >= n /\ SizeY(size, c) >= n /\ SizeZ(size, c) >= n

\* What sz_blockwise_selection_3d may return: Lorenzo also when it is not
\* enabled, the others only when they are.
Selectable(k, c) ==
  {"LORENZO"} \cup {s \in {"LORENZO_2LAYER"} : k.two}
              \cup {s \in {"REGRESSION"} : k.linear /\ MinSizeAtLeast(k.size, c, 2)}
              \cup {s \in {"REGRESSION_POLY"} : k.poly /\ MinSizeAtLeast(k.size, c, 3)}

SelectPredictor ==
  /\ enc.pc = "block"
  /\ \E sel \in Selectable(call, enc.c) :
     \E p \in (CASE sel = "REGRESSION" -> RegCoeffs
                 [] sel = "REGRESSION_POLY" -> RegPolyCoeffs
                 [] OTHER -> {<<>>}) :
       /\ stream' = [stream EXCEPT
            !.indicator = Put(@, enc.indicator_pos, sel),
            !.reg_params = IF sel = "REGRESSION" THEN Put(@, enc.reg_pos, p) ELSE @,
            !.reg_poly_params =
              IF sel = "REGRESSION_POLY" THEN Put(@, enc.reg_poly_pos, p) ELSE @]
       /\ enc' = [enc EXCEPT !.pc = "element", !.selection = sel, !.coeffs = p]
  /\ UNCHANGED <<call, data>>

\* The code and the reconstruction of cur: the mean, in Lorenzo blocks when
\* it is used, else what the quantizer gives against the prediction.
Encoded(k, s, cur, pred) ==
  IF IsLorenzo(s.selection)
  THEN IF k.use_mean /\ Abs(Fl(cur - k.mean)) < Precision
       THEN [type |-> 1, dec |-> k.mean]
       ELSE Quantize(cur, pred, CapacityLorenzo(k), Radius(k))
  ELSE Quantize(cur, pred, k.capacity, Radius(k))

EncodeElement ==
  /\ enc.pc = "element"
  /\ \E cur \in {data[DataAt(call.size, enc.c)]}, pred \in {Prediction(call, enc)} :
     \E e \in {Encoded(call, enc, cur, pred)} :
       LET lane == LaneOf(call.size, enc.c)
       IN  /\ stream' = [stream EXCEPT
                !.type = Put(@, TypeAt(call.size, enc.c), e.type),
                !.unpred = IF e.type = 0
                           THEN Put(@, <<lane, enc.unpred_count[lane]>>, cur) ELSE @]
           /\ enc' = [enc EXCEPT
                !.pred_buffer[BufAt(call.size, call.layer, enc.c)] = e.dec,
                !.unpred_count[lane] = @ + (IF e.type = 0 THEN 1 ELSE 0),
                !.c = AfterElement(call, @),
                !.pc = PcAfterElement(call, enc.c)]
  /\ UNCHANGED <<call, data>>

LeaveBlock ==
  /\ enc.pc = "leave"
  /\ enc' = AfterBlock(call, enc)
  /\ UNCHANGED <<call, data, stream>>

CompressInit ==
  /\ call \in Calls /\ data \in Inputs(call)
  /\ stream = EmptyStream
  /\ enc = PassStart(call)

CompressStep == SelectPredictor \/ EncodeElement \/ LeaveBlock
=============================================================================
