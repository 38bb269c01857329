------------------------------ MODULE KnlPass ------------------------------
(***************************************************************************)
(* What compressor and decompressor of the knl path share: the arguments   *)
(* of the call, the arrays that travel in the compressed stream, and the   *)
(* local state of one pass over the array.                                 *)
(*                                                                         *)
(* A stream array is the map of what has been written to it, by position.  *)
(* Huffman coding and zstd return it unchanged as long as every symbol is  *)
(* in the alphabet; the properties check the alphabet, not the coders.     *)
(***************************************************************************)
EXTENDS Quantizer, Predictors

CONSTANTS
  Calls,     (* the calls of sz_compress_3d_knl_2 considered: records of   *)
             (*   size, layer, dim, two, linear, poly        (sz_params)   *)
             (*   use_mean, mean, capacity         (optimize_quant_invl)   *)
  Inputs(_)  (* the data arrays considered for a call                      *)

ASSUME CallsAssumption ==
  \A k \in Calls :
    /\ k.capacity \in Nat /\ k.capacity % 2 = 0
    /\ k.capacity > (IF k.use_mean THEN 2 ELSE 0) /\ k.capacity < IntMax
    /\ k.use_mean \in BOOLEAN /\ k.mean \in Int /\ k.layer \in {1, 2}
    /\ IsSize(k.size)

ASSUME InputsAssumption ==
  \A k \in Calls : \A d \in Inputs(k) :
    /\ DOMAIN d = 0 .. k.size.num_elements - 1
    /\ \A a \in DOMAIN d : /\ d[a] \in Int
                           /\ k.use_mean => Fl(d[a] - k.mean) \in Int

VARIABLES
  call, data,  (* the arguments, fixed                                     *)
  stream       (* what travels: type, the quantization codes; unpred, the  *)
               (*   values without a code, by lane and rank in the lane;   *)
               (*   indicator, the predictor of each block; reg_params and *)
               (*   reg_poly_params, dequantized regression coefficients   *)

Put(f, k, v) == [x \in DOMAIN f \cup {k} |-> IF x = k THEN v ELSE f[x]]
Empty == [x \in {} |-> x]
EmptyStream == [type |-> Empty, unpred |-> Empty, indicator |-> Empty,
                reg_params |-> Empty, reg_poly_params |-> Empty]

Radius(k) == k.capacity \div 2                                  \* intv_radius
CapacityLorenzo(k) == IF k.use_mean THEN k.capacity - 2 ELSE k.capacity

\* unpred_data_buffer has one lane per position in a slice of a block, of
\* this many slots each (est_unpred_count_per_index).
Lanes(size) == 0 .. size.block_size * size.block_size - 1
LaneLength_perBlock(size) == size.num_blocks
LaneLength(size) == size.num_blocks * size.block_size

----------------------------------------------------------------------------
(* The local state of a pass: the cursor, the buffer, the counts of the    *)
(* lanes, the selection and coefficients of the current block, and the     *)
(* pointers into indicator, reg_params and reg_poly_params.                *)
PassStart(k) ==
  [pc |-> "block", c |-> CursorStart,
   pred_buffer |-> [a \in 0 .. BufferLength(k.size, k.layer) - 1 |-> 0],
   unpred_count |-> [l \in Lanes(k.size) |-> 0],
   selection |-> "LORENZO", coeffs |-> <<>>,
   indicator_pos |-> 0, reg_pos |-> 0, reg_poly_pos |-> 0]

IsLorenzo(sel) == sel \in {"LORENZO", "LORENZO_2LAYER"}

Prediction(k, s) ==
  Fl(CASE s.selection = "REGRESSION" -> RegressionPrediction(s.coeffs, s.c)
       [] s.selection = "REGRESSION_POLY" -> PolyPrediction(s.coeffs, s.c)
       [] OTHER -> LorenzoPrediction(k.size, k.layer, k.dim,
                                     s.selection = "LORENZO_2LAYER", s.pred_buffer, s.c))

\* The end of a block: the pointers move on, and after a plane of blocks the
\* last planes of the buffer become its ghost planes.
AfterBlock(k, s) ==
  [s EXCEPT
     !.c = NextBlock(k.size, k.layer, @),
     !.pred_buffer = IF LastPlane(k.size, s.c) THEN SlideBuffer(k.size, k.layer, @) ELSE @,
     !.indicator_pos = @ + 1,
     !.reg_pos = @ + (IF s.selection = "REGRESSION" THEN 1 ELSE 0),
     !.reg_poly_pos = @ + (IF s.selection = "REGRESSION_POLY" THEN 1 ELSE 0),
     !.pc = IF LastBlock(k.size, s.c) THEN "done" ELSE "block"]

\* The cursor after an element, and where the pass goes from there.
AfterElement(k, c) == IF LastInBlock(k.size, c) THEN c ELSE NextElement(k.size, c)
PcAfterElement(k, c) == IF LastInBlock(k.size, c) THEN "leave" ELSE "element"
=============================================================================
