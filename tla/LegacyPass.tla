----------------------------- MODULE LegacyPass -----------------------------
(***************************************************************************)
(* What the older codec, sz_compress_3d and sz_decompress_3d, does in both *)
(* directions.  It knows two predictors, Lorenzo and the linear            *)
(* regression, always pads by one layer, keeps all values without a code   *)
(* in one array, and has two modes: with block_independant a block is      *)
(* predicted from itself alone, without it from the blocks before it.      *)
(*                                                                         *)
(* A call has the fields of KnlPass (layer 1, dim 3, neither two nor poly) *)
(* and block_independant.  Of the stream only type, unpred (by position),  *)
(* indicator (0 or 1) and reg_params are used.                             *)
(***************************************************************************)
EXTENDS KnlPass

\* RegThresholdSize3d: the least edge of a block that may use the regression.
RegThresholdSize3d == 4

ASSUME LegacyCallsAssumption ==
  \A k \in Calls :
    /\ k.block_independant \in BOOLEAN
    /\ k.layer = 1 /\ k.dim = 3 /\ ~k.two /\ ~k.poly

\* How many values unpredictable_data has room for.
Reserve(size) == size.num_elements \div 20

\* The older quantizer compares before it converts to int, and computes the
\* reconstruction with one rounding.
LegacyQuantize_unchecked(cur, pred, capacity, radius) ==
  LET diff == Fl(cur - pred)
      half == (Scale(Abs(diff)) + 1) \div 2
  IN  IF Scale(Abs(diff)) + 1 < capacity
      THEN [type |-> IF diff > 0 THEN radius + half ELSE radius - half,
            dec  |-> Fl(pred + 2 * (IF diff > 0 THEN half ELSE -half) * Precision)]
      ELSE [type |-> 0, dec |-> cur]
LegacyQuantize_offByOne(cur, pred, capacity, radius) ==
  LET diff == Fl(cur - pred)
      half == (Scale(Abs(diff)) + 1) \div 2
      dec  == Fl(pred + 2 * (IF diff > 0 THEN half ELSE -half) * Precision)
  IN  IF Scale(Abs(diff)) + 1 <= capacity /\ WithinPrecision(cur, dec)
      THEN [type |-> IF diff > 0 THEN radius + half ELSE radius - half, dec |-> dec]
      ELSE [type |-> 0, dec |-> cur]
LegacyQuantize(cur, pred, capacity, radius) ==
  LET diff == Fl(cur - pred)
      half == (Scale(Abs(diff)) + 1) \div 2                    \* quant_diff / 2
      dec  == Fl(pred + 2 * (IF diff > 0 THEN half ELSE -half) * Precision)
  IN  IF Scale(Abs(diff)) + 1 < capacity /\ WithinPrecision(cur, dec)
      THEN [type |-> IF diff > 0 THEN radius + half ELSE radius - half, dec |-> dec]
      ELSE [type |-> 0, dec |-> cur]

LegacyRecover(pred, type, radius) == Fl(pred + 2 * (type - radius) * Precision)

----------------------------------------------------------------------------
(* The prediction buffer: that of one block, used again for every block,   *)
(* or planes of the whole array, as in the knl passes.                     *)
BufferSize(k) ==
  LET bs == k.size.block_size
  IN  IF k.block_independant THEN DSize_3d(bs, bs, bs, bs) ELSE k.size
BufferAt(k, c) ==
  BufAt(BufferSize(k), 1, IF k.block_independant THEN [c EXCEPT !.buf = 0] ELSE c)

LegacyStart(k) ==
  [pc |-> "block", c |-> CursorStart,
   pred_buffer |-> [a \in 0 .. BufferLength(BufferSize(k), 1) - 1 |-> 0],
   indicator |-> 0, coeffs |-> <<>>, unpred_pos |-> 0,
   indicator_pos |-> 0, reg_pos |-> 0]

LegacyPrediction(k, s) ==
  Fl(IF s.indicator = 1 THEN RegressionPrediction(s.coeffs, s.c)
     ELSE LorenzoPrediction(BufferSize(k), 1, 3, FALSE, s.pred_buffer,
                            IF k.block_independant THEN [s.c EXCEPT !.buf = 0] ELSE s.c))

WritesBuffer_lorenzoOnly(k, s) == s.indicator = 0
\* Nothing else of its block reads what a regression block reconstructs.
WritesBuffer(k, s) == s.indicator = 0 \/ ~k.block_independant

\* The state after an element with code t that stands for the value v.
LegacyElement(k, s, t, v) ==
  [s EXCEPT !.pred_buffer = IF WritesBuffer(k, s)
                            THEN [@ EXCEPT ![BufferAt(k, s.c)] = v] ELSE @,
            !.unpred_pos = @ + (IF t = 0 THEN 1 ELSE 0),
            !.c = AfterElement(k, @),
            !.pc = PcAfterElement(k, s.c)]

\* The end of a block; the planes of the buffer slide only where they are kept.
AfterLegacyBlock(k, s) ==
  [s EXCEPT
     !.c = NextBlock(k.size, 1, @),
     !.pred_buffer = IF LastPlane(k.size, s.c) /\ ~k.block_independant
                     THEN SlideBuffer(k.size, 1, @) ELSE @,
     !.indicator_pos = @ + 1,
     !.reg_pos = @ + s.indicator,
     !.pc = IF LastBlock(k.size, s.c) THEN "done" ELSE "block"]
=============================================================================
