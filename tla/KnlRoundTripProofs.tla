------------------------- MODULE KnlRoundTripProofs -------------------------
(***************************************************************************)
(* Proofs, for every shape of array, precision, rounding and choice of     *)
(* predictors, of the safety properties of the knl round trip: that the    *)
(* decompressor replays the compressor, that the two implement the         *)
(* abstract codec, and that no lane of values without a code outgrows its  *)
(* slots.                                                                  *)
(***************************************************************************)
EXTENDS KnlRoundTrip, BlockGeometryProofs

----------------------------------------------------------------------------
(* The local state of a pass.                                              *)

\* What the assumption says of one call.
LEMMA CallFacts ==
  ASSUME NEW k \in Calls
  PROVE  /\ IsSize(k.size) /\ k.layer \in Nat
         /\ k.capacity \in Nat /\ k.capacity % 2 = 0 /\ k.capacity < IntMax
         /\ k.use_mean \in BOOLEAN /\ k.mean \in Int
         /\ k.use_mean => k.capacity > 2
         /\ k.capacity > 0
  BY CallsAssumption

\* A pass starts at the first element of the array.
LEMMA PassStartOK ==
  ASSUME NEW k \in Calls
  PROVE  PassOK(k, PassStart(k))
  <1> DEFINE s == PassStart(k)
  <1>1. /\ DOMAIN s = {"pc", "c", "pred_buffer", "unpred_count", "selection", "coeffs",
                       "indicator_pos", "reg_pos", "reg_poly_pos"}
        /\ s.pc = "block" /\ s.c = CursorStart
        /\ s.pred_buffer = [a \in 0 .. BufferLength(k.size, k.layer) - 1 |-> 0]
        /\ s.unpred_count = [l \in Lanes(k.size) |-> 0]
        /\ s.indicator_pos = 0 /\ s.reg_pos = 0 /\ s.reg_poly_pos = 0
    BY DEF PassStart
  <1>2. s.c \in Cursors
    BY <1>1 DEF Cursors, CursorStart
  <1>3. /\ s.c.i = 0 /\ s.c.j = 0 /\ s.c.k = 0 /\ s.c.ii = 0 /\ s.c.jj = 0 /\ s.c.kk = 0
    BY <1>1 DEF CursorStart
  <1>4. s.c.i < k.size.num_x /\ s.c.j < k.size.num_y /\ s.c.k < k.size.num_z
    BY <1>3, CallFacts, SizeFacts
  <1>5. AtElement(k.size, s.c)
    BY <1>2, <1>3, <1>4, CallFacts, SizeFacts, BlockRange DEF AtElement
  <1> QED BY <1>1, <1>2, <1>5 DEF PassOK

\* An element step of either side keeps the pass inside its array.
LEMMA ElementStepOK ==
  ASSUME NEW k \in Calls, NEW s, NEW t, NEW v, PassOK(k, s), s.pc = "element"
  PROVE  PassOK(k, DecodedElement(k, s, t, v))
  <1> DEFINE n == DecodedElement(k, s, t, v)
             lane == LaneOf(k.size, s.c)
  <1>1. s.c \in Cursors /\ AtElement(k.size, s.c) /\ IsSize(k.size)
    BY CallFacts DEF PassOK
  <1>2. lane \in Lanes(k.size)
    BY <1>1, LaneOfRange DEF Lanes
  <1>3. /\ DOMAIN n = DOMAIN s
        /\ n.pc = PcAfterElement(k, s.c)
        /\ n.c = AfterElement(k, s.c)
        /\ n.pred_buffer = [s.pred_buffer EXCEPT ![BufAt(k.size, k.layer, s.c)] = v]
        /\ n.unpred_count = [s.unpred_count EXCEPT ![lane] = @ + (IF t = 0 THEN 1 ELSE 0)]
        /\ n.indicator_pos = s.indicator_pos
        /\ n.reg_pos = s.reg_pos /\ n.reg_poly_pos = s.reg_poly_pos
    BY DEF DecodedElement, PassOK
  <1>4. n.c \in Cursors /\ AtElement(k.size, n.c)
    BY <1>1, <1>3, NextElementStays DEF AfterElement
  <1>5. DOMAIN n.pred_buffer = DOMAIN s.pred_buffer
    BY <1>3
  <1>6. n.unpred_count \in [Lanes(k.size) -> Nat]
    BY <1>2, <1>3 DEF PassOK
  <1> QED BY <1>3, <1>4, <1>5, <1>6 DEF PassOK, PcAfterElement

\* So does the step out of a block.
LEMMA AfterBlockOK ==
  ASSUME NEW k \in Calls, NEW s, PassOK(k, s), s.pc = "leave"
  PROVE  PassOK(k, AfterBlock(k, s))
  <1> DEFINE n == AfterBlock(k, s)
  <1>1. s.c \in Cursors /\ AtElement(k.size, s.c) /\ IsSize(k.size) /\ k.layer \in Nat
    BY CallFacts DEF PassOK
  <1>2. /\ DOMAIN n = DOMAIN s
        /\ n.pc = IF LastBlock(k.size, s.c) THEN "done" ELSE "block"
        /\ n.c = NextBlock(k.size, k.layer, s.c)
        /\ n.pred_buffer = IF LastPlane(k.size, s.c)
                           THEN SlideBuffer(k.size, k.layer, s.pred_buffer) ELSE s.pred_buffer
        /\ n.unpred_count = s.unpred_count
        /\ n.indicator_pos = s.indicator_pos + 1
        /\ n.reg_pos = s.reg_pos + (IF s.selection = "REGRESSION" THEN 1 ELSE 0)
        /\ n.reg_poly_pos = s.reg_poly_pos + (IF s.selection = "REGRESSION_POLY" THEN 1 ELSE 0)
    BY DEF AfterBlock, PassOK
  <1>3. n.c \in Cursors /\ (n.pc # "done" => AtElement(k.size, n.c))
    BY <1>1, <1>2, NextBlockStays
  <1>4. DOMAIN n.pred_buffer = DOMAIN s.pred_buffer
    BY <1>2 DEF SlideBuffer
  <1>5. n.pc \in {"block", "element", "leave", "done"}
    BY <1>2
  <1>6. n.indicator_pos \in Nat /\ n.reg_pos \in Nat /\ n.reg_poly_pos \in Nat
    BY <1>2 DEF PassOK
  <1> QED BY <1>2, <1>3, <1>4, <1>5, <1>6 DEF PassOK

\* Entering a block changes no cursor, buffer, count or pointer.
LEMMA EnteredOK ==
  ASSUME NEW k \in Calls, NEW s, NEW sel, NEW p, PassOK(k, s), s.pc = "block"
  PROVE  PassOK(k, [s EXCEPT !.pc = "element", !.selection = sel, !.coeffs = p])
  <1> DEFINE n == [s EXCEPT !.pc = "element", !.selection = sel, !.coeffs = p]
  <1>1. /\ DOMAIN n = DOMAIN s /\ n.pc = "element" /\ n.c = s.c
        /\ n.pred_buffer = s.pred_buffer /\ n.unpred_count = s.unpred_count
        /\ n.indicator_pos = s.indicator_pos
        /\ n.reg_pos = s.reg_pos /\ n.reg_poly_pos = s.reg_poly_pos
    BY DEF PassOK
  <1> HIDE DEF n
  <1> QED BY <1>1 DEF PassOK

----------------------------------------------------------------------------
(* The quantizer.                                                          *)

\* A code the quantizer accepts is neither 0, which means no code, nor, with
\* the two codes the mean costs held back, 1, which means the mean; and the
\* decompressor recovers from it, against the same prediction, the very value
\* the compressor went on with.  Int overflow of the index does not break it.
LEMMA QuantizeRecovers ==
  ASSUME NEW cur, NEW pred, NEW capacity \in Nat, NEW limit \in Nat,
         capacity % 2 = 0, capacity > 0, capacity < IntMax, limit <= capacity
  PROVE  LET q == Quantize(cur, pred, limit, capacity \div 2)
         IN  \/ q.type = 0 /\ q.dec = cur
             \/ /\ q.type # 0 /\ (limit <= capacity - 2 => q.type # 1)
                /\ q.dec = Recover(pred, q.type, capacity \div 2)
                /\ WithinPrecision(cur, q.dec)
  <1> DEFINE r == capacity \div 2
             h == IntMax \div 2
             diff == Fl(cur - pred)
             product == ToInt(Scale(Abs(diff)))
             index == Wrap(product + 1)
             half == index \div 2
             quant == IF diff < 0 THEN Wrap(-Wrap(2 * half)) ELSE Wrap(2 * half)
             value == Fl(pred + Fl(quant * Precision))
             q == Quantize(cur, pred, limit, r)
  <1>1. h \in Nat /\ IntMax = 2 * h + 1 /\ IntMin = -2 * h - 2
    BY QuantizerAssumption DEF IntMin
  <1>2. r \in Nat \ {0} /\ capacity = 2 * r /\ r <= h
    BY <1>1
  <1>3. product \in 0 .. IntMax \/ product = IntMin
    BY DEF ToInt
  <1>4. index \in 1 .. IntMax \/ index \in {IntMin, IntMin + 1}
    BY <1>1, <1>3 DEF Wrap
  <1>5. CASE ~(index < limit /\ WithinPrecision(cur, value))
    BY <1>5 DEF Quantize
  <1>6. CASE index < limit /\ WithinPrecision(cur, value)
    <2>1. q = [type |-> IF diff < 0 THEN r - half ELSE r + half, dec |-> value]
      BY <1>6 DEF Quantize
    <2> HIDE DEF r, h, diff, product, value, q
    <2>2. \/ half \in 0 .. r - 1 /\ (limit <= capacity - 2 => half <= r - 2)
          \/ half = -h - 1
      BY <1>1, <1>2, <1>4, <1>6
    <2>3. q.type = (IF diff < 0 THEN r - half ELSE r + half) /\ q.dec = value
      BY <2>1
    <2> HIDE DEF index, half
    <2>4. quant = Wrap(2 * (q.type - r))
      <3>1. CASE half \in 0 .. r - 1
        BY <3>1, <2>3, <1>1, <1>2 DEF Wrap
      <3>2. CASE half = -h - 1
        BY <3>2, <2>3, <1>1, <1>2 DEF Wrap
      <3> QED BY <3>1, <3>2, <2>2
    <2>5. q.dec = Recover(pred, q.type, r)
      BY <2>3, <2>4 DEF Recover, value
    <2>6. q.type # 0 /\ (limit <= capacity - 2 => q.type # 1)
      BY <1>1, <1>2, <2>2, <2>3
    <2> QED BY <1>6, <2>3, <2>5, <2>6 DEF q, r
  <1> QED BY <1>5, <1>6

\* When the product does not overflow, codes are interval numbers.
LEMMA QuantizeInAlphabet ==
  ASSUME NEW cur, NEW pred, NEW capacity \in Nat, NEW limit \in Nat,
         capacity % 2 = 0, capacity > 0, capacity < IntMax, limit <= capacity,
         Scale(Abs(Fl(cur - pred))) \in 0 .. IntMax - 1
  PROVE  Quantize(cur, pred, limit, capacity \div 2).type \in 0 .. capacity - 1
  <1> DEFINE r == capacity \div 2
             diff == Fl(cur - pred)
             index == Wrap(ToInt(Scale(Abs(diff))) + 1)
             half == index \div 2
             type == Quantize(cur, pred, limit, r).type
  <1>1. r \in Nat \ {0} /\ capacity = 2 * r /\ IntMax \in Nat
    BY QuantizerAssumption
  <1>2. index \in 1 .. IntMax
    BY <1>1 DEF ToInt, Wrap, IntMin
  <1>3. \/ type = 0
        \/ index < limit /\ type = IF diff < 0 THEN r - half ELSE r + half
    BY DEF Quantize
  <1> HIDE DEF r, diff, index, type
  <1>4. CASE type = 0
    BY <1>1, <1>4 DEF type, r
  <1>5. CASE index < limit /\ type = IF diff < 0 THEN r - half ELSE r + half
    <2>1. half \in 0 .. r - 1
      BY <1>1, <1>2, <1>5
    <2>2. type \in 0 .. capacity - 1
      BY <2>1, <1>1, <1>5
    <2> QED BY <2>2 DEF type, r
  <1> QED BY <1>3, <1>4, <1>5

\* What the decompressor makes of a code is what the compressor made of the
\* datum, and within the precision of it.
LEMMA EncodedDecodes ==
  ASSUME NEW k \in Calls, NEW s, NEW cur, NEW e, NEW v,
         e = Encoded(k, s, cur, Prediction(k, s)), e.type = 0 => v = cur
  PROVE  /\ Decoded(k, s, e.type, v) = e.dec
         /\ cur \in Int /\ (k.use_mean => Fl(cur - k.mean) \in Int) =>
              WithinPrecision(cur, e.dec)
  <1> DEFINE pred == Prediction(k, s)
             r == Radius(k)
             mean == IsLorenzo(s.selection) /\ k.use_mean /\ Abs(Fl(cur - k.mean)) < Precision
             limit == IF IsLorenzo(s.selection) THEN CapacityLorenzo(k) ELSE k.capacity
  <1>1. cur \in Int => WithinPrecision(cur, cur)
    <2>1. cur \in Int => cur - cur = 0
      OBVIOUS
    <2> QED BY <2>1, QuantizerAssumption DEF WithinPrecision, Abs
  <1>2. CASE mean
    <2>1. e = [type |-> 1, dec |-> k.mean]
      BY <1>2 DEF Encoded
    <2>2. Decoded(k, s, 1, v) = k.mean
      BY <1>2 DEF Decoded
    <2>3. Fl(cur - k.mean) \in Int => WithinPrecision(cur, k.mean)
      BY <1>2, QuantizerAssumption DEF WithinPrecision, Abs
    <2> QED BY <2>1, <2>2, <2>3, <1>2
  <1>3. CASE ~mean
    <2>1. e = Quantize(cur, pred, limit, r)
      BY <1>3 DEF Encoded
    <2>2. /\ limit \in Nat /\ limit <= k.capacity
          /\ k.use_mean /\ IsLorenzo(s.selection) => limit <= k.capacity - 2
      BY CallFacts DEF CapacityLorenzo
    <2> HIDE DEF limit, pred
    <2>3. \/ e.type = 0 /\ e.dec = cur
          \/ /\ e.type # 0 /\ (limit <= k.capacity - 2 => e.type # 1)
             /\ e.dec = Recover(pred, e.type, r)
             /\ WithinPrecision(cur, e.dec)
      BY <2>1, <2>2, CallFacts, QuantizeRecovers DEF Radius
    <2>4. CASE e.type = 0
      BY <2>3, <2>4, <1>1 DEF Decoded
    <2>5. CASE e.type # 0
      BY <2>2, <2>3, <2>5 DEF Decoded, pred
    <2> QED BY <2>4, <2>5
  <1> QED BY <1>2, <1>3

----------------------------------------------------------------------------
(* The inductive invariant.                                                *)

\* How much of the stream the compressor has written in state s, exactly.
Codes(k, s) == TypeAt(k.size, s.c) + (IF s.pc = "leave" THEN 1 ELSE 0)
Inside(s) == IF s.pc \in {"element", "leave"} THEN 1 ELSE 0

StreamMatches(k, st, s) ==
  /\ DOMAIN st = {"type", "unpred", "indicator", "reg_params", "reg_poly_params"}
  /\ s.pc = "leave" => LastInBlock(k.size, s.c)
  /\ s.pc # "done" =>
       /\ DOMAIN st.type = 0 .. Codes(k, s) - 1
       /\ \A u \in DOMAIN st.unpred :
            u[1] \in Lanes(k.size) /\ u[2] \in 0 .. s.unpred_count[u[1]] - 1
       /\ DOMAIN st.indicator = 0 .. s.indicator_pos + Inside(s) - 1
       /\ DOMAIN st.reg_params =
            0 .. s.reg_pos + (IF s.selection = "REGRESSION" THEN Inside(s) ELSE 0) - 1
       /\ DOMAIN st.reg_poly_params =
            0 .. s.reg_poly_pos + (IF s.selection = "REGRESSION_POLY" THEN Inside(s) ELSE 0) - 1

\* The stream st holds what takes a decompressor from s to n, and if the step
\* hands out an element, its value is within the precision of the datum.
Replays(k, d, st, s, n) ==
  \/ /\ s.pc = "block"
     /\ s.indicator_pos \in DOMAIN st.indicator
     /\ st.indicator[s.indicator_pos] = "REGRESSION" => s.reg_pos \in DOMAIN st.reg_params
     /\ st.indicator[s.indicator_pos] = "REGRESSION_POLY" =>
          s.reg_poly_pos \in DOMAIN st.reg_poly_params
     /\ n = EnteredBlock(st, s)
  \/ /\ s.pc = "element"
     /\ TypeAt(k.size, s.c) \in DOMAIN st.type
     /\ CodeOf(k, st, s) = 0 =>
          <<LaneOf(k.size, s.c), s.unpred_count[LaneOf(k.size, s.c)]>> \in DOMAIN st.unpred
     /\ n = DecodedElement(k, s, CodeOf(k, st, s), ElementValue(k, st, s))
     /\ DataAt(k.size, s.c) \in DOMAIN d =>
          WithinPrecision(d[DataAt(k.size, s.c)], ElementValue(k, st, s))
  \/ /\ s.pc = "leave"
     /\ n = AfterBlock(k, s)

TraceReplays ==
  /\ trace \in Seq({trace[m] : m \in DOMAIN trace})
  /\ \A m \in 1 .. Len(trace) :
       /\ PassOK(call, trace[m])
       /\ Replays(call, data, stream, trace[m], EncoderAfter(m))
  /\ replayed \in 0 .. Len(trace)
  /\ enc.pc # "done" => replayed = 0

Inv ==
  /\ TypeOK
  /\ StreamMatches(call, stream, enc)
  /\ TraceReplays
  /\ Lockstep
  /\ ErrorBound

----------------------------------------------------------------------------
(* The stream only grows, and what has been replayable stays so.           *)

Grows(st, st2) ==
  \A f \in {"type", "unpred", "indicator", "reg_params", "reg_poly_params"} :
    \A x \in DOMAIN st[f] : x \in DOMAIN st2[f] /\ st2[f][x] = st[f][x]

\* What a decompressor can replay it can still replay when the compressor has
\* written more.
LEMMA ReplaysGrows ==
  ASSUME NEW k, NEW d, NEW st, NEW st2, NEW s, NEW n,
         Replays(k, d, st, s, n), Grows(st, st2)
  PROVE  Replays(k, d, st2, s, n)
  <1>1. /\ \A x \in DOMAIN st.type : x \in DOMAIN st2.type /\ st2.type[x] = st.type[x]
        /\ \A x \in DOMAIN st.unpred : x \in DOMAIN st2.unpred /\ st2.unpred[x] = st.unpred[x]
        /\ \A x \in DOMAIN st.indicator :
             x \in DOMAIN st2.indicator /\ st2.indicator[x] = st.indicator[x]
        /\ \A x \in DOMAIN st.reg_params :
             x \in DOMAIN st2.reg_params /\ st2.reg_params[x] = st.reg_params[x]
        /\ \A x \in DOMAIN st.reg_poly_params :
             x \in DOMAIN st2.reg_poly_params /\ st2.reg_poly_params[x] = st.reg_poly_params[x]
    BY DEF Grows
  <1>2. CASE s.pc = "block"
    <2>1. /\ s.indicator_pos \in DOMAIN st.indicator
          /\ st.indicator[s.indicator_pos] = "REGRESSION" => s.reg_pos \in DOMAIN st.reg_params
          /\ st.indicator[s.indicator_pos] = "REGRESSION_POLY" =>
               s.reg_poly_pos \in DOMAIN st.reg_poly_params
          /\ n = EnteredBlock(st, s)
      BY <1>2 DEF Replays
    <2>2. /\ s.indicator_pos \in DOMAIN st2.indicator
          /\ st2.indicator[s.indicator_pos] = st.indicator[s.indicator_pos]
          /\ st2.indicator[s.indicator_pos] = "REGRESSION" =>
               /\ s.reg_pos \in DOMAIN st2.reg_params
               /\ st2.reg_params[s.reg_pos] = st.reg_params[s.reg_pos]
          /\ st2.indicator[s.indicator_pos] = "REGRESSION_POLY" =>
               /\ s.reg_poly_pos \in DOMAIN st2.reg_poly_params
               /\ st2.reg_poly_params[s.reg_poly_pos] = st.reg_poly_params[s.reg_poly_pos]
      BY <2>1, <1>1
    <2>3. EnteredBlock(st2, s) = EnteredBlock(st, s)
      BY <2>2 DEF EnteredBlock
    <2> QED BY <1>2, <2>1, <2>2, <2>3 DEF Replays
  <1>3. CASE s.pc = "element"
    <2> DEFINE u == <<LaneOf(k.size, s.c), s.unpred_count[LaneOf(k.size, s.c)]>>
    <2>1. /\ TypeAt(k.size, s.c) \in DOMAIN st.type
          /\ CodeOf(k, st, s) = 0 => u \in DOMAIN st.unpred
          /\ n = DecodedElement(k, s, CodeOf(k, st, s), ElementValue(k, st, s))
          /\ DataAt(k.size, s.c) \in DOMAIN d =>
               WithinPrecision(d[DataAt(k.size, s.c)], ElementValue(k, st, s))
      BY <1>3 DEF Replays
    <2>2. /\ TypeAt(k.size, s.c) \in DOMAIN st2.type
          /\ CodeOf(k, st2, s) = CodeOf(k, st, s)
      BY <2>1, <1>1 DEF CodeOf
    <2>3. CodeOf(k, st, s) = 0 => u \in DOMAIN st2.unpred /\ st2.unpred[u] = st.unpred[u]
      BY <2>1, <1>1
    <2>4. ElementValue(k, st2, s) = ElementValue(k, st, s)
      BY <2>2, <2>3 DEF ElementValue, Decoded, NextOfLane
    <2> QED BY <1>3, <2>1, <2>2, <2>3, <2>4 DEF Replays
  <1>4. CASE s.pc = "leave"
    BY <1>4 DEF Replays
  <1> QED BY <1>2, <1>3, <1>4 DEF Replays

----------------------------------------------------------------------------
(* Each step of the compressor leaves in the stream what replays it.       *)

Replayable ==
  /\ PassOK(call, enc')
  /\ StreamMatches(call, stream', enc')
  /\ Grows(stream, stream')
  /\ Replays(call, data, stream', enc, enc')

\* The compressor's step out of a block can be replayed.
LEMMA LeaveBlockReplayable ==
  ASSUME TypeOK, StreamMatches(call, stream, enc), LeaveBlock
  PROVE  Replayable
  <1> DEFINE k == call
             n == AfterBlock(k, enc)
  <1>1. k \in Calls /\ PassOK(k, enc) /\ enc.pc = "leave" /\ enc' = n /\ stream' = stream
    BY DEF TypeOK, LeaveBlock
  <1>2. PassOK(k, n)
    BY <1>1, AfterBlockOK
  <1>3. Grows(stream, stream')
    BY <1>1 DEF Grows
  <1>4. Replays(k, data, stream', enc, enc')
    BY <1>1 DEF Replays
  <1>5. /\ n.pc \in {"block", "done"}
        /\ n.c = NextBlock(k.size, k.layer, enc.c)
        /\ n.unpred_count = enc.unpred_count /\ n.selection = enc.selection
        /\ n.indicator_pos = enc.indicator_pos + 1
        /\ n.reg_pos = enc.reg_pos + (IF enc.selection = "REGRESSION" THEN 1 ELSE 0)
        /\ n.reg_poly_pos =
             enc.reg_poly_pos + (IF enc.selection = "REGRESSION_POLY" THEN 1 ELSE 0)
    BY <1>1 DEF AfterBlock, PassOK
  <1>6. TypeAt(k.size, n.c) = TypeAt(k.size, enc.c) + 1
    <2>1. /\ IsSize(k.size) /\ k.layer \in Nat /\ enc.c \in Cursors
          /\ AtElement(k.size, enc.c) /\ LastInBlock(k.size, enc.c)
      BY <1>1, CallFacts DEF PassOK, StreamMatches
    <2> QED BY <2>1, <1>5, NextBlockStays
  <1>7. StreamMatches(k, stream, n)
    <2>1. DOMAIN stream.type = 0 .. Codes(k, n) - 1
      <3>1. DOMAIN stream.type = 0 .. Codes(k, enc) - 1
        BY <1>1 DEF StreamMatches
      <3>2. TypeAt(k.size, enc.c) \in Int
        BY <1>1, CallFacts, TypeAtInt DEF PassOK
      <3>3. Codes(k, n) = Codes(k, enc)
        BY <3>2, <1>1, <1>5, <1>6 DEF Codes
      <3> QED BY <3>1, <3>3
    <2>2. \A u \in DOMAIN stream.unpred :
            u[1] \in Lanes(k.size) /\ u[2] \in 0 .. n.unpred_count[u[1]] - 1
      BY <1>1, <1>5 DEF StreamMatches
    <2>3. Inside(enc) = 1 /\ Inside(n) = 0
      BY <1>1, <1>5 DEF Inside
    <2>4. /\ DOMAIN stream.indicator = 0 .. n.indicator_pos + 0 - 1
          /\ DOMAIN stream.reg_params = 0 .. n.reg_pos + 0 - 1
          /\ DOMAIN stream.reg_poly_params = 0 .. n.reg_poly_pos + 0 - 1
      <3>1. /\ DOMAIN stream.indicator = 0 .. enc.indicator_pos + 1 - 1
            /\ DOMAIN stream.reg_params =
                 0 .. enc.reg_pos + (IF enc.selection = "REGRESSION" THEN 1 ELSE 0) - 1
            /\ DOMAIN stream.reg_poly_params =
                 0 .. enc.reg_poly_pos + (IF enc.selection = "REGRESSION_POLY" THEN 1 ELSE 0) - 1
        BY <1>1, <2>3 DEF StreamMatches
      <3>2. /\ enc.indicator_pos \in Int /\ enc.reg_pos \in Int /\ enc.reg_poly_pos \in Int
        BY <1>1 DEF PassOK
      <3> HIDE DEF n
      <3>3. n.indicator_pos + 0 - 1 = enc.indicator_pos + 1 - 1
        BY <3>2, <1>5
      <3>4. n.reg_pos + 0 - 1 = enc.reg_pos + (IF enc.selection = "REGRESSION" THEN 1 ELSE 0) - 1
        BY <3>2, <1>5
      <3>5. n.reg_poly_pos + 0 - 1
              = enc.reg_poly_pos + (IF enc.selection = "REGRESSION_POLY" THEN 1 ELSE 0) - 1
        BY <3>2, <1>5
      <3> QED BY <3>1, <3>3, <3>4, <3>5
    <2>5. DOMAIN stream = {"type", "unpred", "indicator", "reg_params", "reg_poly_params"}
      BY <1>1 DEF StreamMatches
    <2> QED BY <1>5, <2>1, <2>2, <2>3, <2>4, <2>5 DEF StreamMatches
  <1> QED BY <1>1, <1>2, <1>3, <1>4, <1>7 DEF Replayable

\* So can its entry into a block: the indicator and the coefficients it wrote
\* lie where the decompressor looks for them.
LEMMA SelectPredictorReplayable ==
  ASSUME TypeOK, StreamMatches(call, stream, enc), SelectPredictor
  PROVE  Replayable
  <1> DEFINE k == call
             st == stream
             at == enc.indicator_pos
  <1>1. k \in Calls /\ PassOK(k, enc) /\ enc.pc = "block"
    BY DEF TypeOK, SelectPredictor
  <1>2. PICK sel \in Selectable(call, enc.c) :
        \E p \in (CASE sel = "REGRESSION" -> RegCoeffs
                    [] sel = "REGRESSION_POLY" -> RegPolyCoeffs
                    [] OTHER -> {<<>>}) :
          /\ stream' = [stream EXCEPT
               !.indicator = Put(@, enc.indicator_pos, sel),
               !.reg_params = IF sel = "REGRESSION" THEN Put(@, enc.reg_pos, p) ELSE @,
               !.reg_poly_params =
                 IF sel = "REGRESSION_POLY" THEN Put(@, enc.reg_poly_pos, p) ELSE @]
          /\ enc' = [enc EXCEPT !.pc = "element", !.selection = sel, !.coeffs = p]
    BY DEF SelectPredictor
  <1>3. PICK p \in (CASE sel = "REGRESSION" -> RegCoeffs
                      [] sel = "REGRESSION_POLY" -> RegPolyCoeffs
                      [] OTHER -> {<<>>}) :
          /\ stream' = [stream EXCEPT
               !.indicator = Put(@, enc.indicator_pos, sel),
               !.reg_params = IF sel = "REGRESSION" THEN Put(@, enc.reg_pos, p) ELSE @,
               !.reg_poly_params =
                 IF sel = "REGRESSION_POLY" THEN Put(@, enc.reg_poly_pos, p) ELSE @]
          /\ enc' = [enc EXCEPT !.pc = "element", !.selection = sel, !.coeffs = p]
    BY <1>2
  <1>4. sel = "REGRESSION" \/ sel = "REGRESSION_POLY" \/ p = <<>>
    BY <1>3
  <1> DEFINE n == [enc EXCEPT !.pc = "element", !.selection = sel, !.coeffs = p]
  <1>5. enc' = n
    BY <1>3
  <1>6. DOMAIN st = {"type", "unpred", "indicator", "reg_params", "reg_poly_params"}
    BY DEF StreamMatches
  <1>7. /\ DOMAIN stream' = DOMAIN st
        /\ stream'.type = st.type /\ stream'.unpred = st.unpred
        /\ stream'.indicator = Put(st.indicator, at, sel)
        /\ stream'.reg_params =
             IF sel = "REGRESSION" THEN Put(st.reg_params, enc.reg_pos, p) ELSE st.reg_params
        /\ stream'.reg_poly_params =
             IF sel = "REGRESSION_POLY" THEN Put(st.reg_poly_params, enc.reg_poly_pos, p)
             ELSE st.reg_poly_params
    BY <1>3, <1>6
  <1>8. at \in Nat /\ enc.reg_pos \in Nat /\ enc.reg_poly_pos \in Nat
    BY <1>1 DEF PassOK
  <1>9. /\ DOMAIN st.indicator = 0 .. at - 1
        /\ DOMAIN st.reg_params = 0 .. enc.reg_pos - 1
        /\ DOMAIN st.reg_poly_params = 0 .. enc.reg_poly_pos - 1
    <2>1. Inside(enc) = 0
      BY <1>1 DEF Inside
    <2>2. /\ DOMAIN st.indicator = 0 .. at + 0 - 1
          /\ DOMAIN st.reg_params = 0 .. enc.reg_pos + 0 - 1
          /\ DOMAIN st.reg_poly_params = 0 .. enc.reg_poly_pos + 0 - 1
      BY <1>1, <2>1 DEF StreamMatches
    <2> QED BY <2>2, <1>8
  <1>10. /\ at \notin DOMAIN st.indicator
         /\ enc.reg_pos \notin DOMAIN st.reg_params
         /\ enc.reg_poly_pos \notin DOMAIN st.reg_poly_params
    BY <1>8, <1>9
  <1>11. /\ n.pc = "element" /\ n.selection = sel /\ n.c = enc.c
         /\ n.unpred_count = enc.unpred_count /\ n.indicator_pos = at
         /\ n.reg_pos = enc.reg_pos /\ n.reg_poly_pos = enc.reg_poly_pos
    BY <1>1 DEF PassOK
  <1>12. PassOK(k, n)
    BY <1>1, EnteredOK
  <1> HIDE DEF n
  <1>a. /\ DOMAIN Put(st.indicator, at, sel) = DOMAIN st.indicator \cup {at}
        /\ Put(st.indicator, at, sel)[at] = sel
        /\ \A y \in DOMAIN st.indicator : Put(st.indicator, at, sel)[y] = st.indicator[y]
    BY <1>10 DEF Put
  <1>b. /\ DOMAIN Put(st.reg_params, enc.reg_pos, p) = DOMAIN st.reg_params \cup {enc.reg_pos}
        /\ Put(st.reg_params, enc.reg_pos, p)[enc.reg_pos] = p
        /\ \A y \in DOMAIN st.reg_params :
             Put(st.reg_params, enc.reg_pos, p)[y] = st.reg_params[y]
    BY <1>10 DEF Put
  <1>c. /\ DOMAIN Put(st.reg_poly_params, enc.reg_poly_pos, p)
             = DOMAIN st.reg_poly_params \cup {enc.reg_poly_pos}
        /\ Put(st.reg_poly_params, enc.reg_poly_pos, p)[enc.reg_poly_pos] = p
        /\ \A y \in DOMAIN st.reg_poly_params :
             Put(st.reg_poly_params, enc.reg_poly_pos, p)[y] = st.reg_poly_params[y]
    BY <1>10 DEF Put
  <1>13. Grows(st, stream')
    <2>1. \A x \in DOMAIN st.indicator :
            x \in DOMAIN stream'.indicator /\ stream'.indicator[x] = st.indicator[x]
      BY <1>7, <1>a
    <2>2. \A x \in DOMAIN st.reg_params :
            x \in DOMAIN stream'.reg_params /\ stream'.reg_params[x] = st.reg_params[x]
      BY <1>7, <1>b
    <2>3. \A x \in DOMAIN st.reg_poly_params :
            /\ x \in DOMAIN stream'.reg_poly_params
            /\ stream'.reg_poly_params[x] = st.reg_poly_params[x]
      BY <1>7, <1>c
    <2> QED BY <1>7, <2>1, <2>2, <2>3 DEF Grows
  <1>14. Replays(k, data, stream', enc, n)
    <2>1. at \in DOMAIN stream'.indicator /\ stream'.indicator[at] = sel
      BY <1>7, <1>a
    <2>2. sel = "REGRESSION" =>
            enc.reg_pos \in DOMAIN stream'.reg_params /\ stream'.reg_params[enc.reg_pos] = p
      BY <1>7, <1>b
    <2>3. sel = "REGRESSION_POLY" =>
            /\ enc.reg_poly_pos \in DOMAIN stream'.reg_poly_params
            /\ stream'.reg_poly_params[enc.reg_poly_pos] = p
      BY <1>7, <1>c
    <2>4. n = EnteredBlock(stream', enc)
      BY <2>1, <2>2, <2>3, <1>4 DEF EnteredBlock, n
    <2> QED BY <1>1, <2>1, <2>2, <2>3, <2>4 DEF Replays
  <1>15. StreamMatches(k, stream', n)
    <2>1. DOMAIN stream'.type = 0 .. Codes(k, n) - 1
      BY <1>1, <1>7, <1>11 DEF StreamMatches, Codes
    <2>2. \A u \in DOMAIN stream'.unpred :
            u[1] \in Lanes(k.size) /\ u[2] \in 0 .. n.unpred_count[u[1]] - 1
      BY <1>1, <1>7, <1>11 DEF StreamMatches
    <2>3. \A a \in Nat : /\ (0 .. a - 1) \cup {a} = 0 .. a + 1 - 1
                          /\ 0 .. a - 1 = 0 .. a + 0 - 1
      OBVIOUS
    <2>4. /\ DOMAIN stream'.indicator = (0 .. at - 1) \cup {at}
          /\ DOMAIN stream'.reg_params =
               IF sel = "REGRESSION" THEN (0 .. enc.reg_pos - 1) \cup {enc.reg_pos}
               ELSE 0 .. enc.reg_pos - 1
          /\ DOMAIN stream'.reg_poly_params =
               IF sel = "REGRESSION_POLY" THEN (0 .. enc.reg_poly_pos - 1) \cup {enc.reg_poly_pos}
               ELSE 0 .. enc.reg_poly_pos - 1
      BY <1>7, <1>9, <1>a, <1>b, <1>c
    <2>5. Inside(n) = 1
      BY <1>11 DEF Inside
    <2>6. DOMAIN stream'.indicator = 0 .. n.indicator_pos + Inside(n) - 1
      BY <2>3, <2>4, <2>5, <1>8, <1>11
    <2>7. DOMAIN stream'.reg_params =
            0 .. n.reg_pos + (IF n.selection = "REGRESSION" THEN Inside(n) ELSE 0) - 1
      BY <2>3, <2>4, <2>5, <1>8, <1>11
    <2>8. DOMAIN stream'.reg_poly_params =
            0 .. n.reg_poly_pos + (IF n.selection = "REGRESSION_POLY" THEN Inside(n) ELSE 0) - 1
      BY <2>3, <2>4, <2>5, <1>8, <1>11
    <2> QED BY <1>6, <1>7, <1>11, <2>1, <2>2, <2>6, <2>7, <2>8 DEF StreamMatches
  <1> QED BY <1>5, <1>12, <1>13, <1>14, <1>15 DEF Replayable

\* So can an element: its code lies at the cursor, a value without a code at
\* the end of its lane, and decoding them gives the compressor's reconstruction.
LEMMA EncodeElementReplayable ==
  ASSUME TypeOK, StreamMatches(call, stream, enc), EncodeElement
  PROVE  Replayable
  <1> DEFINE k == call
             st == stream
             lane == LaneOf(k.size, enc.c)
             count == enc.unpred_count[lane]
             at == TypeAt(k.size, enc.c)
  <1>1. /\ k \in Calls /\ PassOK(k, enc) /\ enc.pc = "element" /\ data \in Inputs(k)
        /\ IsSize(k.size) /\ enc.c \in Cursors /\ AtElement(k.size, enc.c)
    BY CallFacts DEF TypeOK, EncodeElement, PassOK
  <1> DEFINE cur == data[DataAt(k.size, enc.c)]
             pred == Prediction(k, enc)
             e == Encoded(k, enc, cur, pred)
  <1>2. /\ stream' = [stream EXCEPT
             !.type = Put(@, at, e.type),
             !.unpred = IF e.type = 0 THEN Put(@, <<lane, count>>, cur) ELSE @]
        /\ enc' = [enc EXCEPT
             !.pred_buffer[BufAt(k.size, k.layer, enc.c)] = e.dec,
             !.unpred_count[lane] = @ + (IF e.type = 0 THEN 1 ELSE 0),
             !.c = AfterElement(k, @),
             !.pc = PcAfterElement(k, enc.c)]
    BY DEF EncodeElement
  <1> HIDE DEF cur, pred, e
  <1> DEFINE n == DecodedElement(k, enc, e.type, e.dec)
  <1>3. enc' = n
    BY <1>2 DEF DecodedElement
  <1>4. PassOK(k, n)
    BY <1>1, ElementStepOK
  <1>5. DOMAIN st = {"type", "unpred", "indicator", "reg_params", "reg_poly_params"}
    BY DEF StreamMatches
  <1>6. /\ DOMAIN stream' = DOMAIN st
        /\ stream'.type = Put(st.type, at, e.type)
        /\ stream'.unpred =
             IF e.type = 0 THEN Put(st.unpred, <<lane, count>>, cur) ELSE st.unpred
        /\ stream'.indicator = st.indicator
        /\ stream'.reg_params = st.reg_params
        /\ stream'.reg_poly_params = st.reg_poly_params
    BY <1>2, <1>5
  <1>7. at \in Nat
    BY <1>1, TypeAtInt
  <1>8. lane \in Lanes(k.size) /\ enc.unpred_count \in [Lanes(k.size) -> Nat] /\ count \in Nat
    BY <1>1, LaneOfRange DEF Lanes, PassOK
  <1>9. DOMAIN st.type = 0 .. at - 1
    <2>1. DOMAIN st.type = 0 .. Codes(k, enc) - 1 /\ Codes(k, enc) = at + 0
      BY <1>1 DEF StreamMatches, Codes
    <2> QED BY <2>1, <1>7
  <1>10. \A u \in DOMAIN st.unpred :
           u[1] \in Lanes(k.size) /\ u[2] \in 0 .. enc.unpred_count[u[1]] - 1
    BY <1>1 DEF StreamMatches
  <1>11. at \notin DOMAIN st.type /\ <<lane, count>> \notin DOMAIN st.unpred
    BY <1>7, <1>8, <1>9, <1>10
  <1>12. /\ DOMAIN Put(st.type, at, e.type) = DOMAIN st.type \cup {at}
         /\ Put(st.type, at, e.type)[at] = e.type
         /\ \A y \in DOMAIN st.type : Put(st.type, at, e.type)[y] = st.type[y]
    BY <1>11 DEF Put
  <1>13. /\ DOMAIN Put(st.unpred, <<lane, count>>, cur) = DOMAIN st.unpred \cup {<<lane, count>>}
         /\ Put(st.unpred, <<lane, count>>, cur)[<<lane, count>>] = cur
         /\ \A y \in DOMAIN st.unpred :
              Put(st.unpred, <<lane, count>>, cur)[y] = st.unpred[y]
    BY <1>11 DEF Put
  <1>14. Grows(st, stream')
    <2>1. \A x \in DOMAIN st.type :
            x \in DOMAIN stream'.type /\ stream'.type[x] = st.type[x]
      BY <1>6, <1>12
    <2>2. \A x \in DOMAIN st.unpred :
            x \in DOMAIN stream'.unpred /\ stream'.unpred[x] = st.unpred[x]
      BY <1>6, <1>13
    <2> QED BY <1>6, <2>1, <2>2 DEF Grows
  <1>15. Replays(k, data, stream', enc, n)
    <2>1. at \in DOMAIN stream'.type /\ CodeOf(k, stream', enc) = e.type
      BY <1>6, <1>12 DEF CodeOf
    <2>2. e.type = 0 => /\ <<lane, count>> \in DOMAIN stream'.unpred
                        /\ NextOfLane(stream', enc, lane) = cur
      BY <1>6, <1>13 DEF NextOfLane
    <2>3. DataAt(k.size, enc.c) \in DOMAIN data =>
            cur \in Int /\ (k.use_mean => Fl(cur - k.mean) \in Int)
      BY <1>1, InputsAssumption DEF cur
    <2>4. e = Encoded(k, enc, cur, Prediction(k, enc))
      BY DEF e, pred
    <2>5. /\ Decoded(k, enc, e.type, NextOfLane(stream', enc, lane)) = e.dec
          /\ DataAt(k.size, enc.c) \in DOMAIN data => WithinPrecision(cur, e.dec)
      BY <1>1, <2>2, <2>3, <2>4, EncodedDecodes
    <2>6. ElementValue(k, stream', enc) = e.dec
      BY <2>1, <2>5 DEF ElementValue
    <2>7. DataAt(k.size, enc.c) \in DOMAIN data =>
            WithinPrecision(data[DataAt(k.size, enc.c)], ElementValue(k, stream', enc))
      BY <2>5, <2>6 DEF cur
    <2>8. n = DecodedElement(k, enc, CodeOf(k, stream', enc), ElementValue(k, stream', enc))
      BY <2>1, <2>6
    <2>9. CodeOf(k, stream', enc) = 0 => <<lane, count>> \in DOMAIN stream'.unpred
      BY <2>1, <2>2
    <2> HIDE DEF n
    <2> QED BY <1>1, <2>1, <2>7, <2>8, <2>9 DEF Replays
  <1>16. /\ n.pc = PcAfterElement(k, enc.c) /\ n.c = AfterElement(k, enc.c)
         /\ n.unpred_count = [enc.unpred_count EXCEPT ![lane] = @ + (IF e.type = 0 THEN 1 ELSE 0)]
         /\ n.selection = enc.selection /\ n.indicator_pos = enc.indicator_pos
         /\ n.reg_pos = enc.reg_pos /\ n.reg_poly_pos = enc.reg_poly_pos
    BY <1>1 DEF DecodedElement, PassOK
  <1> HIDE DEF n
  <1>17. StreamMatches(k, stream', n)
    <2>1. n.pc \in {"element", "leave"} /\ Inside(n) = 1 /\ Inside(enc) = 1
      BY <1>1, <1>16 DEF PcAfterElement, Inside
    <2>2. /\ n.pc = "leave" => LastInBlock(k.size, n.c)
          /\ Codes(k, n) = at + 1
      BY <1>1, <1>7, <1>16, NextElementStays DEF PcAfterElement, AfterElement, Codes
    <2>3. DOMAIN stream'.type = 0 .. Codes(k, n) - 1
      <3>1. DOMAIN stream'.type = (0 .. at - 1) \cup {at}
        BY <1>6, <1>9, <1>12
      <3>2. (0 .. at - 1) \cup {at} = 0 .. at + 1 - 1
        BY <1>7
      <3> QED BY <3>1, <3>2, <2>2
    <2>4. ASSUME NEW u \in DOMAIN stream'.unpred
          PROVE  u[1] \in Lanes(k.size) /\ u[2] \in 0 .. n.unpred_count[u[1]] - 1
      <3>1. CASE u \in DOMAIN st.unpred
        <4>1. u[1] \in Lanes(k.size) /\ u[2] \in 0 .. enc.unpred_count[u[1]] - 1
          BY <1>10, <3>1
        <4>2. n.unpred_count[u[1]] \in {enc.unpred_count[u[1]], enc.unpred_count[u[1]] + 1}
          BY <1>8, <1>16, <4>1
        <4>3. enc.unpred_count[u[1]] \in Nat
          BY <1>8, <4>1
        <4> QED BY <4>1, <4>2, <4>3
      <3>2. CASE u \notin DOMAIN st.unpred
        <4>1. e.type = 0 /\ u = <<lane, count>>
          BY <1>6, <1>13, <2>4, <3>2
        <4>2. n.unpred_count[lane] = count + 1
          BY <1>8, <1>16, <4>1
        <4> QED BY <1>8, <4>1, <4>2
      <3> QED BY <3>1, <3>2
    <2>5. /\ DOMAIN stream'.indicator = 0 .. n.indicator_pos + Inside(n) - 1
          /\ DOMAIN stream'.reg_params =
               0 .. n.reg_pos + (IF n.selection = "REGRESSION" THEN Inside(n) ELSE 0) - 1
          /\ DOMAIN stream'.reg_poly_params =
               0 .. n.reg_poly_pos + (IF n.selection = "REGRESSION_POLY" THEN Inside(n) ELSE 0) - 1
      BY <1>1, <1>6, <1>16, <2>1 DEF StreamMatches
    <2> QED BY <1>5, <1>6, <2>1, <2>2, <2>3, <2>4, <2>5 DEF StreamMatches
  <1> QED BY <1>3, <1>4, <1>14, <1>15, <1>17 DEF Replayable

----------------------------------------------------------------------------
(* The invariant holds.                                                    *)

\* The history of the compressor, one state longer.
LEMMA AppendFacts ==
  ASSUME NEW S, NEW q \in Seq(S), NEW x
  PROVE  /\ Append(q, x) \in Seq(S \cup {x})
         /\ Len(q) \in Nat /\ Len(Append(q, x)) = Len(q) + 1
         /\ \A i \in 1 .. Len(q) : Append(q, x)[i] = q[i]
         /\ Append(q, x)[Len(q) + 1] = x
         /\ DOMAIN q = 1 .. Len(q) /\ DOMAIN Append(q, x) = 1 .. Len(q) + 1
  <1>1. q \in Seq(S \cup {x})
    OBVIOUS
  <1> QED BY <1>1

\* The invariant holds at the start, is kept by every step of the compressor,
LEMMA InvInit ==
  ASSUME Init
  PROVE  Inv
  <1>1. /\ call \in Calls /\ data \in Inputs(call) /\ stream = EmptyStream
        /\ enc = PassStart(call) /\ dec = PassStart(call)
        /\ dec_data = [a \in 0 .. call.size.num_elements - 1 |-> Unset]
        /\ trace = <<>> /\ replayed = 0
    BY DEF Init, CompressInit, DecompressInit
  <1>2. PassOK(call, enc)
    BY <1>1, PassStartOK
  <1>3. TypeOK
    BY <1>1, <1>2 DEF TypeOK
  <1>4. StreamMatches(call, stream, enc)
    <2>1. /\ enc.pc = "block" /\ enc.c = CursorStart /\ enc.selection = "LORENZO"
          /\ enc.indicator_pos = 0 /\ enc.reg_pos = 0 /\ enc.reg_poly_pos = 0
      BY <1>1 DEF PassStart
    <2>2. Codes(call, enc) = 0
      <3>1. SizeZ(call.size, enc.c) \in Int
        BY <1>1, <1>2, <2>1, CallFacts, BlockRange DEF PassOK, AtElement
      <3> QED BY <2>1, <3>1 DEF Codes, TypeAt, LaneOf, CursorStart
    <2>3. Inside(enc) = 0
      BY <2>1 DEF Inside
    <2>4. /\ DOMAIN stream = {"type", "unpred", "indicator", "reg_params", "reg_poly_params"}
          /\ DOMAIN stream.type = {} /\ DOMAIN stream.unpred = {}
          /\ DOMAIN stream.indicator = {} /\ DOMAIN stream.reg_params = {}
          /\ DOMAIN stream.reg_poly_params = {}
      BY <1>1 DEF EmptyStream, Empty
    <2>5. {} = 0 .. 0 - 1 /\ {} = 0 .. 0 + 0 - 1
      OBVIOUS
    <2> QED BY <2>1, <2>2, <2>3, <2>4, <2>5 DEF StreamMatches
  <1>5. TraceReplays
    <2>1. trace \in Seq({trace[m] : m \in DOMAIN trace}) /\ Len(trace) = 0
      BY <1>1
    <2> QED BY <2>1, <1>1 DEF TraceReplays
  <1>6. Lockstep
    BY <1>1 DEF Lockstep, EncoderAfter
  <1>7. ErrorBound
    BY <1>1 DEF ErrorBound
  <1> QED BY <1>3, <1>4, <1>5, <1>6, <1>7 DEF Inv

\* which may extend the stream and the history but overwrites neither,
LEMMA InvCompress ==
  ASSUME Inv, Compress
  PROVE  Inv'
  <1>1. /\ TypeOK /\ StreamMatches(call, stream, enc) /\ TraceReplays
        /\ Lockstep /\ ErrorBound
    BY DEF Inv
  <1>2. /\ trace' = Append(trace, enc) /\ dec' = dec /\ dec_data' = dec_data
        /\ replayed' = replayed
    BY DEF Compress
  <1>3. call' = call /\ data' = data /\ enc.pc # "done"
    BY DEF Compress, CompressStep, SelectPredictor, EncodeElement, LeaveBlock
  <1>4. Replayable
    BY <1>1, SelectPredictorReplayable, EncodeElementReplayable, LeaveBlockReplayable
      DEF Compress, CompressStep
  <1>5. replayed = 0
    BY <1>1, <1>3 DEF TraceReplays
  <1> DEFINE S == {trace[m] : m \in DOMAIN trace}
  <1>6. /\ trace' \in Seq(S \cup {enc})
        /\ Len(trace) \in Nat /\ Len(trace') = Len(trace) + 1
        /\ \A i \in 1 .. Len(trace) : trace'[i] = trace[i]
        /\ trace'[Len(trace) + 1] = enc
        /\ DOMAIN trace = 1 .. Len(trace) /\ DOMAIN trace' = 1 .. Len(trace) + 1
    BY <1>1, <1>2, AppendFacts DEF TraceReplays
  <1>7. trace' \in Seq({trace'[m] : m \in DOMAIN trace'})
    BY <1>6
  <1>8. \A m \in 0 .. Len(trace) : EncoderAfter(m)' = EncoderAfter(m)
    BY <1>6 DEF EncoderAfter
  <1>9. \A m : m = Len(trace) + 1 => EncoderAfter(m)' = enc'
    <2>1. ~(Len(trace) + 1 < Len(trace'))
      BY <1>6
    <2> QED BY <2>1 DEF EncoderAfter
  <1>10. TypeOK'
    BY <1>1, <1>2, <1>3, <1>4, <1>6 DEF TypeOK, Replayable
  <1>11. TraceReplays'
    <2>1. ASSUME NEW m \in 1 .. Len(trace')
          PROVE  /\ PassOK(call', trace'[m])
                 /\ Replays(call', data', stream', trace'[m], EncoderAfter(m)')
      <3>1. CASE m \in 1 .. Len(trace)
        <4>1. /\ PassOK(call, trace[m])
              /\ Replays(call, data, stream, trace[m], EncoderAfter(m))
          BY <3>1, <1>1 DEF TraceReplays
        <4>2. Replays(call, data, stream', trace[m], EncoderAfter(m))
          BY <4>1, <1>4, ReplaysGrows DEF Replayable
        <4>3. trace'[m] = trace[m] /\ EncoderAfter(m)' = EncoderAfter(m)
          BY <3>1, <1>6, <1>8
        <4> QED BY <4>1, <4>2, <4>3, <1>3
      <3>2. CASE m = Len(trace) + 1
        <4>1. PassOK(call, enc) /\ Replays(call, data, stream', enc, enc')
          BY <1>1, <1>4 DEF Replayable, TypeOK
        <4>2. trace'[m] = enc /\ EncoderAfter(m)' = enc'
          BY <3>2, <1>6, <1>9
        <4> QED BY <4>1, <4>2, <1>3
      <3> QED BY <2>1, <3>1, <3>2, <1>6
    <2> QED BY <2>1, <1>2, <1>5, <1>6, <1>7 DEF TraceReplays
  <1>12. Lockstep'
    BY <1>1, <1>2, <1>5, <1>6, <1>8 DEF Lockstep
  <1>13. ErrorBound'
    BY <1>1, <1>2, <1>3 DEF ErrorBound
  <1> QED BY <1>3, <1>4, <1>10, <1>11, <1>12, <1>13 DEF Inv, Replayable

\* and by every step of the decompressor, which replays one step of the history.
LEMMA InvDecompress ==
  ASSUME Inv, Decompress
  PROVE  Inv'
  <1>1. /\ TypeOK /\ StreamMatches(call, stream, enc) /\ TraceReplays
        /\ Lockstep /\ ErrorBound
    BY DEF Inv
  <1>2. /\ enc.pc = "done" /\ DecompressStep /\ replayed' = replayed + 1
        /\ enc' = enc /\ trace' = trace
    BY DEF Decompress
  <1>3. call' = call /\ data' = data /\ stream' = stream /\ dec.pc # "done"
    BY <1>2 DEF DecompressStep, EnterBlock, DecodeElement, ExitBlock
  <1>4. \A m : EncoderAfter(m)' = EncoderAfter(m)
    BY <1>2 DEF EncoderAfter
  <1>5. Len(trace) \in Nat /\ replayed \in 0 .. Len(trace)
    BY <1>1 DEF TraceReplays
  <1>6. replayed < Len(trace) /\ dec = trace[replayed + 1]
    BY <1>1, <1>2, <1>3, <1>5 DEF Lockstep, EncoderAfter
  <1> DEFINE m == replayed + 1
  <1>7. /\ m \in 1 .. Len(trace)
        /\ PassOK(call, dec) /\ Replays(call, data, stream, dec, EncoderAfter(m))
    BY <1>1, <1>5, <1>6 DEF TraceReplays
  <1>8. /\ dec' = EncoderAfter(m)
        /\ DOMAIN dec_data' = DOMAIN dec_data
        /\ ErrorBound'
    <2>1. CASE EnterBlock
      <3>1. dec.pc = "block" /\ dec' = EnteredBlock(stream, dec) /\ dec_data' = dec_data
        BY <2>1 DEF EnterBlock
      <3> QED BY <3>1, <1>1, <1>3, <1>7 DEF Replays, ErrorBound
    <2>2. CASE DecodeElement
      <3> DEFINE v == ElementValue(call, stream, dec)
                 at == DataAt(call.size, dec.c)
      <3>1. /\ dec.pc = "element"
            /\ dec_data' = [dec_data EXCEPT ![at] = v]
            /\ dec' = DecodedElement(call, dec, CodeOf(call, stream, dec), v)
        BY <2>2 DEF DecodeElement
      <3>2. /\ EncoderAfter(m) = DecodedElement(call, dec, CodeOf(call, stream, dec), v)
            /\ at \in DOMAIN data => WithinPrecision(data[at], v)
        BY <3>1, <1>7 DEF Replays
      <3>3. DOMAIN dec_data = DOMAIN data
        BY <1>1, InputsAssumption DEF TypeOK
      <3> HIDE DEF v, at
      <3>4. ErrorBound'
        BY <3>1, <3>2, <3>3, <1>1, <1>3 DEF ErrorBound
      <3> QED BY <3>1, <3>2, <3>4
    <2>3. CASE ExitBlock
      <3>1. dec.pc = "leave" /\ dec' = AfterBlock(call, dec) /\ dec_data' = dec_data
        BY <2>3 DEF ExitBlock
      <3> QED BY <3>1, <1>1, <1>3, <1>7 DEF Replays, ErrorBound
    <2> QED BY <2>1, <2>2, <2>3, <1>2 DEF DecompressStep
  <1>9. PassOK(call, dec')
    <2>1. CASE m < Len(trace)
      <3>1. EncoderAfter(m) = trace[m + 1] /\ m + 1 \in 1 .. Len(trace)
        BY <2>1, <1>5 DEF EncoderAfter
      <3> QED BY <3>1, <1>1, <1>8 DEF TraceReplays
    <2>2. CASE ~(m < Len(trace))
      BY <2>2, <1>1, <1>8 DEF EncoderAfter, TypeOK
    <2> QED BY <2>1, <2>2
  <1>10. TypeOK'
    BY <1>1, <1>2, <1>3, <1>5, <1>6, <1>8, <1>9 DEF TypeOK
  <1>11. TraceReplays'
    BY <1>1, <1>2, <1>3, <1>4, <1>5, <1>6 DEF TraceReplays
  <1>12. Lockstep'
    BY <1>2, <1>4, <1>8 DEF Lockstep
  <1>13. StreamMatches(call, stream, enc)'
    BY <1>1, <1>2, <1>3
  <1> QED BY <1>8, <1>10, <1>11, <1>12, <1>13 DEF Inv

\* The inductive invariant: what has been written suffices to replay the
\* compressor's history, and the decompressor has replayed part of it.
THEOREM Invariance == Spec => []Inv
  <1>1. Init => Inv
    BY InvInit
  <1>2. Inv /\ [Next]_vars => Inv'
    <2> SUFFICES ASSUME Inv, [Next]_vars PROVE Inv'
      OBVIOUS
    <2>1. CASE Compress
      BY <2>1, InvCompress
    <2>2. CASE Decompress
      BY <2>2, InvDecompress
    <2>3. CASE Finished \/ UNCHANGED vars
      <3>1. /\ call' = call /\ data' = data /\ stream' = stream /\ enc' = enc /\ dec' = dec
            /\ dec_data' = dec_data /\ trace' = trace /\ replayed' = replayed
        BY <2>3 DEF Finished, vars
      <3> QED BY <3>1 DEF Inv, TypeOK, TraceReplays, Lockstep, ErrorBound, EncoderAfter
    <2> QED BY <2>1, <2>2, <2>3 DEF Next
  <1> QED BY <1>1, <1>2, PTL DEF Spec

\* Neither pass ever leaves the blocks of the array, its block or the lanes.
THEOREM TypeCorrect == Spec => []TypeOK
  <1>1. Inv => TypeOK
    BY DEF Inv
  <1> QED BY <1>1, Invariance, PTL

\* The decompressor repeats the compressor's states one by one: whatever the
\* array, the rounding of T, the predictors chosen and the coefficients.
THEOREM DecompressorInLockstep == Spec => []Lockstep
  <1>1. Inv => Lockstep
    BY DEF Inv
  <1> QED BY <1>1, Invariance, PTL

\* Every element handed out is within the precision of its datum.
THEOREM ErrorBounded == Spec => []ErrorBound
  <1>1. Inv => ErrorBound
    BY DEF Inv
  <1> QED BY <1>1, Invariance, PTL

----------------------------------------------------------------------------
(* The alphabet of the codes.                                              *)

\* The product |diff| * recip_precision fits an int at the element about to be
\* encoded.  Without this the theorem fails: the conversion gives INT_MIN.
NoOverflow ==
  enc.pc = "element" =>
    Scale(Abs(Fl(data[DataAt(call.size, enc.c)] - Prediction(call, enc)))) \in 0 .. IntMax - 1

\* In a run in which the product never overflows, every code is an interval
\* number, so the Huffman coder knows every symbol it is given.
THEOREM CodesInAlphabet == Spec /\ []NoOverflow => []TypeInAlphabet
  <1>1. Init => TypeInAlphabet
    BY DEF Init, CompressInit, EmptyStream, Empty, TypeInAlphabet
  <1>2. TypeOK /\ StreamMatches(call, stream, enc) /\ TypeInAlphabet /\ NoOverflow /\ [Next]_vars
          => TypeInAlphabet'
    <2> SUFFICES ASSUME TypeOK, StreamMatches(call, stream, enc), TypeInAlphabet, NoOverflow,
                        [Next]_vars
                 PROVE  TypeInAlphabet'
      OBVIOUS
    <2>1. call \in Calls
      BY DEF TypeOK
    <2>2. DOMAIN stream = {"type", "unpred", "indicator", "reg_params", "reg_poly_params"}
      BY DEF StreamMatches
    <2>3. CASE EncodeElement
      <3> DEFINE cur == data[DataAt(call.size, enc.c)]
                 pred == Prediction(call, enc)
                 e == Encoded(call, enc, cur, pred)
                 at == TypeAt(call.size, enc.c)
                 limit == IF IsLorenzo(enc.selection) THEN CapacityLorenzo(call)
                          ELSE call.capacity
      <3>1. call' = call /\ stream'.type = Put(stream.type, at, e.type)
        BY <2>2, <2>3 DEF EncodeElement
      <3>2. \/ e = [type |-> 1, dec |-> call.mean] /\ call.use_mean
            \/ e = Quantize(cur, pred, limit, Radius(call))
        BY DEF Encoded
      <3>3. limit \in Nat /\ limit <= call.capacity
        BY <2>1, CallFacts DEF CapacityLorenzo
      <3>6. Scale(Abs(Fl(cur - pred))) \in 0 .. IntMax - 1
        BY <2>3 DEF EncodeElement, NoOverflow
      <3> HIDE DEF cur, pred, e, at, limit
      <3>4. Quantize(cur, pred, limit, Radius(call)).type \in 0 .. call.capacity - 1
        BY <2>1, <3>3, <3>6, CallFacts, QuantizeInAlphabet DEF Radius
      <3>5. e.type \in 0 .. call.capacity - 1
        BY <2>1, <3>2, <3>4, CallFacts
      <3> QED BY <3>1, <3>5 DEF TypeInAlphabet, Put
    <2>4. CASE SelectPredictor \/ LeaveBlock \/ Decompress \/ Finished \/ UNCHANGED vars
      <3>1. call' = call /\ stream'.type = stream.type
        BY <2>2, <2>4 DEF SelectPredictor, LeaveBlock, Decompress, DecompressStep, EnterBlock,
                          DecodeElement, ExitBlock, Finished, vars
      <3> QED BY <3>1 DEF TypeInAlphabet
    <2> QED BY <2>3, <2>4 DEF Next, Compress, CompressStep
  <1>3. Inv => TypeOK /\ StreamMatches(call, stream, enc)
    BY DEF Inv
  <1> QED BY <1>1, <1>2, <1>3, Invariance, PTL DEF Spec

----------------------------------------------------------------------------
(* A pass and the elements it has passed.                                  *)

\* The pointers of a pass are where the bumps should have brought them.
Steady(k, s) ==
  s.pc # "done" => /\ Pointers(k.size, k.layer, s.c)
                   /\ s.pc = "leave" => LastInBlock(k.size, s.c)

\* The pass has handled the element at x, y, z.
Passed(k, s, x, y, z) ==
  \/ s.pc = "done"
  \/ Before(k.size, s.c, x, y, z)
  \/ s.pc = "leave" /\ At(k.size, s.c, x, y, z)

\* A pass starts with nothing passed.
LEMMA StartSteady ==
  ASSUME NEW k \in Calls
  PROVE  /\ Steady(k, PassStart(k))
         /\ \A x, y, z : InArray(k.size, x, y, z) => ~Passed(k, PassStart(k), x, y, z)
  <1> DEFINE s == PassStart(k)
  <1>1. s.pc = "block" /\ s.c = CursorStart
    BY DEF PassStart
  <1>2. IsSize(k.size) /\ k.layer \in Nat
    BY CallFacts
  <1>3. Pointers(k.size, k.layer, CursorStart)
    <2>1. /\ k.size.block_size \in Nat /\ k.size.dim0_offset \in Nat
          /\ k.size.dim1_offset \in Nat /\ k.size.d3 \in Nat
      BY <1>2, SizeFacts
    <2>2. BufferDim1(k.size, k.layer) \in Nat
      BY <1>2, <2>1 DEF BufferDim1
    <2> QED BY <2>1, <2>2 DEF Pointers, CursorStart
  <1> HIDE DEF s
  <1>4. ASSUME NEW x, NEW y, NEW z, InArray(k.size, x, y, z)
        PROVE  ~Passed(k, s, x, y, z)
    <2>1. ~Before(k.size, CursorStart, x, y, z)
      BY <1>2, <1>4, NothingFirst
    <2> QED BY <1>1, <2>1 DEF Passed
  <1>5. Steady(k, s)
    BY <1>1, <1>3 DEF Steady
  <1> QED BY <1>4, <1>5 DEF s

\* An element step passes the element under the cursor and no other.
LEMMA ElementStepSteady ==
  ASSUME NEW k \in Calls, NEW s, NEW n, PassOK(k, s), s.pc = "element", Steady(k, s),
         n.c = AfterElement(k, s.c), n.pc = PcAfterElement(k, s.c)
  PROVE  /\ Steady(k, n)
         /\ \A x, y, z : InArray(k.size, x, y, z) =>
              (Passed(k, n, x, y, z) <=> Passed(k, s, x, y, z) \/ At(k.size, s.c, x, y, z))
  <1>1. /\ s.c \in Cursors /\ AtElement(k.size, s.c) /\ IsSize(k.size) /\ k.layer \in Nat
        /\ Pointers(k.size, k.layer, s.c)
    BY CallFacts DEF PassOK, Steady
  <1>2. CASE LastInBlock(k.size, s.c)
    <2>1. n.c = s.c /\ n.pc = "leave"
      BY <1>2 DEF AfterElement, PcAfterElement
    <2> QED BY <1>1, <1>2, <2>1 DEF Steady, Passed
  <1>3. CASE ~LastInBlock(k.size, s.c)
    <2>1. n.c = NextElement(k.size, s.c) /\ n.pc = "element"
      BY <1>3 DEF AfterElement, PcAfterElement
    <2>2. Pointers(k.size, k.layer, n.c)
      BY <1>1, <2>1, PointersKept
    <2>3. ASSUME NEW x, NEW y, NEW z, InArray(k.size, x, y, z)
          PROVE  Before(k.size, n.c, x, y, z)
                   <=> Before(k.size, s.c, x, y, z) \/ At(k.size, s.c, x, y, z)
      BY <1>1, <1>3, <2>1, <2>3, BeforeNextElement
    <2> QED BY <2>1, <2>2, <2>3 DEF Steady, Passed
  <1> QED BY <1>2, <1>3

\* The step out of a block passes nothing more; with the last block all is
\* passed.
LEMMA AfterBlockSteady ==
  ASSUME NEW k \in Calls, NEW s, PassOK(k, s), s.pc = "leave", Steady(k, s)
  PROVE  /\ Steady(k, AfterBlock(k, s))
         /\ \A x, y, z : InArray(k.size, x, y, z) =>
              (Passed(k, AfterBlock(k, s), x, y, z) <=> Passed(k, s, x, y, z))
  <1> DEFINE n == AfterBlock(k, s)
  <1>1. /\ s.c \in Cursors /\ AtElement(k.size, s.c) /\ IsSize(k.size) /\ k.layer \in Nat
        /\ Pointers(k.size, k.layer, s.c) /\ LastInBlock(k.size, s.c)
    BY CallFacts DEF PassOK, Steady
  <1>2. /\ n.c = NextBlock(k.size, k.layer, s.c)
        /\ n.pc = IF LastBlock(k.size, s.c) THEN "done" ELSE "block"
    BY DEF AfterBlock, PassOK
  <1> HIDE DEF n
  <1>3. Pointers(k.size, k.layer, n.c)
    BY <1>1, <1>2, PointersKept
  <1>4. ASSUME NEW x, NEW y, NEW z, InArray(k.size, x, y, z)
        PROVE  Passed(k, n, x, y, z) <=> Passed(k, s, x, y, z)
    <2>1. Before(k.size, n.c, x, y, z)
            <=> Before(k.size, s.c, x, y, z) \/ At(k.size, s.c, x, y, z)
      BY <1>1, <1>2, <1>4, BeforeNextBlock
    <2>2. CASE LastBlock(k.size, s.c)
      <3>1. n.c.i = k.size.num_x
        BY <1>1, <1>2, <2>2, PastTheEnd
      <3>2. Before(k.size, n.c, x, y, z)
        BY <1>1, <1>4, <3>1, AllBefore
      <3> QED BY <1>2, <2>1, <2>2, <3>2 DEF Passed
    <2>3. CASE ~LastBlock(k.size, s.c)
      BY <1>2, <2>1, <2>3 DEF Passed
    <2> QED BY <2>2, <2>3
  <1>5. Steady(k, n)
    BY <1>2, <1>3 DEF Steady
  <1> QED BY <1>4, <1>5 DEF n

----------------------------------------------------------------------------
(* The refinement.                                                         *)

\* What stands for an element not written yet is neither an integer nor a
\* rounded sum, which every recovered value is.
Unmistakable == Unset \notin Int /\ \A p, q : Fl(p + q) # Unset

Numbers(f) == \A u \in DOMAIN f : f[u] # Unset

\* What has been handed out is what the decompressor has passed.
Produced ==
  \A x, y, z : InArray(call.size, x, y, z) =>
    (dec_data[Addr(call.size, x, y, z)] # Unset <=> Passed(call, dec, x, y, z))

CodecInv ==
  /\ Inv
  /\ Steady(call, enc) /\ Steady(call, dec)
  /\ Numbers(stream.unpred)
  /\ Produced

\* The round trip starts with nothing handed out.
LEMMA CodecInvInit == ASSUME Init PROVE CodecInv
  <1>1. /\ call \in Calls /\ data \in Inputs(call) /\ stream = EmptyStream
        /\ enc = PassStart(call) /\ dec = PassStart(call)
        /\ dec_data = [a \in 0 .. call.size.num_elements - 1 |-> Unset]
    BY DEF Init, CompressInit, DecompressInit
  <1>2. Steady(call, enc) /\ Steady(call, dec)
    BY <1>1, StartSteady
  <1>3. Numbers(stream.unpred)
    BY <1>1 DEF Numbers, EmptyStream, Empty
  <1>4. Produced
    <2> SUFFICES ASSUME NEW x, NEW y, NEW z, InArray(call.size, x, y, z)
                 PROVE  dec_data[Addr(call.size, x, y, z)] = Unset /\ ~Passed(call, dec, x, y, z)
      BY DEF Produced
    <2>1. Addr(call.size, x, y, z) \in 0 .. call.size.num_elements - 1
      BY <1>1, CallFacts, AddressRange
    <2> QED BY <2>1, <1>1, StartSteady
  <1> QED BY <1>2, <1>3, <1>4, InvInit DEF CodecInv

\* The compressor keeps its pointers and stores data where there is no code.
LEMMA CodecInvCompress ==
  ASSUME Unmistakable, CodecInv, Compress
  PROVE  CodecInv'
  <1>1. /\ Inv /\ TypeOK /\ Steady(call, enc) /\ Steady(call, dec)
        /\ Numbers(stream.unpred) /\ Produced /\ StreamMatches(call, stream, enc)
    BY DEF CodecInv, Inv
  <1>2. CompressStep /\ dec' = dec /\ dec_data' = dec_data
    BY DEF Compress
  <1>3. call' = call /\ data' = data /\ call \in Calls /\ data \in Inputs(call)
        /\ PassOK(call, enc)
    BY <1>1, <1>2 DEF CompressStep, SelectPredictor, EncodeElement, LeaveBlock, TypeOK
  <1>4. Steady(call, dec)' /\ Produced'
    BY <1>1, <1>2, <1>3 DEF Produced
  <1>5. DOMAIN stream = {"type", "unpred", "indicator", "reg_params", "reg_poly_params"}
    BY <1>1 DEF StreamMatches
  <1>6. Steady(call, enc') /\ Numbers(stream'.unpred)
    <2>1. CASE SelectPredictor
      <3>1. /\ enc.pc = "block" /\ enc'.c = enc.c /\ enc'.pc = "element"
            /\ stream'.unpred = stream.unpred
        BY <2>1, <1>3, <1>5 DEF SelectPredictor, PassOK
      <3> QED BY <3>1, <1>1 DEF Steady
    <2>2. CASE EncodeElement
      <3> DEFINE cur == data[DataAt(call.size, enc.c)]
                 e == Encoded(call, enc, cur, Prediction(call, enc))
                 u == <<LaneOf(call.size, enc.c), enc.unpred_count[LaneOf(call.size, enc.c)]>>
      <3>1. /\ enc.pc = "element"
            /\ enc'.c = AfterElement(call, enc.c) /\ enc'.pc = PcAfterElement(call, enc.c)
            /\ stream'.unpred = IF e.type = 0 THEN Put(stream.unpred, u, cur) ELSE stream.unpred
        BY <2>2, <1>3, <1>5 DEF EncodeElement, PassOK
      <3>2. Steady(call, enc')
        BY <3>1, <1>1, <1>3, ElementStepSteady
      <3>3. cur \in Int
        <4>1. DataAt(call.size, enc.c) \in 0 .. call.size.num_elements - 1
          BY <3>1, <1>1, <1>3, CallFacts, CursorInArray DEF PassOK, Steady
        <4> QED BY <4>1, <1>3, InputsAssumption
      <3> HIDE DEF cur, e, u
      <3>4. Numbers(stream'.unpred)
        BY <3>1, <3>3, <1>1 DEF Numbers, Put, Unmistakable
      <3> QED BY <3>2, <3>4
    <2>3. CASE LeaveBlock
      <3>1. enc.pc = "leave" /\ enc' = AfterBlock(call, enc) /\ stream' = stream
        BY <2>3 DEF LeaveBlock
      <3> QED BY <3>1, <1>1, <1>3, AfterBlockSteady
    <2> QED BY <2>1, <2>2, <2>3, <1>2 DEF CompressStep
  <1> QED BY <1>1, <1>3, <1>4, <1>6, InvCompress DEF CodecInv

\* What the decompressor may read in its next step.
LEMMA NextReplays ==
  ASSUME Inv, Decompress
  PROVE  Replays(call, data, stream, dec, EncoderAfter(replayed + 1))
  <1>1. TraceReplays /\ Lockstep /\ enc.pc = "done" /\ dec.pc # "done"
    BY DEF Inv, Decompress, DecompressStep, EnterBlock, DecodeElement, ExitBlock
  <1>2. Len(trace) \in Nat /\ replayed \in 0 .. Len(trace)
    BY <1>1 DEF TraceReplays
  <1>3. replayed < Len(trace) /\ dec = trace[replayed + 1]
    BY <1>1, <1>2 DEF Lockstep, EncoderAfter
  <1>4. replayed + 1 \in 1 .. Len(trace)
    BY <1>2, <1>3
  <1> QED BY <1>1, <1>3, <1>4 DEF TraceReplays

\* The value of an element is never the mark of an unwritten one.
LEMMA ValueIsSet ==
  ASSUME Unmistakable, CodecInv, Decompress, dec.pc = "element"
  PROVE  ElementValue(call, stream, dec) # Unset
  <1>1. Inv /\ Numbers(stream.unpred) /\ call \in Calls
    BY DEF CodecInv, Inv, TypeOK
  <1> DEFINE t == CodeOf(call, stream, dec)
             u == <<LaneOf(call.size, dec.c), dec.unpred_count[LaneOf(call.size, dec.c)]>>
             v == NextOfLane(stream, dec, LaneOf(call.size, dec.c))
  <1>2. t = 0 => v # Unset
    <2>1. t = 0 => u \in DOMAIN stream.unpred
      BY <1>1, NextReplays DEF Replays
    <2>2. v = stream.unpred[u]
      BY DEF NextOfLane
    <2> QED BY <2>1, <2>2, <1>1 DEF Numbers
  <1>3. call.mean # Unset
    BY <1>1, CallFacts DEF Unmistakable
  <1>4. ElementValue(call, stream, dec) = Decoded(call, dec, t, v)
    BY DEF ElementValue
  <1> HIDE DEF t, v
  <1> QED BY <1>2, <1>3, <1>4 DEF Decoded, Recover, Unmistakable

\* A step of the decompressor hands out the element under its cursor, which was
\* not written before, or no element.
LEMMA CodecInvDecompress ==
  ASSUME Unmistakable, CodecInv, Decompress, Inv'
  PROVE  /\ CodecInv'
         /\ Codec!Next \/ UNCHANGED <<data, dec_data>>
  <1>1. /\ Inv /\ TypeOK /\ Steady(call, enc) /\ Steady(call, dec)
        /\ Numbers(stream.unpred) /\ Produced
    BY DEF CodecInv, Inv
  <1>2. DecompressStep /\ enc' = enc
    BY DEF Decompress
  <1>3. /\ call' = call /\ data' = data /\ stream' = stream
        /\ call \in Calls /\ data \in Inputs(call) /\ PassOK(call, dec)
    BY <1>1, <1>2 DEF DecompressStep, EnterBlock, DecodeElement, ExitBlock, TypeOK
  <1>4. Steady(call, enc)' /\ Numbers(stream.unpred)'
    BY <1>1, <1>2, <1>3
  <1>5. CASE EnterBlock
    <2>1. /\ dec.pc = "block" /\ dec' = EnteredBlock(stream, dec) /\ dec_data' = dec_data
      BY <1>5 DEF EnterBlock
    <2>2. dec'.pc = "element" /\ dec'.c = dec.c
      BY <2>1, <1>3 DEF EnteredBlock, PassOK
    <2>3. Steady(call, dec') /\ \A x, y, z : Passed(call, dec', x, y, z) <=> Passed(call, dec, x, y, z)
      BY <2>1, <2>2, <1>1 DEF Steady, Passed
    <2>4. Produced'
      BY <2>1, <2>3, <1>1, <1>3 DEF Produced
    <2> QED BY <2>1, <2>3, <2>4, <1>3, <1>4 DEF CodecInv
  <1>6. CASE DecodeElement
    <2> DEFINE a == DataAt(call.size, dec.c)
               v == ElementValue(call, stream, dec)
               next == dec'
    <2>1. /\ dec.pc = "element" /\ dec_data' = [dec_data EXCEPT ![a] = v]
          /\ dec' = DecodedElement(call, dec, CodeOf(call, stream, dec), v)
      BY <1>6 DEF DecodeElement
    <2>2. next.c = AfterElement(call, dec.c) /\ next.pc = PcAfterElement(call, dec.c)
      BY <2>1, <1>3 DEF DecodedElement, PassOK
    <2>3. v # Unset
      BY <2>1, ValueIsSet
    <2>4. /\ dec.c \in Cursors /\ AtElement(call.size, dec.c) /\ IsSize(call.size)
          /\ call.layer \in Nat /\ Pointers(call.size, call.layer, dec.c)
      BY <2>1, <1>1, <1>3, CallFacts DEF PassOK, Steady
    <2>5. DOMAIN dec_data = 0 .. call.size.num_elements - 1 /\ DOMAIN data = DOMAIN dec_data
      BY <1>1, <1>3, InputsAssumption DEF TypeOK
    <2>6. /\ a \in DOMAIN dec_data
          /\ \E x, y, z : InArray(call.size, x, y, z) /\ At(call.size, dec.c, x, y, z)
      BY <2>4, <2>5, CursorInArray
    <2>7. \A x, y, z : InArray(call.size, x, y, z) =>
            /\ At(call.size, dec.c, x, y, z) <=> Addr(call.size, x, y, z) = a
            /\ At(call.size, dec.c, x, y, z) => ~Before(call.size, dec.c, x, y, z)
      BY <2>4, ElementUnder
    <2>8. /\ Steady(call, next)
          /\ \A x, y, z : InArray(call.size, x, y, z) =>
               (Passed(call, next, x, y, z)
                  <=> Passed(call, dec, x, y, z) \/ At(call.size, dec.c, x, y, z))
      <3> HIDE DEF next
      <3> QED BY <2>1, <2>2, <1>1, <1>3, ElementStepSteady
    <2> HIDE DEF a, v
    <2>9. dec_data[a] = Unset
      <3>1. PICK x, y, z : InArray(call.size, x, y, z) /\ At(call.size, dec.c, x, y, z)
        BY <2>6
      <3>2. ~Passed(call, dec, x, y, z) /\ Addr(call.size, x, y, z) = a
        BY <3>1, <2>1, <2>7 DEF Passed
      <3> QED BY <3>1, <3>2, <1>1 DEF Produced
    <2>10. Produced'
      <3> SUFFICES ASSUME NEW x, NEW y, NEW z, InArray(call.size, x, y, z)
                   PROVE  dec_data'[Addr(call.size, x, y, z)] # Unset <=> Passed(call, next, x, y, z)
        BY <1>3 DEF Produced
      <3>1. Addr(call.size, x, y, z) \in DOMAIN dec_data
        BY <2>4, <2>5, AddressRange
      <3>2. dec_data[Addr(call.size, x, y, z)] # Unset <=> Passed(call, dec, x, y, z)
        BY <1>1 DEF Produced
      <3> QED BY <3>1, <3>2, <2>1, <2>3, <2>7, <2>8
    <2>11. Codec!Produce(a)
      <3>1. /\ \A b \in DOMAIN data \ {a} : dec_data'[b] = dec_data[b]
            /\ DOMAIN dec_data' = DOMAIN data /\ dec_data'[a] = v
        BY <2>1, <2>5, <2>6
      <3>2. WithinPrecision(data[a], v)
        BY <3>1, <2>3, <2>5, <2>6, <1>3 DEF Inv, ErrorBound
      <3> QED BY <3>1, <3>2, <2>3, <2>9, <1>3 DEF Codec!Produce
    <2> QED BY <2>5, <2>6, <2>8, <2>10, <2>11, <1>3, <1>4 DEF CodecInv, Codec!Next
  <1>7. CASE ExitBlock
    <2>1. dec.pc = "leave" /\ dec' = AfterBlock(call, dec) /\ dec_data' = dec_data
      BY <1>7 DEF ExitBlock
    <2>2. /\ Steady(call, dec')
          /\ \A x, y, z : InArray(call.size, x, y, z) =>
               (Passed(call, dec', x, y, z) <=> Passed(call, dec, x, y, z))
      BY <2>1, <1>1, <1>3, AfterBlockSteady
    <2>3. Produced'
      BY <2>1, <2>2, <1>1, <1>3 DEF Produced
    <2> QED BY <2>1, <2>2, <2>3, <1>3, <1>4 DEF CodecInv
  <1> QED BY <1>2, <1>5, <1>6, <1>7 DEF DecompressStep

\* The round trip is an error-bounded codec: every element of the output is
\* written once, with a value within the precision of its datum, and nothing
\* else ever changes the output.
THEOREM RefinesCodec ==
  ASSUME Unmistakable
  PROVE  Spec => ImplementsCodec
  <1>1. Init => CodecInv /\ Codec!Init
    <2> SUFFICES ASSUME Init PROVE CodecInv /\ Codec!Init
      OBVIOUS
    <2>1. /\ call \in Calls /\ data \in Inputs(call)
          /\ dec_data = [a \in 0 .. call.size.num_elements - 1 |-> Unset]
      BY DEF Init, CompressInit, DecompressInit
    <2>2. DOMAIN data = 0 .. call.size.num_elements - 1
      BY <2>1, InputsAssumption
    <2> QED BY <2>1, <2>2, CodecInvInit DEF Codec!Init
  <1>2. CodecInv /\ Inv' /\ [Next]_vars => CodecInv' /\ [Codec!Next]_<<data, dec_data>>
    <2> SUFFICES ASSUME CodecInv, Inv', [Next]_vars
                 PROVE  CodecInv' /\ [Codec!Next]_<<data, dec_data>>
      OBVIOUS
    <2>1. CASE Compress
      <3>1. data' = data /\ dec_data' = dec_data
        BY <2>1 DEF Compress, CompressStep, SelectPredictor, EncodeElement, LeaveBlock
      <3> QED BY <2>1, <3>1, CodecInvCompress
    <2>2. CASE Decompress
      BY <2>2, CodecInvDecompress
    <2>3. CASE Finished \/ UNCHANGED vars
      <3>1. /\ call' = call /\ data' = data /\ stream' = stream /\ enc' = enc /\ dec' = dec
            /\ dec_data' = dec_data
        BY <2>3 DEF Finished, vars
      <3> QED BY <3>1 DEF CodecInv, Produced
    <2> QED BY <2>1, <2>2, <2>3 DEF Next
  <1> QED BY <1>1, <1>2, Invariance, PTL DEF Spec, ImplementsCodec, Codec!Spec

----------------------------------------------------------------------------
(* The slots of the lanes.                                                 *)

\* How many slices of the block have a value in lane l behind them.
Slices(k, s, l) ==
  IF s.pc \in {"block", "done"} THEN 0
  ELSE s.c.ii + (IF s.pc = "leave" \/ l < LaneOf(k.size, s.c) THEN 1 ELSE 0)

\* indicator_pos counts the blocks, and each block adds no more to a lane than
\* it has slices.
Filled(k, s) ==
  /\ s.indicator_pos = (s.c.i * k.size.num_y + s.c.j) * k.size.num_z + s.c.k
  /\ s.pc = "done" => s.c.i = k.size.num_x /\ s.c.j = 0 /\ s.c.k = 0
  /\ s.pc = "block" => s.c.ii = 0 /\ s.c.jj = 0 /\ s.c.kk = 0
  /\ s.pc = "leave" => LastInBlock(k.size, s.c)
  /\ \A l \in Lanes(k.size) :
       s.unpred_count[l] <= s.indicator_pos * k.size.block_size + Slices(k, s, l)

\* The next element in a block is in the next lane, or in the first of the next
\* slice.
LEMMA NextLane ==
  ASSUME NEW size, IsSize(size), NEW d \in Cursors, AtElement(size, d),
         ~LastInBlock(size, d)
  PROVE  LET n == NextElement(size, d)
         IN  /\ n.i = d.i /\ n.j = d.j /\ n.k = d.k
             /\ \/ n.ii = d.ii /\ LaneOf(size, n) = LaneOf(size, d) + 1
                \/ n.ii = d.ii + 1 /\ LaneOf(size, n) = 0
  <1> DEFINE n == NextElement(size, d)
             sz == SizeZ(size, d)
  <1>1. /\ d.jj \in Nat /\ d.kk \in Nat /\ d.kk < sz /\ sz \in Nat
    BY CursorFacts
  <1>2. /\ n.i = d.i /\ n.j = d.j /\ n.k = d.k
        /\ \/ n.ii = d.ii /\ n.jj = d.jj /\ n.kk = d.kk + 1
           \/ ~(d.kk + 1 < sz) /\ n.ii = d.ii /\ n.jj = d.jj + 1 /\ n.kk = 0
           \/ n.ii = d.ii + 1 /\ n.jj = 0 /\ n.kk = 0
    BY NextElementCases
  <1>3. SizeZ(size, n) = sz
    BY <1>2 DEF SizeZ
  <1>4. LaneOf(size, d) = d.jj * sz + d.kk /\ LaneOf(size, n) = n.jj * sz + n.kk
    BY <1>3 DEF LaneOf
  <1> HIDE DEF n, sz
  <1>5. (d.jj + 1) * sz = d.jj * sz + sz /\ d.jj * sz \in Int /\ 0 * sz = 0
    BY <1>1
  <1>6. ~(d.kk + 1 < sz) => sz = d.kk + 1
    BY <1>1
  <1>7. \/ n.ii = d.ii /\ LaneOf(size, n) = LaneOf(size, d) + 1
        \/ n.ii = d.ii + 1 /\ LaneOf(size, n) = 0
    <2>1. CASE n.ii = d.ii /\ n.jj = d.jj /\ n.kk = d.kk + 1
      BY <2>1, <1>1, <1>4, <1>5
    <2>2. CASE ~(d.kk + 1 < sz) /\ n.ii = d.ii /\ n.jj = d.jj + 1 /\ n.kk = 0
      BY <2>2, <1>1, <1>4, <1>5, <1>6
    <2>3. CASE n.ii = d.ii + 1 /\ n.jj = 0 /\ n.kk = 0
      BY <2>3, <1>4, <1>5
    <2> QED BY <1>2, <2>1, <2>2, <2>3
  <1> QED BY <1>2, <1>7 DEF n

\* The loops count the blocks in row-major order, and there are num_blocks.
LEMMA BlockCount ==
  ASSUME NEW k \in Calls, NEW s, PassOK(k, s), Filled(k, s)
  PROVE  /\ s.pc # "done" => s.indicator_pos < k.size.num_blocks
         /\ s.pc = "done" => s.indicator_pos = k.size.num_blocks
         /\ k.size.num_blocks \in Nat
  <1> DEFINE nx == k.size.num_x
             ny == k.size.num_y
             nz == k.size.num_z
             i == s.c.i
             j == s.c.j
             l == s.c.k
  <1>1. /\ IsSize(k.size) /\ nx \in Nat \ {0} /\ ny \in Nat \ {0} /\ nz \in Nat \ {0}
    BY CallFacts, SizeFacts
  <1>2. k.size.num_blocks = nx * ny * nz
    <2>1. k.size = DSize_3d(k.size.d1, k.size.d2, k.size.d3, k.size.block_size)
      BY <1>1 DEF IsSize
    <2> QED BY <2>1 DEF DSize_3d
  <1>3. s.indicator_pos = (i * ny + j) * nz + l
    BY DEF Filled
  <1>4. s.pc # "done" => i \in 0 .. nx - 1 /\ j \in 0 .. ny - 1 /\ l \in 0 .. nz - 1
    <2>1. s.c.i \in Nat /\ s.c.j \in Nat /\ s.c.k \in Nat
      BY DEF PassOK, Cursors
    <2>2. s.pc # "done" => i < nx /\ j < ny /\ l < nz
      BY DEF PassOK, AtElement
    <2> HIDE DEF nx, ny, nz
    <2> QED BY <1>1, <2>1, <2>2
  <1>5. s.pc = "done" => i = nx /\ j = 0 /\ l = 0
    BY DEF Filled
  <1> HIDE DEF nx, ny, nz, i, j, l
  <1>6. nx * ny \in Nat
    BY <1>1
  <1>7. s.pc # "done" => s.indicator_pos < (nx * ny) * nz
    <2> SUFFICES ASSUME s.pc # "done" PROVE s.indicator_pos < (nx * ny) * nz
      OBVIOUS
    <2>1. i * ny + j \in 0 .. nx * ny - 1
      BY <1>1, <1>4, TwoDigits
    <2>2. (i * ny + j) * nz + l \in 0 .. (nx * ny) * nz - 1
      BY <1>1, <1>4, <1>6, <2>1, TwoDigits
    <2> DEFINE all == (nx * ny) * nz
    <2>3. all \in Nat /\ s.indicator_pos \in 0 .. all - 1
      BY <1>1, <1>3, <1>6, <2>2
    <2> HIDE DEF all
    <2>4. s.indicator_pos < all
      BY <2>3
    <2> QED BY <2>4 DEF all
  <1>8. s.pc = "done" => s.indicator_pos = (nx * ny) * nz
    BY <1>1, <1>3, <1>5, <1>6
  <1>9. (nx * ny) * nz \in Nat
    BY <1>1, <1>6
  <1> QED BY <1>2, <1>7, <1>8, <1>9

\* An element step adds at most one value to the lane it is in.
LEMMA ElementStepFilled ==
  ASSUME NEW k \in Calls, NEW s, NEW t, NEW v, PassOK(k, s), s.pc = "element", Filled(k, s)
  PROVE  Filled(k, DecodedElement(k, s, t, v))
  <1> DEFINE n == DecodedElement(k, s, t, v)
             lane == LaneOf(k.size, s.c)
             full == s.indicator_pos * k.size.block_size
  <1>1. /\ s.c \in Cursors /\ AtElement(k.size, s.c) /\ IsSize(k.size)
        /\ s.unpred_count \in [Lanes(k.size) -> Nat] /\ s.indicator_pos \in Nat
    BY CallFacts DEF PassOK
  <1>2. /\ n.c = AfterElement(k, s.c) /\ n.pc = PcAfterElement(k, s.c)
        /\ n.indicator_pos = s.indicator_pos
        /\ n.unpred_count = [s.unpred_count EXCEPT ![lane] = @ + (IF t = 0 THEN 1 ELSE 0)]
    BY DEF DecodedElement, PassOK
  <1>3. lane \in Nat /\ lane \in Lanes(k.size) /\ Lanes(k.size) \subseteq Nat /\ s.c.ii \in Nat
    BY <1>1, LaneOfRange DEF Lanes, Cursors
  <1>4. full \in Nat
    BY <1>1, SizeFacts
  <1>5. \A l \in Lanes(k.size) :
          s.unpred_count[l] <= full + s.c.ii + (IF l < lane THEN 1 ELSE 0)
    BY <1>3, <1>4 DEF Filled, Slices
  <1>6. s.indicator_pos = (s.c.i * k.size.num_y + s.c.j) * k.size.num_z + s.c.k
    BY DEF Filled
  <1>7. CASE LastInBlock(k.size, s.c)
    <2>1. n.c = s.c /\ n.pc = "leave"
      BY <1>2, <1>7 DEF AfterElement, PcAfterElement
    <2> HIDE DEF n, lane, full
    <2>2. ASSUME NEW l \in Lanes(k.size)
          PROVE  n.unpred_count[l] <= full + Slices(k, n, l)
      <3>1. Slices(k, n, l) = s.c.ii + 1
        BY <2>1 DEF Slices
      <3>2. /\ s.unpred_count[l] <= full + s.c.ii + (IF l < lane THEN 1 ELSE 0)
            /\ s.unpred_count[l] \in Nat /\ l \in Nat
            /\ n.unpred_count[l] <= s.unpred_count[l] + (IF l = lane THEN 1 ELSE 0)
        BY <1>1, <1>2, <1>3, <1>5
      <3> DEFINE w == s.unpred_count[l]
                 m == n.unpred_count[l]
      <3>3. w \in Nat /\ m \in Nat
        BY <1>1, <1>2
      <3> HIDE DEF w, m
      <3>4. /\ w <= full + s.c.ii + (IF l < lane THEN 1 ELSE 0)
            /\ m <= w + (IF l = lane THEN 1 ELSE 0)
        BY <3>2 DEF w, m
      <3>5. m <= full + (s.c.ii + 1)
        BY <3>2, <3>3, <3>4, <1>3, <1>4
      <3> QED BY <3>1, <3>5 DEF m
    <2> QED BY <2>1, <2>2, <1>2, <1>6, <1>7 DEF Filled, full, n
  <1>8. CASE ~LastInBlock(k.size, s.c)
    <2>1. n.c = NextElement(k.size, s.c) /\ n.pc = "element"
      BY <1>2, <1>8 DEF AfterElement, PcAfterElement
    <2>2. /\ n.c.i = s.c.i /\ n.c.j = s.c.j /\ n.c.k = s.c.k
          /\ \/ n.c.ii = s.c.ii /\ LaneOf(k.size, n.c) = lane + 1
             \/ n.c.ii = s.c.ii + 1 /\ LaneOf(k.size, n.c) = 0
      BY <1>1, <1>8, <2>1, NextLane
    <2> HIDE DEF n, lane, full
    <2>3. ASSUME NEW l \in Lanes(k.size)
          PROVE  n.unpred_count[l] <= full + Slices(k, n, l)
      <3>1. Slices(k, n, l) = n.c.ii + (IF l < LaneOf(k.size, n.c) THEN 1 ELSE 0)
        BY <2>1 DEF Slices
      <3>2. /\ s.unpred_count[l] <= full + s.c.ii + (IF l < lane THEN 1 ELSE 0)
            /\ s.unpred_count[l] \in Nat /\ l \in Nat
            /\ n.unpred_count[l] <= s.unpred_count[l] + (IF l = lane THEN 1 ELSE 0)
        BY <1>1, <1>2, <1>3, <1>5
      <3> DEFINE w == s.unpred_count[l]
                 m == n.unpred_count[l]
                 ii == n.c.ii
                 next == LaneOf(k.size, n.c)
      <3>3. w \in Nat /\ m \in Nat
        BY <1>1, <1>2
      <3> HIDE DEF w, m, ii, next
      <3>4. /\ w <= full + s.c.ii + (IF l < lane THEN 1 ELSE 0)
            /\ m <= w + (IF l = lane THEN 1 ELSE 0)
        BY <3>2 DEF w, m
      <3>5. \/ ii = s.c.ii /\ next = lane + 1
            \/ ii = s.c.ii + 1 /\ next = 0
        BY <2>2 DEF ii, next
      <3>6. m <= full + (ii + (IF l < next THEN 1 ELSE 0))
        BY <3>2, <3>3, <3>4, <3>5, <1>3, <1>4
      <3> QED BY <3>1, <3>6 DEF m, ii, next
    <2> QED BY <2>1, <2>2, <2>3, <1>2, <1>6 DEF Filled, full, n
  <1> QED BY <1>7, <1>8

\* A block has no more slices than block_size.
LEMMA AfterBlockFilled ==
  ASSUME NEW k \in Calls, NEW s, PassOK(k, s), s.pc = "leave", Filled(k, s)
  PROVE  Filled(k, AfterBlock(k, s))
  <1> DEFINE n == AfterBlock(k, s)
             bs == k.size.block_size
             ny == k.size.num_y
             nz == k.size.num_z
  <1>1. /\ s.c \in Cursors /\ AtElement(k.size, s.c) /\ IsSize(k.size) /\ k.layer \in Nat
        /\ s.unpred_count \in [Lanes(k.size) -> Nat] /\ s.indicator_pos \in Nat
    BY CallFacts DEF PassOK
  <1>2. /\ n.c = NextBlock(k.size, k.layer, s.c)
        /\ n.pc = (IF LastBlock(k.size, s.c) THEN "done" ELSE "block")
        /\ n.indicator_pos = s.indicator_pos + 1 /\ n.unpred_count = s.unpred_count
    BY DEF AfterBlock, PassOK
  <1>3. /\ s.c.i \in Nat /\ s.c.j \in Nat /\ s.c.k \in Nat /\ s.c.ii \in Nat /\ s.c.ii < bs
        /\ bs \in Nat \ {0} /\ ny \in Nat /\ nz \in Nat
    BY <1>1, CursorFacts, SizeFacts
  <1>4. /\ s.indicator_pos = (s.c.i * ny + s.c.j) * nz + s.c.k
        /\ \A l \in Lanes(k.size) : s.unpred_count[l] <= s.indicator_pos * bs + (s.c.ii + 1)
    BY <1>1, <1>3 DEF Filled, Slices
  <1>5. n.c.ii = 0 /\ n.c.jj = 0 /\ n.c.kk = 0
    BY <1>1, <1>2, NextBlockStays
  <1>6. \/ n.c.i = s.c.i /\ n.c.j = s.c.j /\ n.c.k = s.c.k + 1
        \/ s.c.k + 1 = nz /\ n.c.i = s.c.i /\ n.c.j = s.c.j + 1 /\ n.c.k = 0
        \/ /\ s.c.k + 1 = nz /\ s.c.j + 1 = ny
           /\ n.c.i = s.c.i + 1 /\ n.c.j = 0 /\ n.c.k = 0
    BY <1>1, <1>2, NextBlockCases DEF LastRow, LastPlane
  <1>7. LastBlock(k.size, s.c) => n.c.i = k.size.num_x /\ n.c.j = 0 /\ n.c.k = 0
    BY <1>1, <1>2, PastTheEnd
  <1> HIDE DEF n, bs, ny, nz
  <1>8. n.indicator_pos = (n.c.i * ny + n.c.j) * nz + n.c.k
    <2> DEFINE r == s.c.i * ny + s.c.j
    <2>1. r \in Nat /\ (r + 1) * nz = r * nz + nz /\ r * nz \in Nat
      BY <1>3
    <2>2. (s.c.i + 1) * ny = s.c.i * ny + ny /\ s.c.i * ny \in Nat
      BY <1>3
    <2>3. \/ n.c.i * ny + n.c.j = r /\ n.c.k = s.c.k + 1
          \/ s.c.k + 1 = nz /\ n.c.i * ny + n.c.j = r + 1 /\ n.c.k = 0
      BY <1>3, <1>6, <2>2
    <2>4. s.indicator_pos = r * nz + s.c.k
      BY <1>4
    <2> HIDE DEF r
    <2>5. CASE n.c.i * ny + n.c.j = r /\ n.c.k = s.c.k + 1
      BY <2>5, <2>1, <2>4, <1>2, <1>3
    <2>6. CASE s.c.k + 1 = nz /\ n.c.i * ny + n.c.j = r + 1 /\ n.c.k = 0
      BY <2>6, <2>1, <2>4, <1>2, <1>3
    <2> QED BY <2>3, <2>5, <2>6
  <1>9. ASSUME NEW l \in Lanes(k.size)
        PROVE  n.unpred_count[l] <= n.indicator_pos * bs + Slices(k, n, l)
    <2>1. Slices(k, n, l) = 0
      BY <1>2 DEF Slices
    <2>2. (s.indicator_pos + 1) * bs = s.indicator_pos * bs + bs /\ s.indicator_pos * bs \in Nat
      BY <1>1, <1>3
    <2>3. s.unpred_count[l] \in Nat /\ s.unpred_count[l] <= s.indicator_pos * bs + (s.c.ii + 1)
      BY <1>1, <1>4
    <2> QED BY <2>1, <2>2, <2>3, <1>2, <1>3
  <1> QED BY <1>2, <1>5, <1>7, <1>8, <1>9 DEF Filled, n, bs, ny, nz

\* No lane of unpred_data_buffer outgrows its slots, even if no element of the
\* array gets a code.
THEOREM LanesSuffice == Spec => []LaneFits
  <1>1. Init => Filled(call, enc)
    <2> SUFFICES ASSUME Init PROVE Filled(call, enc)
      OBVIOUS
    <2>1. call \in Calls /\ enc = PassStart(call)
      BY DEF Init, CompressInit
    <2>2. /\ enc.pc = "block" /\ enc.c = CursorStart /\ enc.indicator_pos = 0
          /\ enc.unpred_count = [l \in Lanes(call.size) |-> 0]
      BY <2>1 DEF PassStart
    <2>3. /\ call.size.num_y \in Nat /\ call.size.num_z \in Nat
          /\ call.size.block_size \in Nat
      BY <2>1, CallFacts, SizeFacts
    <2> QED BY <2>2, <2>3 DEF Filled, Slices, CursorStart
  <1>2. Inv /\ Filled(call, enc) /\ [Next]_vars => Filled(call, enc)'
    <2> SUFFICES ASSUME Inv, Filled(call, enc), [Next]_vars PROVE Filled(call, enc)'
      OBVIOUS
    <2>1. call \in Calls /\ PassOK(call, enc)
      BY DEF Inv, TypeOK
    <2>2. CASE SelectPredictor
      <3>1. /\ call' = call /\ enc.pc = "block" /\ enc'.pc = "element" /\ enc'.c = enc.c
            /\ enc'.indicator_pos = enc.indicator_pos
            /\ enc'.unpred_count = enc.unpred_count
        BY <2>1, <2>2 DEF SelectPredictor, PassOK
      <3>2. LaneOf(call.size, enc.c) = 0 /\ enc.c.ii = 0
        <4>1. SizeZ(call.size, enc.c) \in Nat /\ enc.c.jj = 0 /\ enc.c.kk = 0 /\ enc.c.ii = 0
          BY <2>1, <3>1, CallFacts, CursorFacts DEF PassOK, Filled
        <4> QED BY <4>1 DEF LaneOf
      <3>3. \A l \in Lanes(call.size) : Slices(call, enc', l) = 0 /\ Slices(call, enc, l) = 0
        BY <2>1, <3>1, <3>2 DEF Slices, Lanes
      <3> QED BY <3>1, <3>3 DEF Filled
    <2>3. CASE EncodeElement
      <3>1. PICK e : enc' = DecodedElement(call, enc, e.type, e.dec)
        BY <2>3 DEF EncodeElement, DecodedElement
      <3>2. call' = call /\ enc.pc = "element"
        BY <2>3 DEF EncodeElement
      <3> QED BY <3>1, <3>2, <2>1, ElementStepFilled
    <2>4. CASE LeaveBlock
      <3>1. call' = call /\ enc.pc = "leave" /\ enc' = AfterBlock(call, enc)
        BY <2>4 DEF LeaveBlock
      <3> QED BY <3>1, <2>1, AfterBlockFilled
    <2>5. CASE Decompress \/ Finished \/ UNCHANGED vars
      <3>1. call' = call /\ enc' = enc
        BY <2>5 DEF Decompress, DecompressStep, EnterBlock, DecodeElement, ExitBlock,
                    Finished, vars
      <3> QED BY <3>1
    <2> QED BY <2>2, <2>3, <2>4, <2>5 DEF Next, Compress, CompressStep
  <1>3. Inv /\ Filled(call, enc) => LaneFits
    <2> SUFFICES ASSUME Inv, Filled(call, enc), NEW l \in Lanes(call.size)
                 PROVE  enc.unpred_count[l] <= LaneLength(call.size)
      BY DEF LaneFits
    <2> DEFINE bs == call.size.block_size
               nb == call.size.num_blocks
               p == enc.indicator_pos
    <2>1. call \in Calls /\ PassOK(call, enc) /\ IsSize(call.size)
      BY CallFacts DEF Inv, TypeOK
    <2>2. /\ bs \in Nat \ {0} /\ nb \in Nat /\ p \in Nat
          /\ enc.pc # "done" => p < nb
          /\ enc.pc = "done" => p = nb
      BY <2>1, SizeFacts, BlockCount DEF PassOK
    <2>3. enc.unpred_count[l] <= p * bs + Slices(call, enc, l) /\ enc.unpred_count[l] \in Nat
      BY <2>1 DEF Filled, PassOK
    <2>4. enc.pc # "done" => Slices(call, enc, l) \in 0 .. bs
      <3>1. enc.pc # "done" => enc.c.ii \in Nat /\ enc.c.ii < bs
        BY <2>1, CursorFacts DEF PassOK
      <3> QED BY <3>1, <2>2 DEF Slices
    <2>5. enc.pc = "done" => Slices(call, enc, l) = 0
      BY DEF Slices
    <2> HIDE DEF bs, nb, p
    <2>6. p * bs \in Nat /\ nb * bs \in Nat /\ (p + 1) * bs = p * bs + bs
      BY <2>2
    <2>7. p + 1 <= nb => (p + 1) * bs <= nb * bs
      BY <2>2, MulLe
    <2>8. enc.unpred_count[l] <= nb * bs
      BY <2>2, <2>3, <2>4, <2>5, <2>6, <2>7
    <2> QED BY <2>8 DEF LaneLength, bs, nb
  <1> QED BY <1>1, <1>2, <1>3, Invariance, PTL DEF Spec
=============================================================================
