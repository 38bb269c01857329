----------------------- MODULE LegacyRoundTripProofs -----------------------
(***************************************************************************)
(* Proofs, for every shape of array, precision, rounding and choice of     *)
(* predictors and for either mode, of the safety properties of the older   *)
(* codec: that the decompressor repeats the compressor although nothing in *)
(* the stream marks where a block begins, that the two implement the       *)
(* abstract codec, that every code is in the alphabet, and that the        *)
(* prediction buffer holds the neighbours that are predicted from.         *)
(***************************************************************************)
EXTENDS LegacyRoundTrip, BlockGeometryProofs

\* Rounding gives a number of T, and the integer part of a distance is none
\* below zero: nothing is said of how accurate either is.
Rounds ==
  /\ \A x : Fl(x) \in Int
  /\ \A x \in Nat : Scale(x) \in Nat

----------------------------------------------------------------------------
(* The local state of a pass.                                              *)

\* The state of a pass that has not run out of room for values.
LegacyOK(k, s) ==
  /\ DOMAIN s = {"pc", "c", "pred_buffer", "indicator", "coeffs", "unpred_pos",
                 "indicator_pos", "reg_pos"}
  /\ s.pc \in {"block", "element", "leave", "done"}
  /\ s.c \in Cursors
  /\ s.pc # "done" => AtElement(k.size, s.c) /\ Pointers(k.size, 1, s.c)
  /\ s.pc = "leave" => LastInBlock(k.size, s.c)
  /\ s.indicator \in {0, 1}
  /\ s.unpred_pos \in Nat /\ s.indicator_pos \in Nat /\ s.reg_pos \in Nat

\* What the assumptions say of one call.
LEMMA CallFacts ==
  ASSUME NEW k \in Calls
  PROVE  /\ IsSize(k.size) /\ k.layer = 1
         /\ k.capacity \in Nat /\ k.capacity % 2 = 0 /\ k.capacity > 0
         /\ k.use_mean \in BOOLEAN /\ k.mean \in Int
         /\ k.use_mean => k.capacity > 2
         /\ k.block_independant \in BOOLEAN
  BY CallsAssumption, LegacyCallsAssumption

\* A pass starts at the first element of the array.
LEMMA LegacyStartOK ==
  ASSUME NEW k \in Calls
  PROVE  LegacyOK(k, LegacyStart(k))
  <1> DEFINE s == LegacyStart(k)
  <1>1. /\ DOMAIN s = {"pc", "c", "pred_buffer", "indicator", "coeffs", "unpred_pos",
                       "indicator_pos", "reg_pos"}
        /\ s.pc = "block" /\ s.c = CursorStart /\ s.indicator = 0
        /\ s.unpred_pos = 0 /\ s.indicator_pos = 0 /\ s.reg_pos = 0
    BY DEF LegacyStart
  <1>2. s.c \in Cursors
    BY <1>1 DEF Cursors, CursorStart
  <1>3. s.c.i = 0 /\ s.c.j = 0 /\ s.c.k = 0 /\ s.c.ii = 0 /\ s.c.jj = 0 /\ s.c.kk = 0
    BY <1>1 DEF CursorStart
  <1>4. s.c.i < k.size.num_x /\ s.c.j < k.size.num_y /\ s.c.k < k.size.num_z
    BY <1>3, CallFacts, SizeFacts
  <1>5. AtElement(k.size, s.c)
    BY <1>2, <1>3, <1>4, CallFacts, SizeFacts, BlockRange DEF AtElement
  <1>6. Pointers(k.size, 1, CursorStart)
    <2>1. /\ k.size.block_size \in Nat /\ k.size.dim0_offset \in Nat
          /\ k.size.dim1_offset \in Nat /\ k.size.d3 \in Nat
      BY CallFacts, SizeFacts
    <2>2. BufferDim1(k.size, 1) \in Nat
      BY <2>1 DEF BufferDim1
    <2> QED BY <2>1, <2>2 DEF Pointers, CursorStart
  <1> QED BY <1>1, <1>2, <1>5, <1>6 DEF LegacyOK

\* An element step of either side keeps the pass inside its array.
LEMMA LegacyElementOK ==
  ASSUME NEW k \in Calls, NEW s, NEW t, NEW v, LegacyOK(k, s), s.pc = "element"
  PROVE  LegacyOK(k, LegacyElement(k, s, t, v))
  <1> DEFINE n == LegacyElement(k, s, t, v)
  <1>1. /\ s.c \in Cursors /\ AtElement(k.size, s.c) /\ IsSize(k.size)
        /\ Pointers(k.size, 1, s.c)
    BY CallFacts DEF LegacyOK
  <1>2. /\ DOMAIN n = DOMAIN s
        /\ n.pc = PcAfterElement(k, s.c) /\ n.c = AfterElement(k, s.c)
        /\ n.unpred_pos = s.unpred_pos + (IF t = 0 THEN 1 ELSE 0)
        /\ n.indicator = s.indicator
        /\ n.indicator_pos = s.indicator_pos /\ n.reg_pos = s.reg_pos
    BY DEF LegacyElement, LegacyOK
  <1>3. n.c \in Cursors /\ AtElement(k.size, n.c)
    BY <1>1, <1>2, NextElementStays DEF AfterElement
  <1>4. Pointers(k.size, 1, n.c)
    BY <1>1, <1>2, PointersKept DEF AfterElement
  <1>5. n.pc = "leave" => LastInBlock(k.size, n.c)
    BY <1>2 DEF AfterElement, PcAfterElement
  <1> QED BY <1>2, <1>3, <1>4, <1>5 DEF LegacyOK, PcAfterElement

\* So does the step out of a block.
LEMMA AfterLegacyBlockOK ==
  ASSUME NEW k \in Calls, NEW s, LegacyOK(k, s), s.pc = "leave"
  PROVE  LegacyOK(k, AfterLegacyBlock(k, s))
  <1> DEFINE n == AfterLegacyBlock(k, s)
  <1>1. /\ s.c \in Cursors /\ AtElement(k.size, s.c) /\ IsSize(k.size)
        /\ Pointers(k.size, 1, s.c)
    BY CallFacts DEF LegacyOK
  <1>2. /\ DOMAIN n = DOMAIN s
        /\ n.pc = IF LastBlock(k.size, s.c) THEN "done" ELSE "block"
        /\ n.c = NextBlock(k.size, 1, s.c)
        /\ n.unpred_pos = s.unpred_pos /\ n.indicator = s.indicator
        /\ n.indicator_pos = s.indicator_pos + 1
        /\ n.reg_pos = s.reg_pos + s.indicator
    BY DEF AfterLegacyBlock, LegacyOK
  <1>3. n.c \in Cursors /\ (n.pc # "done" => AtElement(k.size, n.c))
    BY <1>1, <1>2, NextBlockStays
  <1>4. Pointers(k.size, 1, n.c)
    BY <1>1, <1>2, PointersKept
  <1>5. n.indicator_pos \in Nat /\ n.reg_pos \in Nat
    BY <1>2 DEF LegacyOK
  <1> QED BY <1>2, <1>3, <1>4, <1>5 DEF LegacyOK

\* Entering a block changes no cursor, buffer or pointer.
LEMMA EnteredLegacyOK ==
  ASSUME NEW k \in Calls, NEW s, NEW sel \in {0, 1}, NEW p, LegacyOK(k, s), s.pc = "block"
  PROVE  LegacyOK(k, [s EXCEPT !.pc = "element", !.indicator = sel, !.coeffs = p])
  <1> DEFINE n == [s EXCEPT !.pc = "element", !.indicator = sel, !.coeffs = p]
  <1>1. /\ DOMAIN n = DOMAIN s /\ n.pc = "element" /\ n.c = s.c
        /\ n.indicator = sel /\ n.unpred_pos = s.unpred_pos
        /\ n.indicator_pos = s.indicator_pos /\ n.reg_pos = s.reg_pos
    BY DEF LegacyOK
  <1> HIDE DEF n
  <1> QED BY <1>1 DEF LegacyOK

----------------------------------------------------------------------------
(* The older quantizer.                                                    *)

\* A code it accepts is an interval number other than 0, which means no code,
\* and, with the two codes the mean costs held back, other than 1, which means
\* the mean; and the decompressor recovers from it, against the same
\* prediction, the very value the compressor went on with.
LEMMA LegacyQuantizeRecovers ==
  ASSUME Rounds, NEW cur, NEW pred, NEW capacity \in Nat, NEW limit \in Nat,
         capacity % 2 = 0, capacity > 0, limit <= capacity
  PROVE  LET q == LegacyQuantize(cur, pred, limit, capacity \div 2)
         IN  \/ q.type = 0 /\ q.dec = cur
             \/ /\ q.type \in 1 .. capacity - 1
                /\ limit <= capacity - 2 => q.type # 1
                /\ q.dec = LegacyRecover(pred, q.type, capacity \div 2)
                /\ WithinPrecision(cur, q.dec)
  <1> DEFINE r == capacity \div 2
             diff == Fl(cur - pred)
             scaled == Scale(Abs(diff))
             half == (scaled + 1) \div 2
             quant == IF diff > 0 THEN half ELSE -half
             value == Fl(pred + 2 * quant * Precision)
             q == LegacyQuantize(cur, pred, limit, r)
  <1>1. r \in Nat \ {0} /\ capacity = 2 * r
    OBVIOUS
  <1>2. scaled \in Nat
    <2>1. diff \in Int
      BY DEF Rounds
    <2>2. Abs(diff) \in Nat
      <3> HIDE DEF diff
      <3> QED BY <2>1 DEF Abs
    <2> QED BY <2>2 DEF Rounds
  <1>3. CASE ~(scaled + 1 < limit /\ WithinPrecision(cur, value))
    BY <1>3 DEF LegacyQuantize
  <1>4. CASE scaled + 1 < limit /\ WithinPrecision(cur, value)
    <2>1. q = [type |-> IF diff > 0 THEN r + half ELSE r - half, dec |-> value]
      BY <1>4 DEF LegacyQuantize
    <2>2. q.type = (IF diff > 0 THEN r + half ELSE r - half) /\ q.dec = value
      BY <2>1
    <2> HIDE DEF r, diff, scaled, value, q
    <2>3. half \in 0 .. r - 1 /\ (limit <= capacity - 2 => half <= r - 2)
      BY <1>1, <1>2, <1>4
    <2> HIDE DEF half
    <2>4. q.type - r = quant
      BY <1>1, <2>2, <2>3
    <2>5. q.dec = LegacyRecover(pred, q.type, r)
      BY <2>2, <2>4 DEF LegacyRecover, value
    <2>6. q.type \in 1 .. capacity - 1 /\ (limit <= capacity - 2 => q.type # 1)
      BY <1>1, <2>2, <2>3
    <2> QED BY <1>4, <2>2, <2>5, <2>6 DEF q, r
  <1> QED BY <1>3, <1>4

\* What the decompressor makes of a code is what the compressor made of the
\* datum, and within the precision of it; and the code is in the alphabet.
LEMMA LegacyEncodedDecodes ==
  ASSUME Rounds, NEW k \in Calls, NEW s, NEW cur \in Int, NEW e, NEW v,
         s.indicator \in {0, 1}, e = Encoded(k, s, cur), e.type = 0 => v = cur
  PROVE  /\ Decoded(k, s, e.type, v) = e.dec
         /\ WithinPrecision(cur, e.dec)
         /\ e.type \in 0 .. k.capacity - 1
         /\ e.type = 0 => e.dec = cur
  <1> DEFINE pred == LegacyPrediction(k, s)
             r == Radius(k)
             mean == s.indicator = 0 /\ k.use_mean /\ Abs(Fl(cur - k.mean)) < Precision
             limit == IF s.indicator = 1 THEN k.capacity ELSE CapacityLorenzo(k)
  <1>1. WithinPrecision(cur, cur)
    BY QuantizerAssumption DEF WithinPrecision, Abs
  <1>2. CASE mean
    <2>1. e = [type |-> 1, dec |-> k.mean]
      BY <1>2 DEF Encoded
    <2>2. Decoded(k, s, 1, v) = k.mean
      BY <1>2 DEF Decoded
    <2>3. WithinPrecision(cur, k.mean)
      <3> DEFINE d == Fl(cur - k.mean)
      <3>1. d \in Int /\ Abs(d) < Precision
        BY <1>2 DEF Rounds
      <3> HIDE DEF d
      <3>2. ~(Abs(d) > Precision)
        BY <3>1, QuantizerAssumption DEF Abs
      <3> QED BY <3>2 DEF WithinPrecision, d
    <2>4. 1 \in 0 .. k.capacity - 1
      BY <1>2, CallFacts
    <2> QED BY <2>1, <2>2, <2>3, <2>4
  <1>3. CASE ~mean
    <2>1. e = LegacyQuantize(cur, pred, limit, r)
      BY <1>3 DEF Encoded
    <2>2. /\ limit \in Nat /\ limit <= k.capacity
          /\ k.use_mean /\ s.indicator = 0 => limit <= k.capacity - 2
      BY CallFacts DEF CapacityLorenzo
    <2> HIDE DEF limit, pred
    <2>3. \/ e.type = 0 /\ e.dec = cur
          \/ /\ e.type \in 1 .. k.capacity - 1
             /\ limit <= k.capacity - 2 => e.type # 1
             /\ e.dec = LegacyRecover(pred, e.type, r)
             /\ WithinPrecision(cur, e.dec)
      BY <2>1, <2>2, CallFacts, LegacyQuantizeRecovers DEF Radius
    <2>4. CASE e.type = 0
      <3>1. e.dec = cur
        BY <2>3, <2>4
      <3>2. Decoded(k, s, 0, v) = v
        BY DEF Decoded
      <3>3. 0 \in 0 .. k.capacity - 1
        BY CallFacts
      <3> QED BY <2>4, <3>1, <3>2, <3>3, <1>1
    <2>5. CASE e.type # 0
      <3>1. /\ e.type \in 1 .. k.capacity - 1
            /\ limit <= k.capacity - 2 => e.type # 1
            /\ e.dec = LegacyRecover(pred, e.type, r)
            /\ WithinPrecision(cur, e.dec)
        BY <2>3, <2>5
      <3>2. Decoded(k, s, e.type, v) = LegacyRecover(pred, e.type, r)
        BY <2>2, <2>5, <3>1 DEF Decoded, pred
      <3>3. e.type \in 0 .. k.capacity - 1
        BY <3>1, CallFacts
      <3> QED BY <2>5, <3>1, <3>2, <3>3
    <2> QED BY <2>4, <2>5
  <1> QED BY <1>2, <1>3

----------------------------------------------------------------------------
(* A pass and the elements it has passed.                                  *)

\* The pass has handled the element at x, y, z.
Passed(k, s, x, y, z) ==
  \/ s.pc = "done"
  \/ Before(k.size, s.c, x, y, z)
  \/ s.pc = "leave" /\ At(k.size, s.c, x, y, z)

\* A pass starts with nothing passed.
LEMMA NothingPassed ==
  ASSUME NEW k \in Calls, NEW x, NEW y, NEW z, InArray(k.size, x, y, z)
  PROVE  ~Passed(k, LegacyStart(k), x, y, z)
  <1>1. ~Before(k.size, CursorStart, x, y, z)
    BY CallFacts, NothingFirst
  <1> QED BY <1>1 DEF Passed, LegacyStart

\* An element step passes the element under the cursor and no other.
LEMMA ElementPasses ==
  ASSUME NEW k \in Calls, NEW s, NEW n, LegacyOK(k, s), s.pc = "element",
         n.c = AfterElement(k, s.c), n.pc = PcAfterElement(k, s.c),
         NEW x, NEW y, NEW z, InArray(k.size, x, y, z)
  PROVE  Passed(k, n, x, y, z) <=> Passed(k, s, x, y, z) \/ At(k.size, s.c, x, y, z)
  <1>1. s.c \in Cursors /\ AtElement(k.size, s.c) /\ IsSize(k.size)
    BY CallFacts DEF LegacyOK
  <1>2. CASE LastInBlock(k.size, s.c)
    BY <1>2 DEF AfterElement, PcAfterElement, Passed
  <1>3. CASE ~LastInBlock(k.size, s.c)
    <2>1. n.c = NextElement(k.size, s.c) /\ n.pc = "element"
      BY <1>3 DEF AfterElement, PcAfterElement
    <2>2. Before(k.size, n.c, x, y, z)
            <=> Before(k.size, s.c, x, y, z) \/ At(k.size, s.c, x, y, z)
      BY <1>1, <1>3, <2>1, BeforeNextElement
    <2> QED BY <2>1, <2>2 DEF Passed
  <1> QED BY <1>2, <1>3

\* The step out of a block passes nothing more; with the last block all is
\* passed.
LEMMA BlockPasses ==
  ASSUME NEW k \in Calls, NEW s, LegacyOK(k, s), s.pc = "leave",
         NEW x, NEW y, NEW z, InArray(k.size, x, y, z)
  PROVE  Passed(k, AfterLegacyBlock(k, s), x, y, z) <=> Passed(k, s, x, y, z)
  <1> DEFINE n == AfterLegacyBlock(k, s)
  <1>1. /\ s.c \in Cursors /\ AtElement(k.size, s.c) /\ IsSize(k.size)
        /\ LastInBlock(k.size, s.c)
    BY CallFacts DEF LegacyOK
  <1>2. /\ n.c = NextBlock(k.size, 1, s.c)
        /\ n.pc = IF LastBlock(k.size, s.c) THEN "done" ELSE "block"
    BY DEF AfterLegacyBlock, LegacyOK
  <1> HIDE DEF n
  <1>3. Before(k.size, n.c, x, y, z)
          <=> Before(k.size, s.c, x, y, z) \/ At(k.size, s.c, x, y, z)
    BY <1>1, <1>2, BeforeNextBlock
  <1>4. CASE LastBlock(k.size, s.c)
    <2>1. n.c.i = k.size.num_x
      BY <1>1, <1>2, <1>4, PastTheEnd
    <2>2. Before(k.size, n.c, x, y, z)
      BY <1>1, <2>1, AllBefore
    <2> QED BY <1>2, <1>3, <1>4, <2>2 DEF Passed, n
  <1>5. CASE ~LastBlock(k.size, s.c)
    BY <1>2, <1>3, <1>5 DEF Passed, n
  <1> QED BY <1>4, <1>5

----------------------------------------------------------------------------
(* What the stream says.                                                   *)

\* How much of the stream the compressor has written in state s, exactly.
Codes(k, s) == TypeAt(k.size, s.c) + (IF s.pc = "leave" THEN 1 ELSE 0)
InBlockNow(s) == IF s.pc \in {"element", "leave"} THEN 1 ELSE 0

StreamMatches(k, st, s) ==
  /\ DOMAIN st = {"type", "unpred", "indicator", "reg_params", "reg_poly_params"}
  /\ s.pc # "done" =>
       /\ DOMAIN st.type = 0 .. Codes(k, s) - 1
       /\ DOMAIN st.unpred = 0 .. s.unpred_pos - 1
       /\ DOMAIN st.indicator = 0 .. s.indicator_pos + InBlockNow(s) - 1
       /\ DOMAIN st.reg_params = 0 .. s.reg_pos + s.indicator * InBlockNow(s) - 1

\* What a decompressor in state s makes of the stream.
Entered(st, s) ==
  LET sel == st.indicator[s.indicator_pos]
  IN  [s EXCEPT !.pc = "element", !.indicator = sel,
                !.coeffs = IF sel = 1 THEN st.reg_params[s.reg_pos] ELSE <<>>]
CodeOf(k, st, s) == st.type[TypeAt(k.size, s.c)]
ElementValue(k, st, s) ==
  Decoded(k, s, CodeOf(k, st, s),
          IF CodeOf(k, st, s) = 0 THEN st.unpred[s.unpred_pos] ELSE 0)

\* The stream st holds what takes a decompressor from s to n, and if the step
\* hands out an element, its value is what the compressor went on with, rec,
\* and within the precision of the datum.
Replays(k, d, rec, st, s, n) ==
  \/ /\ s.pc = "block"
     /\ s.indicator_pos \in DOMAIN st.indicator
     /\ st.indicator[s.indicator_pos] = 1 => s.reg_pos \in DOMAIN st.reg_params
     /\ n = Entered(st, s)
  \/ /\ s.pc = "element"
     /\ TypeAt(k.size, s.c) \in DOMAIN st.type
     /\ CodeOf(k, st, s) = 0 =>
          /\ s.unpred_pos \in DOMAIN st.unpred
          /\ st.unpred[s.unpred_pos] = d[DataAt(k.size, s.c)]
     /\ n = LegacyElement(k, s, CodeOf(k, st, s), ElementValue(k, st, s))
     /\ rec[DataAt(k.size, s.c)] = ElementValue(k, st, s)
     /\ WithinPrecision(d[DataAt(k.size, s.c)], ElementValue(k, st, s))
  \/ /\ s.pc = "leave"
     /\ n = AfterLegacyBlock(k, s)

\* The stream only grows.
Grows(st, st2) ==
  \A f \in {"type", "unpred", "indicator", "reg_params"} :
    \A x \in DOMAIN st[f] : x \in DOMAIN st2[f] /\ st2[f][x] = st[f][x]

\* What a decompressor can replay it can still replay when the compressor has
\* written more, and has gone on with the same value there.
LEMMA ReplaysGrows ==
  ASSUME NEW k, NEW d, NEW rec, NEW rec2, NEW st, NEW st2, NEW s, NEW n,
         Replays(k, d, rec, st, s, n), Grows(st, st2),
         s.pc = "element" => rec2[DataAt(k.size, s.c)] = rec[DataAt(k.size, s.c)]
  PROVE  Replays(k, d, rec2, st2, s, n)
  <1>1. /\ \A x \in DOMAIN st.type : x \in DOMAIN st2.type /\ st2.type[x] = st.type[x]
        /\ \A x \in DOMAIN st.unpred : x \in DOMAIN st2.unpred /\ st2.unpred[x] = st.unpred[x]
        /\ \A x \in DOMAIN st.indicator :
             x \in DOMAIN st2.indicator /\ st2.indicator[x] = st.indicator[x]
        /\ \A x \in DOMAIN st.reg_params :
             x \in DOMAIN st2.reg_params /\ st2.reg_params[x] = st.reg_params[x]
    BY DEF Grows
  <1>2. CASE s.pc = "block"
    <2>1. /\ s.indicator_pos \in DOMAIN st.indicator
          /\ st.indicator[s.indicator_pos] = 1 => s.reg_pos \in DOMAIN st.reg_params
          /\ n = Entered(st, s)
      BY <1>2 DEF Replays
    <2>2. /\ s.indicator_pos \in DOMAIN st2.indicator
          /\ st2.indicator[s.indicator_pos] = st.indicator[s.indicator_pos]
          /\ st2.indicator[s.indicator_pos] = 1 =>
               /\ s.reg_pos \in DOMAIN st2.reg_params
               /\ st2.reg_params[s.reg_pos] = st.reg_params[s.reg_pos]
      BY <2>1, <1>1
    <2>3. Entered(st2, s) = Entered(st, s)
      BY <2>2 DEF Entered
    <2> QED BY <1>2, <2>1, <2>2, <2>3 DEF Replays
  <1>3. CASE s.pc = "element"
    <2>1. /\ TypeAt(k.size, s.c) \in DOMAIN st.type
          /\ CodeOf(k, st, s) = 0 =>
               /\ s.unpred_pos \in DOMAIN st.unpred
               /\ st.unpred[s.unpred_pos] = d[DataAt(k.size, s.c)]
          /\ n = LegacyElement(k, s, CodeOf(k, st, s), ElementValue(k, st, s))
          /\ rec[DataAt(k.size, s.c)] = ElementValue(k, st, s)
          /\ WithinPrecision(d[DataAt(k.size, s.c)], ElementValue(k, st, s))
      BY <1>3 DEF Replays
    <2>2. TypeAt(k.size, s.c) \in DOMAIN st2.type /\ CodeOf(k, st2, s) = CodeOf(k, st, s)
      BY <2>1, <1>1 DEF CodeOf
    <2>3. CodeOf(k, st, s) = 0 =>
            s.unpred_pos \in DOMAIN st2.unpred /\ st2.unpred[s.unpred_pos] = st.unpred[s.unpred_pos]
      BY <2>1, <1>1
    <2>4. ElementValue(k, st2, s) = ElementValue(k, st, s)
      BY <2>2, <2>3 DEF ElementValue
    <2> QED BY <1>3, <2>1, <2>2, <2>3, <2>4 DEF Replays
  <1>4. CASE s.pc = "leave"
    BY <1>4 DEF Replays
  <1> QED BY <1>2, <1>3, <1>4 DEF Replays

----------------------------------------------------------------------------
(* Each step of the compressor leaves in the stream what replays it.       *)

\* What a step of the compressor that does not run out of room leaves behind.
Replayable ==
  /\ LegacyOK(call, enc')
  /\ StreamMatches(call, stream', enc')
  /\ Grows(stream, stream')
  /\ Replays(call, data, reconstructed', stream', enc, enc')
  /\ DOMAIN reconstructed' = DOMAIN reconstructed
  /\ \A a : reconstructed'[a] # reconstructed[a] =>
              enc.pc = "element" /\ a = DataAt(call.size, enc.c)
  /\ \A x, y, z : InArray(call.size, x, y, z) =>
       (Passed(call, enc', x, y, z)
          <=> Passed(call, enc, x, y, z) \/ (enc.pc = "element" /\ At(call.size, enc.c, x, y, z)))

\* What all the steps start from.
Ready ==
  /\ call \in Calls /\ data \in Inputs(call)
  /\ DOMAIN reconstructed = 0 .. call.size.num_elements - 1
  /\ LegacyOK(call, enc) /\ StreamMatches(call, stream, enc)

\* The compressor's step out of a block can be replayed.
LEMMA LeaveBlockReplayable ==
  ASSUME Ready, LeaveBlock
  PROVE  Replayable /\ stream' = stream
  <1> DEFINE k == call
             n == AfterLegacyBlock(k, enc)
  <1>1. /\ k \in Calls /\ LegacyOK(k, enc) /\ enc.pc = "leave" /\ enc' = n /\ stream' = stream
        /\ reconstructed' = reconstructed /\ StreamMatches(k, stream, enc)
    BY DEF Ready, LeaveBlock
  <1>2. LegacyOK(k, n)
    BY <1>1, AfterLegacyBlockOK
  <1>3. Grows(stream, stream')
    BY <1>1 DEF Grows
  <1>4. Replays(k, data, reconstructed', stream', enc, enc')
    BY <1>1 DEF Replays
  <1>5. \A x, y, z : InArray(k.size, x, y, z) => (Passed(k, n, x, y, z) <=> Passed(k, enc, x, y, z))
    BY <1>1, BlockPasses
  <1>6. /\ n.pc \in {"block", "done"} /\ n.c = NextBlock(k.size, 1, enc.c)
        /\ n.unpred_pos = enc.unpred_pos /\ n.indicator = enc.indicator
        /\ n.indicator_pos = enc.indicator_pos + 1
        /\ n.reg_pos = enc.reg_pos + enc.indicator
    BY <1>1 DEF AfterLegacyBlock, LegacyOK
  <1>7. TypeAt(k.size, n.c) = TypeAt(k.size, enc.c) + 1 /\ TypeAt(k.size, enc.c) \in Int
    <2>1. /\ IsSize(k.size) /\ enc.c \in Cursors
          /\ AtElement(k.size, enc.c) /\ LastInBlock(k.size, enc.c)
      BY <1>1, CallFacts DEF LegacyOK
    <2> QED BY <2>1, <1>6, NextBlockStays, TypeAtInt
  <1> HIDE DEF n
  <1>8. StreamMatches(k, stream, n)
    <2>1. /\ DOMAIN stream.type = 0 .. Codes(k, enc) - 1
          /\ DOMAIN stream.unpred = 0 .. enc.unpred_pos - 1
          /\ DOMAIN stream.indicator = 0 .. enc.indicator_pos + 1 - 1
          /\ DOMAIN stream.reg_params = 0 .. enc.reg_pos + enc.indicator * 1 - 1
          /\ DOMAIN stream = {"type", "unpred", "indicator", "reg_params"} \cup {"reg_poly_params"}
      BY <1>1 DEF StreamMatches, InBlockNow
    <2>2. enc.indicator_pos \in Nat /\ enc.reg_pos \in Nat /\ enc.indicator \in {0, 1}
      BY <1>1 DEF LegacyOK
    <2>3. Codes(k, n) = Codes(k, enc)
      BY <1>1, <1>6, <1>7 DEF Codes
    <2>4. n.indicator_pos + 0 - 1 = enc.indicator_pos + 1 - 1
      BY <2>2, <1>6
    <2>5. n.reg_pos + n.indicator * 0 - 1 = enc.reg_pos + enc.indicator * 1 - 1
      BY <2>2, <1>6
    <2> QED BY <2>1, <2>3, <2>4, <2>5, <1>6 DEF StreamMatches, InBlockNow
  <1> QED BY <1>1, <1>2, <1>3, <1>4, <1>5, <1>8 DEF Replayable

\* A map of the first n positions is extended by the next.
LEMMA NextPosition ==
  ASSUME NEW n \in Nat
  PROVE  /\ n \notin 0 .. n - 1 /\ (0 .. n - 1) \cup {n} = 0 .. n + 1 - 1
         /\ 0 .. n - 1 = 0 .. n + 0 - 1
  OBVIOUS

\* So can its entry into a block: the indicator and the coefficients it wrote
\* lie where the decompressor looks for them.
LEMMA SelectPredictorReplayable ==
  ASSUME Ready, SelectPredictor
  PROVE  Replayable /\ stream'.type = stream.type /\ stream'.unpred = stream.unpred
  <1> DEFINE k == call
             st == stream
             at == enc.indicator_pos
  <1>1. /\ k \in Calls /\ LegacyOK(k, enc) /\ enc.pc = "block"
        /\ reconstructed' = reconstructed /\ StreamMatches(k, st, enc)
    BY DEF Ready, SelectPredictor
  <1>2. PICK sel \in {0, 1} : \E p :
          /\ sel = 1 \/ p = <<>>
          /\ stream' = [stream EXCEPT
               !.indicator = Put(@, enc.indicator_pos, sel),
               !.reg_params = IF sel = 1 THEN Put(@, enc.reg_pos, p) ELSE @]
          /\ enc' = [enc EXCEPT !.pc = "element", !.indicator = sel, !.coeffs = p]
    BY DEF SelectPredictor
  <1>3. PICK p :
          /\ sel = 1 \/ p = <<>>
          /\ stream' = [stream EXCEPT
               !.indicator = Put(@, enc.indicator_pos, sel),
               !.reg_params = IF sel = 1 THEN Put(@, enc.reg_pos, p) ELSE @]
          /\ enc' = [enc EXCEPT !.pc = "element", !.indicator = sel, !.coeffs = p]
    BY <1>2
  <1> DEFINE n == [enc EXCEPT !.pc = "element", !.indicator = sel, !.coeffs = p]
  <1>4. enc' = n
    BY <1>3
  <1>5. DOMAIN st = {"type", "unpred", "indicator", "reg_params", "reg_poly_params"}
    BY <1>1 DEF StreamMatches
  <1>6. /\ DOMAIN stream' = DOMAIN st
        /\ stream'.type = st.type /\ stream'.unpred = st.unpred
        /\ stream'.indicator = Put(st.indicator, at, sel)
        /\ stream'.reg_params =
             IF sel = 1 THEN Put(st.reg_params, enc.reg_pos, p) ELSE st.reg_params
    BY <1>3, <1>5
  <1>7. at \in Nat /\ enc.reg_pos \in Nat
    BY <1>1 DEF LegacyOK
  <1>8. DOMAIN st.indicator = 0 .. at - 1 /\ DOMAIN st.reg_params = 0 .. enc.reg_pos - 1
    <2>1. InBlockNow(enc) = 0 /\ enc.indicator \in {0, 1}
      BY <1>1 DEF InBlockNow, LegacyOK
    <2>2. /\ DOMAIN st.indicator = 0 .. at + InBlockNow(enc) - 1
          /\ DOMAIN st.reg_params = 0 .. enc.reg_pos + enc.indicator * InBlockNow(enc) - 1
      BY <1>1 DEF StreamMatches
    <2>3. at + InBlockNow(enc) - 1 = at - 1
      BY <2>1, <1>7
    <2>4. enc.reg_pos + enc.indicator * InBlockNow(enc) - 1 = enc.reg_pos - 1
      BY <2>1, <1>7
    <2> QED BY <2>2, <2>3, <2>4
  <1>9. /\ n.pc = "element" /\ n.indicator = sel /\ n.c = enc.c
        /\ n.unpred_pos = enc.unpred_pos /\ n.indicator_pos = at /\ n.reg_pos = enc.reg_pos
    BY <1>1 DEF LegacyOK
  <1>10. LegacyOK(k, n)
    BY <1>1, EnteredLegacyOK
  <1> HIDE DEF n
  <1>n. at \notin DOMAIN st.indicator /\ enc.reg_pos \notin DOMAIN st.reg_params
    BY <1>7, <1>8
  <1>a. /\ DOMAIN Put(st.indicator, at, sel) = DOMAIN st.indicator \cup {at}
        /\ Put(st.indicator, at, sel)[at] = sel
        /\ \A y \in DOMAIN st.indicator : Put(st.indicator, at, sel)[y] = st.indicator[y]
    BY <1>n DEF Put
  <1>b. /\ DOMAIN Put(st.reg_params, enc.reg_pos, p) = DOMAIN st.reg_params \cup {enc.reg_pos}
        /\ Put(st.reg_params, enc.reg_pos, p)[enc.reg_pos] = p
        /\ \A y \in DOMAIN st.reg_params :
             Put(st.reg_params, enc.reg_pos, p)[y] = st.reg_params[y]
    BY <1>n DEF Put
  <1>11. Grows(st, stream')
    <2>1. \A x \in DOMAIN st.indicator :
            x \in DOMAIN stream'.indicator /\ stream'.indicator[x] = st.indicator[x]
      BY <1>6, <1>a
    <2>2. \A x \in DOMAIN st.reg_params :
            x \in DOMAIN stream'.reg_params /\ stream'.reg_params[x] = st.reg_params[x]
      BY <1>6, <1>b
    <2> QED BY <1>6, <2>1, <2>2 DEF Grows
  <1>12. Replays(k, data, reconstructed', stream', enc, n)
    <2>1. at \in DOMAIN stream'.indicator /\ stream'.indicator[at] = sel
      BY <1>6, <1>a
    <2>2. sel = 1 =>
            enc.reg_pos \in DOMAIN stream'.reg_params /\ stream'.reg_params[enc.reg_pos] = p
      BY <1>6, <1>b
    <2>3. n = Entered(stream', enc)
      BY <2>1, <2>2, <1>3 DEF Entered, n
    <2> QED BY <1>1, <2>1, <2>2, <2>3 DEF Replays
  <1>13. StreamMatches(k, stream', n)
    <2>1. InBlockNow(n) = 1 /\ Codes(k, n) = Codes(k, enc)
      BY <1>1, <1>9 DEF InBlockNow, Codes
    <2>2. /\ DOMAIN stream'.type = 0 .. Codes(k, n) - 1
          /\ DOMAIN stream'.unpred = 0 .. n.unpred_pos - 1
      BY <1>1, <1>6, <1>9, <2>1 DEF StreamMatches
    <2>3. DOMAIN stream'.indicator = 0 .. n.indicator_pos + InBlockNow(n) - 1
      BY <1>6, <1>7, <1>8, <1>9, <1>a, <2>1, NextPosition
    <2>4. DOMAIN stream'.reg_params = 0 .. n.reg_pos + n.indicator * InBlockNow(n) - 1
      <3>1. CASE sel = 1
        <4>1. n.reg_pos + n.indicator * InBlockNow(n) - 1 = enc.reg_pos + 1 - 1
          BY <3>1, <1>7, <1>9, <2>1
        <4> QED BY <3>1, <4>1, <1>6, <1>7, <1>8, <1>b, NextPosition
      <3>2. CASE sel = 0
        <4>1. n.reg_pos + n.indicator * InBlockNow(n) - 1 = enc.reg_pos - 1
          BY <3>2, <1>7, <1>9, <2>1
        <4> QED BY <3>2, <4>1, <1>6, <1>8
      <3> QED BY <3>1, <3>2
    <2> QED BY <1>5, <1>6, <2>2, <2>3, <2>4 DEF StreamMatches
  <1>14. \A x, y, z : Passed(k, n, x, y, z) <=> Passed(k, enc, x, y, z)
    BY <1>1, <1>9 DEF Passed
  <1> QED BY <1>1, <1>4, <1>6, <1>10, <1>11, <1>12, <1>13, <1>14 DEF Replayable

\* So can an element for whose value there is room: its code lies at the
\* cursor, a value without a code behind those before it, and decoding them
\* gives the compressor's reconstruction.
LEMMA EncodeElementReplayable ==
  ASSUME Rounds, Ready, EncodeElement, enc'.pc # "overrun"
  PROVE  /\ Replayable
         /\ \E e : /\ stream'.type = Put(stream.type, TypeAt(call.size, enc.c), e)
                   /\ e \in 0 .. call.capacity - 1
         /\ \E v : stream'.unpred \in {stream.unpred, Put(stream.unpred, enc.unpred_pos, v)}
  <1> DEFINE k == call
             st == stream
             at == TypeAt(k.size, enc.c)
             here == DataAt(k.size, enc.c)
             up == enc.unpred_pos
             cur == data[here]
             e == Encoded(k, enc, cur)
             n == LegacyElement(k, enc, e.type, e.dec)
  <1>1. /\ k \in Calls /\ LegacyOK(k, enc) /\ enc.pc = "element" /\ data \in Inputs(k)
        /\ IsSize(k.size) /\ enc.c \in Cursors /\ AtElement(k.size, enc.c)
        /\ Pointers(k.size, 1, enc.c) /\ StreamMatches(k, st, enc)
        /\ DOMAIN reconstructed = 0 .. k.size.num_elements - 1
    BY CallFacts DEF Ready, EncodeElement, LegacyOK
  <1>2. /\ stream' = [stream EXCEPT
             !.type = Put(@, at, e.type),
             !.unpred = IF e.type = 0 THEN Put(@, up, cur) ELSE @]
        /\ enc' = n
        /\ reconstructed' = [reconstructed EXCEPT ![here] = e.dec]
    <2>1. ~(e.type = 0 /\ up = Reserve(k.size))
      <3>1. DOMAIN enc = {"pc", "c", "pred_buffer", "indicator", "coeffs", "unpred_pos",
                          "indicator_pos", "reg_pos"}
        BY <1>1 DEF LegacyOK
      <3>2. e.type = 0 /\ up = Reserve(k.size) => enc' = [enc EXCEPT !.pc = "overrun"]
        BY DEF EncodeElement
      <3> QED BY <3>1, <3>2
    <2> QED BY <2>1 DEF EncodeElement
  <1>3. here \in DOMAIN data /\ here \in DOMAIN reconstructed /\ cur \in Int
    <2>1. here \in 0 .. k.size.num_elements - 1
      BY <1>1, CursorInArray
    <2> QED BY <1>1, <2>1, InputsAssumption
  <1>4. enc.indicator \in {0, 1} /\ up \in Nat
    BY <1>1 DEF LegacyOK
  <1>6. LegacyOK(k, n)
    BY <1>1, LegacyElementOK
  <1>7. /\ n.pc = PcAfterElement(k, enc.c) /\ n.c = AfterElement(k, enc.c)
        /\ n.unpred_pos = up + (IF e.type = 0 THEN 1 ELSE 0)
        /\ n.indicator = enc.indicator /\ n.indicator_pos = enc.indicator_pos
        /\ n.reg_pos = enc.reg_pos
    BY <1>1 DEF LegacyElement, LegacyOK
  <1>e. e = Encoded(k, enc, cur)
    OBVIOUS
  <1> HIDE DEF cur, e, n, here
  <1>5. /\ \A v : (e.type = 0 => v = cur) => Decoded(k, enc, e.type, v) = e.dec
        /\ WithinPrecision(cur, e.dec)
        /\ e.type \in 0 .. k.capacity - 1
    <2>1. ASSUME NEW v, e.type = 0 => v = cur
          PROVE  /\ Decoded(k, enc, e.type, v) = e.dec /\ WithinPrecision(cur, e.dec)
                 /\ e.type \in 0 .. k.capacity - 1
      <3>1. k \in Calls /\ cur \in Int /\ enc.indicator \in {0, 1}
        BY <1>1, <1>3, <1>4
      <3> QED BY <2>1, <3>1, <1>e, LegacyEncodedDecodes
    <2>2. /\ WithinPrecision(cur, e.dec) /\ e.type \in 0 .. k.capacity - 1
      BY <2>1
    <2> QED BY <2>1, <2>2
  <1>8. DOMAIN st = {"type", "unpred", "indicator", "reg_params", "reg_poly_params"}
    BY <1>1 DEF StreamMatches
  <1>9. /\ DOMAIN stream' = DOMAIN st
        /\ stream'.type = Put(st.type, at, e.type)
        /\ stream'.unpred = IF e.type = 0 THEN Put(st.unpred, up, cur) ELSE st.unpred
        /\ stream'.indicator = st.indicator /\ stream'.reg_params = st.reg_params
    BY <1>2, <1>8
  <1>10. at \in Nat
    BY <1>1, TypeAtInt
  <1>11. DOMAIN st.type = 0 .. at - 1 /\ DOMAIN st.unpred = 0 .. up - 1
    <2>1. DOMAIN st.type = 0 .. Codes(k, enc) - 1 /\ Codes(k, enc) = at + 0
      BY <1>1 DEF StreamMatches, Codes
    <2>2. DOMAIN st.unpred = 0 .. up - 1
      BY <1>1 DEF StreamMatches
    <2> QED BY <2>1, <2>2, <1>10
  <1>12. at \notin DOMAIN st.type /\ up \notin DOMAIN st.unpred
    BY <1>4, <1>10, <1>11
  <1>13. /\ DOMAIN Put(st.type, at, e.type) = DOMAIN st.type \cup {at}
         /\ Put(st.type, at, e.type)[at] = e.type
         /\ \A y \in DOMAIN st.type : Put(st.type, at, e.type)[y] = st.type[y]
    BY <1>12 DEF Put
  <1>14. /\ DOMAIN Put(st.unpred, up, cur) = DOMAIN st.unpred \cup {up}
         /\ Put(st.unpred, up, cur)[up] = cur
         /\ \A y \in DOMAIN st.unpred : Put(st.unpred, up, cur)[y] = st.unpred[y]
    BY <1>12 DEF Put
  <1>15. Grows(st, stream')
    <2>1. \A x \in DOMAIN st.type : x \in DOMAIN stream'.type /\ stream'.type[x] = st.type[x]
      BY <1>9, <1>13
    <2>2. \A x \in DOMAIN st.unpred :
            x \in DOMAIN stream'.unpred /\ stream'.unpred[x] = st.unpred[x]
      BY <1>9, <1>14
    <2> QED BY <1>9, <2>1, <2>2 DEF Grows
  <1>16. Replays(k, data, reconstructed', stream', enc, n)
    <2>1. at \in DOMAIN stream'.type /\ CodeOf(k, stream', enc) = e.type
      BY <1>9, <1>13 DEF CodeOf
    <2>2. e.type = 0 => up \in DOMAIN stream'.unpred /\ stream'.unpred[up] = cur
      BY <1>9, <1>14
    <2>3. ElementValue(k, stream', enc) = e.dec
      BY <2>1, <2>2, <1>5 DEF ElementValue
    <2>4. reconstructed'[here] = e.dec
      BY <1>2, <1>3
    <2>5. n = LegacyElement(k, enc, CodeOf(k, stream', enc), ElementValue(k, stream', enc))
      BY <2>1, <2>3 DEF n
    <2>6. CodeOf(k, stream', enc) = 0 =>
            up \in DOMAIN stream'.unpred /\ stream'.unpred[up] = data[here]
      BY <2>1, <2>2 DEF cur
    <2>7. WithinPrecision(data[here], ElementValue(k, stream', enc))
      BY <2>3, <1>5 DEF cur
    <2>8. reconstructed'[here] = ElementValue(k, stream', enc)
      BY <2>3, <2>4
    <2> QED BY <1>1, <2>1, <2>5, <2>6, <2>7, <2>8 DEF Replays, here
  <1>17. StreamMatches(k, stream', n)
    <2>1. n.pc \in {"element", "leave"} /\ InBlockNow(n) = 1 /\ InBlockNow(enc) = 1
      BY <1>1, <1>7 DEF PcAfterElement, InBlockNow
    <2>2. Codes(k, n) = at + 1
      BY <1>1, <1>7, <1>10, NextElementStays DEF PcAfterElement, AfterElement, Codes
    <2>3. DOMAIN stream'.type = 0 .. Codes(k, n) - 1
      <3>1. DOMAIN stream'.type = (0 .. at - 1) \cup {at}
        BY <1>9, <1>11, <1>13
      <3> QED BY <3>1, <2>2, <1>10, NextPosition
    <2>4. DOMAIN stream'.unpred = 0 .. n.unpred_pos - 1
      <3>1. DOMAIN stream'.unpred = IF e.type = 0 THEN (0 .. up - 1) \cup {up} ELSE 0 .. up - 1
        BY <1>9, <1>11, <1>14
      <3>2. CASE e.type = 0
        <4>1. n.unpred_pos = up + 1
          BY <3>2, <1>7
        <4> QED BY <3>1, <3>2, <4>1, <1>4, NextPosition
      <3>3. CASE e.type # 0
        <4>1. n.unpred_pos = up
          BY <3>3, <1>4, <1>7
        <4> QED BY <3>1, <3>3, <4>1
      <3> QED BY <3>2, <3>3
    <2>5. /\ DOMAIN stream'.indicator = 0 .. n.indicator_pos + InBlockNow(n) - 1
          /\ DOMAIN stream'.reg_params = 0 .. n.reg_pos + n.indicator * InBlockNow(n) - 1
      BY <1>1, <1>7, <1>9, <2>1 DEF StreamMatches
    <2> QED BY <1>8, <1>9, <2>3, <2>4, <2>5 DEF StreamMatches
  <1>18. \A x, y, z : InArray(k.size, x, y, z) =>
           (Passed(k, n, x, y, z) <=> Passed(k, enc, x, y, z) \/ At(k.size, enc.c, x, y, z))
    BY <1>1, <1>7, ElementPasses
  <1>19. \A a : reconstructed'[a] # reconstructed[a] => a = here
    <2>1. \A a \in DOMAIN reconstructed : a # here => reconstructed'[a] = reconstructed[a]
      BY <1>2
    <2> QED BY <1>2, <2>1
  <1>20. Replayable
    <2>1. DOMAIN reconstructed' = DOMAIN reconstructed
      BY <1>2
    <2> QED BY <2>1, <1>1, <1>2, <1>6, <1>15, <1>16, <1>17, <1>18, <1>19 DEF Replayable, here
  <1> QED BY <1>5, <1>9, <1>20

----------------------------------------------------------------------------
(* The inductive invariant.                                                *)

\* tr is the history of the compressor: every step of it can be replayed, and
\* the element it was at is behind the compressor, which returns to none.
History(n, tr, k, d, rec, st, s) ==
  /\ n \in Nat /\ tr[0] = LegacyStart(k) /\ tr[n] = s
  /\ \A m \in 0 .. n - 1 :
       /\ LegacyOK(k, tr[m])
       /\ Replays(k, d, rec, st, tr[m], tr[m + 1])
       /\ tr[m].pc = "element" =>
            \A x, y, z : InArray(k.size, x, y, z) /\ At(k.size, tr[m].c, x, y, z) =>
              Passed(k, s, x, y, z)

Arrays ==
  /\ call \in Calls /\ data \in Inputs(call)
  /\ DOMAIN reconstructed = 0 .. call.size.num_elements - 1
  /\ DOMAIN dec_data = 0 .. call.size.num_elements - 1
  /\ LegacyOK(call, dec)

\* The decompressor waits for the compressor to end.
Waits ==
  enc.pc # "done" =>
    dec = LegacyStart(call) /\ \A a \in DOMAIN dec_data : dec_data[a] = Unset

Agrees == \A a \in DOMAIN dec_data : dec_data[a] # Unset => dec_data[a] = reconstructed[a]

Inv ==
  /\ Arrays /\ Waits /\ Agrees /\ TypeInAlphabet
  /\ enc.pc # "overrun" =>
       /\ Ready
       /\ \E n, tr : /\ History(n, tr, call, data, reconstructed, stream, enc)
                   /\ \E m \in 0 .. n : dec = tr[m]

\* The invariant holds at the start, and is kept
LEMMA InvInit == ASSUME Init PROVE Inv
  <1>1. /\ call \in Calls /\ data \in Inputs(call) /\ stream = EmptyStream
        /\ enc = LegacyStart(call) /\ dec = LegacyStart(call)
        /\ dec_data = [a \in 0 .. call.size.num_elements - 1 |-> Unset]
        /\ reconstructed = dec_data
    BY DEF Init
  <1>2. LegacyOK(call, enc)
    BY <1>1, LegacyStartOK
  <1>3. StreamMatches(call, stream, enc)
    <2>1. /\ enc.pc = "block" /\ enc.c = CursorStart /\ enc.indicator = 0
          /\ enc.unpred_pos = 0 /\ enc.indicator_pos = 0 /\ enc.reg_pos = 0
      BY <1>1 DEF LegacyStart
    <2>2. Codes(call, enc) = 0
      <3>1. SizeZ(call.size, enc.c) \in Int
        BY <1>1, <1>2, <2>1, CallFacts, BlockRange DEF LegacyOK, AtElement
      <3> QED BY <2>1, <3>1 DEF Codes, TypeAt, LaneOf, CursorStart
    <2>3. /\ DOMAIN stream = {"type", "unpred", "indicator", "reg_params", "reg_poly_params"}
          /\ DOMAIN stream.type = {} /\ DOMAIN stream.unpred = {}
          /\ DOMAIN stream.indicator = {} /\ DOMAIN stream.reg_params = {}
      BY <1>1 DEF EmptyStream, Empty
    <2>4. InBlockNow(enc) = 0 /\ {} = 0 .. 0 - 1 /\ {} = 0 .. 0 + 0 - 1
          /\ {} = 0 .. 0 + 0 * 0 - 1
      BY <2>1 DEF InBlockNow
    <2> QED BY <2>1, <2>2, <2>3, <2>4 DEF StreamMatches
  <1>4. TypeInAlphabet
    BY <1>1 DEF TypeInAlphabet, EmptyStream, Empty
  <1>5. Arrays /\ Waits /\ Agrees /\ Ready
    BY <1>1, <1>2, <1>3 DEF Arrays, Waits, Agrees, Ready
  <1>6. \E n, tr : /\ History(n, tr, call, data, reconstructed, stream, enc)
                   /\ \E m \in 0 .. n : dec = tr[m]
    <2> DEFINE tr == [m \in 0 .. 0 |-> enc]
    <2>1. History(0, tr, call, data, reconstructed, stream, enc)
      BY <1>1 DEF History
    <2>2. dec = tr[0] /\ 0 \in 0 .. 0
      BY <1>1
    <2> HIDE DEF tr
    <2> QED BY <2>1, <2>2
  <1> QED BY <1>4, <1>5, <1>6 DEF Inv

\* One step more of the history.
LEMMA HistoryExtends ==
  ASSUME Ready, Replayable, NEW n, NEW tr,
         History(n, tr, call, data, reconstructed, stream, enc)
  PROVE  \E tr2 : /\ History(n + 1, tr2, call, data, reconstructed', stream', enc')
                  /\ \A m \in 0 .. n : tr2[m] = tr[m]
  <1> DEFINE tr2 == [m \in 0 .. n + 1 |-> IF m = n + 1 THEN enc' ELSE tr[m]]
  <1>1. n \in Nat /\ tr[0] = LegacyStart(call) /\ tr[n] = enc
    BY DEF History
  <1>2. tr2[n + 1] = enc' /\ \A m \in 0 .. n : tr2[m] = tr[m]
    BY <1>1
  <1> HIDE DEF tr2
  <1>3. \A x, y, z : InArray(call.size, x, y, z) /\ Passed(call, enc, x, y, z) =>
          Passed(call, enc', x, y, z)
    BY DEF Replayable
  <1>4. ASSUME NEW m \in 0 .. n
        PROVE  /\ LegacyOK(call, tr2[m])
               /\ Replays(call, data, reconstructed', stream', tr2[m], tr2[m + 1])
               /\ tr2[m].pc = "element" =>
                    \A x, y, z : InArray(call.size, x, y, z) /\ At(call.size, tr2[m].c, x, y, z) =>
                      Passed(call, enc', x, y, z)
    <2>1. CASE m = n
      <3>1. tr2[m] = enc /\ tr2[m + 1] = enc'
        BY <2>1, <1>1, <1>2
      <3>2. LegacyOK(call, enc) /\ Replays(call, data, reconstructed', stream', enc, enc')
        BY DEF Ready, Replayable
      <3>3. enc.pc = "element" =>
              \A x, y, z : InArray(call.size, x, y, z) /\ At(call.size, enc.c, x, y, z) =>
                Passed(call, enc', x, y, z)
        BY DEF Replayable
      <3> QED BY <3>1, <3>2, <3>3
    <2>2. CASE m # n
      <3> DEFINE s == tr[m]
      <3>1. m \in 0 .. n - 1 /\ m + 1 \in 0 .. n
        BY <2>2, <1>1
      <3>2. tr2[m] = s /\ tr2[m + 1] = tr[m + 1]
        BY <3>1, <1>2
      <3>3. /\ LegacyOK(call, s)
            /\ Replays(call, data, reconstructed, stream, s, tr[m + 1])
            /\ s.pc = "element" =>
                 \A x, y, z : InArray(call.size, x, y, z) /\ At(call.size, s.c, x, y, z) =>
                   Passed(call, enc, x, y, z)
        BY <3>1 DEF History
      <3> HIDE DEF s
      <3>4. s.pc = "element" =>
              reconstructed'[DataAt(call.size, s.c)] = reconstructed[DataAt(call.size, s.c)]
        <4> SUFFICES ASSUME s.pc = "element", enc.pc = "element",
                            DataAt(call.size, s.c) = DataAt(call.size, enc.c)
                     PROVE  FALSE
          BY DEF Replayable
        <4>1. /\ IsSize(call.size) /\ s.c \in Cursors /\ AtElement(call.size, s.c)
              /\ Pointers(call.size, 1, s.c)
              /\ enc.c \in Cursors /\ AtElement(call.size, enc.c)
              /\ Pointers(call.size, 1, enc.c)
          BY <3>3, CallFacts DEF Ready, LegacyOK
        <4>2. PICK x, y, z : InArray(call.size, x, y, z) /\ At(call.size, s.c, x, y, z)
          BY <4>1, CursorInArray
        <4>3. Addr(call.size, x, y, z) = DataAt(call.size, s.c)
          BY <4>1, <4>2, ElementUnder
        <4>4. At(call.size, enc.c, x, y, z) /\ ~Before(call.size, enc.c, x, y, z)
          BY <4>1, <4>2, <4>3, ElementUnder
        <4>5. Passed(call, enc, x, y, z)
          BY <3>3, <4>2
        <4> QED BY <4>4, <4>5 DEF Passed
      <3>5. Replays(call, data, reconstructed', stream', s, tr[m + 1])
        BY <3>3, <3>4, ReplaysGrows DEF Replayable
      <3> QED BY <3>2, <3>3, <3>5, <1>3
    <2> QED BY <2>1, <2>2
  <1>5. History(n + 1, tr2, call, data, reconstructed', stream', enc')
    <2>1. n + 1 \in Nat /\ tr2[0] = LegacyStart(call)
      BY <1>1, <1>2
    <2>2. \A m : m \in 0 .. (n + 1) - 1 <=> m \in 0 .. n
      BY <1>1
    <2>3. \A m \in 0 .. (n + 1) - 1 :
            /\ LegacyOK(call, tr2[m])
            /\ Replays(call, data, reconstructed', stream', tr2[m], tr2[m + 1])
            /\ tr2[m].pc = "element" =>
                 \A x, y, z : InArray(call.size, x, y, z) /\ At(call.size, tr2[m].c, x, y, z) =>
                   Passed(call, enc', x, y, z)
      BY <1>4, <2>2
    <2> QED BY <2>1, <2>3, <1>2 DEF History
  <1> QED BY <1>2, <1>5

\* by every step of the compressor,
LEMMA InvCompress == ASSUME Rounds, Inv, Compress PROVE Inv'
  <1>1. /\ call' = call /\ data' = data /\ dec' = dec /\ dec_data' = dec_data
        /\ SelectPredictor \/ EncodeElement \/ LeaveBlock
    BY DEF Compress
  <1>2. enc.pc \in {"block", "element", "leave"}
    BY <1>1 DEF SelectPredictor, EncodeElement, LeaveBlock
  <1>3. /\ Arrays /\ Waits /\ Agrees /\ TypeInAlphabet /\ Ready
        /\ \E n, tr : /\ History(n, tr, call, data, reconstructed, stream, enc)
                      /\ \E m \in 0 .. n : dec = tr[m]
    BY <1>2 DEF Inv
  <1>4. dec = LegacyStart(call) /\ \A a \in DOMAIN dec_data : dec_data[a] = Unset
    BY <1>2, <1>3 DEF Waits
  <1>5. Waits' /\ Agrees'
    BY <1>1, <1>4 DEF Waits, Agrees
  <1>6. CASE enc'.pc = "overrun"
    <2>1. LegacyOK(call, enc) /\ DOMAIN enc = {"pc", "c", "pred_buffer", "indicator",
            "coeffs", "unpred_pos", "indicator_pos", "reg_pos"}
      BY <1>3 DEF Ready, LegacyOK
    <2>2. ~SelectPredictor /\ ~LeaveBlock
      <3>1. ASSUME SelectPredictor PROVE FALSE
        <4>1. PICK sel, p : enc' = [enc EXCEPT !.pc = "element", !.indicator = sel, !.coeffs = p]
          BY <3>1 DEF SelectPredictor
        <4> QED BY <4>1, <2>1, <1>6
      <3>2. ASSUME LeaveBlock PROVE FALSE
        <4>1. enc' = AfterLegacyBlock(call, enc)
          BY <3>2 DEF LeaveBlock
        <4>2. enc'.pc \in {"done", "block"}
          BY <4>1, <2>1 DEF AfterLegacyBlock
        <4> QED BY <4>2, <1>6
      <3> QED BY <3>1, <3>2
    <2>3. stream' = stream /\ reconstructed' = reconstructed
      <3>1. PICK e : \/ stream' = stream /\ reconstructed' = reconstructed
                     \/ enc' = LegacyElement(call, enc, e.type, e.dec)
        BY <1>1, <2>2 DEF EncodeElement
      <3>2. LegacyElement(call, enc, e.type, e.dec).pc \in {"leave", "element"}
        BY <2>1 DEF LegacyElement, PcAfterElement
      <3> QED BY <3>1, <3>2, <1>6
    <2> QED BY <1>1, <1>3, <1>5, <1>6, <2>3 DEF Inv, Arrays, TypeInAlphabet
  <1>7. CASE enc'.pc # "overrun"
    <2>1. /\ Replayable
          /\ \/ stream'.type = stream.type
             \/ \E x, e : /\ stream'.type = Put(stream.type, x, e)
                          /\ e \in 0 .. call.capacity - 1
      BY <1>1, <1>3, <1>7, SelectPredictorReplayable, LeaveBlockReplayable,
         EncodeElementReplayable
    <2>2. TypeInAlphabet'
      <3>1. CASE stream'.type = stream.type
        BY <3>1, <1>1, <1>3 DEF TypeInAlphabet
      <3>2. ASSUME NEW x, NEW e \in 0 .. call.capacity - 1,
                   stream'.type = Put(stream.type, x, e)
            PROVE  TypeInAlphabet'
        <4>1. \A y \in DOMAIN stream'.type :
                stream'.type[y] = e \/ (y \in DOMAIN stream.type
                                          /\ stream'.type[y] = stream.type[y])
          BY <3>2 DEF Put
        <4> QED BY <4>1, <1>1, <1>3 DEF TypeInAlphabet
      <3> QED BY <2>1, <3>1, <3>2
    <2>3. Arrays' /\ Ready'
      BY <1>1, <1>3, <2>1 DEF Arrays, Ready, Replayable
    <2>4. \E n, tr : /\ History(n, tr, call, data, reconstructed', stream', enc')
                     /\ \E m \in 0 .. n : dec = tr[m]
      <3>1. PICK n, tr : /\ History(n, tr, call, data, reconstructed, stream, enc)
                         /\ \E m \in 0 .. n : dec = tr[m]
        BY <1>3
      <3>2. PICK tr2 : /\ History(n + 1, tr2, call, data, reconstructed', stream', enc')
                       /\ \A m \in 0 .. n : tr2[m] = tr[m]
        BY <1>3, <2>1, <3>1, HistoryExtends
      <3>3. n \in Nat
        BY <3>1 DEF History
      <3>4. \E m \in 0 .. n + 1 : dec = tr2[m]
        BY <3>1, <3>2, <3>3
      <3> QED BY <3>2, <3>4
    <2> QED BY <1>1, <1>5, <2>2, <2>3, <2>4 DEF Inv
  <1> QED BY <1>6, <1>7

\* Whenever the decompressor takes a step, the history says what the step is.
LEMMA NextReplays ==
  ASSUME Inv, Decompress
  PROVE  /\ Arrays /\ Agrees /\ Ready /\ enc.pc = "done"
         /\ \E n, tr, m : /\ History(n, tr, call, data, reconstructed, stream, enc)
                          /\ m \in 0 .. n - 1 /\ dec = tr[m] /\ dec.pc # "done"
                          /\ Replays(call, data, reconstructed, stream, dec, tr[m + 1])
                          /\ LegacyOK(call, tr[m + 1])
  <1>1. enc.pc = "done" /\ dec.pc \in {"block", "element", "leave"}
    BY DEF Decompress, EnterBlock, DecodeElement, ExitBlock
  <1>2. Arrays /\ Agrees /\ Ready
    BY <1>1 DEF Inv
  <1>3. PICK n, tr, m : /\ History(n, tr, call, data, reconstructed, stream, enc)
                        /\ m \in 0 .. n /\ dec = tr[m]
    BY <1>1 DEF Inv
  <1>4. n \in Nat /\ tr[n] = enc
    BY <1>3 DEF History
  <1>5. m \in 0 .. n - 1 /\ m + 1 \in 0 .. n
    BY <1>1, <1>3, <1>4
  <1>6. Replays(call, data, reconstructed, stream, dec, tr[m + 1])
    BY <1>3, <1>5 DEF History
  <1>7. LegacyOK(call, tr[m + 1])
    <2>1. CASE m + 1 = n
      BY <2>1, <1>2, <1>4 DEF Ready
    <2>2. CASE m + 1 # n
      <3>1. m + 1 \in 0 .. n - 1
        BY <2>2, <1>4, <1>5
      <3> QED BY <3>1, <1>3 DEF History
    <2> QED BY <2>1, <2>2
  <1> QED BY <1>1, <1>2, <1>3, <1>5, <1>6, <1>7

\* A step of the decompressor is the one the history says, and hands out what
\* the compressor went on with, if anything.
LEMMA DecompressReplays ==
  ASSUME Arrays, Decompress, NEW n, Replays(call, data, reconstructed, stream, dec, n)
  PROVE  /\ dec' = n
         /\ \/ dec.pc # "element" /\ dec_data' = dec_data
            \/ /\ dec.pc = "element"
               /\ dec_data' = [dec_data EXCEPT
                    ![DataAt(call.size, dec.c)] = ElementValue(call, stream, dec)]
               /\ reconstructed[DataAt(call.size, dec.c)] = ElementValue(call, stream, dec)
               /\ WithinPrecision(data[DataAt(call.size, dec.c)],
                                  ElementValue(call, stream, dec))
  <1>1. CASE EnterBlock
    <2>1. dec.pc = "block" /\ dec' = Entered(stream, dec) /\ dec_data' = dec_data
      BY <1>1, Zenon DEF EnterBlock, Entered
    <2>2. n = Entered(stream, dec)
      BY <2>1 DEF Replays
    <2>3. dec.pc # "element"
      BY <2>1
    <2> QED BY <2>1, <2>2, <2>3
  <1>2. CASE DecodeElement
    <2> DEFINE v == ElementValue(call, stream, dec)
               here == DataAt(call.size, dec.c)
    <2>1. /\ dec.pc = "element"
          /\ dec_data' = [dec_data EXCEPT ![here] = v]
          /\ dec' = LegacyElement(call, dec, CodeOf(call, stream, dec), v)
      BY <1>2, Zenon DEF DecodeElement, ElementValue, CodeOf
    <2>2. /\ n = LegacyElement(call, dec, CodeOf(call, stream, dec), v)
          /\ reconstructed[here] = v /\ WithinPrecision(data[here], v)
      BY <2>1 DEF Replays
    <2> QED BY <2>1, <2>2
  <1>3. CASE ExitBlock
    BY <1>3 DEF ExitBlock, Replays
  <1> QED BY <1>1, <1>2, <1>3 DEF Decompress

\* and by every step of the decompressor, which follows the history.
LEMMA InvDecompress == ASSUME Inv, Decompress PROVE Inv'
  <1>1. /\ call' = call /\ data' = data /\ stream' = stream /\ enc' = enc
        /\ reconstructed' = reconstructed
    BY DEF Decompress
  <1>2. /\ Arrays /\ Agrees /\ Ready /\ enc.pc = "done" /\ TypeInAlphabet
    BY NextReplays DEF Inv
  <1>3. PICK n, tr, m : /\ History(n, tr, call, data, reconstructed, stream, enc)
                        /\ m \in 0 .. n - 1 /\ dec = tr[m] /\ dec.pc # "done"
                        /\ Replays(call, data, reconstructed, stream, dec, tr[m + 1])
                        /\ LegacyOK(call, tr[m + 1])
    BY NextReplays
  <1>4. /\ dec' = tr[m + 1]
        /\ \/ dec_data' = dec_data
           \/ /\ dec_data' = [dec_data EXCEPT
                   ![DataAt(call.size, dec.c)] = ElementValue(call, stream, dec)]
              /\ reconstructed[DataAt(call.size, dec.c)] = ElementValue(call, stream, dec)
    BY <1>2, <1>3, DecompressReplays
  <1>5. Arrays'
    BY <1>1, <1>2, <1>3, <1>4 DEF Arrays
  <1>6. Agrees'
    BY <1>1, <1>2, <1>4 DEF Agrees
  <1>7. \E q \in 0 .. n : dec' = tr[q]
    <2>1. n \in Nat
      BY <1>3 DEF History
    <2> QED BY <2>1, <1>3, <1>4
  <1>8. Waits'
    BY <1>1, <1>2 DEF Waits
  <1> QED BY <1>1, <1>2, <1>3, <1>5, <1>6, <1>7, <1>8 DEF Inv, Ready, TypeInAlphabet

\* The invariant holds in every state.
LEMMA Invariance == ASSUME Rounds PROVE Spec => []Inv
  <1>1. Inv /\ [Next]_vars => Inv'
    <2> SUFFICES ASSUME Inv, [Next]_vars PROVE Inv'
      OBVIOUS
    <2>1. CASE Finished \/ UNCHANGED vars
      <3>1. UNCHANGED <<call, data, stream, enc, dec, dec_data, reconstructed>>
        BY <2>1 DEF Finished, vars
      <3> QED BY <3>1 DEF Inv, Arrays, Waits, Agrees, TypeInAlphabet, Ready
    <2> QED BY <2>1, InvCompress, InvDecompress DEF Next
  <1> QED BY <1>1, InvInit, PTL DEF Spec

----------------------------------------------------------------------------
(* What the invariant says.                                                *)

\* The decompressor makes of every element exactly what the compressor went on
\* with, in either mode and at every moment, and ends with every pointer where
\* the compressor left it.
THEOREM InLockstep == ASSUME Rounds PROVE Spec => []Lockstep
  <1>1. Inv => Lockstep
    <2> SUFFICES ASSUME Inv PROVE Lockstep
      OBVIOUS
    <2>1. ASSUME dec.pc = "done" PROVE dec = enc
      <3>1. enc.pc = "done"
        <4>1. LegacyStart(call).pc = "block"
          BY DEF LegacyStart
        <4> QED BY <2>1, <4>1 DEF Inv, Waits
      <3>2. PICK n, tr, m : /\ History(n, tr, call, data, reconstructed, stream, enc)
                            /\ m \in 0 .. n /\ dec = tr[m]
        BY <3>1 DEF Inv
      <3>3. n \in Nat /\ tr[n] = enc
        BY <3>2 DEF History
      <3>4. ASSUME m # n PROVE FALSE
        <4>1. m \in 0 .. n - 1
          BY <3>2, <3>3, <3>4
        <4>2. Replays(call, data, reconstructed, stream, dec, tr[m + 1])
          BY <4>1, <3>2 DEF History
        <4> QED BY <4>2, <2>1 DEF Replays
      <3> QED BY <3>2, <3>3, <3>4
    <2> QED BY <2>1 DEF Inv, Agrees, Lockstep
  <1> QED BY <1>1, Invariance, PTL

\* Every code the compressor writes is a symbol of the alphabet it hands to the
\* entropy coder, whatever the data and however far a prediction is off.
THEOREM CodesInAlphabet == ASSUME Rounds PROVE Spec => []TypeInAlphabet
  <1>1. Inv => TypeInAlphabet
    BY DEF Inv
  <1> QED BY <1>1, Invariance, PTL

----------------------------------------------------------------------------
(* The refinement.                                                         *)

\* What has been handed out is what the decompressor has passed.
Produced ==
  \A x, y, z : InArray(call.size, x, y, z) =>
    (dec_data[Addr(call.size, x, y, z)] # Unset <=> Passed(call, dec, x, y, z))

\* The value of an element is a number of T, whichever way it was coded.
LEMMA ValueIsNumber ==
  ASSUME Rounds, Arrays, dec.pc = "element",
         NEW n, Replays(call, data, reconstructed, stream, dec, n)
  PROVE  ElementValue(call, stream, dec) \in Int
  <1> DEFINE t == CodeOf(call, stream, dec)
             v == IF t = 0 THEN stream.unpred[dec.unpred_pos] ELSE 0
             here == DataAt(call.size, dec.c)
  <1>1. here \in 0 .. call.size.num_elements - 1
    <2>1. /\ IsSize(call.size) /\ dec.c \in Cursors /\ AtElement(call.size, dec.c)
          /\ Pointers(call.size, 1, dec.c)
      BY CallFacts DEF Arrays, LegacyOK
    <2> QED BY <2>1, CursorInArray
  <1>2. data[here] \in Int
    BY <1>1, InputsAssumption DEF Arrays
  <1>3. t = 0 => v \in Int
    <2>1. t = 0 => stream.unpred[dec.unpred_pos] = data[here]
      BY DEF Replays
    <2> QED BY <2>1, <1>2
  <1>4. call.mean \in Int
    BY CallFacts DEF Arrays
  <1>5. ElementValue(call, stream, dec) = Decoded(call, dec, t, v)
    BY DEF ElementValue
  <1> HIDE DEF t, v
  <1>6. t # 0 => Decoded(call, dec, t, v) = call.mean \/ \E x : Decoded(call, dec, t, v) = Fl(x)
    BY DEF Decoded, LegacyRecover
  <1>7. t = 0 => Decoded(call, dec, t, v) = v
    BY DEF Decoded
  <1>8. (\E x : Decoded(call, dec, t, v) = Fl(x)) => Decoded(call, dec, t, v) \in Int
    BY DEF Rounds
  <1> QED BY <1>3, <1>4, <1>5, <1>6, <1>7, <1>8

\* The round trip starts with nothing handed out.
LEMMA ProducedInit == ASSUME Init PROVE Produced /\ Codec!Init
  <1>1. /\ call \in Calls /\ data \in Inputs(call) /\ dec = LegacyStart(call)
        /\ dec_data = [a \in 0 .. call.size.num_elements - 1 |-> Unset]
    BY DEF Init
  <1>2. DOMAIN data = 0 .. call.size.num_elements - 1
    BY <1>1, InputsAssumption
  <1>3. ASSUME NEW x, NEW y, NEW z, InArray(call.size, x, y, z)
        PROVE  dec_data[Addr(call.size, x, y, z)] = Unset /\ ~Passed(call, dec, x, y, z)
    <2>1. Addr(call.size, x, y, z) \in 0 .. call.size.num_elements - 1
      BY <1>1, <1>3, CallFacts, AddressRange
    <2>2. ~Passed(call, LegacyStart(call), x, y, z)
      BY <1>1, <1>3, NothingPassed
    <2> QED BY <2>1, <2>2, <1>1
  <1> QED BY <1>1, <1>2, <1>3 DEF Produced, Codec!Init

\* An element step hands out the element under the cursor, which was not handed
\* out before.
LEMMA ElementProduced ==
  ASSUME Rounds, Unset \notin Int, Inv, Produced, Decompress, dec.pc = "element"
  PROVE  Produced' /\ Codec!Next
  <1>1. /\ call' = call /\ data' = data /\ Arrays
    BY NextReplays DEF Decompress
  <1>2. PICK n : Replays(call, data, reconstructed, stream, dec, n)
    BY NextReplays
  <1> DEFINE a == DataAt(call.size, dec.c)
             v == ElementValue(call, stream, dec)
             next == dec'
  <1>3. /\ dec_data' = [dec_data EXCEPT ![a] = v] /\ next = n
        /\ WithinPrecision(data[a], v)
    BY <1>1, <1>2, DecompressReplays
  <1>4. v # Unset
    BY <1>1, <1>2, ValueIsNumber
  <1>5. n = LegacyElement(call, dec, CodeOf(call, stream, dec), v)
    BY <1>2 DEF Replays
  <1>6. /\ call \in Calls /\ LegacyOK(call, dec)
        /\ DOMAIN dec = {"pc", "c", "pred_buffer", "indicator", "coeffs", "unpred_pos",
                         "indicator_pos", "reg_pos"}
    BY <1>1 DEF Arrays, LegacyOK
  <1>7. next.c = AfterElement(call, dec.c) /\ next.pc = PcAfterElement(call, dec.c)
    BY <1>3, <1>5, <1>6 DEF LegacyElement
  <1>8. /\ dec.c \in Cursors /\ AtElement(call.size, dec.c) /\ IsSize(call.size)
        /\ Pointers(call.size, 1, dec.c)
    BY <1>6, CallFacts DEF LegacyOK
  <1>9. DOMAIN dec_data = 0 .. call.size.num_elements - 1 /\ DOMAIN data = DOMAIN dec_data
    BY <1>1, InputsAssumption DEF Arrays
  <1>10. /\ a \in DOMAIN dec_data
         /\ \E x, y, z : InArray(call.size, x, y, z) /\ At(call.size, dec.c, x, y, z)
    BY <1>8, <1>9, CursorInArray
  <1>11. \A x, y, z : InArray(call.size, x, y, z) =>
           /\ At(call.size, dec.c, x, y, z) <=> Addr(call.size, x, y, z) = a
           /\ At(call.size, dec.c, x, y, z) => ~Before(call.size, dec.c, x, y, z)
    BY <1>8, ElementUnder
  <1> HIDE DEF next, a, v
  <1>12. \A x, y, z : InArray(call.size, x, y, z) =>
           (Passed(call, next, x, y, z)
              <=> Passed(call, dec, x, y, z) \/ At(call.size, dec.c, x, y, z))
    BY <1>6, <1>7, ElementPasses
  <1>13. dec_data[a] = Unset
    <2>1. PICK x, y, z : InArray(call.size, x, y, z) /\ At(call.size, dec.c, x, y, z)
      BY <1>10
    <2>2. ~Passed(call, dec, x, y, z) /\ Addr(call.size, x, y, z) = a
      BY <2>1, <1>11 DEF Passed
    <2> QED BY <2>1, <2>2 DEF Produced
  <1>14. Produced'
    <2> SUFFICES ASSUME NEW x, NEW y, NEW z, InArray(call.size, x, y, z)
                 PROVE  dec_data'[Addr(call.size, x, y, z)] # Unset <=> Passed(call, next, x, y, z)
      BY <1>1 DEF Produced, next
    <2>1. Addr(call.size, x, y, z) \in DOMAIN dec_data
      BY <1>8, <1>9, AddressRange
    <2>2. dec_data[Addr(call.size, x, y, z)] # Unset <=> Passed(call, dec, x, y, z)
      BY DEF Produced
    <2> QED BY <2>1, <2>2, <1>3, <1>4, <1>11, <1>12
  <1>15. Codec!Produce(a)
    <2>1. /\ \A b \in DOMAIN data \ {a} : dec_data'[b] = dec_data[b]
          /\ DOMAIN dec_data' = DOMAIN data /\ dec_data'[a] = v
      BY <1>3, <1>9, <1>10
    <2> QED BY <2>1, <1>1, <1>3, <1>4, <1>13 DEF Codec!Produce
  <1> QED BY <1>9, <1>10, <1>14, <1>15 DEF Codec!Next

\* The steps between elements hand out nothing and pass nothing.
LEMMA OthersProduceNothing ==
  ASSUME Inv, Produced, Decompress, dec.pc # "element"
  PROVE  Produced' /\ UNCHANGED <<data, dec_data>>
  <1>1. /\ call' = call /\ data' = data /\ Arrays /\ call \in Calls /\ LegacyOK(call, dec)
    BY NextReplays DEF Decompress, Arrays
  <1>2. PICK n : Replays(call, data, reconstructed, stream, dec, n)
    BY NextReplays
  <1>3. dec' = n /\ dec_data' = dec_data
    BY <1>1, <1>2, DecompressReplays
  <1>4. \A x, y, z : InArray(call.size, x, y, z) =>
          (Passed(call, n, x, y, z) <=> Passed(call, dec, x, y, z))
    <2>1. CASE dec.pc = "block"
      <3>1. n = Entered(stream, dec)
        BY <1>2, <2>1 DEF Replays
      <3>2. n.c = dec.c /\ n.pc = "element"
        BY <3>1, <1>1 DEF Entered, LegacyOK
      <3> QED BY <2>1, <3>2 DEF Passed
    <2>2. CASE dec.pc = "leave"
      <3>1. n = AfterLegacyBlock(call, dec)
        BY <1>2, <2>2 DEF Replays
      <3> QED BY <3>1, <2>2, <1>1, BlockPasses
    <2> QED BY <2>1, <2>2, <1>2 DEF Replays
  <1> QED BY <1>1, <1>3, <1>4 DEF Produced

\* The older codec, in either mode, is an error-bounded codec: every element of
\* the output is written once, with a value within the precision of its datum,
\* and nothing else ever changes the output.
THEOREM RefinesCodec ==
  ASSUME Rounds, Unset \notin Int
  PROVE  Spec => ImplementsCodec
  <1>1. Init => Produced /\ Codec!Init
    BY ProducedInit
  <1>2. Inv /\ Produced /\ [Next]_vars => Produced' /\ [Codec!Next]_<<data, dec_data>>
    <2> SUFFICES ASSUME Inv, Produced, [Next]_vars
                 PROVE  Produced' /\ [Codec!Next]_<<data, dec_data>>
      OBVIOUS
    <2>1. CASE Compress \/ Finished \/ UNCHANGED vars
      <3>1. call' = call /\ data' = data /\ dec' = dec /\ dec_data' = dec_data
        BY <2>1 DEF Compress, Finished, vars
      <3> QED BY <3>1 DEF Produced
    <2>2. CASE Decompress
      <3>1. CASE dec.pc = "element"
        BY <2>2, <3>1, ElementProduced
      <3>2. CASE dec.pc # "element"
        BY <2>2, <3>2, OthersProduceNothing
      <3> QED BY <3>1, <3>2
    <2> QED BY <2>1, <2>2 DEF Next
  <1> QED BY <1>1, <1>2, Invariance, PTL DEF Spec, ImplementsCodec, Codec!Spec

----------------------------------------------------------------------------
(* The prediction buffer of the decompressor.                              *)

\* Where the buffer's first plane, row and column after the ghosts lie in the
\* array: its planes are those of the row of blocks under the cursor, its rows
\* and columns those of the array, or with block_independant of the block.
RowsFrom(k, c) == IF k.block_independant THEN c.j * k.size.block_size ELSE 0
ColumnsFrom(k, c) == IF k.block_independant THEN c.k * k.size.block_size ELSE 0
\* The first plane a prediction may read.
PlanesFrom(k, c) == IF k.block_independant THEN c.i * k.size.block_size ELSE 0

BufferSlot(k, p, u, v) == Slot(BufferSize(k), 1, p, u, v)

\* Slot p, u, v is that of the element at x, y, z.
Serves(k, c, p, u, v, x, y, z) ==
  /\ IsSlot(BufferSize(k), 1, p, u, v)
  /\ x = c.i * k.size.block_size + (p - 1)
  /\ y = RowsFrom(k, c) + (u - 1) /\ z = ColumnsFrom(k, c) + (v - 1)
Outside(k, c, x, y, z) ==
  x < PlanesFrom(k, c) \/ y < RowsFrom(k, c) \/ z < ColumnsFrom(k, c)

\* The buffer holds what is predicted from: always where it is that of the
\* array, and in a Lorenzo block where it is that of the block.
Kept(k, s) == k.block_independant => s.indicator = 0 /\ s.pc \in {"element", "leave"}

\* The slots outside are zero; those of elements passed hold what was handed out.
Held(k, s, out) ==
  \A p, u, v, x, y, z : Serves(k, s.c, p, u, v, x, y, z) =>
    /\ Outside(k, s.c, x, y, z) => s.pred_buffer[BufferSlot(k, p, u, v)] = 0
    /\ ~Outside(k, s.c, x, y, z) /\ Kept(k, s) /\ InArray(k.size, x, y, z)
         /\ Passed(k, s, x, y, z)
         => s.pred_buffer[BufferSlot(k, p, u, v)] = out[Addr(k.size, x, y, z)]

BufferOK(k, s, out) ==
  /\ DOMAIN s.pred_buffer = 0 .. BufferLength(BufferSize(k), 1) - 1
  /\ s.pc = "block" => s.c.ii = 0 /\ s.c.jj = 0 /\ s.c.kk = 0
  /\ s.pc # "done" => Held(k, s, out)

\* The buffer of a block is the buffer of an array of one block.
LEMMA BufferSizeFacts ==
  ASSUME NEW k \in Calls
  PROVE  LET B == BufferSize(k)
         IN  /\ IsSize(B) /\ B.block_size = k.size.block_size
             /\ ~k.block_independant => B = k.size
             /\ k.block_independant => B.d2 = B.block_size /\ B.d3 = B.block_size
  <1> DEFINE bs == k.size.block_size
             D == DSize_3d(bs, bs, bs, bs)
  <1>1. IsSize(k.size) /\ bs \in Nat \ {0}
    BY CallFacts, SizeFacts
  <1>2. D.d1 = bs /\ D.d2 = bs /\ D.d3 = bs /\ D.block_size = bs
    BY DEF DSize_3d
  <1>3. IsSize(D)
    <2> HIDE DEF D, bs
    <2>1. \A f \in {"d1", "d2", "d3", "block_size"} : D[f] \in Nat \ {0}
      BY <1>1, <1>2
    <2>2. D = DSize_3d(D.d1, D.d2, D.d3, D.block_size)
      BY <1>2 DEF D
    <2> QED BY <2>1, <2>2 DEF IsSize
  <1> HIDE DEF D
  <1> QED BY <1>1, <1>2, <1>3 DEF BufferSize, D

\* The slot of the element under the cursor, and the only one that serves it.
LEMMA ElementSlot ==
  ASSUME NEW k \in Calls, NEW s, LegacyOK(k, s), s.pc # "done"
  PROVE  \E p, u, v, x, y, z :
           /\ BufferAt(k, s.c) = BufferSlot(k, p, u, v)
           /\ Serves(k, s.c, p, u, v, x, y, z) /\ ~Outside(k, s.c, x, y, z)
           /\ InArray(k.size, x, y, z) /\ At(k.size, s.c, x, y, z)
           /\ DataAt(k.size, s.c) = Addr(k.size, x, y, z)
           /\ x = s.c.i * k.size.block_size + s.c.ii
           /\ y = s.c.j * k.size.block_size + s.c.jj
           /\ z = s.c.k * k.size.block_size + s.c.kk
           /\ p \in Nat \ {0} /\ u \in Nat \ {0} /\ v \in Nat \ {0}
  <1> DEFINE c == s.c
             bs == k.size.block_size
             B == BufferSize(k)
             e == c.i * bs
             f == c.j * bs
             g == c.k * bs
             p == c.ii + 1
             u == (f - RowsFrom(k, c)) + c.jj + 1
             v == (g - ColumnsFrom(k, c)) + c.kk + 1
  <1>1. /\ IsSize(k.size) /\ c \in Cursors /\ AtElement(k.size, c) /\ Pointers(k.size, 1, c)
    BY CallFacts DEF LegacyOK
  <1>2. /\ IsSize(B) /\ B.block_size = bs
        /\ ~k.block_independant => B = k.size
        /\ k.block_independant => B.d2 = bs /\ B.d3 = bs
    BY BufferSizeFacts
  <1>3. /\ c.ii \in Nat /\ c.jj \in Nat /\ c.kk \in Nat /\ bs \in Nat \ {0}
        /\ c.ii < bs /\ c.jj < bs /\ c.kk < bs
        /\ e \in Nat /\ f \in Nat /\ g \in Nat
    <2>1. /\ c.ii < SizeX(k.size, c) /\ c.jj < SizeY(k.size, c) /\ c.kk < SizeZ(k.size, c)
          /\ SizeX(k.size, c) \in 1 .. bs /\ SizeY(k.size, c) \in 1 .. bs
          /\ SizeZ(k.size, c) \in 1 .. bs
          /\ c.ii \in Nat /\ c.jj \in Nat /\ c.kk \in Nat /\ bs \in Nat \ {0}
      BY <1>1, CursorFacts, SizeFacts
    <2>2. e \in Nat /\ f \in Nat /\ g \in Nat
      BY <1>1, Slab
    <2> HIDE DEF c, bs, e, f, g
    <2> QED BY <2>1, <2>2
  <1>4. /\ InArray(k.size, e + c.ii, f + c.jj, g + c.kk)
        /\ At(k.size, c, e + c.ii, f + c.jj, g + c.kk)
        /\ DataAt(k.size, c) = Addr(k.size, e + c.ii, f + c.jj, g + c.kk)
    BY <1>1, ElementInArray, ReadsAddress
  <1>5. /\ RowsFrom(k, c) = (IF k.block_independant THEN f ELSE 0)
        /\ ColumnsFrom(k, c) = (IF k.block_independant THEN g ELSE 0)
        /\ PlanesFrom(k, c) = (IF k.block_independant THEN e ELSE 0)
    BY DEF RowsFrom, ColumnsFrom, PlanesFrom
  <1>6. BufferAt(k, c) = Slot(B, 1, p, u, v) /\ IsSlot(B, 1, p, u, v)
    <2>1. CASE k.block_independant
      <3>1. u = c.jj + 1 /\ v = c.kk + 1
        <4> HIDE DEF c, f, g
        <4> QED BY <2>1, <1>3, <1>5
      <3> DEFINE c0 == [c EXCEPT !.buf = 0]
      <3>2. c0.buf = 0 /\ c0.ii = c.ii /\ c0.jj = c.jj /\ c0.kk = c.kk
        BY <1>1 DEF Cursors
      <3>3. BufferAt(k, c) = BufAt(B, 1, c0)
        BY <2>1 DEF BufferAt
      <3> HIDE DEF c0
      <3>4. BufAt(B, 1, c0) = 0 + (c.ii + 1) * BufferDim0(B, 1)
                                + (c.jj + 1) * BufferDim1(B, 1) + c.kk + 1
        BY <3>2 DEF BufAt
      <3>5. /\ (c.ii + 1) * BufferDim0(B, 1) \in Nat /\ (c.jj + 1) * BufferDim1(B, 1) \in Nat
        <4>1. BufferDim0(B, 1) \in Nat /\ BufferDim1(B, 1) \in Nat
          BY <1>2, BufferFacts
        <4> QED BY <4>1, <1>3
      <3>6. Slot(B, 1, p, u, v) = (c.ii + 1) * BufferDim0(B, 1)
                                    + (c.jj + 1) * BufferDim1(B, 1) + (c.kk + 1)
        BY <3>1 DEF Slot
      <3>7. IsSlot(B, 1, p, u, v)
        <4> HIDE DEF c, bs, B, u, v
        <4> QED BY <2>1, <3>1, <1>2, <1>3 DEF IsSlot
      <3> DEFINE m0 == (c.ii + 1) * BufferDim0(B, 1)
                 m1 == (c.jj + 1) * BufferDim1(B, 1)
      <3>8. 0 + m0 + m1 + c.kk + 1 = m0 + m1 + (c.kk + 1)
        <4>1. m0 \in Nat /\ m1 \in Nat /\ c.kk \in Nat
          BY <3>5, <1>3
        <4> HIDE DEF m0, m1, c
        <4> QED BY <4>1
      <3> QED BY <3>3, <3>4, <3>6, <3>7, <3>8
    <2>2. CASE ~k.block_independant
      <3>1. u = f + c.jj + 1 /\ v = g + c.kk + 1
        <4> HIDE DEF c, f, g
        <4> QED BY <2>2, <1>3, <1>5
      <3>2. BufferAt(k, c) = BufAt(k.size, 1, c) /\ B = k.size
        BY <2>2, <1>2 DEF BufferAt
      <3>3. /\ BufAt(k.size, 1, c) = Slot(k.size, 1, p, u, v)
            /\ IsSlot(k.size, 1, p, u, v)
        BY <3>1, <1>1, SlotOfElement
      <3> QED BY <3>2, <3>3
    <2> QED BY <2>1, <2>2, CallFacts
  <1>7. /\ e + c.ii = e + (p - 1) /\ f + c.jj = RowsFrom(k, c) + (u - 1)
        /\ g + c.kk = ColumnsFrom(k, c) + (v - 1)
        /\ p \in Nat \ {0} /\ u \in Nat \ {0} /\ v \in Nat \ {0}
        /\ ~(e + c.ii < PlanesFrom(k, c)) /\ ~(f + c.jj < RowsFrom(k, c))
        /\ ~(g + c.kk < ColumnsFrom(k, c))
    <2> HIDE DEF c, e, f, g
    <2> QED BY <1>3, <1>5
  <1> HIDE DEF p, u, v
  <1>8. Serves(k, c, p, u, v, e + c.ii, f + c.jj, g + c.kk)
    BY <1>6, <1>7 DEF Serves
  <1> QED BY <1>4, <1>6, <1>7, <1>8 DEF Outside, BufferSlot

\* A slot serves one element.
LEMMA ServesOne ==
  ASSUME NEW k \in Calls, NEW c \in Cursors, NEW p, NEW u, NEW v, NEW x, NEW y, NEW z,
         NEW p2, NEW u2, NEW v2, NEW x2, NEW y2, NEW z2,
         Serves(k, c, p, u, v, x, y, z), Serves(k, c, p2, u2, v2, x2, y2, z2)
  PROVE  /\ BufferSlot(k, p, u, v) = BufferSlot(k, p2, u2, v2) => x = x2 /\ y = y2 /\ z = z2
         /\ x = x2 /\ y = y2 /\ z = z2 => BufferSlot(k, p, u, v) = BufferSlot(k, p2, u2, v2)
  <1>1. IsSize(BufferSize(k)) /\ BufferSize(k).d2 \in Nat /\ BufferSize(k).d3 \in Nat
        /\ BufferSize(k).block_size \in Nat
    BY BufferSizeFacts, SizeFacts
  <1>2. /\ IsSlot(BufferSize(k), 1, p, u, v) /\ IsSlot(BufferSize(k), 1, p2, u2, v2)
        /\ x = c.i * k.size.block_size + (p - 1) /\ x2 = c.i * k.size.block_size + (p2 - 1)
        /\ y = RowsFrom(k, c) + (u - 1) /\ y2 = RowsFrom(k, c) + (u2 - 1)
        /\ z = ColumnsFrom(k, c) + (v - 1) /\ z2 = ColumnsFrom(k, c) + (v2 - 1)
    BY DEF Serves
  <1>3. /\ p \in Int /\ u \in Int /\ v \in Int /\ p2 \in Int /\ u2 \in Int /\ v2 \in Int
    BY <1>1, <1>2 DEF IsSlot
  <1>4. BufferSlot(k, p, u, v) = BufferSlot(k, p2, u2, v2) => p = p2 /\ u = u2 /\ v = v2
    <2> SUFFICES ASSUME BufferSlot(k, p, u, v) = BufferSlot(k, p2, u2, v2)
                 PROVE  p = p2 /\ u = u2 /\ v = v2
      OBVIOUS
    <2> DEFINE B == BufferSize(k)
    <2>1. /\ IsSize(B) /\ 1 \in Nat /\ Slot(B, 1, p, u, v) = Slot(B, 1, p2, u2, v2)
          /\ IsSlot(B, 1, p, u, v) /\ IsSlot(B, 1, p2, u2, v2)
      BY <1>1, <1>2 DEF BufferSlot
    <2> HIDE DEF B
    <2> QED BY <2>1, SlotsApart
  <1>5. /\ c.i * k.size.block_size \in Int /\ RowsFrom(k, c) \in Int
        /\ ColumnsFrom(k, c) \in Int
    <2>1. k.size.block_size \in Nat
      BY CallFacts, SizeFacts
    <2>2. c.i \in Nat /\ c.j \in Nat /\ c.k \in Nat
      BY DEF Cursors
    <2>3. /\ c.i * k.size.block_size \in Int /\ c.j * k.size.block_size \in Int
          /\ c.k * k.size.block_size \in Int
      BY <2>1, <2>2
    <2> QED BY <2>3 DEF RowsFrom, ColumnsFrom
  <1>6. \A a, q, q2 \in Int : a + (q - 1) = a + (q2 - 1) => q = q2
    OBVIOUS
  <1>7. x = x2 /\ y = y2 /\ z = z2 => p = p2 /\ u = u2 /\ v = v2
    BY <1>2, <1>3, <1>5, <1>6
  <1> QED BY <1>2, <1>4, <1>7

\* At the start the buffer is zero and nothing is passed.
LEMMA BufferStart ==
  ASSUME NEW k \in Calls, NEW out
  PROVE  BufferOK(k, LegacyStart(k), out)
  <1> DEFINE s == LegacyStart(k)
  <1>1. /\ s.pred_buffer = [a \in 0 .. BufferLength(BufferSize(k), 1) - 1 |-> 0]
        /\ s.c = CursorStart /\ s.pc = "block"
    BY DEF LegacyStart
  <1>2. s.c.ii = 0 /\ s.c.jj = 0 /\ s.c.kk = 0
    BY <1>1 DEF CursorStart
  <1>3. ASSUME NEW p, NEW u, NEW v, IsSlot(BufferSize(k), 1, p, u, v)
        PROVE  s.pred_buffer[BufferSlot(k, p, u, v)] = 0
    <2>1. BufferSlot(k, p, u, v) \in 0 .. BufferLength(BufferSize(k), 1) - 1
      BY <1>3, BufferSizeFacts, SlotInBuffer DEF BufferSlot
    <2> QED BY <2>1, <1>1
  <1> HIDE DEF s
  <1>4. \A x, y, z : InArray(k.size, x, y, z) => ~Passed(k, s, x, y, z)
    BY NothingPassed DEF s
  <1>5. Held(k, s, out)
    BY <1>3, <1>4 DEF Held, Serves
  <1>6. DOMAIN s.pred_buffer = 0 .. BufferLength(BufferSize(k), 1) - 1
    BY <1>1
  <1> QED BY <1>1, <1>2, <1>5, <1>6 DEF BufferOK, s

\* Of a block just reached nothing has been passed.
LEMMA NothingOfBlock ==
  ASSUME NEW k \in Calls, NEW s, LegacyOK(k, s), s.pc = "block",
         s.c.ii = 0, s.c.jj = 0, s.c.kk = 0, k.block_independant,
         NEW p, NEW u, NEW v, NEW x, NEW y, NEW z, Serves(k, s.c, p, u, v, x, y, z),
         ~Outside(k, s.c, x, y, z), InArray(k.size, x, y, z)
  PROVE  ~Passed(k, s, x, y, z)
  <1> DEFINE bs == k.size.block_size
  <1>1. /\ bs \in Nat \ {0} /\ s.c.i \in Nat /\ s.c.j \in Nat /\ s.c.k \in Nat
    BY CallFacts, SizeFacts DEF LegacyOK, Cursors
  <1>2. /\ BufferSize(k).block_size = bs /\ BufferSize(k).d2 = bs /\ BufferSize(k).d3 = bs
    BY BufferSizeFacts
  <1>3. /\ p \in 0 .. bs /\ u \in 0 .. bs /\ v \in 0 .. bs
    BY <1>1, <1>2 DEF Serves, IsSlot
  <1>4. /\ x = s.c.i * bs + (p - 1) /\ y = s.c.j * bs + (u - 1) /\ z = s.c.k * bs + (v - 1)
        /\ ~(x < s.c.i * bs) /\ ~(y < s.c.j * bs) /\ ~(z < s.c.k * bs)
    BY DEF Serves, Outside, RowsFrom, ColumnsFrom, PlanesFrom
  <1> HIDE DEF bs
  <1>5. ASSUME NEW q \in Nat, NEW r \in 0 .. bs, ~(q * bs + (r - 1) < q * bs)
        PROVE  (q * bs + (r - 1)) \div bs = q
    <2>1. q * bs \in Nat
      BY <1>1
    <2>2. r - 1 \in 0 .. bs - 1
      <3> DEFINE f == q * bs
      <3>1. f \in Nat /\ ~(f + (r - 1) < f)
        BY <2>1, <1>5
      <3> HIDE DEF f
      <3> QED BY <3>1, <1>1
    <2> QED BY <2>2, <1>1, <1>5, BlockOf
  <1>6. /\ Blk(k.size, x) = s.c.i /\ Blk(k.size, y) = s.c.j /\ Blk(k.size, z) = s.c.k
        /\ Off(k.size, x) \in Nat /\ Off(k.size, y) \in Nat /\ Off(k.size, z) \in Nat
    <2>1. x \div bs = s.c.i /\ y \div bs = s.c.j /\ z \div bs = s.c.k
      BY <1>1, <1>3, <1>4, <1>5
    <2>2. Off(k.size, x) \in Nat /\ Off(k.size, y) \in Nat /\ Off(k.size, z) \in Nat
      BY CallFacts, Position
    <2> QED BY <2>1, <2>2 DEF Blk, bs
  <1> QED BY <1>1, <1>6 DEF Passed, Before

\* Entering a block changes nothing of the buffer.
LEMMA BufferEntered ==
  ASSUME NEW k \in Calls, NEW s, NEW sel \in {0, 1}, NEW coeffs, NEW out, LegacyOK(k, s),
         s.pc = "block", BufferOK(k, s, out)
  PROVE  BufferOK(k, [s EXCEPT !.pc = "element", !.indicator = sel, !.coeffs = coeffs], out)
  <1> DEFINE n == [s EXCEPT !.pc = "element", !.indicator = sel, !.coeffs = coeffs]
  <1>1. n.pc = "element" /\ n.c = s.c /\ n.pred_buffer = s.pred_buffer /\ n.indicator = sel
    BY DEF LegacyOK
  <1> HIDE DEF n
  <1>2. /\ Held(k, s, out) /\ s.c.ii = 0 /\ s.c.jj = 0 /\ s.c.kk = 0
        /\ DOMAIN s.pred_buffer = 0 .. BufferLength(BufferSize(k), 1) - 1
    BY DEF BufferOK
  <1>3. \A x, y, z : Passed(k, n, x, y, z) <=> Passed(k, s, x, y, z)
    BY <1>1 DEF Passed
  <1>4. ASSUME NEW p, NEW u, NEW v, NEW x, NEW y, NEW z, Serves(k, s.c, p, u, v, x, y, z),
               ~Outside(k, s.c, x, y, z), InArray(k.size, x, y, z), Passed(k, s, x, y, z)
        PROVE  Kept(k, s)
    BY <1>2, <1>4, NothingOfBlock DEF Kept
  <1>5. Held(k, n, out)
    BY <1>1, <1>2, <1>3, <1>4 DEF Held
  <1> QED BY <1>1, <1>2, <1>5 DEF BufferOK, n

\* An element step writes, to the slot that serves the element, the value it
\* hands out; of a regression block with block_independant nothing is kept.
LEMMA BufferElement ==
  ASSUME NEW k \in Calls, NEW s, NEW t, NEW w, NEW out, LegacyOK(k, s), s.pc = "element",
         BufferOK(k, s, out), DOMAIN out = 0 .. k.size.num_elements - 1
  PROVE  BufferOK(k, LegacyElement(k, s, t, w), [out EXCEPT ![DataAt(k.size, s.c)] = w])
  <1> DEFINE n == LegacyElement(k, s, t, w)
             a == DataAt(k.size, s.c)
             out2 == [out EXCEPT ![a] = w]
             writes == WritesBuffer(k, s)
             slot == BufferAt(k, s.c)
  <1>1. /\ IsSize(k.size) /\ s.c \in Cursors /\ AtElement(k.size, s.c)
        /\ Pointers(k.size, 1, s.c)
    BY CallFacts DEF LegacyOK
  <1>2. /\ n.c = AfterElement(k, s.c) /\ n.pc = PcAfterElement(k, s.c)
        /\ n.indicator = s.indicator
        /\ n.pred_buffer = IF writes THEN [s.pred_buffer EXCEPT ![slot] = w]
                                     ELSE s.pred_buffer
    BY DEF LegacyElement, LegacyOK
  <1>3. n.c.i = s.c.i /\ n.c.j = s.c.j /\ n.c.k = s.c.k
    BY <1>1, <1>2, NextElementCases DEF AfterElement
  <1>4. n.pc \in {"element", "leave"}
    BY <1>2 DEF PcAfterElement
  <1>5. \A p, u, v, x, y, z :
          /\ Serves(k, n.c, p, u, v, x, y, z) <=> Serves(k, s.c, p, u, v, x, y, z)
          /\ Outside(k, n.c, x, y, z) <=> Outside(k, s.c, x, y, z)
    BY <1>3 DEF Serves, Outside, RowsFrom, ColumnsFrom, PlanesFrom
  <1>6. \A x, y, z : InArray(k.size, x, y, z) =>
          (Passed(k, n, x, y, z) <=> Passed(k, s, x, y, z) \/ At(k.size, s.c, x, y, z))
    BY <1>2, ElementPasses
  <1>7. Kept(k, n) => Kept(k, s) /\ writes
    BY <1>2, CallFacts DEF Kept, WritesBuffer
  <1>8. PICK p0, u0, v0, x0, y0, z0 :
          /\ slot = BufferSlot(k, p0, u0, v0) /\ Serves(k, s.c, p0, u0, v0, x0, y0, z0)
          /\ ~Outside(k, s.c, x0, y0, z0)
          /\ InArray(k.size, x0, y0, z0) /\ At(k.size, s.c, x0, y0, z0)
          /\ a = Addr(k.size, x0, y0, z0)
    BY ElementSlot
  <1>9. /\ DOMAIN s.pred_buffer = 0 .. BufferLength(BufferSize(k), 1) - 1 /\ Held(k, s, out)
    BY DEF BufferOK
  <1>10. ASSUME NEW p, NEW u, NEW v, IsSlot(BufferSize(k), 1, p, u, v)
         PROVE  BufferSlot(k, p, u, v) \in DOMAIN s.pred_buffer
    BY <1>9, <1>10, BufferSizeFacts, SlotInBuffer DEF BufferSlot
  <1>11. \A x, y, z : InArray(k.size, x, y, z) =>
           (At(k.size, s.c, x, y, z) <=> Addr(k.size, x, y, z) = a)
    BY <1>1, ElementUnder
  <1>12. a \in DOMAIN out /\ \A x, y, z : InArray(k.size, x, y, z) =>
                               Addr(k.size, x, y, z) \in DOMAIN out
    BY <1>1, <1>8, AddressRange
  <1>13. /\ out2[a] = w /\ \A b \in DOMAIN out \ {a} : out2[b] = out[b]
    BY <1>12
  <1>14. \A x, y, z : InArray(k.size, x, y, z) /\ At(k.size, s.c, x, y, z) =>
           x = x0 /\ y = y0 /\ z = z0
    BY <1>1, <1>8, <1>11, SameAddress
  <1> HIDE DEF n, a, out2, writes, slot
  <1>15. Held(k, n, out2)
    <2> SUFFICES ASSUME NEW p, NEW u, NEW v, NEW x, NEW y, NEW z,
                        Serves(k, s.c, p, u, v, x, y, z)
                 PROVE  /\ Outside(k, s.c, x, y, z) =>
                             n.pred_buffer[BufferSlot(k, p, u, v)] = 0
                        /\ ~Outside(k, s.c, x, y, z) /\ Kept(k, n)
                             /\ InArray(k.size, x, y, z) /\ Passed(k, n, x, y, z)
                             => n.pred_buffer[BufferSlot(k, p, u, v)]
                                  = out2[Addr(k.size, x, y, z)]
      BY <1>5 DEF Held
    <2> DEFINE b == BufferSlot(k, p, u, v)
    <2>1. b \in DOMAIN s.pred_buffer /\ slot \in DOMAIN s.pred_buffer
      BY <1>8, <1>10 DEF Serves
    <2>2. /\ b = slot => x = x0 /\ y = y0 /\ z = z0
          /\ x = x0 /\ y = y0 /\ z = z0 => b = slot
      BY <1>1, <1>8, ServesOne
    <2>3. /\ Outside(k, s.c, x, y, z) => s.pred_buffer[b] = 0
          /\ ~Outside(k, s.c, x, y, z) /\ Kept(k, s) /\ InArray(k.size, x, y, z)
               /\ Passed(k, s, x, y, z) => s.pred_buffer[b] = out[Addr(k.size, x, y, z)]
      BY <1>9 DEF Held
    <2> HIDE DEF b
    <2>4. CASE b = slot
      <3>1. x = x0 /\ y = y0 /\ z = z0
        BY <2>2, <2>4
      <3>2. ~Outside(k, s.c, x, y, z) /\ out2[Addr(k.size, x, y, z)] = w
        BY <3>1, <1>8, <1>13
      <3>3. Kept(k, n) => n.pred_buffer[b] = w
        BY <1>2, <1>7, <2>1, <2>4
      <3> QED BY <3>2, <3>3 DEF b
    <2>5. CASE b # slot
      <3>1. n.pred_buffer[b] = s.pred_buffer[b]
        BY <1>2, <2>1, <2>5
      <3>2. ASSUME InArray(k.size, x, y, z)
            PROVE  /\ ~At(k.size, s.c, x, y, z)
                   /\ out2[Addr(k.size, x, y, z)] = out[Addr(k.size, x, y, z)]
        <4>1. ~At(k.size, s.c, x, y, z)
          BY <2>2, <2>5, <3>2, <1>14
        <4> QED BY <4>1, <3>2, <1>11, <1>12, <1>13
      <3> QED BY <3>1, <3>2, <2>3, <1>6, <1>7 DEF b
    <2> QED BY <2>4, <2>5
  <1>16. DOMAIN n.pred_buffer = DOMAIN s.pred_buffer
    BY <1>2
  <1> QED BY <1>4, <1>9, <1>15, <1>16 DEF BufferOK, n, out2, a

\* The slide carries the last plane of a row of blocks to the ghost plane of the
\* next; no other slot serves an element passed then.
LEMMA BufferSlides ==
  ASSUME NEW k \in Calls, NEW s, NEW n, NEW out, LegacyOK(k, s), s.pc = "leave",
         ~k.block_independant, Held(k, s, out),
         DOMAIN s.pred_buffer = 0 .. BufferLength(k.size, 1) - 1,
         LastPlane(k.size, s.c), ~LastBlock(k.size, s.c),
         n.c = NextBlock(k.size, 1, s.c), n.pc = "block",
         n.pred_buffer = SlideBuffer(k.size, 1, s.pred_buffer),
         \A x, y, z : InArray(k.size, x, y, z) =>
           (Passed(k, n, x, y, z) <=> Passed(k, s, x, y, z))
  PROVE  Held(k, n, out)
  <1> DEFINE bs == k.size.block_size
             e == s.c.i * bs
  <1>1. /\ IsSize(k.size) /\ s.c \in Cursors /\ AtElement(k.size, s.c)
    BY CallFacts DEF LegacyOK
  <1>2. n.c.i = s.c.i + 1 /\ n.c.j = 0 /\ n.c.k = 0 /\ n.c.ii = 0 /\ n.c.jj = 0 /\ n.c.kk = 0
    BY <1>1, NextBlockCases DEF LastPlane
  <1>3. /\ bs \in Nat \ {0} /\ s.c.i \in Nat /\ e \in Nat /\ n.c.i * bs = e + bs
    <2>1. bs \in Nat \ {0} /\ s.c.i \in Nat
      BY <1>1, SizeFacts, CursorFacts
    <2>2. e \in Nat /\ (s.c.i + 1) * bs = e + bs
      BY <2>1, Distributes
    <2> QED BY <2>1, <2>2, <1>2
  <1>4. BufferSize(k) = k.size
    BY BufferSizeFacts
  <1>5. \A c, x, y, z : Outside(k, c, x, y, z) <=> x < 0 \/ y < 0 \/ z < 0
    BY DEF Outside, PlanesFrom, RowsFrom, ColumnsFrom
  <1> SUFFICES ASSUME NEW p, NEW u, NEW v, NEW x, NEW y, NEW z,
                      Serves(k, n.c, p, u, v, x, y, z)
               PROVE  /\ x < 0 \/ y < 0 \/ z < 0 =>
                           n.pred_buffer[BufferSlot(k, p, u, v)] = 0
                      /\ InArray(k.size, x, y, z) /\ Passed(k, s, x, y, z) =>
                           n.pred_buffer[BufferSlot(k, p, u, v)] = out[Addr(k.size, x, y, z)]
    BY <1>5 DEF Held
  <1>6. /\ IsSlot(k.size, 1, p, u, v)
        /\ x = (e + bs) + (p - 1) /\ y = 0 + (u - 1) /\ z = 0 + (v - 1)
    BY <1>3, <1>4 DEF Serves, RowsFrom, ColumnsFrom
  <1>7. p \in 0 .. (bs + 1) - 1
    BY <1>6 DEF IsSlot
  <1>8. Moved(k.size, 1, s.pred_buffer, p, u, v)
    BY <1>1, <1>6, Slides
  <1>9. CASE p < 1
    <2>1. /\ IsSlot(k.size, 1, p + bs, u, v)
          /\ n.pred_buffer[BufferSlot(k, p, u, v)]
               = s.pred_buffer[BufferSlot(k, p + bs, u, v)]
      BY <1>4, <1>8, <1>9 DEF Moved, BufferSlot
    <2>2. x = e + ((p + bs) - 1)
      <3> HIDE DEF e, bs
      <3> QED BY <1>3, <1>6, <1>7
    <2>3. Serves(k, s.c, p + bs, u, v, x, y, z)
      BY <1>4, <1>6, <2>1, <2>2 DEF Serves, RowsFrom, ColumnsFrom
    <2>4. ~(x < 0 \/ y < 0 \/ z < 0) \/ ~InArray(k.size, x, y, z)
      <3>1. k.size.d1 \in Nat /\ k.size.d2 \in Nat /\ k.size.d3 \in Nat
        BY <1>1, SizeFacts
      <3> QED BY <3>1 DEF InArray
    <2> QED BY <2>1, <2>3, <2>4, <1>5 DEF Held, Kept
  <1>10. CASE ~(p < 1)
    <2>1. /\ n.pred_buffer[BufferSlot(k, p, u, v)] = s.pred_buffer[BufferSlot(k, p, u, v)]
      BY <1>4, <1>8, <1>10 DEF Moved, BufferSlot
    <2>2. ~(x < 0) /\ x >= e + bs
      <3> HIDE DEF e, bs
      <3> QED BY <1>3, <1>6, <1>7, <1>10
    <2>3. y < 0 \/ z < 0 => s.pred_buffer[BufferSlot(k, p, u, v)] = 0
      <3>1. Serves(k, s.c, p, u, v, e + (p - 1), y, z)
        BY <1>4, <1>6 DEF Serves, RowsFrom, ColumnsFrom
      <3> QED BY <3>1, <1>5 DEF Held
    <2>4. ASSUME InArray(k.size, x, y, z) PROVE ~Passed(k, n, x, y, z)
      <3>1. /\ Blk(k.size, x) \in Nat /\ Off(k.size, x) \in Nat /\ Off(k.size, x) < bs
            /\ x = Blk(k.size, x) * bs + Off(k.size, x)
            /\ Blk(k.size, y) \in Nat /\ Blk(k.size, z) \in Nat
            /\ Off(k.size, y) \in Nat /\ Off(k.size, z) \in Nat
        BY <1>1, <2>4, Position
      <3>2. Blk(k.size, x) >= s.c.i + 1
        <4> DEFINE q == Blk(k.size, x)
                   o == Off(k.size, x)
                   f == q * bs
        <4> SUFFICES ASSUME ~(q >= s.c.i + 1) PROVE FALSE
          OBVIOUS
        <4>1. q \in Nat /\ q <= s.c.i
          BY <3>1, <1>3
        <4>2. f <= e /\ f \in Nat
          BY <4>1, <1>3, MulLe
        <4>3. o \in Nat /\ o < bs /\ x = f + o
          BY <3>1
        <4> HIDE DEF q, o, f, e, bs
        <4> QED BY <4>2, <4>3, <1>3, <2>2
      <3>3. ~Before(k.size, n.c, x, y, z)
        <4>1. /\ ~(Blk(k.size, x) < n.c.i) /\ ~(Blk(k.size, y) < n.c.j)
              /\ ~(Blk(k.size, z) < n.c.k) /\ ~(Off(k.size, x) < n.c.ii)
              /\ ~(Off(k.size, y) < n.c.jj) /\ ~(Off(k.size, z) < n.c.kk)
          <5>1. \A m \in Nat : ~(m < 0)
            OBVIOUS
          <5>2. \A m, h \in Nat : m >= h + 1 => ~(m < h + 1)
            OBVIOUS
          <5>3. ~(Blk(k.size, x) < s.c.i + 1)
            BY <3>1, <3>2, <1>3, <5>2
          <5> QED BY <3>1, <1>2, <5>1, <5>3
        <4> QED BY <4>1, Zenon DEF Before
      <3> QED BY <3>3 DEF Passed
    <2> QED BY <2>1, <2>2, <2>3, <2>4
  <1> QED BY <1>7, <1>9, <1>10

\* The step out of a block.
LEMMA BufferLeft ==
  ASSUME NEW k \in Calls, NEW s, NEW out, LegacyOK(k, s), s.pc = "leave", BufferOK(k, s, out)
  PROVE  BufferOK(k, AfterLegacyBlock(k, s), out)
  <1> DEFINE n == AfterLegacyBlock(k, s)
             slides == LastPlane(k.size, s.c) /\ ~k.block_independant
  <1>1. /\ n.c = NextBlock(k.size, 1, s.c)
        /\ n.pc = IF LastBlock(k.size, s.c) THEN "done" ELSE "block"
        /\ n.pred_buffer = IF slides THEN SlideBuffer(k.size, 1, s.pred_buffer)
                                     ELSE s.pred_buffer
    BY DEF AfterLegacyBlock, LegacyOK
  <1>2. /\ IsSize(k.size) /\ s.c \in Cursors /\ AtElement(k.size, s.c)
    BY CallFacts DEF LegacyOK
  <1>3. n.c.ii = 0 /\ n.c.jj = 0 /\ n.c.kk = 0
    BY <1>1, <1>2, NextBlockCases
  <1>4. \A x, y, z : InArray(k.size, x, y, z) =>
          (Passed(k, n, x, y, z) <=> Passed(k, s, x, y, z))
    BY BlockPasses
  <1>5. /\ DOMAIN s.pred_buffer = 0 .. BufferLength(BufferSize(k), 1) - 1 /\ Held(k, s, out)
    BY DEF BufferOK
  <1>6. DOMAIN n.pred_buffer = DOMAIN s.pred_buffer
    BY <1>1 DEF SlideBuffer
  <1> HIDE DEF n
  <1>7. ASSUME ~LastBlock(k.size, s.c) PROVE Held(k, n, out)
    <2>1. n.pc = "block"
      BY <1>1, <1>7
    <2>2. CASE k.block_independant
      <3>1. n.pred_buffer = s.pred_buffer /\ ~Kept(k, n)
        BY <1>1, <2>1, <2>2 DEF Kept
      <3>2. ASSUME NEW p, NEW u, NEW v, NEW x, NEW y, NEW z,
                   Serves(k, n.c, p, u, v, x, y, z), Outside(k, n.c, x, y, z)
            PROVE  s.pred_buffer[BufferSlot(k, p, u, v)] = 0
        <4> DEFINE bs == k.size.block_size
                   x1 == s.c.i * bs + (p - 1)
                   y1 == s.c.j * bs + (u - 1)
                   z1 == s.c.k * bs + (v - 1)
        <4>1. Serves(k, s.c, p, u, v, x1, y1, z1)
          BY <2>2, <3>2 DEF Serves, RowsFrom, ColumnsFrom
        <4>2. /\ bs \in Nat /\ n.c \in Cursors
              /\ p \in Int /\ u \in Int /\ v \in Int
          <5>1. bs \in Nat
            BY <1>2, SizeFacts
          <5>2. n.c \in Cursors
            BY <1>1, <1>2, NextBlockStays
          <5>3. /\ BufferSize(k).block_size \in Nat /\ BufferSize(k).d2 \in Nat
                /\ BufferSize(k).d3 \in Nat
            BY BufferSizeFacts, SizeFacts
          <5>4. p \in Int /\ u \in Int /\ v \in Int
            BY <5>3, <3>2 DEF Serves, IsSlot
          <5> QED BY <5>1, <5>2, <5>4
        <4>3. /\ n.c.i * bs \in Nat /\ n.c.j * bs \in Nat /\ n.c.k * bs \in Nat
              /\ s.c.i * bs \in Nat /\ s.c.j * bs \in Nat /\ s.c.k * bs \in Nat
          <5>1. /\ n.c.i \in Nat /\ n.c.j \in Nat /\ n.c.k \in Nat
                /\ s.c.i \in Nat /\ s.c.j \in Nat /\ s.c.k \in Nat
            BY <1>2, <4>2 DEF Cursors
          <5> QED BY <4>2, <5>1
        <4>4. /\ x = n.c.i * bs + (p - 1) /\ y = n.c.j * bs + (u - 1)
              /\ z = n.c.k * bs + (v - 1)
              /\ x < n.c.i * bs \/ y < n.c.j * bs \/ z < n.c.k * bs
          BY <2>2, <3>2 DEF Serves, Outside, RowsFrom, ColumnsFrom, PlanesFrom
        <4>5. \A f, g \in Nat : \A q \in Int : f + (q - 1) < f => g + (q - 1) < g
          OBVIOUS
        <4>6. x1 < s.c.i * bs \/ y1 < s.c.j * bs \/ z1 < s.c.k * bs
          BY <4>2, <4>3, <4>4, <4>5
        <4>7. Outside(k, s.c, x1, y1, z1)
          BY <2>2, <4>6 DEF Outside, RowsFrom, ColumnsFrom, PlanesFrom
        <4> QED BY <4>1, <4>7, <1>5 DEF Held
      <3> QED BY <3>1, <3>2 DEF Held
    <2>3. CASE ~k.block_independant /\ ~LastPlane(k.size, s.c)
      <3>1. n.pred_buffer = s.pred_buffer /\ n.c.i = s.c.i
        BY <1>1, <1>2, <2>3, NextBlockCases DEF LastPlane
      <3>2. \A p, u, v, x, y, z :
              /\ Serves(k, n.c, p, u, v, x, y, z) <=> Serves(k, s.c, p, u, v, x, y, z)
              /\ Outside(k, n.c, x, y, z) <=> Outside(k, s.c, x, y, z)
        BY <2>3, <3>1 DEF Serves, Outside, RowsFrom, ColumnsFrom, PlanesFrom
      <3>3. Kept(k, s)
        BY <2>3 DEF Kept
      <3> QED BY <3>1, <3>2, <3>3, <1>4, <1>5 DEF Held
    <2>4. CASE ~k.block_independant /\ LastPlane(k.size, s.c)
      <3>1. n.pred_buffer = SlideBuffer(k.size, 1, s.pred_buffer)
        BY <1>1, <2>4
      <3>2. BufferSize(k) = k.size
        BY <2>4, BufferSizeFacts
      <3> QED BY <3>1, <3>2, <2>1, <2>4, <1>1, <1>4, <1>5, <1>7, BufferSlides
    <2> QED BY <2>2, <2>3, <2>4
  <1>8. n.pc # "done" => ~LastBlock(k.size, s.c)
    BY <1>1
  <1> QED BY <1>3, <1>5, <1>6, <1>7, <1>8 DEF BufferOK, n

----------------------------------------------------------------------------
(* What is predicted from.                                                 *)

\* The buffer is sound at the start, and every step of the decompressor keeps it
\* so: the element it hands out goes where the later ones look for it.
BufferInv == BufferOK(call, dec, dec_data)

LEMMA BufferStep ==
  ASSUME Inv, BufferInv, Decompress
  PROVE  BufferInv'
  <1>1. call' = call /\ Arrays /\ call \in Calls /\ LegacyOK(call, dec)
    BY NextReplays DEF Decompress, Arrays
  <1>2. PICK n : Replays(call, data, reconstructed, stream, dec, n) /\ LegacyOK(call, n)
    BY NextReplays
  <1>3. /\ dec' = n
        /\ \/ dec.pc # "element" /\ dec_data' = dec_data
           \/ /\ dec.pc = "element"
              /\ dec_data' = [dec_data EXCEPT
                   ![DataAt(call.size, dec.c)] = ElementValue(call, stream, dec)]
    BY <1>1, <1>2, DecompressReplays
  <1>4. BufferOK(call, n, dec_data')
    <2>1. CASE dec.pc = "block"
      <3>1. n = Entered(stream, dec) /\ dec_data' = dec_data
        BY <1>2, <1>3, <2>1 DEF Replays
      <3> DEFINE sel == stream.indicator[dec.indicator_pos]
                 coeffs == IF sel = 1 THEN stream.reg_params[dec.reg_pos] ELSE <<>>
      <3>2. n = [dec EXCEPT !.pc = "element", !.indicator = sel, !.coeffs = coeffs]
        BY <3>1, Zenon DEF Entered
      <3>3. n.indicator = sel
        BY <3>2, <1>1 DEF LegacyOK
      <3>4. sel \in {0, 1}
        BY <3>3, <1>2 DEF LegacyOK
      <3> HIDE DEF sel, coeffs
      <3>5. BufferOK(call, n, dec_data)
        BY <3>2, <3>4, <1>1, <2>1, BufferEntered DEF BufferInv
      <3> QED BY <3>1, <3>5
    <2>2. CASE dec.pc = "element"
      <3> DEFINE t == CodeOf(call, stream, dec)
                 w == ElementValue(call, stream, dec)
      <3>1. n = LegacyElement(call, dec, t, w)
        BY <1>2, <2>2 DEF Replays
      <3>2. DOMAIN dec_data = 0 .. call.size.num_elements - 1
        BY <1>1 DEF Arrays
      <3>3. dec_data' = [dec_data EXCEPT ![DataAt(call.size, dec.c)] = w]
        BY <1>3, <2>2
      <3> HIDE DEF t, w
      <3>4. BufferOK(call, LegacyElement(call, dec, t, w),
                     [dec_data EXCEPT ![DataAt(call.size, dec.c)] = w])
        BY <3>2, <1>1, <2>2, BufferElement DEF BufferInv
      <3> QED BY <3>1, <3>3, <3>4, Zenon
    <2>3. CASE dec.pc = "leave"
      <3>1. n = AfterLegacyBlock(call, dec) /\ dec_data' = dec_data
        BY <1>2, <1>3, <2>3 DEF Replays
      <3> QED BY <3>1, <1>1, <2>3, BufferLeft DEF BufferInv
    <2> QED BY <1>2, <2>1, <2>2, <2>3 DEF Replays
  <1> QED BY <1>1, <1>3, <1>4 DEF BufferInv

LEMMA BufferInvariance == ASSUME Rounds PROVE Spec => [](Inv /\ BufferInv)
  <1>1. Init => BufferInv
    BY BufferStart DEF Init, BufferInv
  <1>2. Inv /\ BufferInv /\ [Next]_vars => BufferInv'
    <2> SUFFICES ASSUME Inv, BufferInv, [Next]_vars PROVE BufferInv'
      OBVIOUS
    <2>1. CASE Compress \/ Finished \/ UNCHANGED vars
      <3>1. call' = call /\ dec' = dec /\ dec_data' = dec_data
        BY <2>1 DEF Compress, Finished, vars
      <3> QED BY <3>1 DEF BufferInv
    <2>2. CASE Decompress
      BY <2>2, BufferStep
    <2> QED BY <2>1, <2>2 DEF Next
  <1> QED BY <1>1, <1>2, Invariance, PTL DEF Spec

\* One step back in some of the dimensions the buffer holds what was handed out
\* there, and zero where that lies outside.
LEMMA NeighbourHeld ==
  ASSUME NEW k \in Calls, NEW s, NEW out, LegacyOK(k, s), BufferOK(k, s, out),
         s.pc = "element", s.indicator = 0,
         NEW dx \in {0, 1}, NEW dy \in {0, 1}, NEW dz \in {0, 1}, dx # 0 \/ dy # 0 \/ dz # 0
  PROVE  LET c == s.c
             x == Back(k.size, c.i, c.ii, dx)
             y == Back(k.size, c.j, c.jj, dy)
             z == Back(k.size, c.k, c.kk, dz)
         IN  s.pred_buffer[BufferAt(k, c) - dx * BufferDim0(BufferSize(k), 1)
                                          - dy * BufferDim1(BufferSize(k), 1) - dz]
               = IF Outside(k, c, x, y, z) THEN 0
                 ELSE out[x * k.size.dim0_offset + y * k.size.dim1_offset + z]
  <1> DEFINE c == s.c
             bs == k.size.block_size
             B == BufferSize(k)
             x == Back(k.size, c.i, c.ii, dx)
             y == Back(k.size, c.j, c.jj, dy)
             z == Back(k.size, c.k, c.kk, dz)
             slot == BufferAt(k, c) - dx * BufferDim0(B, 1) - dy * BufferDim1(B, 1) - dz
  <1>1. /\ IsSize(k.size) /\ c \in Cursors /\ AtElement(k.size, c) /\ Held(k, s, out)
        /\ IsSize(B) /\ 1 \in Nat
    BY CallFacts, BufferSizeFacts DEF LegacyOK, BufferOK
  <1>2. PICK p, u, v, x0, y0, z0 :
          /\ BufferAt(k, c) = BufferSlot(k, p, u, v)
          /\ Serves(k, c, p, u, v, x0, y0, z0) /\ InArray(k.size, x0, y0, z0)
          /\ x0 = c.i * bs + c.ii /\ y0 = c.j * bs + c.jj /\ z0 = c.k * bs + c.kk
          /\ p \in Nat \ {0} /\ u \in Nat \ {0} /\ v \in Nat \ {0}
    BY ElementSlot
  <1>3. /\ c.i * bs \in Nat /\ c.j * bs \in Nat /\ c.k * bs \in Nat
        /\ c.ii \in Nat /\ c.jj \in Nat /\ c.kk \in Nat
        /\ RowsFrom(k, c) \in Nat /\ ColumnsFrom(k, c) \in Nat /\ PlanesFrom(k, c) \in Nat
    <2>1. c.i * bs \in Nat /\ c.j * bs \in Nat /\ c.k * bs \in Nat
      BY <1>1, Slab
    <2>2. c.ii \in Nat /\ c.jj \in Nat /\ c.kk \in Nat
      BY <1>1, CursorFacts
    <2> QED BY <2>1, <2>2 DEF RowsFrom, ColumnsFrom, PlanesFrom
  <1>4. x = x0 - dx /\ y = y0 - dy /\ z = z0 - dz
    <2>1. \A e, f, d \in Int : e + f - d = (e + f) - d
      OBVIOUS
    <2> QED BY <1>2, <1>3, <2>1 DEF Back
  <1> HIDE DEF x, y, z
  <1>5. slot = BufferSlot(k, p - dx, u - dy, v - dz)
    <2>1. SlotFrom(B, 1, p, u, v, dx, dy, dz)
      <3> HIDE DEF B
      <3> QED BY <1>1, <1>2, SlotBehind
    <2> QED BY <1>2, <2>1, Zenon DEF BufferSlot, SlotFrom, slot
  <1> HIDE DEF slot
  <1>6. Serves(k, c, p - dx, u - dy, v - dz, x, y, z)
    <2>1. /\ IsSlot(B, 1, p, u, v) /\ x0 = c.i * bs + (p - 1)
          /\ y0 = RowsFrom(k, c) + (u - 1) /\ z0 = ColumnsFrom(k, c) + (v - 1)
      BY <1>2 DEF Serves
    <2>2. /\ B.block_size \in Nat /\ B.d2 \in Nat /\ B.d3 \in Nat
      BY <1>1, SizeFacts
    <2>3. IsSlot(B, 1, p - dx, u - dy, v - dz)
      <3> HIDE DEF B
      <3> QED BY <1>2, <2>1, <2>2 DEF IsSlot
    <2>4. \A a \in Int : \A q \in Nat : \A d \in {0, 1} :
            (a + (q - 1)) - d = a + ((q - d) - 1)
      OBVIOUS
    <2>5. /\ x = c.i * bs + ((p - dx) - 1) /\ y = RowsFrom(k, c) + ((u - dy) - 1)
          /\ z = ColumnsFrom(k, c) + ((v - dz) - 1)
      BY <1>2, <1>3, <1>4, <2>1, <2>4
    <2> QED BY <2>3, <2>5 DEF Serves
  <1>7. CASE Outside(k, c, x, y, z)
    <2>1. s.pred_buffer[slot] = 0
      BY <1>1, <1>5, <1>6, <1>7 DEF Held
    <2> QED BY <1>7, <2>1 DEF slot, x, y, z
  <1>8. CASE ~Outside(k, c, x, y, z)
    <2>1. /\ x0 \in 0 .. k.size.d1 - 1 /\ y0 \in 0 .. k.size.d2 - 1
          /\ z0 \in 0 .. k.size.d3 - 1
          /\ k.size.d1 \in Nat /\ k.size.d2 \in Nat /\ k.size.d3 \in Nat
      BY <1>1, <1>2, SizeFacts DEF InArray
    <2>2. x >= 0 /\ y >= 0 /\ z >= 0
      <3>1. ~(x < PlanesFrom(k, c)) /\ ~(y < RowsFrom(k, c)) /\ ~(z < ColumnsFrom(k, c))
        BY <1>8 DEF Outside
      <3>2. x \in Int /\ y \in Int /\ z \in Int
        BY <1>4, <2>1
      <3>3. \A n \in Int : \A f \in Nat : ~(n < f) => n >= 0
        OBVIOUS
      <3> QED BY <1>3, <3>1, <3>2, <3>3
    <2>3. InArray(k.size, x, y, z) /\ x \in Nat /\ y \in Nat /\ z \in Nat
      BY <1>4, <2>1, <2>2 DEF InArray
    <2>4. Before(k.size, c, x, y, z)
      <3>1. dx \in Nat /\ dy \in Nat /\ dz \in Nat
        OBVIOUS
      <3> QED BY <1>1, <2>3, <3>1, BehindIsBefore DEF x, y, z
    <2>5. s.pred_buffer[slot] = out[Addr(k.size, x, y, z)]
      BY <1>1, <1>5, <1>6, <1>8, <2>3, <2>4 DEF Held, Passed, Kept
    <2>6. Addr(k.size, x, y, z) = x * k.size.dim0_offset + y * k.size.dim1_offset + z
      BY <1>1, <2>3, AddrOffsets
    <2> QED BY <1>8, <2>5, <2>6, Zenon DEF slot, x, y, z
  <1> QED BY <1>7, <1>8

\* The decompressor predicts an element from what it handed out one step back,
\* and from zero where there is nothing to predict from, with any array, block
\* size and call: the buffer of planes slides without losing a plane that is
\* still read, and the buffer of a block forgets the blocks before it.
THEOREM PredictsWhatWasHandedOut == ASSUME Rounds PROVE Spec => []PredictsFromNeighbours
  <1>1. Inv /\ BufferInv => PredictsFromNeighbours
    <2> DEFINE size == call.size
               c == dec.c
               first == IF call.block_independant
                        THEN <<c.i * size.block_size, c.j * size.block_size,
                               c.k * size.block_size>>
                        ELSE <<0, 0, 0>>
               at(d) == <<c.i * size.block_size + c.ii - d[1],
                          c.j * size.block_size + c.jj - d[2],
                          c.k * size.block_size + c.kk - d[3]>>
               value(p) == IF \A n \in 1..3 : p[n] >= first[n]
                           THEN dec_data[p[1] * size.dim0_offset + p[2] * size.dim1_offset
                                           + p[3]]
                           ELSE 0
    <2> SUFFICES ASSUME Inv, BufferInv, dec.pc = "element", dec.indicator = 0,
                        NEW d \in ({0, 1} \X {0, 1} \X {0, 1}) \ {<<0, 0, 0>>}
                 PROVE  dec.pred_buffer[BufferAt(call, c)
                                          - d[1] * BufferDim0(BufferSize(call), 1)
                                          - d[2] * BufferDim1(BufferSize(call), 1) - d[3]]
                          = value(at(d))
      BY DEF PredictsFromNeighbours
    <2> DEFINE x == Back(size, c.i, c.ii, d[1])
               y == Back(size, c.j, c.jj, d[2])
               z == Back(size, c.k, c.kk, d[3])
    <2>1. call \in Calls /\ LegacyOK(call, dec)
      BY DEF Inv, Arrays
    <2>2. /\ d[1] \in {0, 1} /\ d[2] \in {0, 1} /\ d[3] \in {0, 1}
          /\ d[1] # 0 \/ d[2] # 0 \/ d[3] # 0
      OBVIOUS
    <2>3. dec.pred_buffer[BufferAt(call, c) - d[1] * BufferDim0(BufferSize(call), 1)
                            - d[2] * BufferDim1(BufferSize(call), 1) - d[3]]
            = IF Outside(call, c, x, y, z) THEN 0
              ELSE dec_data[x * size.dim0_offset + y * size.dim1_offset + z]
      BY <2>1, <2>2, NeighbourHeld DEF BufferInv
    <2>4. at(d) = <<x, y, z>>
      BY DEF Back
    <2>5. first = <<PlanesFrom(call, c), RowsFrom(call, c), ColumnsFrom(call, c)>>
      BY DEF PlanesFrom, RowsFrom, ColumnsFrom
    <2>6. /\ x \in Int /\ y \in Int /\ z \in Int
          /\ RowsFrom(call, c) \in Int /\ ColumnsFrom(call, c) \in Int
          /\ PlanesFrom(call, c) \in Int
      <3>1. /\ c.i * size.block_size \in Int /\ c.j * size.block_size \in Int
            /\ c.k * size.block_size \in Int
            /\ c.ii \in Int /\ c.jj \in Int /\ c.kk \in Int
        <4>1. IsSize(size) /\ c \in Cursors /\ AtElement(size, c)
          BY <2>1, CallFacts DEF LegacyOK
        <4>2. /\ c.i * size.block_size \in Nat /\ c.j * size.block_size \in Nat
              /\ c.k * size.block_size \in Nat
          BY <4>1, Slab
        <4> QED BY <4>1, <4>2, CursorFacts
      <3> QED BY <2>2, <3>1 DEF Back, RowsFrom, ColumnsFrom, PlanesFrom
    <2> HIDE DEF x, y, z, at, first
    <2>7. (\A n \in 1..3 : at(d)[n] >= first[n]) <=> ~Outside(call, c, x, y, z)
      <3>1. \A a, b \in Int : a >= b <=> ~(a < b)
        OBVIOUS
      <3>2. /\ at(d)[1] = x /\ at(d)[2] = y /\ at(d)[3] = z
            /\ first[1] = PlanesFrom(call, c) /\ first[2] = RowsFrom(call, c)
            /\ first[3] = ColumnsFrom(call, c)
        BY <2>4, <2>5
      <3>3. 1..3 = {1, 2, 3}
        OBVIOUS
      <3> QED BY <2>6, <3>1, <3>2, <3>3 DEF Outside
    <2>8. at(d)[1] = x /\ at(d)[2] = y /\ at(d)[3] = z
      BY <2>4
    <2> QED BY <2>3, <2>7, <2>8, Zenon
  <1> QED BY <1>1, BufferInvariance, PTL
=============================================================================
