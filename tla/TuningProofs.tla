------------------------ MODULE TuningProofs ------------------------
(***************************************************************************)
(* What holds of the sample blocks of every array, whatever its shape, the *)
(* ratio and the predictors' errors, and of the parameters the tuner       *)
(* chooses by such samples, whatever ratios they compress to and whatever  *)
(* capacity the first step has decided.                                    *)
(***************************************************************************)
EXTENDS BlockSampling, Autotuning, FiniteSetTheorems, TLAPS

----------------------------------------------------------------------------
(* Arithmetic.                                                             *)

\* Multiplication keeps the order.
LEMMA MulMono ==
  ASSUME NEW a \in Nat, NEW b \in Nat, NEW n \in Nat, a <= b
  PROVE  a * n <= b * n /\ a * n \in Nat
  OBVIOUS

\* As many steps as fit into r, and one more element than the last begins at,
\* stay below r.
LEMMA StepsFit ==
  ASSUME NEW r \in Nat, NEW s \in Nat \ {0}, NEW i \in Nat, i < r \div s
  PROVE  i * s \in Nat /\ i * s + s <= r
  <1>1. r \div s \in Nat /\ s * (r \div s) <= r
    OBVIOUS
  <1>2. (i + 1) * s <= (r \div s) * s
    BY <1>1, MulMono
  <1>3. (i + 1) * s = i * s + s /\ i * s \in Nat /\ (r \div s) * s = s * (r \div s)
    BY <1>1
  <1> QED BY <1>1, <1>2, <1>3

\* A row-major address lies in its array.
LEMMA RowMajor ==
  ASSUME NEW d1 \in Nat, NEW d2 \in Nat, NEW d3 \in Nat,
         NEW x \in Nat, NEW y \in Nat, NEW z \in Nat, x < d1, y < d2, z < d3
  PROVE  x * (d2 * d3) + y * d3 + z \in 0 .. d1 * d2 * d3 - 1
  <1> DEFINE p == d2 * d3
  <1>1. p \in Nat /\ d1 * d2 * d3 = d1 * p
    OBVIOUS
  <1>2. y * d3 \in Nat /\ (y + 1) * d3 <= p /\ (y + 1) * d3 = y * d3 + d3
    BY MulMono
  <1>3. x * p \in Nat /\ (x + 1) * p <= d1 * p /\ (x + 1) * p = x * p + p /\ d1 * p \in Nat
    BY <1>1, MulMono
  <1> HIDE DEF p
  <1>4. x * p + y * d3 + z \in 0 .. d1 * p - 1
    BY <1>1, <1>2, <1>3
  <1> QED BY <1>1, <1>4 DEF p

----------------------------------------------------------------------------
(* The selection of a predictor.                                           *)

\* The comparison pair by pair finds a predictor with the least error, if one
\* is enabled, but for the tie that two of them lose to each other.
LEMMA SelectIsBest ==
  ASSUME NEW use \in SUBSET Predictors, NEW err \in [Predictors -> Nat],
         NEW p, p = Select(use, err)
  PROVE  \/ p \in use /\ \A q \in use : err[p] <= err[q]
         \/ p = "lorenzo" /\ (use = {} \/ Undecided(use, err))
  BY DEF Select, Wins, Undecided, Predictors

\* A stencil of either size, tried at any of the points, stays in the block.
LEMMA EstimationInBlock ==
  ASSUME NEW use, NEW dim, NEW n \in Nat, NEW d \in Estimation(use, dim, n)
  PROVE  d \in (0 .. n - 1) \X (0 .. n - 1) \X (0 .. n - 1)
  <1>1. PICK p \in Points(n) :
          d \in (p[1] - Reach(use, dim)[1] .. p[1]) \X (p[2] - Reach(use, dim)[2] .. p[2])
                  \X (p[3] - Reach(use, dim)[3] .. p[3])
    BY DEF Estimation
  <1>2. \A a \in 1 .. 3 : Reach(use, dim)[a] \in 0 .. 2
    BY DEF Reach
  <1>3. p[1] \in 2 .. n - 1 /\ p[2] \in 2 .. n - 1 /\ p[3] \in 2 .. n - 1
    <2>1. CASE n > 3 /\ p = <<n - 1, n - 1, n - 1>>
      BY <2>1
    <2>2. CASE \E i \in 2 .. n - 2 : p \in {i} \X {i, n - i} \X {i, n - i}
      <3>1. PICK i \in 2 .. n - 2 : p \in {i} \X {i, n - i} \X {i, n - i}
        BY <2>2
      <3>2. i \in 2 .. n - 1 /\ n - i \in 2 .. n - 1
        OBVIOUS
      <3> QED BY <3>1, <3>2
    <2> QED BY <2>1, <2>2 DEF Points
  <1> QED BY <1>1, <1>2, <1>3

----------------------------------------------------------------------------
(* The addresses of a sample block.                                        *)

\* Where the array, without the layer, has room for a sample block, the block
\* and the layer in front of it have room in the array: the address of their
\* element (a, b, c) is not above the row-major address of an element of it,
\* although the strides of the origin are those of the trimmed array.
LEMMA BlockFits ==
  ASSUME NEW d1 \in Nat, NEW d2 \in Nat, NEW d3 \in Nat, NEW layer \in Nat,
         layer <= d1, layer <= d2, layer <= d3,
         NEW edge \in Nat \ {0}, NEW s \in Nat, edge <= s,
         NEW i \in Nat, NEW j \in Nat, NEW k \in Nat,
         i < (d1 - layer) \div s, j < (d2 - layer) \div s, k < (d3 - layer) \div s,
         NEW a \in 0 .. edge + layer - 1, NEW b \in 0 .. edge + layer - 1,
         NEW c \in 0 .. edge + layer - 1
  PROVE  /\ i * s * (d2 - layer) * (d3 - layer) + j * s * (d3 - layer) + k * s \in Nat
         /\ i * s * (d2 - layer) * (d3 - layer) + j * s * (d3 - layer) + k * s
              + a * (d2 * d3) + b * d3 + c \in 0 .. d1 * d2 * d3 - 1
  <1> DEFINE A == i * s
             B == j * s
             C == k * s
             R2 == d2 - layer
             R3 == d3 - layer
             P == d2 * d3
             E == d1 * d2 * d3
  <1>1. /\ A \in Nat /\ A + s <= d1 - layer
        /\ B \in Nat /\ B + s <= R2
        /\ C \in Nat /\ C + s <= R3
    BY StepsFit
  <1>2. R2 \in Nat /\ R2 <= d2 /\ R3 \in Nat /\ R3 <= d3 /\ P \in Nat
    OBVIOUS
  <1>3. A + a \in Nat /\ B + b \in Nat /\ C + c \in Nat
        /\ A + a < d1 /\ B + b < d2 /\ C + c < d3
    BY <1>1
  <1>4. (A + a) * (d2 * d3) + (B + b) * d3 + (C + c) \in 0 .. E - 1
    BY <1>3, RowMajor
  <1> HIDE DEF A, B, C, R2, R3
  <1>5. R2 * R3 \in Nat /\ R2 * R3 <= P
    <2>1. R2 * R3 \in Nat /\ R2 * R3 <= d2 * R3
      BY <1>2, MulMono
    <2>2. R3 * d2 <= d3 * d2
      BY <1>2, MulMono
    <2>3. R3 * d2 = d2 * R3 /\ d3 * d2 = d2 * d3
      BY <1>2
    <2> QED BY <2>1, <2>2, <2>3, <1>2
  <1>6. A * R2 * R3 \in Nat /\ A * R2 * R3 <= A * P
    <2>1. R2 * R3 * A \in Nat /\ R2 * R3 * A <= P * A
      BY <1>1, <1>2, <1>5, MulMono
    <2>2. R2 * R3 * A = A * R2 * R3 /\ P * A = A * P
      BY <1>1, <1>2
    <2> QED BY <2>1, <2>2
  <1>7. B * R3 \in Nat /\ B * R3 <= B * d3
    <2>1. R3 * B \in Nat /\ R3 * B <= d3 * B
      BY <1>1, <1>2, MulMono
    <2>2. R3 * B = B * R3 /\ d3 * B = B * d3
      BY <1>1, <1>2
    <2> QED BY <2>1, <2>2
  <1>8. (A + a) * P = A * P + a * P /\ (B + b) * d3 = B * d3 + b * d3
    BY <1>1, <1>2
  <1>9. a * P \in Nat /\ b * d3 \in Nat /\ A * P \in Nat /\ B * d3 \in Nat /\ E \in Nat
    BY <1>1, <1>2
  <1> HIDE DEF P, E
  <1>10. A * R2 * R3 + B * R3 + C \in Nat
    BY <1>1, <1>6, <1>7
  <1>11. (A + a) * P + (B + b) * d3 + (C + c) \in 0 .. E - 1
    BY <1>4 DEF P
  <1>12. A * R2 * R3 + B * R3 + C + a * P + b * d3 + c \in 0 .. E - 1
    BY <1>1, <1>6, <1>7, <1>8, <1>9, <1>11
  <1> QED BY <1>10, <1>12 DEF A, B, C, R2, R3, P, E

----------------------------------------------------------------------------
(* The inductive invariant: the counts of sample blocks go with the        *)
(* distance, so a block is only compressed where there is room for it; and *)
(* what the properties say of all blocks and of the last choice.           *)

CountersInv ==
  /\ shape \in Shapes
  /\ sample_distance \in Nat
  /\ nx = Left(sample_distance, r1) /\ ny = Left(sample_distance, r2)
  /\ nz = Left(sample_distance, r3)
  /\ ix \in Nat /\ iy \in Nat /\ iz \in Nat

Inv == CountersInv /\ ReadsInside /\ BufferedBeforeUse /\ ChoosesBest

\* What is known of the array and its parameters.
LEMMA ShapeFacts ==
  ASSUME CountersInv
  PROVE  /\ shape.d1 \in Nat /\ shape.d2 \in Nat /\ shape.d3 \in Nat
         /\ shape.layer \in 1 .. 2 /\ shape.block_size \in Nat \ {0}
         /\ shape.layer <= shape.d1 /\ shape.layer <= shape.d2 /\ shape.layer <= shape.d3
         /\ Step(sample_distance) \in Nat \ {0}
         /\ shape.block_size <= Step(sample_distance)
         /\ Usable \in SUBSET Predictors
  BY SamplingAssumption DEF CountersInv, Step, Usable, Enabled

\* A block that is compressed lies in the array, with its layer.
LEMMA BufferInside ==
  ASSUME CountersInv, ix < nx, iy < ny, iz < nz
  PROVE  Origin \in Nat /\ Box(Origin, shape.block_size + shape.layer) \subseteq Elements
  <1> DEFINE edge == shape.block_size + shape.layer
  <1>1. SUFFICES ASSUME NEW a \in 0 .. edge - 1, NEW b \in 0 .. edge - 1, NEW c \in 0 .. edge - 1
                 PROVE  /\ Origin \in Nat
                        /\ Origin + a * dim0_offset + b * dim1_offset + c \in Elements
    <2>1. 0 \in 0 .. edge - 1
      BY ShapeFacts
    <2> QED BY <1>1, <2>1 DEF Box
  <1>2. ix \in Nat /\ iy \in Nat /\ iz \in Nat
    BY DEF CountersInv
  <1>3. /\ ix < (shape.d1 - shape.layer) \div Step(sample_distance)
        /\ iy < (shape.d2 - shape.layer) \div Step(sample_distance)
        /\ iz < (shape.d3 - shape.layer) \div Step(sample_distance)
    BY DEF CountersInv, Left, r1, r2, r3
  <1> DEFINE d1 == shape.d1
             d2 == shape.d2
             d3 == shape.d3
             l == shape.layer
             bs == shape.block_size
             s == Step(sample_distance)
  <1>4. /\ d1 \in Nat /\ d2 \in Nat /\ d3 \in Nat /\ l \in Nat /\ l <= d1 /\ l <= d2 /\ l <= d3
        /\ bs \in Nat \ {0} /\ s \in Nat /\ bs <= s
    BY ShapeFacts
  <1>5. ix < (d1 - l) \div s /\ iy < (d2 - l) \div s /\ iz < (d3 - l) \div s
    BY <1>3
  <1>6. a \in 0 .. bs + l - 1 /\ b \in 0 .. bs + l - 1 /\ c \in 0 .. bs + l - 1
    BY <1>1, <1>4
  <1>7. /\ Origin = ix * s * (d2 - l) * (d3 - l) + iy * s * (d3 - l) + iz * s
        /\ Elements = 0 .. d1 * d2 * d3 - 1
        /\ dim0_offset = d2 * d3 /\ dim1_offset = d3
    BY DEF Origin, Elements, dim0_offset, dim1_offset, r2, r3
  <1> HIDE DEF d1, d2, d3, l, bs, s
  <1>8. /\ ix * s * (d2 - l) * (d3 - l) + iy * s * (d3 - l) + iz * s \in Nat
        /\ ix * s * (d2 - l) * (d3 - l) + iy * s * (d3 - l) + iz * s
             + a * (d2 * d3) + b * d3 + c \in 0 .. d1 * d2 * d3 - 1
    BY <1>2, <1>4, <1>5, <1>6, BlockFits
  <1> QED BY <1>7, <1>8

\* The elements of the block are among those buffered for it.
LEMMA BlockInBuffer ==
  ASSUME CountersInv, Origin \in Nat
  PROVE  Box(BlockStart, shape.block_size) \subseteq Box(Origin, shape.block_size + shape.layer)
  <1> DEFINE bs == shape.block_size
             l == shape.layer
             p == dim0_offset
             q == dim1_offset
  <1>1. bs \in Nat \ {0} /\ l \in 1 .. 2 /\ p \in Nat /\ q \in Nat
    BY ShapeFacts DEF dim0_offset, dim1_offset
  <1>2. BlockStart = Origin + l * (p + q + 1)
    BY DEF BlockStart
  <1> HIDE DEF bs, l, p, q
  <1>3. ASSUME NEW a \in 0 .. bs - 1, NEW b \in 0 .. bs - 1, NEW c \in 0 .. bs - 1
        PROVE  /\ Origin + l * (p + q + 1) + a * p + b * q + c
                    = Origin + (a + l) * p + (b + l) * q + (c + l)
               /\ a + l \in 0 .. bs + l - 1 /\ b + l \in 0 .. bs + l - 1 /\ c + l \in 0 .. bs + l - 1
    <2>1. l = 1 \/ l = 2
      BY <1>1
    <2>2. a \in Nat /\ b \in Nat /\ c \in Nat
      BY <1>1
    <2>3. /\ (a + l) * p = a * p + l * p /\ (b + l) * q = b * q + l * q
          /\ l * (p + q + 1) = l * p + l * q + l
      BY <1>1, <2>2
    <2>4. a * p \in Nat /\ b * q \in Nat /\ l * p \in Nat /\ l * q \in Nat
      BY <1>1, <2>2
    <2> QED BY <1>1, <2>2, <2>3, <2>4
  <1>4. ASSUME NEW e \in Box(BlockStart, bs)
        PROVE  e \in Box(Origin, bs + l)
    <2>1. PICK a \in 0 .. bs - 1, b \in 0 .. bs - 1, c \in 0 .. bs - 1 :
            e = BlockStart + a * p + b * q + c
      BY <1>4 DEF Box, p, q
    <2>2. e = Origin + (a + l) * p + (b + l) * q + (c + l)
      BY <1>2, <1>3, <2>1
    <2>3. a + l \in 0 .. (bs + l) - 1 /\ b + l \in 0 .. (bs + l) - 1 /\ c + l \in 0 .. (bs + l) - 1
      BY <1>1, <1>3
    <2> QED BY <2>2, <2>3 DEF Box, p, q
  <1> QED BY <1>4 DEF bs, l

\* What the estimation reads lies in the block.
LEMMA EstimationReads ==
  ASSUME CountersInv
  PROVE  {BlockStart + d[1] * dim0_offset + d[2] * dim1_offset + d[3] :
            d \in Estimation(Usable, shape.dim, shape.block_size)}
           \subseteq Box(BlockStart, shape.block_size)
  <1>1. ASSUME NEW d \in Estimation(Usable, shape.dim, shape.block_size)
        PROVE  BlockStart + d[1] * dim0_offset + d[2] * dim1_offset + d[3]
                 \in Box(BlockStart, shape.block_size)
    <2>1. shape.block_size \in Nat
      BY ShapeFacts
    <2>2. /\ d[1] \in 0 .. shape.block_size - 1 /\ d[2] \in 0 .. shape.block_size - 1
          /\ d[3] \in 0 .. shape.block_size - 1
      BY <1>1, <2>1, EstimationInBlock
    <2> QED BY <2>2 DEF Box
  <1> QED BY <1>1

\* Widening and the ends touch none of the results.
LEMMA ResultsUntouched ==
  ASSUME Inv, UNCHANGED <<shape, results>>
  PROVE  ReadsInside' /\ BufferedBeforeUse' /\ ChoosesBest'
  BY DEF Inv, results, ReadsInside, BufferedBeforeUse, ChoosesBest, Elements, Usable

\* Widening the distance keeps the invariant.
LEMMA WidenInv == ASSUME Inv, Widen PROVE Inv'
  <1>1. CountersInv'
    BY DEF Inv, CountersInv, Widen, Left, Step, r1, r2, r3
  <1> QED BY <1>1, ResultsUntouched DEF Widen, Inv

\* Sampling a block keeps the invariant.
LEMMA SampleBlockInv == ASSUME Inv, SampleBlock PROVE Inv'
  <1>1. CountersInv /\ ix < nx /\ iy < ny /\ iz < nz /\ shape' = shape
    BY DEF Inv, SampleBlock
  <1>2. CountersInv'
    <2>1. nx \in Nat /\ ny \in Nat /\ nz \in Nat /\ ny # 0 /\ nz # 0
      <3>1. /\ Step(sample_distance) \in Nat \ {0} /\ r1 \in Nat /\ r2 \in Nat /\ r3 \in Nat
            /\ iy \in Nat /\ iz \in Nat
        BY <1>1, ShapeFacts DEF r1, r2, r3, CountersInv
      <3>2. \A r \in Nat, n \in Nat \ {0} : r \div n \in Nat
        OBVIOUS
      <3> QED BY <1>1, <3>1, <3>2 DEF CountersInv, Left
    <2>2. ix' \in Nat /\ iy' \in Nat /\ iz' \in Nat
      BY <1>1, <2>1 DEF SampleBlock, CountersInv, Inner
    <2> QED BY <1>1, <2>2 DEF SampleBlock, CountersInv, Left, Step, r1, r2, r3
  <1>3. /\ Box(Origin, shape.block_size + shape.layer) \subseteq Elements
        /\ Box(BlockStart, shape.block_size) \subseteq Box(Origin, shape.block_size + shape.layer)
    BY <1>1, BufferInside, BlockInBuffer
  <1>4. /\ buffered' = buffered \cup Box(Origin, shape.block_size + shape.layer)
        /\ blocks' = blocks \cup {Box(BlockStart, shape.block_size)}
    BY DEF SampleBlock
  <1>5. PICK err \in Estimates(Usable, shape.block_size, Errors) :
          choice' = [err |-> err, predictor |-> Select(Usable, err),
                     read |-> {BlockStart + d[1] * dim0_offset + d[2] * dim1_offset + d[3] :
                                 d \in Estimation(Usable, shape.dim, shape.block_size)}]
    BY DEF SampleBlock, ChoosePredictor
  <1>6. Elements' = Elements /\ Usable' = Usable
    BY <1>1 DEF Elements, Usable
  <1>7. ReadsInside'
    <2>1. buffered' \subseteq Elements /\ UNION blocks' \subseteq Elements
      BY <1>3, <1>4 DEF Inv, ReadsInside
    <2>2. choice'.read \subseteq Box(BlockStart, shape.block_size)
      BY <1>1, <1>5, EstimationReads
    <2> QED BY <1>4, <1>6, <2>1, <2>2 DEF ReadsInside
  <1>8. BufferedBeforeUse'
    BY <1>3, <1>4 DEF Inv, BufferedBeforeUse
  <1>9. ChoosesBest'
    <2>1. err \in [Predictors -> Nat] /\ Usable \in SUBSET Predictors
      BY <1>1, <1>5, ShapeFacts, SamplingAssumption DEF Estimates
    <2>2. choice'.predictor = Select(Usable, err) /\ choice'.err = err
      BY <1>5
    <2> QED BY <1>6, <2>1, <2>2, SelectIsBest DEF ChoosesBest
  <1> QED BY <1>2, <1>7, <1>8, <1>9 DEF Inv

\* The invariant holds of every behaviour of sz_compress_3d_sampling.
THEOREM Invariance == Spec => []Inv
  <1>1. Init => Inv
    <2> SUFFICES ASSUME Init PROVE Inv
      OBVIOUS
    <2>1. CountersInv
      <3>1. shape \in Shapes
        BY DEF Init
      <3>2. shape.block_size \in Nat
        BY <3>1, SamplingAssumption
      <3>3. Step(0) = shape.block_size
        BY <3>2 DEF Step
      <3> QED BY <3>1, <3>3 DEF Init, CountersInv, Left
    <2>2. ReadsInside /\ BufferedBeforeUse /\ ChoosesBest
      BY DEF Init, ReadsInside, BufferedBeforeUse, ChoosesBest
    <2> QED BY <2>1, <2>2 DEF Inv
  <1>2. Inv /\ [Next]_vars => Inv'
    <2> SUFFICES ASSUME Inv, [Next]_vars PROVE Inv'
      OBVIOUS
    <2>1. CASE UNCHANGED <<shape, position, results>>
      <3>1. CountersInv'
        BY <2>1 DEF Inv, CountersInv, position, Left, Step, r1, r2, r3
      <3> QED BY <2>1, <3>1, ResultsUntouched DEF Inv
    <2>2. CASE Widen
      BY <2>2, WidenInv
    <2>3. CASE SampleBlock
      BY <2>3, SampleBlockInv
    <2>4. CASE Finish
      BY <2>1, <2>4 DEF Finish
    <2>5. CASE Finished \/ UNCHANGED vars
      BY <2>1, <2>5 DEF Finished, vars
    <2> QED BY <2>2, <2>3, <2>4, <2>5 DEF Next
  <1> QED BY <1>1, <1>2, PTL DEF Spec

\* No sample block, its layer or its error estimation leaves the array.
THEOREM NothingReadOutside == Spec => []ReadsInside
  <1>1. Inv => ReadsInside
    BY DEF Inv
  <1> QED BY <1>1, Invariance, PTL

\* Every sample block is in the prediction buffer before it is compressed.
THEOREM BlocksBuffered == Spec => []BufferedBeforeUse
  <1>1. Inv => BufferedBeforeUse
    BY DEF Inv
  <1> QED BY <1>1, Invariance, PTL

\* The predictor selected for a block has the least error of those enabled.
THEOREM BestPredictor == Spec => []ChoosesBest
  <1>1. Inv => ChoosesBest
    BY DEF Inv
  <1> QED BY <1>1, Invariance, PTL

----------------------------------------------------------------------------
(* How many elements the sample blocks have.                               *)

\* A block has no more addresses than elements, wherever it is.
LEMMA BoxSize ==
  ASSUME NEW origin, NEW edge \in Nat
  PROVE  /\ IsFiniteSet(Box(origin, edge))
         /\ Cardinality(Box(origin, edge)) <= edge * edge * edge
  <1> DEFINE E == 0 .. edge - 1
             f == [t \in (E \X E) \X E |->
                     origin + t[1][1] * dim0_offset + t[1][2] * dim1_offset + t[2]]
  <1>1. IsFiniteSet(E) /\ Cardinality(E) = edge
    BY FS_Interval
  <1> HIDE DEF E
  <1>2. IsFiniteSet(E \X E) /\ Cardinality(E \X E) = edge * edge
    BY <1>1, FS_Product
  <1>3. /\ IsFiniteSet((E \X E) \X E)
        /\ Cardinality((E \X E) \X E) = edge * edge * edge
    BY <1>1, <1>2, FS_Product
  <1>4. f \in Surjection((E \X E) \X E, Box(origin, edge))
    <2>1. ASSUME NEW t \in (E \X E) \X E
          PROVE  f[t] \in Box(origin, edge)
      BY DEF Box, E
    <2>2. ASSUME NEW e \in Box(origin, edge)
          PROVE  \E t \in (E \X E) \X E : f[t] = e
      <3>1. PICK a \in E, b \in E, c \in E :
              e = origin + a * dim0_offset + b * dim1_offset + c
        BY <2>2 DEF Box, E
      <3>2. <<<<a, b>>, c>> \in (E \X E) \X E /\ f[<<<<a, b>>, c>>] = e
        BY <3>1
      <3> QED BY <3>2
    <2>3. f \in [(E \X E) \X E -> Box(origin, edge)]
      BY <2>1
    <2> HIDE DEF f
    <2> QED BY <2>2, <2>3 DEF Surjection
  <1> HIDE DEF f
  <1>5. /\ IsFiniteSet(Box(origin, edge))
        /\ Cardinality(Box(origin, edge)) <= Cardinality((E \X E) \X E)
    BY <1>3, <1>4, FS_Surjection
  <1> QED BY <1>3, <1>5

\* One more block adds at most its size.
LEMMA OneBlockMore ==
  ASSUME NEW S, NEW B, IsFiniteSet(UNION S), IsFiniteSet(B)
  PROVE  /\ IsFiniteSet(UNION (S \cup {B}))
         /\ Cardinality(UNION (S \cup {B})) <= Cardinality(UNION S) + Cardinality(B)
  <1>1. UNION (S \cup {B}) = (UNION S) \cup B
    OBVIOUS
  <1>2. IsFiniteSet((UNION S) \cap B)
    <2>1. (UNION S) \cap B \in SUBSET B
      OBVIOUS
    <2> QED BY <2>1, FS_Subset
  <1>3. /\ Cardinality(UNION S) \in Nat /\ Cardinality(B) \in Nat
        /\ Cardinality((UNION S) \cap B) \in Nat
    BY <1>2, FS_CardinalityType
  <1>4. /\ IsFiniteSet((UNION S) \cup B)
        /\ Cardinality((UNION S) \cup B)
             = Cardinality(UNION S) + Cardinality(B) - Cardinality((UNION S) \cap B)
    BY FS_Union
  <1>5. Cardinality((UNION S) \cup B) <= Cardinality(UNION S) + Cardinality(B)
    BY <1>3, <1>4
  <1> QED BY <1>1, <1>4, <1>5, Zenon

\* How many blocks come before block (i, j, k) when there are b by c in a plane.
Number(b, c, i, j, k) == i * (b * c) + j * c + k

\* No block has a number above the count of all.
LEMMA NumberBelow ==
  ASSUME NEW a \in Nat, NEW b \in Nat, NEW c \in Nat,
         NEW i \in Nat, NEW j \in Nat, NEW k \in Nat,
         i <= a, j = 0 \/ j < b, k = 0 \/ k < c, i = a => j = 0 /\ k = 0,
         b = 0 \/ c = 0 => j = 0 /\ k = 0
  PROVE  Number(b, c, i, j, k) <= a * b * c
  <1> DEFINE p == b * c
  <1>1. p \in Nat /\ a * b * c = a * p /\ j * c \in Nat
    OBVIOUS
  <1>2. j * c + k <= p
    <2>1. CASE j = 0 /\ k = 0
      BY <1>1, <2>1
    <2>2. CASE j < b /\ k < c
      <3>1. (j + 1) * c <= b * c
        BY <2>2, MulMono
      <3> QED BY <2>2, <3>1
    <2> QED BY <2>1, <2>2
  <1> HIDE DEF p
  <1>3. CASE i = a
    BY <1>1, <1>3 DEF p, Number
  <1>4. CASE i + 1 <= a
    <2>1. (i + 1) * p <= a * p
      BY <1>1, <1>4, MulMono
    <2>2. (i + 1) * p = i * p + p /\ i * p \in Nat /\ a * p \in Nat
      BY <1>1
    <2> QED BY <1>1, <1>2, <2>1, <2>2 DEF p, Number
  <1> QED BY <1>3, <1>4

\* Nothing is sampled before the distance is found, the loops stay in their
\* bounds, and the blocks behind the one they are at have room in the arrays.
CountInv ==
  /\ pc \in {"widen", "sample", "done"}
  /\ pc = "widen" => ix = 0 /\ iy = 0 /\ iz = 0 /\ blocks = {}
  /\ ix <= nx /\ (iy = 0 \/ iy < ny) /\ (iz = 0 \/ iz < nz)
  /\ ix = nx => iy = 0 /\ iz = 0
  /\ ny = 0 \/ nz = 0 => iy = 0 /\ iz = 0
  /\ IsFiniteSet(UNION blocks)
  /\ Cardinality(UNION blocks)
       <= Number(ny, nz, ix, iy, iz)
            * (shape.block_size * shape.block_size * shape.block_size)

\* How many sample blocks fit in a dimension.
LEMMA CountsAreNat ==
  ASSUME CountersInv
  PROVE  nx \in Nat /\ ny \in Nat /\ nz \in Nat /\ ix \in Nat /\ iy \in Nat /\ iz \in Nat
  <1>1. /\ Step(sample_distance) \in Nat \ {0} /\ r1 \in Nat /\ r2 \in Nat /\ r3 \in Nat
    BY ShapeFacts DEF r1, r2, r3
  <1>2. \A r \in Nat, n \in Nat \ {0} : r \div n \in Nat
    OBVIOUS
  <1> QED BY <1>1, <1>2 DEF CountersInv, Left

\* The empty union has no elements.
LEMMA NoBlocks == IsFiniteSet(UNION {}) /\ Cardinality(UNION {}) = 0
  <1>1. UNION {} = {}
    OBVIOUS
  <1> QED BY <1>1, FS_EmptySet

\* The steps and the start keep the loops in their bounds.
LEMMA CountInit == ASSUME Init, CountersInv PROVE CountInv
  <1> DEFINE cube == shape.block_size * shape.block_size * shape.block_size
  <1>1. cube \in Nat
    BY ShapeFacts
  <1> HIDE DEF cube
  <1>2. /\ ix = 0 /\ iy = 0 /\ iz = 0 /\ blocks = {} /\ pc \in {"widen", "sample", "done"}
    BY DEF Init
  <1>3. nx \in Nat /\ ny \in Nat /\ nz \in Nat
    BY CountsAreNat
  <1>4. ny * nz \in Nat
    BY <1>3
  <1>5. Number(ny, nz, ix, iy, iz) * cube = 0
    BY <1>1, <1>2, <1>3, <1>4 DEF Number
  <1> QED BY <1>2, <1>3, <1>5, NoBlocks DEF CountInv, cube

LEMMA CountWiden ==
  ASSUME CountersInv, CountersInv', CountInv, Widen
  PROVE  CountInv'
  <1> DEFINE cube == shape.block_size * shape.block_size * shape.block_size
  <1>1. cube \in Nat /\ shape' = shape
    BY ShapeFacts DEF Widen
  <1>2. /\ ix' = 0 /\ iy' = 0 /\ iz' = 0 /\ blocks' = {} /\ pc' \in {"widen", "sample", "done"}
    BY DEF Widen, CountInv, results
  <1>3. nx' \in Nat /\ ny' \in Nat /\ nz' \in Nat
    <2> DEFINE s == Step(sample_distance + 1)
    <2>1. s \in Nat \ {0} /\ r1 \in Nat /\ r2 \in Nat /\ r3 \in Nat
      BY ShapeFacts DEF r1, r2, r3, Step, CountersInv
    <2>2. nx' = r1 \div s /\ ny' = r2 \div s /\ nz' = r3 \div s
      BY DEF Widen, Left
    <2>3. \A r \in Nat, n \in Nat \ {0} : r \div n \in Nat
      OBVIOUS
    <2> QED BY <2>1, <2>2, <2>3
  <1> HIDE DEF cube
  <1>4. \A b, c \in Nat : Number(b, c, 0, 0, 0) * cube = 0
    BY <1>1 DEF Number
  <1>5. Number(ny', nz', ix', iy', iz') * cube = 0
    BY <1>2, <1>3, <1>4, Zenon
  <1> QED BY <1>1, <1>2, <1>3, <1>5, NoBlocks DEF CountInv, cube

LEMMA CountSample ==
  ASSUME CountersInv, CountInv, SampleBlock
  PROVE  CountInv'
  <1> DEFINE bs == shape.block_size
             cube == bs * bs * bs
             before == Number(ny, nz, ix, iy, iz)
             B == Box(BlockStart, bs)
  <1>1. bs \in Nat /\ cube \in Nat
    BY ShapeFacts
  <1>2. /\ nx \in Nat /\ ny \in Nat /\ nz \in Nat /\ ix \in Nat /\ iy \in Nat /\ iz \in Nat
        /\ ix < nx /\ iy < ny /\ iz < nz
    BY CountsAreNat DEF SampleBlock
  <1>3. PICK i2, j2, k2 : i2 = ix' /\ j2 = iy' /\ k2 = iz'
    OBVIOUS
  <1>4. /\ k2 = Inner(iz, nz) /\ j2 = IF k2 = 0 THEN Inner(iy, ny) ELSE iy
        /\ i2 = IF k2 = 0 /\ j2 = 0 THEN ix + 1 ELSE ix
    BY <1>3 DEF SampleBlock
  <1>5. /\ blocks' = blocks \cup {B}
        /\ shape' = shape /\ pc' = pc /\ pc = "sample" /\ nx' = nx /\ ny' = ny /\ nz' = nz
    BY DEF SampleBlock
  <1>6. /\ Number(ny, nz, i2, j2, k2) = before + 1
        /\ k2 < nz /\ k2 \in Nat /\ j2 < ny /\ j2 \in Nat
        /\ i2 = ix \/ (i2 = ix + 1 /\ j2 = 0 /\ k2 = 0)
    <2>1. i2 \in Nat /\ j2 \in Nat /\ k2 \in Nat
      BY <1>2, <1>4 DEF Inner
    <2>2. /\ Number(ny, nz, i2, j2, k2) = Number(ny, nz, ix, iy, iz) + 1
          /\ k2 < nz /\ j2 < ny
          /\ i2 = ix \/ (i2 = ix + 1 /\ j2 = 0 /\ k2 = 0)
      <3> DEFINE plane == ny * nz
      <3>1. \/ iz + 1 < nz /\ k2 = iz + 1 /\ j2 = iy /\ i2 = ix
            \/ iz + 1 = nz /\ k2 = 0 /\ iy + 1 < ny /\ j2 = iy + 1 /\ i2 = ix
            \/ iz + 1 = nz /\ k2 = 0 /\ iy + 1 = ny /\ j2 = 0 /\ i2 = ix + 1
        BY <1>2, <1>4 DEF Inner
      <3>2. /\ plane \in Nat /\ iy * nz \in Nat /\ (iy + 1) * nz = iy * nz + nz
            /\ iy + 1 = ny => (iy + 1) * nz = plane
        BY <1>2
      <3>3. ix * plane \in Nat /\ (ix + 1) * plane = ix * plane + plane
        BY <1>2, <3>2
      <3> HIDE DEF plane
      <3>4. i2 * plane + j2 * nz + k2 = ix * plane + iy * nz + iz + 1
        <4>1. CASE k2 = iz + 1 /\ j2 = iy /\ i2 = ix
          BY <1>2, <3>2, <3>3, <4>1
        <4>2. CASE iz + 1 = nz /\ k2 = 0 /\ j2 = iy + 1 /\ i2 = ix
          BY <1>2, <3>2, <3>3, <4>2
        <4>3. CASE iz + 1 = nz /\ k2 = 0 /\ iy + 1 = ny /\ j2 = 0 /\ i2 = ix + 1
          BY <1>2, <3>2, <3>3, <4>3
        <4> QED BY <3>1, <4>1, <4>2, <4>3
      <3> QED BY <1>2, <3>1, <3>4 DEF plane, Number
    <2> QED BY <2>1, <2>2, Zenon DEF before
  <1>7. /\ IsFiniteSet(UNION blocks')
        /\ Cardinality(UNION blocks') <= Cardinality(UNION blocks) + Cardinality(B)
        /\ Cardinality(UNION blocks) \in Nat /\ Cardinality(B) \in Nat
        /\ Cardinality(UNION blocks') \in Nat /\ Cardinality(B) <= cube
    <2>1. IsFiniteSet(UNION blocks)
      BY DEF CountInv
    <2>2. IsFiniteSet(B) /\ Cardinality(B) <= cube
      BY <1>1, BoxSize
    <2> HIDE DEF B
    <2> QED BY <1>5, <2>1, <2>2, OneBlockMore, FS_CardinalityType
  <1>8. Cardinality(UNION blocks) <= before * cube
    BY DEF CountInv
  <1>9. before \in Nat
    <2>1. ny * nz \in Nat /\ iy * nz \in Nat
      BY <1>2
    <2>2. ix * (ny * nz) \in Nat
      BY <1>2, <2>1
    <2> QED BY <1>2, <2>1, <2>2 DEF Number
  <1> HIDE DEF cube, before, B
  <1>10. Cardinality(UNION blocks') <= (before + 1) * cube
    <2>1. (before + 1) * cube = before * cube + cube /\ before * cube \in Nat
      BY <1>1, <1>9
    <2> QED BY <1>1, <1>7, <1>8, <2>1
  <1>11. Cardinality(UNION blocks') <= Number(ny, nz, i2, j2, k2) * (bs * bs * bs)
    BY <1>6, <1>10 DEF cube
  <1>12. /\ i2 <= nx /\ (i2 = nx => j2 = 0 /\ k2 = 0) /\ ny # 0 /\ nz # 0
    BY <1>2, <1>6
  <1> QED BY <1>3, <1>5, <1>6, <1>7, <1>11, <1>12 DEF CountInv

\* The counters stay in their loops, and the sample blocks never have more
\* elements than type and the lanes are allocated for.
THEOREM SampleArraysSuffice == Spec => []TypeOK
  <1>1. Init /\ Inv => CountInv
    BY CountInit DEF Inv
  <1>2. CountInv /\ Inv /\ Inv' /\ [Next]_vars => CountInv'
    <2> SUFFICES ASSUME CountInv, Inv, Inv', [Next]_vars PROVE CountInv'
      OBVIOUS
    <2>1. CASE Widen
      BY <2>1, CountWiden DEF Inv
    <2>2. CASE SampleBlock
      BY <2>2, CountSample DEF Inv
    <2>3. CASE Finish
      BY <2>3 DEF Finish, CountInv, position, results
    <2>4. CASE Finished \/ UNCHANGED vars
      BY <2>4 DEF Finished, vars, CountInv, position, results
    <2> QED BY <2>1, <2>2, <2>3, <2>4 DEF Next
  <1>3. Inv /\ CountInv => TypeOK
    <2> SUFFICES ASSUME Inv, CountInv PROVE TypeOK
      OBVIOUS
    <2>1. CountersInv
      BY DEF Inv
    <2>2. nx \in Nat /\ ny \in Nat /\ nz \in Nat /\ ix \in Nat /\ iy \in Nat /\ iz \in Nat
      BY <2>1, CountsAreNat
    <2> DEFINE bs == shape.block_size
               cube == bs * bs * bs
               before == Number(ny, nz, ix, iy, iz)
               all == nx * ny * nz
    <2>3. bs \in Nat /\ cube \in Nat
      BY <2>1, ShapeFacts
    <2>4. before <= all
      BY <2>2, NumberBelow DEF CountInv
    <2>5. before \in Nat /\ all \in Nat
      <3>1. ny * nz \in Nat /\ iy * nz \in Nat /\ nx * ny \in Nat
        BY <2>2
      <3>2. ix * (ny * nz) \in Nat /\ all \in Nat
        BY <2>2, <3>1
      <3> QED BY <2>2, <3>1, <3>2 DEF Number
    <2>6. Cardinality(UNION blocks) <= before * cube
      BY DEF CountInv
    <2>7. Cardinality(UNION blocks) \in Nat
      BY FS_CardinalityType DEF CountInv
    <2> HIDE DEF cube, before, all
    <2>8. before * cube <= all * cube /\ before * cube \in Nat /\ all * cube \in Nat
      BY <2>3, <2>4, <2>5, MulMono
    <2>9. num_elements = all * cube
      <3>1. num_elements = all * bs * bs * bs
        BY DEF num_elements, all
      <3> HIDE DEF bs
      <3> QED BY <2>3, <2>5, <3>1 DEF cube
    <2>10. Cardinality(UNION blocks) <= num_elements
      BY <2>6, <2>7, <2>8, <2>9
    <2> QED BY <2>1, <2>2, <2>10 DEF TypeOK, CountersInv, CountInv
  <1> QED BY <1>1, <1>2, <1>3, Invariance, PTL DEF Spec

----------------------------------------------------------------------------
(* The tuner, and the compression of samples it goes by.                   *)

Params ==
  [block_size : Nat, prediction_dim : Nat, use_lorenzo_2layer : BOOLEAN,
   lorenzo_padding_layer : Nat, use_regression_linear : BOOLEAN,
   use_poly_regression : BOOLEAN, capacity : Nat]

\* p pads as its predictor needs.
Padded(p) == p.lorenzo_padding_layer = Padding(p.use_lorenzo_2layer)
\* p keeps what stage 1 has decided.
Keeps(p) ==
  /\ p.prediction_dim = best_params_stage1.prediction_dim
  /\ p.use_lorenzo_2layer = best_params_stage1.use_lorenzo_2layer

Types ==
  /\ stage \in {"1", "2", "retune", "choose", "3", "done"}
  /\ best_ratio \in Nat /\ capacity \in Capacities
  /\ best_params_stage1 \in Params /\ best_params_stage2 \in Params
  /\ best_params_stage3 \in Params
  /\ Padded(best_params_stage1)

\* What the candidates still to be sampled have in common.
CandidatesInv ==
  /\ stage = "1" => candidates \in Seq({p \in Params : Padded(p) /\ p.capacity = capacity})
  /\ stage = "2" => candidates \in Seq({p \in Params : /\ Padded(p) /\ Keeps(p)
                                                        /\ p.use_regression_linear
                                                        /\ p.capacity = capacity})
  /\ stage = "3" => candidates \in Seq({capacity, FixedCapacity})
  /\ stage \in {"1", "2", "3"} /\ measured = {} => candidates # <<>>

\* Every stage starts without a ratio to beat; later, the parameters chosen go
\* with the best ratio.
BestSoFar(samples, chosen, best, margin) ==
  /\ samples = {} => best = 0
  /\ samples # {} => \E s \in samples : s[1] = chosen /\ s[2] = best
  /\ \A q \in samples : q[2] \in Nat /\ 100 * q[2] <= (100 + margin) * best
Margin == IF stage = "1" THEN 2 ELSE 1
BestInv == BestSoFar(measured, Chosen, best_ratio, Margin)

\* What has been decided before.
Decided(p) == Padded(p) /\ Keeps(p) /\ p.use_regression_linear
DecidedInv ==
  /\ stage \in {"retune", "choose"} \/ (stage = "2" /\ measured # {}) =>
       /\ Decided(best_params_stage2) /\ best_params_stage2.capacity = capacity
       /\ best_compress_info # "uninitialized"
  /\ stage \in {"retune", "choose", "done"} => measured # {}
  /\ stage = "3" => Decided(best_params_stage2) /\ best_compress_info # "uninitialized"
  /\ stage = "done" \/ (stage = "3" /\ measured # {}) =>
       /\ Decided(best_params_stage3) /\ best_compress_info # "uninitialized"
       /\ best_params_stage3.capacity \in {capacity, FixedCapacity}

TunerInv == Types /\ CandidatesInv /\ BestInv /\ DecidedInv

----------------------------------------------------------------------------
\* A sample is kept if it is better by the margin; either way nothing sampled
\* beats what is kept by more than the margin.  A stage's first sample is kept.
LEMMA BestKept ==
  ASSUME NEW samples, NEW best \in Nat, NEW margin \in {1, 2}, NEW ratio \in Nat \ {0},
         NEW chosen, NEW params, NEW chosen2, NEW best2,
         BestSoFar(samples, chosen, best, margin),
         IF 100 * ratio > (100 + margin) * best
         THEN best2 = ratio /\ chosen2 = params
         ELSE best2 = best /\ chosen2 = chosen
  PROVE  best2 \in Nat /\ BestSoFar(samples \cup {<<params, ratio>>}, chosen2, best2, margin)
  <1> DEFINE new == <<params, ratio>>
  <1>1. best2 \in Nat /\ new[1] = params /\ new[2] = ratio
    OBVIOUS
  <1> HIDE DEF new
  <1>2. \A q \in samples : q[2] \in Nat /\ 100 * q[2] <= (100 + margin) * best2
    BY DEF BestSoFar
  <1>3. ratio \in Nat /\ 100 * ratio <= (100 + margin) * best2
    OBVIOUS
  <1>4. \E s \in samples \cup {new} : s[1] = chosen2 /\ s[2] = best2
    <2>1. CASE 100 * ratio > (100 + margin) * best
      BY <1>1, <2>1
    <2>2. CASE ~(100 * ratio > (100 + margin) * best)
      <3>1. samples # {}
        BY <2>2 DEF BestSoFar
      <3> QED BY <2>2, <3>1 DEF BestSoFar
    <2> QED BY <2>1, <2>2
  <1>5. \A q \in samples \cup {new} : q[2] \in Nat /\ 100 * q[2] <= (100 + margin) * best2
    BY <1>1, <1>2, <1>3
  <1> QED BY <1>1, <1>4, <1>5 DEF new, BestSoFar

\* Changing the capacity changes nothing else.
LEMMA CapacityChanged ==
  ASSUME NEW p \in Params, NEW cap \in Nat, NEW q, q = [p EXCEPT !.capacity = cap]
  PROVE  /\ q \in Params /\ q.capacity = cap
         /\ Decided(p) => Decided(q)
         /\ cap = p.capacity => q = p
  BY DEF Params, Decided, Padded, Keeps

\* The first of the candidates left, and the others.
LEMMA HeadTail ==
  ASSUME NEW S, NEW q \in Seq(S), q # <<>>
  PROVE  Head(q) \in S /\ Tail(q) \in Seq(S)
  OBVIOUS

----------------------------------------------------------------------------
(* One lemma for each action.                                              *)

\* Each step of the tuner, and its start, keeps the invariant.
LEMMA TuneInitInv ==
  ASSUME TuneInit
  PROVE  TunerInv
  <1>1. DefaultParams \in Params /\ Padded(DefaultParams)
    BY DEF DefaultParams, sz_params, Params, Padded, Padding
  <1>2. capacity \in Nat
    BY TuningAssumption DEF TuneInit
  <1> DEFINE S == {p \in Params : Padded(p) /\ p.capacity = capacity}
  <1>3. \A dim \in Nat, two \in BOOLEAN :
          sz_params(6, dim, two, FALSE, FALSE, capacity) \in S
    <2> SUFFICES ASSUME NEW dim \in Nat, NEW two \in BOOLEAN
                 PROVE  sz_params(6, dim, two, FALSE, FALSE, capacity) \in S
      OBVIOUS
    <2>1. Padding(two) \in Nat
      BY DEF Padding
    <2> QED BY <1>2, <2>1 DEF sz_params, Params, Padded
  <1>4. Candidates1 \in Seq(S)
    <2> DEFINE P(dim, two) == sz_params(6, dim, two, FALSE, FALSE, capacity)
    <2>1. P(3, TRUE) \in S /\ P(2, TRUE) \in S /\ P(3, FALSE) \in S /\ P(2, FALSE) \in S
      <3>1. 2 \in Nat /\ 3 \in Nat /\ TRUE \in BOOLEAN /\ FALSE \in BOOLEAN
        OBVIOUS
      <3> QED BY <1>3, <3>1, Zenon
    <2>2. Candidates1 = <<P(3, TRUE), P(2, TRUE), P(3, FALSE), P(2, FALSE)>>
      BY Zenon DEF Candidates1
    <2> HIDE DEF S, P
    <2>3. \A p, q, r, t \in S : <<p, q, r, t>> \in Seq(S)
      OBVIOUS
    <2> QED BY <2>1, <2>2, <2>3, Zenon
  <1>5. Candidates1 # <<>>
    BY DEF Candidates1
  <1> QED BY <1>1, <1>4, <1>5, TuningAssumption
             DEF TuneInit, TunerInv, Types,
                 CandidatesInv, BestInv, BestSoFar, DecidedInv

LEMMA SampleStage1Inv ==
  ASSUME TunerInv, SampleStage1
  PROVE  TunerInv'
  <1>1. PICK ratio \in Ratios, params \in {Head(candidates)} :
          /\ measured' = measured \cup {<<params, ratio>>}
          /\ IF Better(ratio, 2)
             THEN /\ best_ratio' = ratio /\ best_params_stage1' = params
             ELSE UNCHANGED <<best_ratio, best_params_stage1>>
    BY DEF SampleStage1
  <1>2. /\ stage = "1" /\ stage' = "1" /\ capacity' = capacity
        /\ candidates # <<>> /\ candidates' = Tail(candidates)
        /\ best_params_stage2' = best_params_stage2 /\ best_params_stage3' = best_params_stage3
    BY DEF SampleStage1
  <1> DEFINE S == {p \in Params : Padded(p) /\ p.capacity = capacity}
  <1>3. params \in S /\ candidates' \in Seq(S)
    <2>1. candidates \in Seq(S)
      BY <1>2 DEF TunerInv, CandidatesInv
    <2> HIDE DEF S
    <2> QED BY <1>1, <1>2, <2>1, HeadTail
  <1>4. /\ best_ratio \in Nat /\ ratio \in Nat \ {0}
        /\ BestSoFar(measured, best_params_stage1, best_ratio, 2)
    BY <1>2, TuningAssumption DEF TunerInv, Types, BestInv, Chosen, Margin
  <1>5. /\ best_ratio' \in Nat
        /\ BestSoFar(measured', best_params_stage1', best_ratio', 2)
    BY <1>1, <1>4, BestKept DEF Better
  <1>6. Types'
    BY <1>1, <1>2, <1>3, <1>5 DEF TunerInv, Types
  <1>7. CandidatesInv'
    BY <1>1, <1>2, <1>3 DEF CandidatesInv
  <1>8. BestInv'
    BY <1>1, <1>2, <1>5 DEF BestInv, Chosen, Margin
  <1>9. DecidedInv'
    BY <1>2 DEF DecidedInv
  <1> QED BY <1>6, <1>7, <1>8, <1>9 DEF TunerInv

LEMMA EndStage1Inv ==
  ASSUME TunerInv, EndStage1
  PROVE  TunerInv'
  <1>1. /\ stage' = "2" /\ candidates' = Candidates2
        /\ best_ratio' = 0 /\ measured' = {}
        /\ capacity' = capacity /\ best_params_stage2' = best_params_stage1
        /\ best_params_stage1' = best_params_stage1 /\ best_params_stage3' = best_params_stage3
    BY DEF EndStage1, StartRatio
  <1>2. /\ capacity \in Nat /\ best_params_stage1.prediction_dim \in Nat
        /\ best_params_stage1.use_lorenzo_2layer \in BOOLEAN
    BY TuningAssumption DEF TunerInv, Types, Params
  <1> DEFINE S == {p \in Params : /\ Padded(p) /\ Keeps(p) /\ p.use_regression_linear
                                   /\ p.capacity = capacity}
  <1>3. \A n \in 1 .. 8 : Candidates2[n] \in S
    <2> SUFFICES ASSUME NEW n \in 1 .. 8 PROVE Candidates2[n] \in S
      OBVIOUS
    <2> DEFINE bs == 5 + ((n - 1) % 4)
               poly == n > 4
    <2>1. bs \in Nat /\ poly \in BOOLEAN
      OBVIOUS
    <2>2. Candidates2[n] = sz_params(bs, best_params_stage1.prediction_dim,
                             best_params_stage1.use_lorenzo_2layer, TRUE, poly, capacity)
      BY DEF Candidates2
    <2> HIDE DEF bs, poly
    <2>3. Padding(best_params_stage1.use_lorenzo_2layer) \in Nat
      BY DEF Padding
    <2> QED BY <1>2, <2>1, <2>2, <2>3 DEF sz_params, Params, Padded, Keeps
  <1>4. Candidates2 \in Seq(S) /\ Candidates2 # <<>>
    <2>1. /\ DOMAIN Candidates2 = 1 .. 8
          /\ Candidates2 = [n \in 1 .. 8 |-> Candidates2[n]]
      BY DEF Candidates2
    <2> HIDE DEF S
    <2> QED BY <1>3, <2>1
  <1>5. S' = S
    BY <1>1 DEF Keeps
  <1>6. CandidatesInv'
    BY <1>1, <1>4, <1>5 DEF CandidatesInv
  <1> QED BY <1>1, <1>6 DEF TunerInv, Types, BestInv, BestSoFar, DecidedInv

LEMMA SampleStage2Inv ==
  ASSUME TunerInv, SampleStage2
  PROVE  TunerInv'
  <1>1. PICK ratio \in Ratios, params \in {Head(candidates)}, info \in {"mixed", "lorenzo"} :
          /\ measured' = measured \cup {<<params, ratio>>}
          /\ IF Better(ratio, 1)
             THEN /\ best_ratio' = ratio /\ best_params_stage2' = params
                  /\ best_compress_info' = info
             ELSE UNCHANGED <<best_ratio, best_params_stage2, best_compress_info>>
    BY DEF SampleStage2
  <1>2. /\ stage = "2" /\ stage' = "2" /\ capacity' = capacity
        /\ candidates # <<>> /\ candidates' = Tail(candidates)
        /\ best_params_stage1' = best_params_stage1 /\ best_params_stage3' = best_params_stage3
    BY DEF SampleStage2
  <1> DEFINE S == {p \in Params : /\ Padded(p) /\ Keeps(p) /\ p.use_regression_linear
                                   /\ p.capacity = capacity}
  <1>3. params \in S /\ candidates' \in Seq(S) /\ S' = S
    <2>1. candidates \in Seq(S)
      BY <1>2 DEF TunerInv, CandidatesInv
    <2>2. S' = S
      BY <1>2 DEF Keeps
    <2> HIDE DEF S
    <2> QED BY <1>1, <1>2, <2>1, <2>2, HeadTail
  <1>4. /\ best_ratio \in Nat /\ ratio \in Nat \ {0}
        /\ BestSoFar(measured, best_params_stage2, best_ratio, 1)
    BY <1>2, TuningAssumption DEF TunerInv, Types, BestInv, Chosen, Margin
  <1>5. /\ best_ratio' \in Nat
        /\ BestSoFar(measured', best_params_stage2', best_ratio', 1)
    BY <1>1, <1>4, BestKept DEF Better
  <1>6. Types'
    BY <1>1, <1>2, <1>3, <1>5 DEF TunerInv, Types
  <1>7. CandidatesInv'
    BY <1>1, <1>2, <1>3 DEF CandidatesInv
  <1>8. BestInv'
    BY <1>1, <1>2, <1>5 DEF BestInv, Chosen, Margin
  <1>9. /\ (Decided(best_params_stage2))' /\ best_params_stage2'.capacity = capacity
        /\ best_compress_info' # "uninitialized"
    <2>1. CASE Better(ratio, 1)
      BY <1>1, <1>2, <1>3, <2>1 DEF Decided, Keeps, Padded
    <2>2. CASE ~Better(ratio, 1)
      <3>1. measured # {}
        BY <1>4, <2>2 DEF Better, BestSoFar
      <3> QED BY <1>1, <1>2, <2>2, <3>1 DEF TunerInv, DecidedInv, Decided, Keeps, Padded
    <2> QED BY <2>1, <2>2
  <1>10. DecidedInv'
    BY <1>2, <1>9 DEF DecidedInv
  <1> QED BY <1>6, <1>7, <1>8, <1>10 DEF TunerInv

LEMMA EndStage2Inv ==
  ASSUME TunerInv, EndStage2
  PROVE  TunerInv'
  <1>1. /\ stage = "2" /\ stage' \in {"retune", "choose"} /\ candidates = <<>>
        /\ UNCHANGED <<capacity, best_ratio, best_params_stage1, best_params_stage2,
                       best_params_stage3, best_compress_info, measured>>
    BY DEF EndStage2
  <1>2. measured # {}
    BY <1>1 DEF TunerInv, CandidatesInv
  <1>3. DecidedInv'
    BY <1>1, <1>2 DEF TunerInv, DecidedInv, Decided, Keeps, Padded
  <1> QED BY <1>1, <1>3 DEF TunerInv, Types, CandidatesInv, BestInv, Chosen, Margin

LEMMA RetuneInv ==
  ASSUME TunerInv, Retune
  PROVE  TunerInv'
  <1>1. PICK ratio \in Ratios,
             params \in {[best_params_stage2 EXCEPT
                            !.use_lorenzo_2layer = best_params_stage1.use_lorenzo_2layer,
                            !.prediction_dim = best_params_stage1.prediction_dim]} :
          /\ measured' = measured \cup {<<params, ratio>>}
          /\ IF Better(ratio, 1)
             THEN /\ best_ratio' = ratio /\ best_params_stage2' = params
             ELSE UNCHANGED <<best_ratio, best_params_stage2>>
    BY DEF Retune
  <1>2. /\ stage = "retune" /\ stage' = "choose"
        /\ UNCHANGED <<candidates, capacity, best_params_stage1, best_params_stage3,
                       best_compress_info>>
    BY DEF Retune
  <1>3. /\ Decided(best_params_stage2) /\ best_params_stage2.capacity = capacity
        /\ best_compress_info # "uninitialized" /\ measured # {}
    BY <1>2 DEF TunerInv, DecidedInv
  <1>4. params = best_params_stage2
    BY <1>1, <1>3 DEF TunerInv, Types, Params, Decided, Keeps
  <1>5. /\ best_ratio \in Nat /\ ratio \in Nat \ {0}
        /\ BestSoFar(measured, best_params_stage2, best_ratio, 1)
    BY <1>2, TuningAssumption DEF TunerInv, Types, BestInv, Chosen, Margin
  <1>6. /\ best_ratio' \in Nat
        /\ BestSoFar(measured', best_params_stage2', best_ratio', 1)
    BY <1>1, <1>5, BestKept DEF Better
  <1>7. best_params_stage2' = best_params_stage2 /\ measured' # {}
    BY <1>1, <1>4
  <1>8. DecidedInv'
    BY <1>2, <1>3, <1>7 DEF DecidedInv, Decided, Keeps, Padded
  <1>9. BestInv'
    BY <1>2, <1>6 DEF BestInv, Chosen, Margin
  <1> QED BY <1>2, <1>6, <1>7, <1>8, <1>9 DEF TunerInv, Types, CandidatesInv

LEMMA StartStage3Inv ==
  ASSUME TunerInv, StartStage3
  PROVE  TunerInv'
  <1>1. /\ stage = "choose" /\ stage' = "3" /\ candidates' = <<capacity, FixedCapacity>>
        /\ best_ratio' = 0 /\ measured' = {}
        /\ UNCHANGED <<capacity, best_params_stage1, best_params_stage2, best_params_stage3,
                       best_compress_info>>
    BY DEF StartStage3, StartRatio
  <1>2. DecidedInv'
    BY <1>1 DEF TunerInv, DecidedInv, Decided, Keeps, Padded
  <1>3. CandidatesInv'
    BY <1>1 DEF CandidatesInv
  <1> QED BY <1>1, <1>2, <1>3 DEF TunerInv, Types, BestInv, BestSoFar

LEMMA SkipStage3Inv ==
  ASSUME TunerInv, SkipStage3
  PROVE  TunerInv'
  <1>1. /\ stage = "choose" /\ stage' = "done"
        /\ best_params_stage3' = [best_params_stage2 EXCEPT !.capacity = capacity]
        /\ UNCHANGED <<candidates, capacity, best_ratio, best_params_stage1,
                       best_params_stage2, best_compress_info, measured>>
    BY DEF SkipStage3
  <1>2. /\ Decided(best_params_stage2) /\ best_params_stage2.capacity = capacity
        /\ best_compress_info # "uninitialized" /\ measured # {}
    BY <1>1 DEF TunerInv, DecidedInv
  <1>3. best_params_stage3' = best_params_stage2
    BY <1>1, <1>2 DEF TunerInv, Types, Params
  <1>4. DecidedInv'
    BY <1>1, <1>2, <1>3 DEF DecidedInv, Decided, Keeps, Padded
  <1>5. BestInv'
    BY <1>1, <1>3 DEF TunerInv, BestInv, Chosen, Margin
  <1> QED BY <1>1, <1>3, <1>4, <1>5 DEF TunerInv, Types, CandidatesInv

LEMMA SampleStage3Inv ==
  ASSUME TunerInv, SampleStage3
  PROVE  TunerInv'
  <1>1. PICK ratio \in Ratios,
             params \in {[best_params_stage2 EXCEPT !.capacity = Head(candidates)]} :
          /\ best_params_stage2' = params
          /\ measured' = measured \cup {<<params, ratio>>}
          /\ best_ratio' = IF Better(ratio, 1) THEN ratio ELSE best_ratio
          /\ best_params_stage3' = Kept(ratio, params)
    BY DEF SampleStage3
  <1>2. /\ stage = "3" /\ stage' = "3" /\ candidates # <<>> /\ candidates' = Tail(candidates)
        /\ UNCHANGED <<capacity, best_params_stage1, best_compress_info>>
    BY DEF SampleStage3
  <1>3. /\ Head(candidates) \in {capacity, FixedCapacity}
        /\ candidates' \in Seq({capacity, FixedCapacity})
    BY <1>2, HeadTail DEF TunerInv, CandidatesInv
  <1>4. params \in Params /\ Decided(params) /\ params.capacity \in {capacity, FixedCapacity}
    <2>1. Head(candidates) \in Nat /\ best_params_stage2 \in Params
      BY <1>3, TuningAssumption DEF TunerInv, Types
    <2>2. Decided(best_params_stage2)
      BY <1>2 DEF TunerInv, DecidedInv
    <2> QED BY <1>1, <1>3, <2>1, <2>2, CapacityChanged
  <1>5. /\ best_ratio \in Nat /\ ratio \in Nat \ {0}
        /\ BestSoFar(measured, best_params_stage3, best_ratio, 1)
    BY <1>2, TuningAssumption DEF TunerInv, Types, BestInv, Chosen, Margin
  <1>6. /\ best_ratio' \in Nat
        /\ BestSoFar(measured', best_params_stage3', best_ratio', 1)
    BY <1>1, <1>5, BestKept DEF Better, Kept
  <1>7. Types'
    BY <1>1, <1>2, <1>4, <1>6 DEF TunerInv, Types, Kept
  <1>8. CandidatesInv'
    BY <1>1, <1>2, <1>3 DEF CandidatesInv
  <1>9. BestInv'
    BY <1>1, <1>2, <1>6 DEF BestInv, Chosen, Margin
  <1>10. /\ Decided(best_params_stage3')
         /\ best_params_stage3'.capacity \in {capacity, FixedCapacity}
    <2>1. CASE Better(ratio, 1)
      BY <1>1, <1>4, <2>1 DEF Kept
    <2>2. CASE ~Better(ratio, 1)
      <3>1. measured # {}
        BY <1>5, <2>2 DEF Better, BestSoFar
      <3> QED BY <1>1, <1>2, <2>2, <3>1 DEF Kept, TunerInv, DecidedInv
    <2> QED BY <2>1, <2>2
  <1>11. DecidedInv'
    BY <1>1, <1>2, <1>4, <1>10 DEF TunerInv, DecidedInv, Decided, Keeps, Padded
  <1> QED BY <1>7, <1>8, <1>9, <1>11 DEF TunerInv

LEMMA EndStage3Inv ==
  ASSUME TunerInv, EndStage3
  PROVE  TunerInv'
  <1>1. /\ stage = "3" /\ stage' = "done" /\ candidates = <<>>
        /\ UNCHANGED <<candidates, capacity, best_ratio, best_params_stage1,
                       best_params_stage2, best_params_stage3, best_compress_info, measured>>
    BY DEF EndStage3
  <1>2. measured # {}
    BY <1>1 DEF TunerInv, CandidatesInv
  <1>3. DecidedInv'
    BY <1>1, <1>2 DEF TunerInv, DecidedInv, Decided, Keeps, Padded
  <1> QED BY <1>1, <1>3 DEF TunerInv, Types, CandidatesInv, BestInv, Chosen, Margin

----------------------------------------------------------------------------
(* The theorems.                                                           *)

\* The invariant holds of every behaviour of sz_compress_autotuning_3d.
THEOREM TunerInvariance == TuneSpec => []TunerInv
  <1>1. TunerInv /\ [TuneNext]_tuning => TunerInv'
    <2> SUFFICES ASSUME TunerInv, [TuneNext]_tuning PROVE TunerInv'
      OBVIOUS
    <2>1. CASE SampleStage1 \/ EndStage1
      BY <2>1, SampleStage1Inv, EndStage1Inv
    <2>2. CASE SampleStage2 \/ EndStage2 \/ Retune
      BY <2>2, SampleStage2Inv, EndStage2Inv, RetuneInv
    <2>3. CASE StartStage3 \/ SkipStage3 \/ SampleStage3 \/ EndStage3
      BY <2>3, StartStage3Inv, SkipStage3Inv, SampleStage3Inv, EndStage3Inv
    <2>4. CASE Tuned \/ UNCHANGED tuning
      BY <2>4
         DEF Tuned, tuning, TunerInv, Types, CandidatesInv,
             BestInv, DecidedInv, Chosen,
                  Margin, Decided, Keeps, Padded
    <2> QED BY <2>1, <2>2, <2>3, <2>4 DEF TuneNext
  <1> QED BY <1>1, TuneInitInv, PTL DEF TuneSpec

\* The parameters a stage has chosen were sampled in it, and none of its
\* samples beats them by more than the margin.
THEOREM ChosenIsBest == TuneSpec => []BestOfStage
  <1>1. TunerInv => BestOfStage
    <2> SUFFICES ASSUME TunerInv, measured # {} PROVE BestOfStage
      BY DEF BestOfStage
    <2>1. BestSoFar(measured, Chosen, best_ratio, Margin)
      BY DEF TunerInv, BestInv
    <2>2. PICK s \in measured : s[1] = Chosen /\ s[2] = best_ratio
      BY <2>1 DEF BestSoFar
    <2>3. \A q \in measured : 100 * q[2] <= (IF stage = "1" THEN 102 ELSE 101) * s[2]
      BY <2>1, <2>2 DEF BestSoFar, Margin
    <2> QED BY <2>2, <2>3 DEF BestOfStage
  <1> QED BY <1>1, TunerInvariance, PTL

\* The parameters the array is compressed with keep what the earlier stages
\* decided and were never taken from uninitialized memory.
THEOREM StagesKeepDecisions == TuneSpec => []StagesAgree
  <1>1. TunerInv => StagesAgree
    BY DEF TunerInv, DecidedInv, Decided, Keeps, Padded, Padding, StagesAgree
  <1> QED BY <1>1, TunerInvariance, PTL
=============================================================================
