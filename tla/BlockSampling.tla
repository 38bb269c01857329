---------------------------- MODULE BlockSampling ----------------------------
(***************************************************************************)
(* sz_compress_3d_sampling, with which the tuner estimates the ratio of a  *)
(* set of parameters: it widens the distance between sample blocks until   *)
(* few enough are left and then compresses only those, each with its own   *)
(* copy of the layer in front of it and the predictor selected for it.     *)
(*                                                                         *)
(* A definition whose name ends in an underscore and a word is a slip in   *)
(* the definition that follows it, which no specification uses.            *)
(***************************************************************************)
EXTENDS BlockSelection

CONSTANTS
  Shapes,    (* the arrays and parameters considered: records of d1, d2,   *)
             (* d3, block_size, layer (lorenzo_padding_layer), use (the    *)
             (* enabled predictors) and dim (prediction_dim)               *)
  Errors,    (* what a predictor's error may come to                       *)
  Ratio      (* params.sample_ratio, as <<numerator, denominator>>         *)

ASSUME SamplingAssumption ==
  /\ \A s \in Shapes :
       /\ s.block_size \in Nat \ {0} /\ s.use \subseteq Predictors /\ s.dim \in 1..3
       /\ s.layer = IF "lorenzo2" \in s.use THEN 2 ELSE 1
       /\ s.d1 \in Nat /\ s.d2 \in Nat /\ s.d3 \in Nat
       /\ s.layer <= s.d1 /\ s.layer <= s.d2 /\ s.layer <= s.d3
  /\ Errors \subseteq Nat
  /\ Ratio[1] \in Nat /\ Ratio[2] \in Nat \ {0}

VARIABLES
  shape, pc,
  sample_distance,
  nx, ny, nz,    (* sample_nx, sample_ny, sample_nz                        *)
  ix, iy, iz,    (* the sample block                                       *)
  blocks,        (* the addresses of each block compressed so far          *)
  buffered,      (* the addresses copied into pred_buffer                  *)
  choice,        (* the last block's errors, the addresses read for them   *)
                 (* and the predictor selected                             *)
  count          (* how many blocks selected each predictor                *)

position == <<sample_distance, nx, ny, nz, ix, iy, iz>>
results == <<blocks, buffered, choice, count>>
vars == <<shape, pc, position, results>>

\* The array without the layer in front.
r1 == shape.d1 - shape.layer
r2 == shape.d2 - shape.layer
r3 == shape.d3 - shape.layer
dim0_offset == shape.d2 * shape.d3
dim1_offset == shape.d3

Step(distance) == distance + shape.block_size
\* sample_ratio > params.sample_ratio; a ratio with nothing to compare with
\* (0 / 0) is not greater.
Above(number) ==
  LET all == (r1 \div shape.block_size) * (r2 \div shape.block_size) * (r3 \div shape.block_size)
  IN  all > 0 /\ number * Ratio[2] > Ratio[1] * all

Init ==
  /\ shape \in Shapes
  /\ sample_distance = 0
  /\ nx = r1 \div shape.block_size /\ ny = r2 \div shape.block_size /\ nz = r3 \div shape.block_size
  /\ pc = IF Ratio[1] < Ratio[2] THEN "widen" ELSE "sample"
  /\ ix = 0 /\ iy = 0 /\ iz = 0
  /\ blocks = {} /\ buffered = {}
  /\ choice = [err |-> [p \in Predictors |-> 0], read |-> {}, predictor |-> "none"]
  /\ count = [p \in Predictors |-> 0]

\* The sample blocks along a dimension.
Left(distance, r) == r \div Step(distance)

Widen ==
  /\ pc = "widen"
  /\ \E distance \in {sample_distance + 1} :
       /\ sample_distance' = distance
       /\ nx' = Left(distance, r1) /\ ny' = Left(distance, r2) /\ nz' = Left(distance, r3)
       /\ pc' = IF (nx' = 1 /\ ny' = 1 /\ nz' = 1) \/ ~Above(nx' * ny' * nz')
                THEN "sample" ELSE pc
  /\ UNCHANGED <<shape, ix, iy, iz, results>>

\* cur_block_data_pos
Origin ==
  ix * Step(sample_distance) * r2 * r3 + iy * Step(sample_distance) * r3
    + iz * Step(sample_distance)
\* cur_block_data_pos behind the layer
BlockStart_trimmed == Origin + shape.layer * (r2 * r3 + r3 + 1)
BlockStart == Origin + shape.layer * (dim0_offset + dim1_offset + 1)
Box(origin, edge) ==
  {origin + a * dim0_offset + b * dim1_offset + c :
     a \in 0 .. edge - 1, b \in 0 .. edge - 1, c \in 0 .. edge - 1}

Inner_lastSkipped(index, number) == IF index + 2 >= number THEN 0 ELSE index + 1
Inner_pastEnd(index, number) == IF index = number THEN 0 ELSE index + 1
\* The next value of an inner loop's counter, 0 when the loop is over.
Inner(index, number) == (index + 1) % number

Usable == Enabled(shape.use, shape.block_size)
\* The predictor is selected by errors found in the array itself.
ChoosePredictor ==
  \E err \in Estimates(Usable, shape.block_size, Errors) :
  \E p \in {Select(Usable, err)} :
    /\ choice' = [err |-> err, predictor |-> p,
                  read |-> {BlockStart + d[1] * dim0_offset + d[2] * dim1_offset + d[3] :
                              d \in Estimation(Usable, shape.dim, shape.block_size)}]
    /\ count' = [count EXCEPT ![p] = @ + 1]

\* Block and layer are copied to pred_buffer; then the block is fitted,
\* predicted and quantized from the array.
SampleBlock ==
  /\ pc = "sample" /\ ix < nx /\ iy < ny /\ iz < nz
  /\ buffered' = buffered \cup Box(Origin, shape.block_size + shape.layer)
  /\ ChoosePredictor
  /\ blocks' = blocks \cup {Box(BlockStart, shape.block_size)}
  /\ iz' = Inner(iz, nz)
  /\ iy' = IF iz' = 0 THEN Inner(iy, ny) ELSE iy
  /\ ix' = IF iz' = 0 /\ iy' = 0 THEN ix + 1 ELSE ix
  /\ UNCHANGED <<shape, pc, sample_distance, nx, ny, nz>>

Finish ==
  /\ pc = "sample" /\ (ix = nx \/ ny = 0 \/ nz = 0)
  /\ pc' = "done"
  /\ UNCHANGED <<shape, position, results>>

Finished == pc = "done" /\ UNCHANGED vars

Next == Widen \/ SampleBlock \/ Finish \/ Finished

Spec == Init /\ [][Next]_vars /\ WF_vars(Widen \/ SampleBlock \/ Finish)

----------------------------------------------------------------------------
Elements == 0 .. shape.d1 * shape.d2 * shape.d3 - 1
\* size.num_elements: what type and the lanes are allocated for.
num_elements == nx * ny * nz * shape.block_size * shape.block_size * shape.block_size

\* The counters stay in their loops, and no more blocks are compressed than
\* the arrays have room for.
TypeOK ==
  /\ shape \in Shapes /\ pc \in {"widen", "sample", "done"}
  /\ sample_distance \in Nat /\ nx \in Nat /\ ny \in Nat /\ nz \in Nat
  /\ ix \in 0 .. nx /\ iy \in {0} \cup 0 .. ny - 1 /\ iz \in {0} \cup 0 .. nz - 1
  /\ Cardinality(UNION blocks) <= num_elements

\* Although a block starts layer elements behind its origin in every
\* dimension, no sample reads outside the array; and what the estimation reads
\* lies in its block, even two layers back: the full pass runs it on the first
\* block of the array, which has nothing before it.
ReadsInside ==
  /\ buffered \subseteq Elements /\ UNION blocks \subseteq Elements
  /\ choice.read # {} => \E b \in blocks : choice.read \subseteq b

\* Each sample block finds its layer and itself in the prediction buffer.
BufferedBeforeUse == UNION blocks \subseteq buffered

\* Whatever the errors and however ties are broken, the predictor selected is
\* enabled and no enabled one has a smaller error; only a tie between the two
\* that give way to each other falls to Lorenzo, enabled or not.
ChoosesBest ==
  choice.predictor # "none" =>
    \/ /\ choice.predictor \in Usable
       /\ \A p \in Usable : choice.err[choice.predictor] <= choice.err[p]
    \/ /\ choice.predictor = "lorenzo"
       /\ Usable = {} \/ Undecided(Usable, choice.err)

\* Something is sampled of every array: the README's own example, an array of
\* 8 x 8 x 128 with the default sample ratio, is one.
SomethingSampled == pc = "done" => blocks # {}

\* The distance stops growing, and every sample block is compressed and counted
\* once: the tuner goes by the share of blocks that took Lorenzo.
Counted == count["lorenzo"] + count["lorenzo2"] + count["regression"] + count["poly"]
SamplingEnds ==
  <>(pc = "done" /\ Cardinality(blocks) = nx * ny * nz /\ Counted = nx * ny * nz)
=============================================================================
