# SZauto in TLA+

SZauto is an error-bounded lossy compressor for three-dimensional floating-point
arrays. This directory holds TLA+ models of its core, TLC configurations that
check them on small instances, and machine-checked proofs about them for every
value of the constants. `PROJECT.json` maps every definition to the lines it
models and lists the runs, the findings, the hazards and the theorems.

1. [The system](#1-the-system)
2. [Modules](#2-modules)
3. [How state and actions correspond to the code](#3-how-state-and-actions-correspond-to-the-code)
4. [Runs](#4-runs)
5. [Fairness](#5-fairness)
6. [Proofs](#6-proofs)
7. [What is abstracted and what is not modelled](#7-what-is-abstracted-and-what-is-not-modelled)
8. [Findings](#8-findings)
9. [Plan](#9-plan)

## 1. The system

One process, one thread. Nothing in SZauto runs concurrently, nothing is
persisted half-way, no message is lost. What makes it hard is something else:
**two programs that must make the same decisions**. The compressor walks the
array once and predicts every element from values the decompressor will have by
then; the decompressor walks it again with nothing but the stream. There is no
table of contents, no checksum and no redundancy: if one pointer moves one
element too far, one rounding differs, one code has two meanings, everything
that follows is silently wrong. A test compares the output with the input on the
arrays somebody had; the shapes, remainders, predictor choices and data that
would tell two versions apart are many.

### Components

| Component | Source (under `src/`) | State | Operations |
|---|---|---|---|
| Block geometry and walk | `include/sz_def.hpp`, the loops of `sz_compress_3d.cpp`, `sz_decompress_3d.cpp` and their knl kernels | loop counters, seven running pointers, the sliding prediction buffer | advance to the next element, leave a block, slide the buffer |
| Compression pass (knl) | `src/sz_compress_3d.cpp:545-660`, `include/sz_compress_block_processing_knl.hpp` | the cursor, `pred_buffer`, lane counts, stream arrays | select a predictor, predict, quantize, store a value without a code, reconstruct |
| Decompression pass (knl) | `src/sz_decompress_3d.cpp`, `include/sz_decompress_block_processing_knl.hpp` | the same cursor and buffer, `dec_data` | enter a block, decode an element, leave a block |
| Legacy codec | `sz_compress_3d`, `sz_decompress_3d`, `include/sz_compress_block_processing.hpp`, `include/sz_decompress_block_processing.hpp` | as above, with one array of values without a code and a buffer per block or per plane | as above, in two modes; instantiated for `float`, not called by the drivers |
| Blockwise selection | `include/sz_compress_block_processing.hpp:132-190` | running error sums | estimate each predictor's error on the diagonals of a block, take the best |
| Regression coefficients | `src/sz_compression_utils.cpp`, `src/sz_decompression_utils.cpp` | `reg_params` slots, codes, coefficients without a code | fit, select or not, quantize in place, recover |
| Computation of the fits | `include/sz_regression_utils.hpp`, `include/sz_poly_regression_coeff_aux.hpp` | accumulators, the coefficient table | closed-form least squares; a matrix from the table times the sums |
| Huffman coder | `src/sz_huffman.cpp` | node pool, heap, codes, bit cursor | build, pack, unpack, store and restore the tree |
| One-bit packing | `src/sz_compression_utils.cpp`, `src/sz_decompression_utils.cpp` | a byte being filled | pack the legacy codec's indicators, unpack them |
| Stream layout | the writing and reading halves of the drivers of both codecs | `compressed_pos` on both sides | write and read each field |
| Lossless frame | `src/sz_lossless.cpp` | a buffer | write a length, call zstd |
| Quantization intervals and mean | `include/sz_optimize_quant_intervals.hpp` | sampling position, two histograms | walk for a rough mean, walk for the histograms, decide |
| Sampling compressor | `src/sz_compress_3d.cpp:840-1010` | distance between sample blocks, position | widen, sample a block |
| Autotuning | `src/sz_autotuning_3d.cpp` | best parameters of three stages, best ratio | sample a candidate, end a stage, retry |
| Vendored zstd | `zstd/` | room left, position in the frame | frame a buffer block by block, or give up for want of room |
| Test drivers, utilities | `test/`, `include/sz_utils.hpp` | | |

### How they interact

`sz_compress_autotuning_3d` asks *quantization intervals* for a capacity and a
mean, then calls the *sampling compressor* with up to fifteen sets of parameters
and keeps the best, then calls `sz_compress_3d_knl_2` with them. That runs the
*compression pass* over the *walk*, with coefficients kept in *regression
coefficients* and a predictor per block from *blockwise selection*; the arrays
the pass leaves are written by *stream layout*, those of small integers through
the *Huffman coder*, and the result goes through the *lossless frame*. The
decompressor undoes this from the outside in. The *legacy codec* uses the same
coders and the same layout functions with a stream of its own, which also
contains its indicators through the *one-bit packing*. All calls are synchronous;
all sharing is by raw pointers into arrays whose sizes are computed beforehand and
never checked on writing.

### What is hard, and what makes each part correct

| Behaviour | Where it bites | Property |
|---|---|---|
| Partial blocks at three edges; pointers bumped by hand | the walk | an element is visited once, at its row-major address, and the n-th element has the n-th code |
| A buffer slid plane by plane, with ghost layers | the walk | a stencil always finds its neighbour's reconstruction, or zero outside the array |
| A buffer used again for every block without being cleared | the legacy codec | a stencil never reads what the block before left |
| The decompressor repeats decisions it cannot see | the passes of both codecs | after n steps both passes are in the same local state |
| Rounding, inexact reciprocal, int conversion | the quantizers | every element is within the bound; every code is in the alphabet |
| Two reserved codes, one of which depends on the predictor | both passes | same state again; a lane never outgrows its slots |
| Comparisons of errors some of which are strict | the selection | the predictor taken is enabled and none beats it |
| A slot written by every fit, kept only if selected | coefficients | the decompressor rebuilds exactly what was predicted with |
| A block walked by bumps inside a larger array, beside a closed formula | the fits | what is left after the fit has no mean and no slope |
| Words stored over unaligned memory; order of arguments unspecified | Huffman coder | optimal code, exact round trip, no bit read beyond the stated size |
| Fields that are absent or empty; lengths computed twice by different formulas | layout, one-bit packing | the reader finds each field and ends at the last byte |
| A header inside an allocation zstd believes is its own | the frame | the frame fits its allocation |
| Walks that step forwards and backwards | sampling | the walks end, read inside the array, and the histogram supports the decision |
| State carried from stage to stage | autotuning | the final parameters were sampled, are the best within the margin and keep earlier decisions |

Every hazard, at its line, is in `PROJECT.json` under `hazards`, with the
properties that catch it.

## 2. Modules

```
BlockGeometry ── BlockWalk ── MCBlockWalk
     │   └── BlockGeometryProofs ──────────┬─ BlockWalkProofs (of BlockWalk)
     │                                     │
     └── Predictors ─┐                     └──────────────┐
         Quantizer ──┴─ KnlPass ─┬─ KnlCompress ──┐       │
                          │      └─ KnlDecompress ┴─ KnlRoundTrip ── KnlRoundTripProofs
                          │                       │       │  └── MCKnlRoundTrip
                          │    ErrorBoundedCodec ─┤ (abstract)
                          │                       │       │
                          └── LegacyPass ─────────┴─ LegacyRoundTrip ── LegacyRoundTripProofs
                                                             └── MCLegacyRoundTrip
HuffmanHeap, BitPacker, TreeBytes ── HuffmanCoder ──┬─ MCHuffmanCoder
                                                    ├─ QuantCodesProofs (of HuffmanCoder and QuantIntervals)
                                   QuantIntervals ──┴─ MCQuantIntervals
RegressionCoefficients ──┬─ FittedCoefficients ──┬─ RegressionCoefficientsProofs
RegressionFit ───────────┘                       └─ MCRegressionCoefficients
IndicatorBits, LosslessFrame ── StreamLayout ── StreamLayoutProofs, MCStreamLayout
BlockSelection ── BlockSampling ──┬─ MCBlockSampling
                                  ├─ TuningProofs (of BlockSampling and Autotuning)
                      Autotuning ─┴─ MCAutotuning
```

| Module | Models |
|---|---|
| `BlockGeometry` | `DSize_3d`, a cursor of a pass, its bumps, the slide of the prediction buffer |
| `BlockWalk` | the walk alone, with what each buffer slot holds |
| `Quantizer`, `Predictors` | the pure functions of the kernels |
| `KnlPass` | what both passes share: arguments, stream arrays, local state |
| `KnlCompress`, `KnlDecompress` | one pass each |
| `ErrorBoundedCodec` | the promise: each element appears once, within the bound |
| `KnlRoundTrip` | compression, then decompression |
| `LegacyPass` | what is different in the older codec: its quantizer, its buffer in both modes, its reserve |
| `LegacyRoundTrip` | `sz_compress_3d`, then `sz_decompress_3d` |
| `HuffmanHeap`, `BitPacker`, `TreeBytes` | priority queue, bit packing, the stored tree |
| `HuffmanCoder` | the coder built of them, with a neighbouring segment |
| `RegressionCoefficients` | one channel of regression coefficients, both sides |
| `RegressionFit` | the linear fit, the normal equations it has to solve, the rows of the table |
| `FittedCoefficients` | the channel carrying such fits, of blocks in one array |
| `IndicatorBits` | the bytes of the one-bit packing |
| `LosslessFrame` | both pairs of functions around zstd, and the sizes of the frames zstd makes |
| `StreamLayout` | the sequence of fields of either codec, written, framed and read |
| `QuantIntervals` | both sampling walks and the decision |
| `BlockSelection` | the points an error is estimated at, and the comparison |
| `BlockSampling` | the sample blocks of `sz_compress_3d_sampling` |
| `Autotuning` | the three stages of `sz_compress_autotuning_3d` |
| `...Proofs` | the theorems of section 6 |

Definitions whose name ends in an underscore and a word, such as
`SlideBuffer_onePlane`, are slips a programmer could have made in the definition
that follows them. No specification uses one; putting it in place of the right
definition makes the property listed in section 4 fail, which shows that the
property depends on the code.

## 3. How state and actions correspond to the code

**The walk.** A cursor holds the six loop counters and the pointers of
`prediction_and_quantization_3d_with_border_predicition_and_knl_optimization`:
`x`, `y`, `z` for `x_data_pos` and so on, `buf` for `pred_buffer_pos`, `type`
for `type_pos`. `NextElement` is one turn of the kernels' inner loops,
`NextBlock` the bumps behind a kernel call and at the ends of the loops over
`num_z` and `num_y`, `SlideBuffer` the `memcpy` after a plane of blocks.

**The passes.** A pass has three kinds of step: *into a block* (`SelectPredictor`,
`EnterBlock`), *an element* (`EncodeElement`, `DecodeElement`: one iteration of a
kernel, together with the write of the reconstruction into `pred_buffer`), *out
of a block* (`LeaveBlock`, `ExitBlock`). A kernel picks its predictor by the
block's indicator; here that is `Prediction`. `Encoded` is the order of the
code's tests: first the mean, where it is used, then `quant_index < capacity`,
then `fabs(dec - cur) > precision`. `Quantize` keeps `int` arithmetic: the
conversion of a `double` beyond `INT_MAX` gives `INT_MIN`, as the build does on
x86, and sums wrap. The compressor gives Lorenzo blocks two codes fewer when the
mean is used; the decompressor knows only `intv_radius`.

A stream array is the map from positions to what was written there, so a read of
something never written is an error TLC reports rather than a value.

**The legacy passes.** The same three kinds of step over the same cursor.
`LegacyStart` and `BufferAt` are the two modes: with `block_independant` the
buffer is that of one block, allocated and cleared once and used again for every
block; without it it holds planes of the whole array and slides. `WritesBuffer`
is the branch of the kernels that only then keeps what a regression block
reconstructs. `LegacyQuantize` compares before it converts to `int`, the other
order from the knl kernels. Values without a code go to one array for all
blocks. When they outgrow the reserve of one in twenty elements, the code writes
on behind it: the model stops there (`pc = "overrun"`).

**Huffman.** `InsertLeaf`, `Merge` and `BuildCode` are `init` with its calls of
`qinsert`, `qremove`, `new_node` and `build_code`; `Merge` chooses which of the
two `qremove` calls in the argument list is evaluated first. `EncodeSymbol` is
one turn of `encode`, whose memory starts with any content; `CloseSegment` puts
another segment behind `outSize`, as the layout does. `DecodeBit` is one turn of
`decode`.

**Regression coefficients.** `Fit` writes the next slot, `SelectRegression` and
`QuantizeCoefficient` quantize it in place, `SelectOther` leaves it to be
overwritten, `RecoverCoefficient` is the decompressor's loop. In
`RegressionFit`, `DataPos` is where `cur_data_pos` is after its bumps,
`Sums` the accumulators `f`, `fx`, `fy` and `fz`, `LinearFit` the formulas behind
them, in fractions of a common unit. `FittedCoefficients` says which coefficients
`Fit` may then write: those of blocks, whole or cut off at the end of the array, on
the lattice of the channel (`Fitted`).

**Selection.** `Points` are the four diagonals and the last element
`sz_blockwise_selection_3d` visits, `Estimation` what the stencils read there,
`Select` the chain of comparisons with its ties. The errors themselves are
arbitrary.

**Stream layout.** `WriteOrder` follows the writing half of either driver,
`KnlReadOrder` and `LegacyReadOrder` the reading halves; `WrittenLength` and
`ReadLength` are how far either pointer moves, the second only by what has been
read. `Pack` and `Unpack` put the finished stream through `Frame` and `Unframe`,
in either version: the second writes the length in front and returns the size
without it, the first leaves the length to the caller. `Packed` and `Unpacked`
are the two conversions of indicators.

**Sampling and tuning.** `MeanStep` and `SampleStep` are a turn of the loop of
either walk in `optimize_quant_invl_3d`; `Widen` and `SampleBlock` a turn of the
two loops of `sz_compress_3d_sampling`; `SampleStage1` and its like a call of it
together with the comparison behind. `Retune` samples the winner of stage 2 once
more, as the code does when nine blocks in ten chose Lorenzo.

## 4. Runs

A property stands beside the slip that breaks it in the run.

**`block_walk`** (`MCBlockWalk`). Every array of up to 4 x 3 x 3 in blocks of 1,
2 and 3, one of 5 x 5 x 5, padded by one and two layers: whole, partial, single
and many blocks in each dimension and each combination of remainders.

| Property | Says | Slip it catches |
|---|---|---|
| `PointersAgree` | bumps lead to the row-major address, codes are dense | `NextElement_fullSlice` |
| `EachElementOnce` | every element visited exactly once | `LastInBlock_firstSlice` |
| `StencilReadsNeighbours` | each buffer slot a stencil may read holds that neighbour or zero | `SlideBuffer_onePlane` |

**`knl_round_trip`** (`MCKnlRoundTrip`). Arrays of 5 to 36 elements; all three
prediction dimensions, one and two layers, both regressions, with and without
the mean, capacities 4 to 8. `T` has integers up to 8 and multiples of 4 beyond,
with a precision of 1, so that rounding is coarser than the bound; the product
with the reciprocal falls one short at some multiples. Data are every array over
a few values where that is small, patterns else. Each block takes each predictor
it may take. So codes, the mean, reconstructions given up for the bound and
values out of range all occur in one block.

| Property | Says | Slip it catches |
|---|---|---|
| `TypeOK` | both passes stay in their arrays | `LastRow_pastEnd` |
| `Lockstep` | the decompressor repeats the compressor's states | `Decoded_meanAnywhere` |
| `ErrorBound` | every element within the precision | `Quantize_unchecked` |
| `TypeInAlphabet` | codes below the capacity | `Quantize_offByOne` |
| `LaneFits` | no lane outgrows its slots | `LaneLength_perBlock` |
| `ImplementsCodec` | refinement of `ErrorBoundedCodec` | `DataAt_oneRow` |
| `OutputCompletes` | the output is complete in the end (liveness) | `LastInBlock_firstSlice` |

**`knl_int_overflow`**: the same calls with a small `INT_MAX`; see the findings.

**`legacy_round_trip`** (`MCLegacyRoundTrip`). One to eight blocks, whole and
partial, in both modes: 3 x 3 x 3 and 3 x 3 x 4 in blocks of 2, too small for the
regression, and 5 x 4 x 4, 4 x 4 x 8 and 8 x 5 x 4 in blocks of 4, where each block
takes either predictor; capacities 8 and 16, with and without the mean, the `T`
of above. Data are smooth with one peak, of which some get no code, and one array
that outgrows the reserve.

| Property | Says | Slip it catches |
|---|---|---|
| `Lockstep` | the decompressor repeats the compressor's states | `Decoded_meanAnywhere` |
| `TypeInAlphabet` | codes below the capacity | `LegacyQuantize_offByOne` |
| `PredictsFromNeighbours` | whatever was left in the buffer, a Lorenzo stencil reads the reconstructions of the neighbours its mode has, and zero | `WritesBuffer_lorenzoOnly` |
| `ImplementsCodec` | refinement of `ErrorBoundedCodec` | `LegacyQuantize_unchecked` |
| `OutputCompletes` | the output is complete in the end, or the reserve was overrun (liveness) | `LastInBlock_firstSlice` |

**`huffman_coder`** (`MCHuffmanCoder`). Every array of up to four symbols over
four, three longer ones with skewed frequencies, over memory that is all zeros or
all ones. A byte has 3 bits, a word 2 bytes: codes of up to 5 bits then meet
every alignment, complete a byte exactly and span several. Tree widths of 3, 7
and 15 make the trees use all three encodings.

| Property | Says | Slip it catches |
|---|---|---|
| `OptimalCode` | no prefix code is shorter for the array | `qinsert_last` |
| `PackedCodes` | memory holds exactly the concatenated codes | `Pack_staysInByte` |
| `ReadsInsideSegment` | the decoder needs no bit beyond the stated size | `Bytes_whole` |
| `DecodesAll` | decoding ends with the whole array (liveness) | `Width_exclusive` |

**`regression_coefficients`** (`MCRegressionCoefficients`). Three blocks of
2 x 3 x 2 inside an array of 3 x 4 x 3, each with one of four contents (a ramp, a
step, a peak, rough data), or of 2 x 2 x 2 with the step, whose fits, in twenty-fourths, are the ones quantized;
four coefficients, of which the constant one has another precision than the
slopes; the 4-bit floats of above.

| Property | Says | Slip it catches |
|---|---|---|
| `TypeOK` | slots and counters fit | `Slots_perBlock` |
| `RecoversCoefficients` | recovered slots are the compressor's | `SlotAfter_everyFit` |
| `CoefficientsAccurate` | each within its own precision of the fit | `Quantize_unchecked` |
| `FitsAreLeastSquares` | each fit solves the normal equations of the block at its place in the array | `Bump_wholeSlice` |
| `AllRecovered` | every selected block gets its coefficients (liveness) | `Expected_oneShort` |

The run also evaluates that no two blocks the table of the polynomial fit is
filled for share a row, and that each row is in the table.

**`stream_layout`** (`MCStreamLayout`). The knl stream with one and four lanes,
empty or not, each regression present or absent, with and without coefficients
that have no code, arrays of one symbol (no bits) or several, elements of eight
bytes; the legacy stream with 1, 7, 8, 9, 16 and 17 indicators in several
patterns. Either goes through either version of the frame, which zstd cuts into blocks of
128 bytes, each kept or as small as one gets; the window is 300 bytes, so that
both headers of a frame occur. Where the room left is short zstd may also give up,
which the caller takes for a size.

| Property | Says | Slip it catches |
|---|---|---|
| `TypeOK` | fields do not overlap and end where the writer stands | `Advance_sizeInPlace` |
| `FieldsLineUp` | the reader finds each field where it looks | `KnlReadOrder_codesFirst` |
| `IndicatorsSurvive` | the indicators read are those written | `Packed_lowFirst` |
| `FrameFits` | zstd finds the room it needs, and the frame, length in front included, fits its allocation | `Allocation_noSlack` |
| `ReadsWholeStream` | the reader ends, at the last byte (liveness) | `Returned_withHeader` |

**`quant_intervals`** (`MCQuantIntervals`). Arrays of 9 to 32 elements, samples
three apart, histograms of 6 and 4 intervals; a sample may be 0, 1, 4 or 9
intervals off its prediction (`PredBound` = 9, and the largest capacity, 16 intervals
here, has no code for 9 off) and at any of seven distances from the rough mean, none above `DiffBound` = 9
(the two bounds name ranges to sum over). Smaller arrays are a
precondition: in 1 x 1 x 2 or 4 x 1 x 1 the walk of the rough mean goes back as
far as it came and never ends.

| Property | Says | Slip it catches |
|---|---|---|
| `ReadsInside` | a sample's seven neighbours are in the array | `Start_noOffset` |
| `CapacityCovers` | an even number of codes, for more than the threshold of the samples as far off as they are, or else the largest capacity there is; an eighth of it would not do | `CoveringInterval_reached` |
| `MeanSupported` | the mean gets a code only if samples near it pay for it | `MeanShift_lowerEdge` |
| `WalksEnd` | both walks end (liveness) | `MeanAdvance_twoBack` |

**`block_sampling`** (`MCBlockSampling`). 2..7 x 3..7 x 3..8 elements, blocks of 1
and 2, padding of 1 and 2, a ratio of 1/4; 7 x 7 x 7 in blocks of 3 and 4 with
every set of enabled predictors and each prediction dimension, 8 x 8 x 8 in
blocks of 5, and errors of 0 to 2, so that every order and every tie occurs.

| Property | Says | Slip it catches |
|---|---|---|
| `TypeOK` | counters in their loops, no more compressed than allocated for | `Inner_pastEnd` |
| `ReadsInside` | neither a sample block nor a point of the estimation leaves the array | `Points_fromOne` |
| `BufferedBeforeUse` | each block was copied, layer included, before its stencils run | `BlockStart_trimmed` |
| `ChoosesBest` | the predictor taken is enabled and has the least error; in the one tie that none wins it is Lorenzo | `Select_unguarded` |
| `SamplingEnds` | widening ends and every block is compressed (liveness) | `Inner_lastSkipped` |

**`sampling_readme_example`**, **`stream_estimate`**: see the findings.

**`autotuning`** (`MCAutotuning`). Three ratios: the second better than the first
by less than a margin, the third by more than either margin and the only one
high enough for stage 3; both capacities; both outcomes of the Lorenzo share.

| Property | Says | Slip it catches |
|---|---|---|
| `BestOfStage` | the chosen parameters were sampled in this stage, and no sample beats them by more than the margin | `Kept_evenIfWorse` |
| `StagesAgree` | the result keeps the decisions of earlier stages and never stems from uninitialized memory | `StartRatio_kept` |

### Why the bounds are enough

The walk, the passes and the sampling depend on the shape only through which
blocks are first, last, partial or single in each dimension; the bounds contain
each combination, and two rows and planes so that what one leaves can reach the
next. Precision, capacity and the floats are scaled together: what matters is
which of "in range and accurate", "in range and inaccurate" and "out of range"
an element is, and all three occur. The layout depends on which fields are there
and which have no bytes. For every invariant and
action property the proofs of section 6 replace the bounds. On them rest the
liveness properties and what section 7 lists as abstracted.

## 5. Fairness

The program is sequential: while a loop's condition holds it takes another turn.
So every specification that promises an end assumes weak fairness of the
disjunction of the program's own steps and nothing more, no fairness of single
actions and no strong fairness: choices (predictors, data, ratios) are not
fair. The stuttering actions `Done` and `Finished` only stand for a program that
has returned.

## 6. Proofs

Assumptions are the `ASSUME`s of the modules, which every run evaluates:
positive sizes, one or two layers of padding, an even capacity below `IntMax`
and above 2 when the mean is used, `Fl(0) = 0` and an odd `IntMax`, messages,
shapes and parameters of the right form; for the choice of intervals, samples more
than two elements apart, at most 2^16 places to count in, a threshold of at most 1 and
an even smallest capacity (the code's are 100, 32768, 0.999 and 32), and a largest
number of intervals a sample is off, as large as one likes; for the
lossless frame zstd blocks of at least 64 bytes (they have 128 KB); for the Huffman
coder a natural size of the memory, and a tree whose nodes the widest node number
can count (`convert_HuffTree_to_bytes_anyStates` takes `nodeCount` as an `int`).
Nothing is assumed about how `Fl` and
`Scale` round: the results hold for `float`, `double` or any other element type,
and for a reciprocal of any inaccuracy. (An operator cannot be given a type by an
`ASSUME` that TLC evaluates, so `RegressionCoefficientsProofs` states as a
hypothesis of its theorems that rounding an integer gives an integer: `Numbers`;
`CoefficientsFitted` has the hypothesis `Fitted` besides, that the coefficients fitted
are fits of blocks with edges of two at least, the only ones the pass enables the
regression for; the run evaluates it, and the other theorems of the module do without.
`LegacyRoundTripProofs` states as a hypothesis that rounding gives an integer and
scaling a distance a natural number: `Rounds`. `KnlRoundTripProofs!RefinesCodec`
states that what stands for an element not yet written is neither an integer nor a
rounded sum, `Unmistakable`; its counterpart for the older codec that it is no
integer. `CodesArePacked`, `ReadsStayInside` and `DecodesTheArray`, on the Huffman coder, are
about behaviours in which no code is longer than a word, `OneWord`, the only ones
modelled. `CodesAreShort` shows that there are no others when each array has fewer
elements than a Fibonacci number, `ShortArrays`: for words of 64 bits the 67th, about
4 * 10^13. `TuningProofs` and `QuantCodesProofs` are about two components each,
which is why the specifications of the tuner and of the Huffman coder are named
`TuneSpec` and `CoderSpec`.)

| Theorem | Says |
|---|---|
| `KnlRoundTripProofs!TypeCorrect` | `Spec => []TypeOK` |
| `KnlRoundTripProofs!DecompressorInLockstep` | `Spec => []Lockstep` |
| `KnlRoundTripProofs!ErrorBounded` | `Spec => []ErrorBound` |
| `KnlRoundTripProofs!CodesInAlphabet` | `Spec /\ []NoOverflow => []TypeInAlphabet` |
| `KnlRoundTripProofs!RefinesCodec` | `Unmistakable`: `Spec => ImplementsCodec` |
| `KnlRoundTripProofs!LanesSuffice` | `Spec => []LaneFits` |
| `LegacyRoundTripProofs!InLockstep` | `Rounds`: `Spec => []Lockstep` |
| `LegacyRoundTripProofs!CodesInAlphabet` | `Rounds`: `Spec => []TypeInAlphabet` |
| `LegacyRoundTripProofs!RefinesCodec` | `Rounds`, no number unset: `Spec => ImplementsCodec` |
| `LegacyRoundTripProofs!PredictsWhatWasHandedOut` | `Rounds`: `Spec => []PredictsFromNeighbours` |
| `BlockWalkProofs!PointersNeverDrift` | `Spec => []PointersAgree` |
| `BlockWalkProofs!VisitsEachOnce` | `Spec => []EachElementOnce` |
| `BlockWalkProofs!StencilFindsNeighbours` | `Spec => []StencilReadsNeighbours` |
| `TuningProofs!NothingReadOutside` | `Spec => []ReadsInside` |
| `TuningProofs!BlocksBuffered` | `Spec => []BufferedBeforeUse` |
| `TuningProofs!BestPredictor` | `Spec => []ChoosesBest` |
| `TuningProofs!SampleArraysSuffice` | `Spec => []TypeOK` |
| `TuningProofs!ChosenIsBest` | `TuneSpec => []BestOfStage` |
| `TuningProofs!StagesKeepDecisions` | `TuneSpec => []StagesAgree` |
| `QuantCodesProofs!WalkReadsInside` | `Spec => []ReadsInside` |
| `QuantCodesProofs!EnoughIntervals` | `Spec => []CapacityCovers` |
| `QuantCodesProofs!MeanHasSupport` | `Spec => []MeanSupported` |
| `QuantCodesProofs!CodesArePacked` | `CoderSpec /\ []OneWord => []PackedCodes` |
| `QuantCodesProofs!ReadsStayInside` | `CoderSpec /\ []OneWord => []ReadsInsideSegment` |
| `QuantCodesProofs!DecodesTheArray` | `CoderSpec /\ []OneWord => [](phase = "done" => decoder.out = s)` |
| `QuantCodesProofs!CodeIsOptimal` | `CoderSpec => []OptimalCode` |
| `QuantCodesProofs!CodesAreShort` | `ShortArrays /\ CoderSpec => []OneWord` |
| `QuantCodesProofs!ShortArraysSurvive` | `ShortArrays /\ CoderSpec => [](PackedCodes /\ ReadsInsideSegment /\ (phase = "done" => decoder.out = s))` |
| `StreamLayoutProofs!FieldsApart` | `Spec => []TypeOK` |
| `StreamLayoutProofs!FieldsFound` | `Spec => []FieldsLineUp` |
| `StreamLayoutProofs!IndicatorsKept` | `Spec => []IndicatorsSurvive` |
| `StreamLayoutProofs!FrameInside` | `Spec => []FrameFits` |
| `RegressionCoefficientsProofs!TypeCorrect` | `Numbers`: `Spec => []TypeOK` |
| `RegressionCoefficientsProofs!CoefficientsRecovered` | `Numbers`: `Spec => []RecoversCoefficients` |
| `RegressionCoefficientsProofs!CoefficientsClose` | `Numbers`: `Spec => []CoefficientsAccurate` |
| `RegressionCoefficientsProofs!WalkFindsElements` | `DataPos[n]` is the address of element n, for every block and array |
| `RegressionCoefficientsProofs!FitIsLeastSquares` | `LinearFit` satisfies `LeastSquares`, for every block, data and array |
| `RegressionCoefficientsProofs!CoefficientsFitted` | `Numbers`, `Fitted`: `Spec => []FitsAreLeastSquares` |

Each module proves `Invariance` (of the Huffman coder `WholeInvariance`), an
inductive invariant, with one lemma for each action, and derives the rest from it; `KnlRoundTripProofs` adds to it what its last
two theorems need (`CodecInv`, `Filled`), `TuningProofs` what the counts of samples
need (`CountInv`).

**The round trip.** *Type correctness* rests on `BlockGeometryProofs`: the extent
of a block is between 1 and `block_size` (`ExtentRange`), so the loops stay in
the array (`NextElementStays`, `NextBlockStays`) and lanes in `block_size`^2
(`LaneOfRange`).

*Lockstep* is not inductive: that the decompressor is where the compressor was
says nothing of whether the stream still contains what it needs. The history
variable `trace` holds the compressor's local state before each step, and the
invariant adds

- `StreamMatches`: what has been written to each stream array is exactly what
  lies before the compressor's pointers (the lanes before their counts, the
  codes before the cursor, the indicators before `indicator_pos`);
- `TraceReplays`: each step of the history can be replayed from the stream:
  `Replays(k, d, st, s, n)` says that the fields the decompressor would read in
  state `s` have been written, that reading them gives the state `n`, and that
  the value it hands out is within the precision.

A step of the compressor makes its own step replayable
(`SelectPredictorReplayable`, `EncodeElementReplayable`, `LeaveBlockReplayable`)
and, because it writes only positions that `StreamMatches` says are free, keeps
earlier ones replayable (`ReplaysGrows`). A step of the decompressor is then one
step along the trace. The heart of an element step is `QuantizeRecovers`: an
accepted code is neither 0 nor, with two codes held back, 1, and recovers the
value the compressor went on with, even if the index has overflowed, because
radius plus and minus half the wrapped index are recovered with the same wrap.
`CodesInAlphabet` needs the contrary: without overflow the index is between 1 and
the capacity. The run `knl_int_overflow` shows that the assumption is needed.

**The codec.** `RefinesCodec` maps `dec_data` to the abstract output. That every
element is written once needs more than the lockstep: an address the
decompressor writes must not have been written before. `Passed` says, by the
order of the walk, which elements a pass has handled, and the invariant that
`dec_data` is set at exactly their addresses (`Produced`). The element under the
cursor is not among them, no other element has its address (`SameAddress`), the
step passes it and nothing else (`ElementStepSteady`), and leaving a block passes
nothing (`AfterBlockSteady`); the value is within the precision by
`ErrorBound`, which holds after the step too.

**The lanes.** `LanesSuffice` counts: the blocks left behind are
`indicator_pos`, in row-major order, and each has at most `block_size` slices
with one element per lane (`Filled`, `NextLane`, `BlockCount`). A lane therefore
never holds more than `num_blocks * block_size` values, even when no element
gets a code.

**The older codec.** The argument is that of the knl passes, and differs where the
codec does. All values without a code share one array, so a step is replayed from
the position the pass has reached in it; the history ends when the reserve is
overrun, and nothing is claimed beyond. `LegacyQuantizeRecovers` needs no case of
an overflown index, because the older quantizer compares before it converts:
`CodesInAlphabet` therefore holds without the assumption of its namesake, which is
the difference between the two quantizers in one sentence. The decompressor's
buffer is the compressor's slot by slot, stale values included: lockstep needs no
account of what it holds.

That it holds the right neighbours is `PredictsWhatWasHandedOut`. `BufferInv` says
which element each slot serves (`Serves`): with `block_independant` one of the block
under the cursor, otherwise one of the planes of blocks under it. Slots that serve
nothing the pass may predict from (`Outside`) are zero, and those of elements passed
hold what was handed out, but with `block_independant` only while the block is a
Lorenzo block (`Kept`), since a regression block leaves the buffer alone. An element is
written to the one slot that serves it (`ElementSlot`, `ServesOne`), and the slide
carries the last plane to the front (`BufferSlides`). On entering a block of its own
the buffer is full of the values of earlier blocks; the invariant holds because of
the new block nothing has been passed (`NothingOfBlock`), and the zeros in front have
never been written.

**The walk.** Elements are ordered by block and within a block (`Before`), and
`At` says that an element is the one the loops are at (these, and the lemmas on
pointers, are in `BlockGeometryProofs`, for the passes too). `Pointers` gives every
pointer in closed form, products of counters for the ones the code bumps; `Codes`
gives for `type` the number of elements in the planes, rows and blocks before this one,
which is where partial blocks need an argument. With these,
`BeforeNextElement` and `BeforeNextBlock` say what a step adds to the elements
before the cursor. The invariant `IInv` adds `Counted` (as many elements visited
as codes), `Covered` (what lies before the cursor was visited) and `Held`: what
each slot of the prediction buffer holds, with ghost layers, the current planes
up to the cursor, and the planes kept from the row of blocks before; `Slides`
carries it over the `memcpy`. (The slots themselves, and where a step back leads in
the buffer and in the data, `SlotBehind` and `AddrOffsets`, are in
`BlockGeometryProofs` too, for the older codec.) That no element comes twice follows from counting:
all of them were visited, and there were as many visits as elements.

**The sampling.** The more the distance grows, the fewer blocks fit, and as many
as are counted fit with the last one's edge, since an edge is never longer than a
step; an address below is bounded by the row-major address of the last element
(`RowMajor`, `StepsFit`). The points of the estimation and their stencils lie in
the block (`EstimationInBlock`) only because blocks too small have none. For the room in the
arrays, the blocks behind the one the loops are at (`Number`) have at most a block's
elements each (`BoxSize`), and there are never more than were counted.

**The intervals.** What a histogram sums to is defined by recursion over its places.
There is one function that satisfies the recursion (`SumExists`, `SumUnique`); both,
and what follows about sums (`SumStep`, `SumGrows`, `SumPlus`, `SumIncremented`), are
proved by induction, for which a set of the places where the claim holds is given to
the library's theorem that the naturals are well-founded (`Least`, `SetInduction`,
`Upwards`). The history variables count what the samples really showed. The invariant says that up
to any interval but the last the histogram of predictions counts as many samples as
are that far off (`Clamped`; the last interval also counts those beyond it, so nothing
is claimed of it), and that each sample is counted within its range in the histogram of
differences (`Histograms`).
Then `CapacityCovers` follows from the interval the loop stops at: either it is not the
last, and the samples up to it, which have codes, are more than the threshold, or it is
the last, and the capacity is the largest (`CoveringFacts`, `CapacitySuffices`,
`TargetIsThreshold` for the truncated target). That no less would do is the other
half: up to the interval before, the samples were not enough, and fewer intervals hold
no more of them (`WithinGrows`). The power of two the interval is rounded up to is
found within the table, because capacities do not exceed 2^16 (`RoundedUp`).
`MeanSupported` rests on the fact that a difference counted in one of two
neighbouring intervals is within the precision of their border (`NearBorder`), and on
the fullest pair not being at the edge unless all are empty (`FullestInner`).
`ReadsInside` needs `Staggered`: a row is entered with an offset of at least one, and
what the walk leaves of a row to the next keeps it there.

**The Huffman coder.** That the codes are sequences of bits at all takes the whole
construction: `HeapInv` says that a node's children were made before it, and that a
node that is not in the queue is the child of another. `InsertKeeps` and
`RemoveKeeps` show that sifting up and down, whichever way ties are broken, loses no
node; so when one is left in the queue, every walk from a leaf upwards goes to later
nodes and ends at the root (`CodesAreBits`). The packer's invariant `Packs` adds to
the property that what is free of the byte begun is zero, which the `|=` of the next
code relies on although the memory may have held anything: `FillAppends` for the
bits that complete a byte, `AlignedAppends` for the words stored behind it,
`PackAppends` for a whole code. Each recursive function of the model exists by
`RecursionExists`, because each of its calls goes down in some rank.

*Decoding* (`ReadsStayInside`, `DecodesTheArray`) needs what the code never says:
that the array of nodes is a tree, that the one the decoder rebuilds is the same
tree, and that the codes are its paths. `QueueLeavesTree` gives the first: each
merge takes two nodes from the queue and puts one there, so `Len(pool) + Len(qq)` stays
twice the number of different symbols (`GrowthInv`), and when the queue holds one node
every other has exactly one parent (`Tree`, and upside down `Family`). `Preorder` says that
the numbers `pad_tree` gives out count nodes in preorder, a subtree taking as many as its
size; from it they are below `nodeCount` and no two nodes share one
(`NumbersAreNodes`), so nothing written is overwritten and `unpad_tree` rebuilds
every node at its number (`TreeSurvives`, `Rebuilt`). `Paths` says that a node's
path is its parent's and one more bit; the walk down a symbol's code therefore
passes exactly the nodes from the root to its leaf (`PathsGoDown`, `OnTheWay`). The decoder
is then somewhere on the way to the leaf of the symbol it is to hand out next, at
the bit behind the codes of the symbols before and the path so far (`ReadTo`,
`Reading`): `BitLeads` says that the bit found there leads further down this way,
`NextBitReads` that a leaf is reached with the end of its code and not earlier,
and `ConstantReads` that an array of one symbol, whose code is empty, needs no bit.
`WholeInv` joins this (`TreeInv`, `WrittenInv`, `ReadInv`) to the invariant of the
packer. As the codes end inside the bytes counted, no bit behind them is read.

*The shortest code* (`CodeIsOptimal`) is Huffman's argument, for a tree that is built
from its leaves. `InsertOrders` and `RemoveOrders` show that sifting keeps the heap
in order at every place, so that the two nodes `new_node` takes are two of the lightest
(`TwoLightest`), whichever of the two removals is called first. Before the queue is down
to one node there are no codes, so the invariant speaks of what can still become of the
tree (`Best`): for some M, the leaves will take M bits more than the nodes in the queue
do, wherever these come to lie (`Pays`), and any lengths of codes for the leaves cost at
least M more than some lengths for the nodes in the queue do (`Bound`). A merge adds the
weight of the new node to M on both sides. For `Pays` that is a sum (`PaysJoins`). For
`Bound` (`BoundJoins`) the lengths are rearranged: some length is the largest that counts
(`LongestExists`), it occurs twice as the equality of Kraft has an even number on both
sides (`SiblingExists`), exchanging lengths so that the two lightest nodes have it costs
nothing (`Exchanged`, `LightestDeepest`), and then they can be one node, of the length
above (`KraftJoins`). With one node left, the queue costs nothing at the root, and
the depth of a leaf is the length of its symbol's code (`Paths`); `TotalByValue`
counts the array by symbols. The frequencies are what `init` counted (`OfSymbols`). No
bound on the length of the codes is needed here, as nothing is packed yet.

*Codes fit in a word* (`CodesAreShort`) follows from the order of the merges too. What is
merged later is not lighter, so a node is never lighter than the children of its
sibling (`Uncles`, kept by `UnclesJoin`). On the way up from a leaf the weights are
therefore at least 1, 2, 3, 5, 8, ... (`LineIsHeavy`), and the root, which weighs as much as
the array has elements (`LeavesWeighAll`), would weigh more than that if a leaf were
deeper than a word is long. `ShortArraysSurvive` puts the theorems together for
arrays no longer than that.

**The tuning.** `BestSoFar` says that the chosen parameters were sampled and that
nothing sampled beats them by more than the margin; `DecidedInv` which parts of
which best parameters stage 1 and 2 have fixed, and that the third is never read
before it is written.

**The layout.** The writer's invariant places the end of each field (`Placed`).
The reader's says that it has got the value of every field before its own, and
where it stands. `LengthsAgree` is the point of it: from the fields before one the
reader computes the writer's length, because everything a length depends on
precedes it in the order (`OrderFacts`, `HuffmanPreceded`,
`CoefficientsPreceded`), whichever are absent; `ExpectedIsOrder` that it knows the
whole order once it has read the header. Indicators: `UnpackedPacked`, bit by bit,
and `BytesAgree` for the two formulas. The frame: a header has at most 14 bytes
(`FrameHeaderSize`), each block three more, and of blocks of at least 64 bytes there
are few (`BlocksBound`), so that a fifth of the stream is room enough for all of them
and for the length in front (`AllocationSuffices`).

**The coefficients.** Slots are rewritten by each fit, so the invariant speaks of
what was sent. `QuantizeFacts`: a code other than 0 stands for a value within the
precision, and 0 for no interval. `Codes`: of the first n codes z[n] are 0, which
is where the n-th coefficient without a code is to be found, and each code leads
from the slot one block before to its own (`Says`). `SentSlots` shows that a fit
behind what was sent disturbs none of this; the decompressor follows the codes.

*The fit* (`FitIsLeastSquares`) is about sums over a block of any values. The library
defines a sum over a set by taking elements away in an order it does not give:
`AddingAny` shows, by induction over the size of the set, that any element may be
taken first, so a sum over places 0 to n is one place more than that up to n - 1
(`UptoNext`). From there sums are linear (`Combined`), those of ones, numbers and squares
have their closed forms (`PowerSums`), and, as the number of an element is written in
mixed digits (`LoopsAt`, `LoopsReach`), the sum of a product of powers of its
coordinates is the product of the sums along the edges (`ProductSum`, `BlockSum`): that
gives the `Moments` of a block. `BumpLeads` does the case analysis of a bump, inside
a row, at its end and at the end of a slice, and with it `WalkFindsElements` says that
the accumulators sum the elements of the block and no others. What is left is
algebra: with these moments what the fit leaves sums up to 0 (`NoMean`) and has no slope along
any edge (`NoSlope`, three times). `OtherUnit` goes from the unit of the fit to that of
the lattice. `CoefficientsFitted` joins this to the channel: `FitsArrive` says that the
slot to select from holds a whole fit, so that what is kept of it is one.

**Only model-checked** is what must happen some time: every invariant and every action
property of the passing runs is proved. Liveness (`OutputCompletes`, `DecodesAll`, `AllRecovered`, `ReadsWholeStream`,
`WalksEnd`, `SamplingEnds`) is out of the prover's reach and stays so:
`DecodesTheArray` says that what is decoded is right when decoding ends, that it ends
is `DecodesAll`. A recursive function is reached as above, by its existence, its
uniqueness and the well-founded order its calls go down in; a `RECURSIVE` operator is not.

## 7. What is abstracted and what is not modelled

- *Numbers.* Elements are integers on a lattice, rounding is the operator `Fl`.
  There is no NaN and no infinity, and no contraction of `a * b + c` into one
  rounding: compressor and decompressor are assumed to be compiled alike.
  Ratios, frequencies and thresholds of sampling and tuning are exact fractions,
  so are the sums of the fits.
- *Data in `QuantIntervals`, `BlockSampling` and `Autotuning`* are what samples
  show: any error, any ratio. The average that makes the mean is left out.
- *Sizes.* `int` overflows are modelled in the quantizers only; pointers and
  counters are unbounded. Huffman codes are at most one word long, which is all that arrays of fewer
  than 4 * 10^13 elements have (`CodesAreShort`).
- *Preconditions.* Sampling assumes dimensions not below the padding; a capacity
  is even, as `optimize_quant_invl_3d` and the tuner make it; the choice of
  intervals is modelled for nine elements and more; edges of blocks stay within
  the table of the polynomial fit.
- *Undefined behaviour.* A legacy call that writes behind its reserve stops the
  model: what happens then is not this program's to say. In the knl passes no
  such write is possible (`LanesSuffice`).
- *zstd* returns what it was given. Each of its blocks has one of two sizes, that of
  its content or the least there is, beside its header; a call that has too little room for the
  worst of them may fail or not. Like zstd, so does the Huffman coder in the round trips return what it was
  given, as `HuffmanCoder` shows for symbols in the alphabet.
- *Logging* is left out. (The retry after stage 2 logs, and keeps for the summary
  line, that both regressions are off, `sz_autotuning_3d.cpp:303`, while the
  parameters it samples keep them on.)

**Not modelled**

- The product of the polynomial fit with its row of the table: ten times ten
  generated constants for each shape of block. Only its addressing is.
- Code nothing calls: `prediction_and_quantization_3d_with_knl_optimization` and
  its inverse, `sz_blockwise_selection_3d_v2`, `encode_withTree` and
  `decode_withTree`, `createDefaultHuffmanTree`, `is_lossless_compressed_data`,
  `sz_lossless_decompress65536bytes`; and `sz_compress_manualtuning_3d`, which
  prints the results of all sets of parameters.
- Huffman codes of more than 64 bits, which take more elements than a file has.
- The drivers, file access, statistics, and, but for the sizes of its frames, zstd,
  a copy of a third party's library. That copy is nine tenths of the lines of the repository (some 54 000
  of 60 000). Of the 5 800 lines of SZauto itself the definitions mapped in
  `PROJECT.json` stand for some 2 600; many of the others are the second and
  third variant of a kernel (by dimension or by number of layers) that one
  definition covers with its parameters, and the dead code above.

## 8. Findings

Where the code and what is written about it disagree; each is a run whose single
property TLC refutes.

- `knl_int_overflow` (`TypeInAlphabet`): `fabs(diff) * recip_precision` is
  converted to `int` before it is compared with the capacity. Beyond 2^31 a
  negative difference can get the code `intv_radius + 2^30`, which is no interval
  number. The error bound itself survives (`ErrorBounded`).
- `sampling_readme_example` (`SomethingSampled`): of an array of 8 x 8 x 128, that of
  the example in the repository's README, no block is sampled. (The driver takes the
  sizes right behind the name of the file and parses no `-3`: the line as the
  README prints it asks for other sizes.)
- `stream_estimate` (`FitsEstimate`): the stream of noise outgrows the estimated
  allocation of 1.2 times the data. The comment beside it only calls the estimate
  provisional.

## 9. Plan

The order in which the modules were written, most important first: the walk,
the round trip with its abstract codec, the proofs of its lockstep and bound,
then the coders the stream passes through (coefficients, Huffman, layout), what
decides the parameters (intervals, sampling, selection, tuning), the older codec
and the frame, and the proofs of the walk, the sampling, the tuning, the layout,
the coefficients, the older codec, the choice of intervals, and of the Huffman coder
the packing of codes, their decoding, that they are the shortest and that they fit in
a word. Still to come, in the models:

- a width-limited `LaneLength` for the `int` products of the decompressor;
- the polynomial fit against the normal equations, on one small shape with
  its matrix;
- sampling for arrays thinner than the padding, with 64-bit sizes.
