--------------------------- MODULE QuantIntervals ---------------------------
(***************************************************************************)
(* optimize_quant_invl_3d, which samples the array before it is compressed *)
(* and decides how many quantization intervals there will be and whether   *)
(* values near the mean get a code of their own.  Two walks: one for a     *)
(* rough mean, one that counts, for each sample, how far off the Lorenzo   *)
(* prediction is (intervals) and how far off the mean (freq_intervals).    *)
(*                                                                         *)
(* Positions are offsets into the array.  The data are abstract: a sample  *)
(* may be off its prediction by any number of intervals and off the rough  *)
(* mean by any of Diffs, in halves of the precision; that arithmetic is    *)
(* exact here.  How the mean itself is averaged is not modelled.           *)
(*                                                                         *)
(* A definition whose name ends in an underscore and a word is a slip in   *)
(* the definition that follows it, which no specification uses.            *)
(***************************************************************************)
EXTENDS Integers, Sequences

CONSTANTS
  Shapes,                  (* <<r1, r2, r3>>                               *)
  PredIndices, Diffs,      (* what a sample may show                       *)
  PredBound,               (* the largest of PredIndices                   *)
  DiffBound,               (* the largest of Diffs, either way             *)
  QuantIntvMeanCapacity, QuantIntvSampleDistance, QuantIntvSampleCapacity,
  QuantIntvAccThreshold,   (* <<numerator, denominator>>                   *)
  FewestIntervals          (* 32                                           *)

\* The constants of sz_compression_utils.hpp are 8192, 100, 32768 and 0.999.
ASSUME IntervalsAssumption ==
  /\ Shapes \subseteq (Nat \ {0}) \X (Nat \ {0}) \X (Nat \ {0})
  /\ PredBound \in Nat /\ PredIndices \subseteq 0 .. PredBound
  /\ DiffBound \in Nat /\ Diffs \subseteq -DiffBound .. DiffBound
  /\ QuantIntvMeanCapacity \in Nat /\ QuantIntvMeanCapacity > 3
  /\ QuantIntvSampleDistance \in Nat /\ QuantIntvSampleDistance > 2
  /\ QuantIntvSampleCapacity \in 1 .. 2 ^ 16
  /\ QuantIntvAccThreshold[1] \in Nat /\ QuantIntvAccThreshold[2] \in Nat \ {0}
  /\ QuantIntvAccThreshold[1] <= QuantIntvAccThreshold[2]
  /\ FewestIntervals \in Nat /\ FewestIntervals % 2 = 0

VARIABLES
  shape, pc,
  data_pos,                        (* of the walk going on                 *)
  offset_count, offset_count_2,
  n1_count, n2_count,
  intervals, freq_intervals, sample_count,
  preds, samples,                  (* history: how often each pred_index,  *)
                                   (* not yet clamped, and each diff came  *)
  capacity, mean_guess, use_mean   (* what is decided; mean_guess relative *)
                                   (* to the rough mean, in precisions     *)

walk == <<data_pos, offset_count, offset_count_2, n1_count, n2_count>>
counts == <<intervals, freq_intervals, sample_count, preds, samples>>
decided == <<capacity, mean_guess, use_mean>>
vars == <<shape, pc, walk, counts, decided>>

r1 == shape[1]
r2 == shape[2]
r3 == shape[3]
r23 == r2 * r3
len == r1 * r23
Sqrt(n) == CHOOSE k \in 0 .. n : k * k <= n /\ (k + 1) * (k + 1) > n
Inside(p) == p \in 0 .. len - 1
radius == QuantIntvMeanCapacity \div 2

Init ==
  /\ shape \in Shapes
  /\ pc = "mean"
  /\ data_pos = 0 /\ offset_count = 0 /\ offset_count_2 = 0
  /\ n1_count = 1 /\ n2_count = 1
  /\ intervals = [i \in 0 .. QuantIntvSampleCapacity - 1 |-> 0]
  /\ freq_intervals = [i \in 0 .. QuantIntvMeanCapacity - 1 |-> 0]
  /\ sample_count = 0
  /\ preds = [p \in 0 .. PredBound |-> 0]
  /\ samples = [d \in Diffs |-> 0]
  /\ capacity = 0 /\ mean_guess = 0 /\ use_mean = FALSE

MeanAdvance_twoBack(distance, row, slice) ==
  distance - (IF row THEN 2 ELSE 0) - (IF slice THEN 1 ELSE 0)
\* sample_rough_mean_3d: every step goes back by one for each row and each
\* slice it completes.
MeanAdvance(distance, row, slice) ==
  distance - (IF row THEN 1 ELSE 0) - (IF slice THEN 1 ELSE 0)

MeanStep ==
  /\ pc = "mean" /\ Inside(data_pos)
  /\ LET distance == Sqrt(len)
         row      == offset_count + distance >= r3
         slice    == offset_count_2 + distance >= r23
     IN  /\ offset_count' = IF row THEN 0 ELSE offset_count + distance
         /\ offset_count_2' = IF slice THEN 0 ELSE offset_count_2 + distance
         /\ data_pos' = data_pos + MeanAdvance(distance, row, slice)
  /\ UNCHANGED <<shape, pc, n1_count, n2_count, counts, decided>>

Start_noOffset == r23 + r3
\* The first sample: in the second row of the second slice, so that all of its
\* neighbours exist.
Start == r23 + r3 + QuantIntvSampleDistance - 2

MeanEnd ==
  /\ pc = "mean" /\ ~Inside(data_pos)
  /\ pc' = "sample"
  /\ data_pos' = Start
  /\ offset_count' = QuantIntvSampleDistance - 2 /\ offset_count_2' = 0
  /\ UNCHANGED <<shape, n1_count, n2_count, counts, decided>>

\* The interval a sample is counted in: all beyond the last are counted there.
PredInterval(pred_index) ==
  IF pred_index >= QuantIntvSampleCapacity THEN QuantIntvSampleCapacity - 1 ELSE pred_index

\* d is in halves of the precision: the cast truncates towards zero.
FreqInterval(d) ==
  LET index == IF d > 0 THEN d \div 2 + radius ELSE radius - 1 - ((-d) \div 2)
  IN  IF index <= 0 THEN 0
      ELSE IF index >= QuantIntvMeanCapacity THEN QuantIntvMeanCapacity - 1
      ELSE index

\* The end of a row moves to the next one, staggered by the numbers of the
\* slice and the row.
RowStep(offset, stagger) ==
  (r3 + QuantIntvSampleDistance - offset) + (QuantIntvSampleDistance - stagger)

\* The code sees to it that the offset is not 0, which the stagger, a remainder,
\* never makes it.
RowOffset(stagger) ==
  IF stagger = QuantIntvSampleDistance THEN 1 ELSE QuantIntvSampleDistance - stagger

SampleStep ==
  /\ pc = "sample" /\ Inside(data_pos)
  /\ \E pred_index \in PredIndices, d \in Diffs :
       /\ intervals' = [intervals EXCEPT ![PredInterval(pred_index)] = @ + 1]
       /\ freq_intervals' = [freq_intervals EXCEPT ![FreqInterval(d)] = @ + 1]
       /\ preds' = [preds EXCEPT ![pred_index] = @ + 1]
       /\ samples' = [samples EXCEPT ![d] = @ + 1]
  /\ sample_count' = sample_count + 1
  /\ LET offset  == offset_count + QuantIntvSampleDistance
         wrap    == n2_count + 1 = r2
         n1      == IF wrap THEN n1_count + 1 ELSE n1_count
         n2      == IF wrap THEN 1 ELSE n2_count + 1
         stagger == (n1 + n2) % QuantIntvSampleDistance
     IN  IF offset >= r3
         THEN /\ n1_count' = n1 /\ n2_count' = n2 /\ offset_count_2' = stagger
              /\ data_pos' = data_pos + (IF wrap THEN r3 ELSE 0) + RowStep(offset, stagger)
              /\ offset_count' = RowOffset(stagger)
         ELSE /\ data_pos' = data_pos + QuantIntvSampleDistance /\ offset_count' = offset
              /\ UNCHANGED <<offset_count_2, n1_count, n2_count>>
  /\ UNCHANGED <<shape, pc, decided>>

Sum(f, a, b) == LET sum[i \in a - 1 .. b] == IF i < a THEN 0 ELSE sum[i - 1] + f[i] IN sum[b]
round_up_power_of_2(base) == CHOOSE p \in {2 ^ k : k \in 0 .. 17} : base <= p /\ p < 2 * base

\* The first interval up to which more than the threshold of samples lie.
CoveringInterval_reached ==
  LET last == QuantIntvSampleCapacity - 1
      enough(i) == Sum(intervals, 0, i)
                     >= (sample_count * QuantIntvAccThreshold[1]) \div QuantIntvAccThreshold[2]
  IN  CHOOSE i \in 0 .. last : (enough(i) \/ i = last) /\ \A j \in 0 .. i - 1 : ~enough(j)
CoveringInterval ==
  LET last == QuantIntvSampleCapacity - 1
      enough(i) == Sum(intervals, 0, i)
                     > (sample_count * QuantIntvAccThreshold[1]) \div QuantIntvAccThreshold[2]
  IN  CHOOSE i \in 0 .. last : (enough(i) \/ i = last) /\ \A j \in 0 .. i - 1 : ~enough(j)

estimate_quantization_intervals ==
  LET num_intervals == 2 * round_up_power_of_2(2 * (CoveringInterval + 1))
  IN  IF num_intervals > FewestIntervals THEN num_intervals ELSE FewestIntervals

\* Two neighbouring intervals, neither of them one of the outermost, that hold
\* the most samples: the first such, 0 if all are empty.
Pair(i) == freq_intervals[i] + freq_intervals[i + 1]
max_index ==
  LET pairs == 1 .. QuantIntvMeanCapacity - 3
      best(i) == \A j \in pairs : Pair(j) < Pair(i) \/ (Pair(j) = Pair(i) /\ i <= j)
      fullest == CHOOSE i \in pairs : best(i)
  IN  IF Pair(fullest) = 0 THEN 0 ELSE fullest
max_sum == IF max_index = 0 THEN 0 ELSE Pair(max_index)
MeanShift_lowerEdge == max_index - radius
\* The border of the two intervals.
MeanShift == max_index + 1 - radius

\* With no sample at all the frequencies are 0 / 0 and compare as false.
Decide ==
  /\ pc = "sample" /\ ~Inside(data_pos)
  /\ capacity' = estimate_quantization_intervals
  /\ mean_guess' = MeanShift
  /\ use_mean' = (sample_count > 0 /\ (2 * max_sum > sample_count \/ max_sum > intervals[0]))
  /\ pc' = "done"
  /\ UNCHANGED <<shape, walk, counts>>

Finished == pc = "done" /\ UNCHANGED vars

Next == MeanStep \/ MeanEnd \/ SampleStep \/ Decide \/ Finished

Spec == Init /\ [][Next]_vars /\ WF_vars(MeanStep \/ MeanEnd \/ SampleStep \/ Decide)

----------------------------------------------------------------------------
\* However the walk staggers its rows, it reads a sample and all neighbours of
\* its Lorenzo prediction inside the array.
ReadsInside ==
  pc = "sample" /\ Inside(data_pos) => Inside(data_pos - r23 - r3 - 1)

\* The samples fewer than n intervals off.
Within(n) == Sum([p \in 0 .. PredBound |-> IF p < n THEN preds[p] ELSE 0], 0, PredBound)

\* The capacity is even, so that twice the radius is the capacity again, and
\* more than the threshold of the samples have a code, also when two codes are
\* put aside for the mean; otherwise the capacity is the largest, and samples
\* that are further off than it reaches have none.  No more is spent than that
\* takes: an eighth of the codes would not reach the threshold.
CapacityCovers ==
  pc = "done" =>
    /\ capacity % 2 = 0 /\ capacity >= FewestIntervals
    /\ \/ Within(capacity \div 2 - 1) * QuantIntvAccThreshold[2]
            > sample_count * QuantIntvAccThreshold[1]
       \/ capacity >= 4 * QuantIntvSampleCapacity
    /\ capacity > FewestIntervals =>
         Within(capacity \div 8) * QuantIntvAccThreshold[2]
           <= sample_count * QuantIntvAccThreshold[1]

\* When the mean gets a code, more than half of the samples lie within the
\* precision of the guess or more than were predicted well; so the mean is
\* never the mean of nothing.
MeanSupported ==
  use_mean =>
    LET near == [d \in -DiffBound .. DiffBound |->
                   IF d \in Diffs /\ d - 2 * mean_guess \in -2 .. 2 THEN samples[d] ELSE 0]
        all  == Sum(near, -DiffBound, DiffBound)
    IN  all > 0 /\ (2 * all > sample_count \/ all > intervals[0])

\* Both walks end.
WalksEnd == <>(pc = "done")
=============================================================================
