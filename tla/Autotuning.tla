----------------------------- MODULE Autotuning -----------------------------
(***************************************************************************)
(* sz_compress_autotuning_3d up to the compression with the parameters it  *)
(* has chosen: three stages, each of which compresses samples with every   *)
(* candidate and keeps the best so far, if it is better by a margin.       *)
(*                                                                         *)
(* The ratio a sample compresses to is any of Ratios: it depends on the    *)
(* data, and, as the sampling adds random noise to its prediction buffer,  *)
(* two samples with the same parameters may differ.  Ratios are in         *)
(* hundredths and exact.  A ratio is never 0: where nothing is sampled     *)
(* (BlockSampling) the program does not come back.                         *)
(*                                                                         *)
(* Of the parameters only those the stages vary or derive are kept; the    *)
(* text that is logged with them is not.                                   *)
(*                                                                         *)
(* A definition whose name ends in an underscore and a word is a slip in   *)
(* the definition that follows it, which no specification uses.            *)
(***************************************************************************)
EXTENDS Integers, Sequences

CONSTANTS
  Ratios,
  Capacities,       (* what optimize_quant_invl_3d may have decided         *)
  FixedCapacity,    (* 16384                                               *)
  HighRatio         (* the ratio beyond which capacities are compared: 5   *)

ASSUME TuningAssumption ==
  /\ Ratios \subseteq Nat \ {0}
  /\ Capacities \subseteq Nat \ {0} /\ FixedCapacity \in Nat \ {0}
  /\ HighRatio \in Nat

VARIABLES
  stage, candidates,     (* those still to be sampled in this stage        *)
  capacity,
  tight,                 (* relative_eb < 1.01e-6                          *)
  best_ratio,
  best_params_stage1, best_params_stage2, best_params_stage3,
  best_compress_info,    (* whether most of its blocks chose Lorenzo       *)
  measured               (* history: the parameters sampled in this stage, *)
                         (* each with the ratio it got                     *)

tuning == <<stage, candidates, capacity, tight, best_ratio, best_params_stage1,
            best_params_stage2, best_params_stage3, best_compress_info, measured>>

\* lorenzo_padding_layer
Padding(two_layers) == IF two_layers THEN 2 ELSE 1

sz_params(block_size, prediction_dim, two_layers, linear, poly, cap) ==
  [block_size |-> block_size, prediction_dim |-> prediction_dim,
   use_lorenzo_2layer |-> two_layers, lorenzo_padding_layer |-> Padding(two_layers),
   use_regression_linear |-> linear, use_poly_regression |-> poly, capacity |-> cap]

DefaultParams == sz_params(6, 3, FALSE, TRUE, FALSE, 0)

Candidates1 ==
  <<sz_params(6, 3, TRUE, FALSE, FALSE, capacity), sz_params(6, 2, TRUE, FALSE, FALSE, capacity),
    sz_params(6, 3, FALSE, FALSE, FALSE, capacity), sz_params(6, 2, FALSE, FALSE, FALSE, capacity)>>

\* What stage 1 found, with every block size, without and with the polynomial
\* regression.
Candidates2 ==
  [n \in 1 .. 8 |->
     sz_params(5 + ((n - 1) % 4), best_params_stage1.prediction_dim,
               best_params_stage1.use_lorenzo_2layer, TRUE, n > 4, capacity)]

\* Better by margin percent.
Better(ratio, margin) == 100 * ratio > (100 + margin) * best_ratio

TuneInit ==
  /\ capacity \in Capacities /\ tight \in BOOLEAN
  /\ stage = "1" /\ candidates = Candidates1
  /\ best_ratio = 0
  /\ best_params_stage1 = DefaultParams
  /\ best_params_stage2 = DefaultParams /\ best_params_stage3 = DefaultParams
  /\ best_compress_info = "uninitialized"
  /\ measured = {}

SampleStage1 ==
  /\ stage = "1" /\ candidates # <<>>
  /\ \E ratio \in Ratios, params \in {Head(candidates)} :
       /\ measured' = measured \cup {<<params, ratio>>}
       /\ IF Better(ratio, 2)
          THEN /\ best_ratio' = ratio /\ best_params_stage1' = params
          ELSE UNCHANGED <<best_ratio, best_params_stage1>>
  /\ candidates' = Tail(candidates)
  /\ UNCHANGED <<stage, capacity, tight, best_params_stage2, best_params_stage3,
                 best_compress_info>>

StartRatio_kept == best_ratio
\* Each stage compares its own candidates only.
StartRatio == 0

EndStage1 ==
  /\ stage = "1" /\ candidates = <<>>
  /\ stage' = "2" /\ candidates' = Candidates2
  /\ best_params_stage2' = best_params_stage1
  /\ best_ratio' = StartRatio
  /\ measured' = {}
  /\ UNCHANGED <<capacity, tight, best_params_stage1, best_params_stage3,
                 best_compress_info>>

SampleStage2 ==
  /\ stage = "2" /\ candidates # <<>>
  /\ \E ratio \in Ratios, params \in {Head(candidates)}, info \in {"mixed", "lorenzo"} :
       /\ measured' = measured \cup {<<params, ratio>>}
       /\ IF Better(ratio, 1)
          THEN /\ best_ratio' = ratio /\ best_params_stage2' = params
               /\ best_compress_info' = info
          ELSE UNCHANGED <<best_ratio, best_params_stage2, best_compress_info>>
  /\ candidates' = Tail(candidates)
  /\ UNCHANGED <<stage, capacity, tight, best_params_stage1, best_params_stage3>>

\* More than nine blocks in ten chose Lorenzo; anything may be found in an
\* uninitialized record.
EndStage2 ==
  /\ stage = "2" /\ candidates = <<>>
  /\ \/ best_compress_info \in {"lorenzo", "uninitialized"} /\ stage' = "retune"
     \/ best_compress_info \in {"mixed", "uninitialized"} /\ stage' = "choose"
  /\ UNCHANGED <<candidates, capacity, tight, best_ratio, best_params_stage1,
                 best_params_stage2, best_params_stage3, best_compress_info, measured>>

\* Samples once more.
Retune ==
  /\ stage = "retune"
  /\ \E ratio \in Ratios,
        params \in {[best_params_stage2 EXCEPT
                       !.use_lorenzo_2layer = best_params_stage1.use_lorenzo_2layer,
                       !.prediction_dim = best_params_stage1.prediction_dim]} :
       /\ measured' = measured \cup {<<params, ratio>>}
       /\ IF Better(ratio, 1)
          THEN /\ best_ratio' = ratio /\ best_params_stage2' = params
          ELSE UNCHANGED <<best_ratio, best_params_stage2>>
  /\ stage' = "choose"
  /\ UNCHANGED <<candidates, capacity, tight, best_params_stage1, best_params_stage3,
                 best_compress_info>>

StartStage3 ==
  /\ stage = "choose" /\ tight /\ best_ratio > HighRatio
  /\ stage' = "3" /\ candidates' = <<capacity, FixedCapacity>>
  /\ best_ratio' = StartRatio
  /\ measured' = {}
  /\ UNCHANGED <<capacity, tight, best_params_stage1, best_params_stage2,
                 best_params_stage3, best_compress_info>>

SkipStage3 ==
  /\ stage = "choose" /\ ~(tight /\ best_ratio > HighRatio)
  /\ stage' = "done"
  /\ best_params_stage3' = [best_params_stage2 EXCEPT !.capacity = capacity]
  /\ UNCHANGED <<candidates, capacity, tight, best_ratio, best_params_stage1,
                 best_params_stage2, best_compress_info, measured>>

Kept_evenIfWorse(ratio, params) == params
\* best_params_stage3 after a sample: best_params_stage2 itself is set to each
\* capacity in turn, only the better one is copied.
Kept(ratio, params) == IF Better(ratio, 1) THEN params ELSE best_params_stage3

SampleStage3 ==
  /\ stage = "3" /\ candidates # <<>>
  /\ \E ratio \in Ratios, params \in {[best_params_stage2 EXCEPT !.capacity = Head(candidates)]} :
       /\ best_params_stage2' = params
       /\ measured' = measured \cup {<<params, ratio>>}
       /\ best_ratio' = IF Better(ratio, 1) THEN ratio ELSE best_ratio
       /\ best_params_stage3' = Kept(ratio, params)
  /\ candidates' = Tail(candidates)
  /\ UNCHANGED <<stage, capacity, tight, best_params_stage1, best_compress_info>>

EndStage3 ==
  /\ stage = "3" /\ candidates = <<>>
  /\ stage' = "done"
  /\ UNCHANGED <<candidates, capacity, tight, best_ratio, best_params_stage1,
                 best_params_stage2, best_params_stage3, best_compress_info, measured>>

Tuned == stage = "done" /\ UNCHANGED tuning

TuneNext ==
  \/ SampleStage1 \/ EndStage1
  \/ SampleStage2 \/ EndStage2 \/ Retune
  \/ StartStage3 \/ SkipStage3 \/ SampleStage3 \/ EndStage3
  \/ Tuned

TuneSpec == TuneInit /\ [][TuneNext]_tuning

----------------------------------------------------------------------------
\* The parameters a stage has chosen so far.
Chosen ==
  CASE stage = "1" -> best_params_stage1
    [] stage \in {"2", "retune", "choose"} -> best_params_stage2
    [] OTHER -> best_params_stage3

\* However the samples turn out, the parameters chosen were sampled in this
\* stage, with a ratio that no other sample of the stage beats by more than the
\* margin.  In the end they are those of the last stage.
BestOfStage ==
  measured # {} =>
    \E s \in measured :
      /\ s[1] = Chosen
      /\ \A q \in measured : 100 * q[2] <= (IF stage = "1" THEN 102 ELSE 101) * s[2]

\* What stage 1 decided and what was decided before it survives the later
\* stages, and the array is compressed with a regression, as sampled in stage
\* 2, not with parameters some stage was left with for want of a better one;
\* the passes pad as many layers as the predictors reach back.
StagesAgree ==
  stage = "done" =>
    /\ best_params_stage3.prediction_dim = best_params_stage1.prediction_dim
    /\ best_params_stage3.use_lorenzo_2layer = best_params_stage1.use_lorenzo_2layer
    /\ best_params_stage3.lorenzo_padding_layer
         = IF best_params_stage3.use_lorenzo_2layer THEN 2 ELSE 1
    /\ best_params_stage3.use_regression_linear
    /\ best_params_stage3.capacity \in {capacity, FixedCapacity}
    /\ best_compress_info # "uninitialized"
=============================================================================
