---------------------------- MODULE MCAutotuning ----------------------------
(* Three ratios: the second is better than the first by less than a margin,  *)
(* the third than both by more, and only the third is high.                  *)
EXTENDS Autotuning
=============================================================================
