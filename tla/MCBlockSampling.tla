-------------------------- MODULE MCBlockSampling --------------------------
(* Small blocks, arrays of one block up to several in each dimension, and   *)
(* every way the errors of four predictors may compare.                     *)
EXTENDS BlockSampling

Shape(d1, d2, d3, bs, use, dim) ==
  [d1 |-> d1, d2 |-> d2, d3 |-> d3, block_size |-> bs, use |-> use, dim |-> dim,
   layer |-> IF "lorenzo2" \in use THEN 2 ELSE 1]

\* Blocks too small to estimate anything, and blocks of up to five with all
\* errors and predictors.
MCShapes ==
  {Shape(d1, d2, d3, bs, use, 3) :
     d1 \in 2..7, d2 \in 3..7, d3 \in 3..8, bs \in 1..2,
     use \in {{"lorenzo", "regression"}, {"lorenzo2", "poly"}}}
  \cup {Shape(7, 7, 7, bs, use, dim) : bs \in {3, 4}, use \in SUBSET Predictors, dim \in 1..3}
  \cup {Shape(8, 8, 8, 5, Predictors, 3)}
MCErrors == 0..2
MCRatio == <<1, 4>>

\* The example of the README with the tuner's first set of parameters.
ReadmeShapes == {Shape(8, 8, 128, 6, {"lorenzo", "lorenzo2"}, 3)}
TunerRatio == <<6, 100>>
=============================================================================
