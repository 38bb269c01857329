--------------------------- MODULE BlockSelection ---------------------------
(***************************************************************************)
(* sz_blockwise_selection_3d: the predictor of a block.  The errors of the *)
(* enabled predictors are added up over points on the diagonals of the     *)
(* block and compared pair by pair, some ties one way and some another.    *)
(*                                                                         *)
(* use is the set of enabled predictors, err a function from all           *)
(* predictors to their errors, n the least edge of the block (min_size).   *)
(*                                                                         *)
(* A definition whose name ends in an underscore and a word is a slip in   *)
(* the definition that follows it, which no specification uses.            *)
(***************************************************************************)
EXTENDS Integers, FiniteSets

Predictors == {"lorenzo", "lorenzo2", "regression", "poly"}

\* Too small a block has no fit.
Enabled(use, n) ==
  use \ ((IF n < 3 THEN {"poly"} ELSE {}) \cup (IF n < 2 THEN {"regression"} ELSE {}))

Points_fromOne(n) ==
  UNION {{i} \X {i, n - i} \X {i, n - i} : i \in 1 .. n - 1}
\* Where the predictions are tried: (i, i, i), (i, i, bmi), (i, bmi, i) and
\* (i, bmi, bmi), and the last element of the block.
Points(n) ==
  (UNION {{i} \X {i, n - i} \X {i, n - i} : i \in 2 .. n - 2})
    \cup (IF n > 3 THEN {<<n - 1, n - 1, n - 1>>} ELSE {})

\* How far the stencils reach back in each dimension.
Reach(use, dim) ==
  LET layers == IF "lorenzo2" \in use THEN 2 ELSE IF "lorenzo" \in use THEN 1 ELSE 0
  IN  <<IF dim >= 2 THEN layers ELSE 0, IF dim = 3 THEN layers ELSE 0, layers>>

\* The positions of the block, and before it, that the estimation reads.
Estimation(use, dim, n) ==
  LET reach == Reach(use, dim)
  IN  UNION {(p[1] - reach[1] .. p[1]) \X (p[2] - reach[2] .. p[2]) \X (p[3] - reach[3] .. p[3]) :
               p \in Points(n)}

\* What the errors may come to, each one of bounds.  A disabled regression adds
\* up nothing, nor does any predictor in a block without points: all start at 0,
\* the polynomial one at poly_regression_noise, which no caller sets.
Estimates(use, n, bounds) ==
  {err \in [Predictors -> bounds] :
     \A p \in Predictors :
       Points(n) = {} \/ (p \in {"regression", "poly"} /\ p \notin use) => err[p] = 0}

\* Whether p beats every other enabled predictor.  Against the two-layer
\* predictor a tie is lost, and against it poly and it both lose.
Wins(use, err, p) ==
  /\ p \in use
  /\ \A q \in use \ {p} :
       IF q = "lorenzo2" \/ <<p, q>> = <<"lorenzo2", "poly">>
       THEN err[p] < err[q] ELSE err[p] <= err[q]

Select_unguarded(use, err) ==
  CASE Wins(use \cup {"regression"}, err, "regression") -> "regression"
    [] Wins(use, err, "poly") -> "poly"
    [] Wins(use, err, "lorenzo2") -> "lorenzo2"
    [] OTHER -> "lorenzo"
\* The first winner in this order; Lorenzo when there is none.
Select(use, err) ==
  CASE Wins(use, err, "regression") -> "regression"
    [] Wins(use, err, "poly") -> "poly"
    [] Wins(use, err, "lorenzo2") -> "lorenzo2"
    [] OTHER -> "lorenzo"

\* No winner although lorenzo is off: the two-layer predictor and poly tie.
Undecided(use, err) ==
  {"lorenzo2", "poly"} \subseteq use /\ err["lorenzo2"] = err["poly"]
=============================================================================
