-------------------------- MODULE MCQuantIntervals --------------------------
(* Samples three elements apart, arrays with up to a few samples.           *)
EXTENDS QuantIntervals

MCShapes == {<<a, b, c>> \in (2..3) \X (1..4) \X (1..6) : a * b * c \in 9..32}
MCThreshold == <<3, 4>>
MCDiffs == {-7, -3, 0, 1, 2, 4, 9}
=============================================================================
