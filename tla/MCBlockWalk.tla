---------------------------- MODULE MCBlockWalk ----------------------------
(* Every array of up to 4 x 3 x 3 elements in blocks of 1, 2 and 3, and one *)
(* of 5 x 5 x 5: full, partial and missing blocks in each dimension.        *)
EXTENDS BlockWalk

MCShapes == {DSize_3d(r1, r2, r3, bs) : r1 \in 1..4, r2, r3 \in 1..3, bs \in 1..3}
              \cup {DSize_3d(5, 5, 5, 3)}
=============================================================================
