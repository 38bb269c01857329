--------------------------- MODULE MCHuffmanCoder ---------------------------
(* Every array of up to 4 symbols over an alphabet of 4, and arrays with    *)
(* skewed frequencies, whose longest codes are longer than a byte and span  *)
(* bytes in every alignment.                                                *)
EXTENDS HuffmanCoder

Repeat(c, n) == [i \in 1 .. n |-> c]

MCArrays ==
  UNION {[1 .. n -> 0 .. 3] : n \in 1 .. 4}
    \cup {Repeat(4, 5) \o Repeat(3, 1) \o Repeat(7, 2) \o Repeat(1, 3) \o Repeat(0, 1),
          <<5, 1, 0, 5, 3, 1, 5, 4, 2, 5, 1, 5, 2, 5, 1>>,
          <<0, 4, 0, 1, 0, 5, 1, 0, 2, 0, 1, 3, 0, 2, 1, 0, 3, 2, 0, 1>>}
=============================================================================
