--------------------------- MODULE MCStreamLayout ---------------------------
(* Blocks of one and four lanes; every combination of empty and non-empty   *)
(* lanes, absent and present regressions, and arrays of one symbol, whose   *)
(* codes take no bytes, and of several; of the older codec, indicators of   *)
(* one byte, of two, and on either side of a full one.                      *)
EXTENDS StreamLayout, FiniteSets

Codes(varied) ==
  [symbols |-> [a \in Arrays |-> IF a \in varied THEN 3 ELSE 1],
   bits |-> [a \in Arrays |-> IF a \in varied THEN 9 ELSE 0]]
Message(format, sizeof_T, bs, unpred, count, free, codes, indicator) ==
  [format |-> format, sizeof_T |-> sizeof_T, block_size |-> bs, unpred |-> unpred,
   count |-> count, free |-> free, symbols |-> codes.symbols, bits |-> codes.bits,
   indicator |-> indicator]

KnlMessages ==
  {Message("knl", 8, l[1], l[2], count, free, Codes(varied), <<>>) :
      l \in {<<1, <<0>>>>, <<1, <<2>>>>} \cup ({2} \X {<<0, 0, 0, 0>>, <<1, 0, 0, 2>>, <<0, 2, 1, 0>>}),
      count \in [Regressions -> {0, 2}], free \in [Regressions -> {0, 3}],
      varied \in {{}, {"type", "reg"}, {"indicator", "reg_poly"}, Arrays}}

Indicators == {[b \in 1..n |-> IF b % d = 0 THEN 1 ELSE 0] : n \in {1, 7, 8, 9, 16, 17}, d \in {1, 3, 8, 99}}
LegacyMessages ==
  {Message("legacy", 4, 4, <<unpred>>,
           [r \in Regressions |-> IF r = "reg" THEN Cardinality({b \in DOMAIN ind : ind[b] = 1}) ELSE 0],
           [r \in Regressions |-> 3], Codes(varied), ind) :
      unpred \in {0, 2}, varied \in {{}, {"type"}, {"type", "reg"}}, ind \in Indicators}
MCMessages == KnlMessages \cup LegacyMessages
MCEstimate == <<6, 5>>

\* White noise: 1000 elements with 1000 different codes of ten bits.
NoiseMessages ==
  {Message("knl", 4, 6, [l \in 1..36 |-> 0], [r \in Regressions |-> 0], [r \in Regressions |-> 0],
     [symbols |-> [a \in Arrays |-> IF a = "type" THEN 1000 ELSE 1],
      bits |-> [a \in Arrays |-> IF a = "type" THEN 10000 ELSE 0]], <<>>)}
=============================================================================
