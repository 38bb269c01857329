-------------------------- MODULE StreamLayoutProofs --------------------------
(***************************************************************************)
(* What holds of every message: any number of lanes, values, coefficients  *)
(* and blocks, any block size, and whichever arrays are empty.             *)
(***************************************************************************)
EXTENDS StreamLayout, TLAPS

----------------------------------------------------------------------------
(* The indicators of the older codec.                                      *)

\* The number of bytes is the same for writer and reader, and every bit has
\* its byte.
LEMMA BytesAgree ==
  ASSUME NEW n \in Nat
  PROVE  /\ ByteLength(n) = ByteArrayLength(n) /\ ByteLength(n) \in Nat
         /\ (IF n > 8 * (ByteArrayLength(n) - 1) THEN n ELSE 8 * (ByteArrayLength(n) - 1)) \in Int
         /\ n > 0 => n > 8 * (ByteArrayLength(n) - 1)
         /\ n = 0 => 8 * (ByteArrayLength(n) - 1) < 0
  BY DEF ByteLength, ByteArrayLength

\* What is packed is unpacked again.
LEMMA UnpackedPacked ==
  ASSUME NEW bits \in Seq({0, 1})
  PROVE  Unpacked(Len(bits), Packed(bits)) = bits
  <1> DEFINE n == Len(bits)
             bytes == Packed(bits)
  <1>1. n \in Nat /\ bits = [k \in 1 .. n |-> bits[k]] /\ \A k \in 1 .. n : bits[k] \in {0, 1}
    OBVIOUS
  <1>2. ASSUME NEW k \in 1 .. n
        PROVE  (bytes[(k - 1) \div 8 + 1] \div Mask[((k - 1) % 8) + 1]) % 2 = bits[k]
    <2> DEFINE b == (k - 1) \div 8 + 1
               j == (k - 1) % 8
    <2>1. b \in 1 .. ByteLength(n) /\ j \in 0 .. 7 /\ 8 * (b - 1) + j + 1 = k
      <3> HIDE DEF n, bytes
      <3>1. n \in Nat /\ k \in 1 .. n
        BY <1>1
      <3>2. b \in Nat \ {0} /\ j \in 0 .. 7 /\ 8 * (b - 1) + j + 1 = k
        BY <3>1
      <3> HIDE DEF b, j
      <3>3. ByteLength(n) \in Nat /\ n <= 8 * ByteLength(n)
        BY <3>1 DEF ByteLength
      <3> QED BY <3>1, <3>2, <3>3
    <2> HIDE DEF b, j
    <2>2. \A i \in 0 .. 7 : BitAt(bits, b, i) \in {0, 1}
      BY DEF BitAt
    <2>3. BitAt(bits, b, j) = bits[k]
      BY <1>1, <2>1 DEF BitAt
    <2>4. bytes[b] = 128 * BitAt(bits, b, 0) + 64 * BitAt(bits, b, 1) + 32 * BitAt(bits, b, 2)
                       + 16 * BitAt(bits, b, 3) + 8 * BitAt(bits, b, 4) + 4 * BitAt(bits, b, 5)
                       + 2 * BitAt(bits, b, 6) + BitAt(bits, b, 7)
      BY <2>1 DEF Packed
    <2>5. (bytes[b] \div Mask[j + 1]) % 2 = BitAt(bits, b, j)
      <3>1. PICK c0 \in {0, 1}, c1 \in {0, 1}, c2 \in {0, 1}, c3 \in {0, 1},
                 c4 \in {0, 1}, c5 \in {0, 1}, c6 \in {0, 1}, c7 \in {0, 1} :
              /\ c0 = BitAt(bits, b, 0) /\ c1 = BitAt(bits, b, 1) /\ c2 = BitAt(bits, b, 2)
              /\ c3 = BitAt(bits, b, 3) /\ c4 = BitAt(bits, b, 4) /\ c5 = BitAt(bits, b, 5)
              /\ c6 = BitAt(bits, b, 6) /\ c7 = BitAt(bits, b, 7)
        BY <2>2
      <3> DEFINE byte == 128 * c0 + 64 * c1 + 32 * c2 + 16 * c3 + 8 * c4 + 4 * c5 + 2 * c6 + c7
      <3>2. bytes[b] = byte
        BY <2>4, <3>1
      <3>3. /\ (byte \div 128) % 2 = c0 /\ (byte \div 64) % 2 = c1
            /\ (byte \div 32) % 2 = c2 /\ (byte \div 16) % 2 = c3
            /\ (byte \div 8) % 2 = c4 /\ (byte \div 4) % 2 = c5
            /\ (byte \div 2) % 2 = c6 /\ (byte \div 1) % 2 = c7
        OBVIOUS
      <3>4. j \in {0, 1, 2, 3, 4, 5, 6, 7}
        BY <2>1
      <3> HIDE DEF byte, bytes
      <3>5. /\ j = 0 => (byte \div Mask[j + 1]) % 2 = c0
            /\ j = 1 => (byte \div Mask[j + 1]) % 2 = c1
            /\ j = 2 => (byte \div Mask[j + 1]) % 2 = c2
            /\ j = 3 => (byte \div Mask[j + 1]) % 2 = c3
            /\ j = 4 => (byte \div Mask[j + 1]) % 2 = c4
            /\ j = 5 => (byte \div Mask[j + 1]) % 2 = c5
            /\ j = 6 => (byte \div Mask[j + 1]) % 2 = c6
            /\ j = 7 => (byte \div Mask[j + 1]) % 2 = c7
        <4>1. /\ Mask[0 + 1] = 128 /\ Mask[1 + 1] = 64 /\ Mask[2 + 1] = 32 /\ Mask[3 + 1] = 16
              /\ Mask[4 + 1] = 8 /\ Mask[5 + 1] = 4 /\ Mask[6 + 1] = 2 /\ Mask[7 + 1] = 1
          BY DEF Mask
        <4> QED BY <3>3, <4>1
      <3> QED BY <3>1, <3>2, <3>4, <3>5
    <2> QED BY <2>3, <2>5 DEF b, j
  <1>3. 1 .. (IF n > 8 * (ByteArrayLength(n) - 1) THEN n ELSE 8 * (ByteArrayLength(n) - 1))
          = 1 .. n
    BY <1>1, BytesAgree
  <1> HIDE DEF n, bytes
  <1>4. Unpacked(n, bytes) = [k \in 1 .. n |-> bits[k]]
    BY <1>2, <1>3 DEF Unpacked
  <1> QED BY <1>1, <1>4 DEF n, bytes

----------------------------------------------------------------------------
(* The frame around the stream.                                            *)

\* The frame's header takes six bytes for short streams and never more than 14.
LEMMA FrameHeaderSize ==
  ASSUME NEW n \in Nat
  PROVE  /\ FrameHeader(n) \in 6 .. 14
         /\ n < 256 => FrameHeader(n) = 6
  <1> DEFINE limit == 2 ^ 32 - 1
             single == WindowBytes >= n
             content == IF n < 256 THEN (IF single THEN 1 ELSE 0)
                        ELSE IF n < 65792 THEN 2 ELSE IF n < limit THEN 4 ELSE 8
  <1>1. FrameHeader(n) = 4 + 1 + (IF single THEN 0 ELSE 1) + content
    BY DEF FrameHeader
  <1> HIDE DEF limit, single
  <1>2. content \in {0, 1, 2, 4, 8} /\ (n < 256 => content = IF single THEN 1 ELSE 0)
        /\ (n >= 256 => content \in {2, 4, 8})
    OBVIOUS
  <1> HIDE DEF content
  <1>3. CASE single
    BY <1>1, <1>2, <1>3
  <1>4. CASE ~single
    BY <1>1, <1>2, <1>4
  <1> QED BY <1>3, <1>4

\* There are no more blocks than with the smallest blocks allowed.
LEMMA BlocksBound ==
  ASSUME NEW n \in Nat
  PROVE  /\ Blocks(n) \in Nat /\ Blocks(n) <= (n + 63) \div 64 + 1
         /\ n > 0 => Blocks(n) <= (n + 63) \div 64
  <1>1. BlockBytes \in Nat /\ BlockBytes >= 64
    BY FrameAssumption
  <1>2. CASE n = 0
    BY <1>2 DEF Blocks
  <1>3. CASE n > 0
    <2> DEFINE q == (n + BlockBytes - 1) \div BlockBytes
    <2>1. Blocks(n) = q
      BY <1>3 DEF Blocks
    <2>2. q \in Nat /\ q * BlockBytes <= n + BlockBytes - 1
      BY <1>1, <1>3
    <2> HIDE DEF q
    <2>3. q >= 1 => (q - 1) * 64 <= n - 1
      <3> SUFFICES ASSUME q >= 1 PROVE (q - 1) * 64 <= n - 1
        OBVIOUS
      <3>1. (q - 1) * BlockBytes = q * BlockBytes - BlockBytes
        BY <2>2, <1>1
      <3>2. (q - 1) * 64 <= (q - 1) * BlockBytes
        BY <2>2, <1>1
      <3>3. (q - 1) * BlockBytes \in Int /\ q * BlockBytes \in Int
        BY <2>2, <1>1
      <3> QED BY <3>1, <3>2, <3>3, <2>2, <1>1
    <2> QED BY <2>1, <2>2, <2>3, <1>3
  <1> QED BY <1>2, <1>3

\* Neither does zstd give up, nor is what it makes of n bytes, with the header,
\* more than is allocated.
LEMMA AllocationSuffices ==
  ASSUME NEW n \in Nat, NEW version \in {"plain", "v2"},
         NEW size \in ZSTD_compress(Allocation(n), n)
  PROVE  size # ZstdError /\ HeaderBytes(version) + size <= Allocation(n)
  <1> DEFINE header == FrameHeader(n)
             blocks == Blocks(n)
  <1>1. /\ header \in 6 .. 14 /\ (n < 256 => header = 6)
        /\ blocks \in Nat /\ blocks <= (n + 63) \div 64 + 1
        /\ n > 0 => blocks <= (n + 63) \div 64
    BY FrameHeaderSize, BlocksBound
  <1>2. Overhead(n) = header + 3 * blocks
    BY DEF Overhead
  <1> HIDE DEF header, blocks
  <1>3. /\ Overhead(n) \in Nat /\ Allocation(n) \in Nat /\ Allocation(n) >= 18
        /\ Overhead(n) + n + 8 <= Allocation(n)
    <2>1. CASE n < 100
      BY <1>1, <1>2, <2>1 DEF Allocation
    <2>2. CASE n >= 100 /\ n < 256
      BY <1>1, <1>2, <2>2 DEF Allocation
    <2>3. CASE n >= 256
      BY <1>1, <1>2, <2>3 DEF Allocation
    <2> QED BY <2>1, <2>2, <2>3
  <1>4. size \in FrameSizes(n)
    BY <1>3 DEF ZSTD_compress
  <1>5. size \in Nat /\ size <= Overhead(n) + n
    <2>1. PICK kept \in 0 .. Blocks(n) :
            size = Overhead(n) + (LET body == kept * BlockBytes + 3 * (Blocks(n) - kept)
                                  IN  IF body < n THEN body ELSE n)
      BY <1>4 DEF FrameSizes
    <2>2. PICK body \in Nat : size = Overhead(n) + (IF body < n THEN body ELSE n)
      <3>1. kept \in Nat /\ BlockBytes \in Nat /\ Blocks(n) - kept \in Nat
        BY FrameAssumption, BlocksBound
      <3>2. kept * BlockBytes \in Nat /\ 3 * (Blocks(n) - kept) \in Nat
        BY <3>1
      <3>3. kept * BlockBytes + 3 * (Blocks(n) - kept) \in Nat
        BY <3>2
      <3> QED BY <2>1, <3>3
    <2> QED BY <2>2, <1>3
  <1>6. HeaderBytes(version) \in 0 .. 8
    BY DEF HeaderBytes
  <1> QED BY <1>3, <1>5, <1>6 DEF ZstdError

----------------------------------------------------------------------------
(* The order of the fields.                                                *)

Lanes == IF m.format = "knl" THEN m.block_size * m.block_size ELSE 1

\* All fields a message may have.
Fields ==
  ({"params", "precision", "intv_radius", "mean_info"} \X {""})
    \cup ((IF m.format = "knl" THEN {"unpred_count_buffer"}
           ELSE {"unpredictable_count", "unpredictable_data", "indicator_bits"}) \X {""})
    \cup (IF m.format = "knl" THEN {"lane"} \X (1 .. Lanes) ELSE {})
    \cup ({"count", "reg_unpredictable_count", "reg_unpredictable_data"} \X Regressions)
    \cup ({"node_count", "tree_size", "tree", "type_array_size", "codes"} \X Arrays)

\* A field of variable length comes right behind the one that holds its
\* length.
Preceded(s) ==
  /\ s \in Seq(Fields)
  /\ \A i \in 1 .. Len(s) :
       /\ s[i][1] = "tree" => i > 1 /\ s[i - 1] = <<"tree_size", s[i][2]>>
       /\ s[i][1] = "codes" => i > 1 /\ s[i - 1] = <<"type_array_size", s[i][2]>>
       /\ s[i][1] = "reg_unpredictable_data" =>
            i > 1 /\ s[i - 1] = <<"reg_unpredictable_count", s[i][2]>>

\* Fields preceded by what they need stay so in a concatenation.
LEMMA PrecededConcat ==
  ASSUME NEW s, NEW t, Preceded(s), Preceded(t)
  PROVE  Preceded(s \o t)
  <1>1. s \in Seq(Fields) /\ t \in Seq(Fields) /\ s \o t \in Seq(Fields)
        /\ Len(s \o t) = Len(s) + Len(t) /\ Len(s) \in Nat /\ Len(t) \in Nat
    BY DEF Preceded
  <1>2. ASSUME NEW i \in 1 .. Len(s \o t)
        PROVE  /\ (s \o t)[i][1] = "tree" => i > 1 /\ (s \o t)[i - 1] = <<"tree_size", (s \o t)[i][2]>>
               /\ (s \o t)[i][1] = "codes" =>
                    i > 1 /\ (s \o t)[i - 1] = <<"type_array_size", (s \o t)[i][2]>>
               /\ (s \o t)[i][1] = "reg_unpredictable_data" =>
                    i > 1 /\ (s \o t)[i - 1] = <<"reg_unpredictable_count", (s \o t)[i][2]>>
    <2>1. CASE i <= Len(s)
      <3>1. (s \o t)[i] = s[i] /\ (i > 1 => (s \o t)[i - 1] = s[i - 1])
        BY <1>1, <2>1
      <3> QED BY <1>1, <2>1, <3>1 DEF Preceded
    <2>2. CASE i > Len(s)
      <3> DEFINE k == i - Len(s)
      <3>1. k \in 1 .. Len(t) /\ (s \o t)[i] = t[k] /\ (k > 1 => i > 1 /\ (s \o t)[i - 1] = t[k - 1])
        BY <1>1, <2>2
      <3> HIDE DEF k
      <3> QED BY <3>1 DEF Preceded
    <2> QED BY <1>1, <2>1, <2>2
  <1> QED BY <1>1, <1>2 DEF Preceded

\* The five fields of a Huffman coded array.
LEMMA HuffmanPreceded ==
  ASSUME NEW a \in Arrays
  PROVE  Preceded(Huffman(a)) /\ Len(Huffman(a)) = 5
  <1>1. /\ Len(Huffman(a)) = 5
        /\ Huffman(a)[1] = <<"node_count", a>> /\ Huffman(a)[2] = <<"tree_size", a>>
        /\ Huffman(a)[3] = <<"tree", a>> /\ Huffman(a)[4] = <<"type_array_size", a>>
        /\ Huffman(a)[5] = <<"codes", a>>
    BY DEF Huffman
  <1>2. /\ <<"node_count", a>> \in Fields /\ <<"tree_size", a>> \in Fields
        /\ <<"tree", a>> \in Fields /\ <<"type_array_size", a>> \in Fields
        /\ <<"codes", a>> \in Fields
    BY DEF Fields
  <1>3. Huffman(a) \in Seq(Fields)
    BY <1>2 DEF Huffman
  <1> QED BY <1>1, <1>3 DEF Preceded

\* The fields of the coefficients of one regression.
LEMMA CoefficientsPreceded ==
  ASSUME NEW r \in Regressions, NEW number
  PROVE  Preceded(Selected(r, number))
  <1>1. Preceded(<<>>)
    BY DEF Preceded
  <1>2. Preceded(<<<<"reg_unpredictable_count", r>>, <<"reg_unpredictable_data", r>>>>)
    <2> DEFINE s == <<<<"reg_unpredictable_count", r>>, <<"reg_unpredictable_data", r>>>>
    <2>1. <<"reg_unpredictable_count", r>> \in Fields /\ <<"reg_unpredictable_data", r>> \in Fields
      BY DEF Fields
    <2>2. s \in Seq(Fields) /\ Len(s) = 2 /\ s[1] = <<"reg_unpredictable_count", r>>
          /\ s[2] = <<"reg_unpredictable_data", r>>
      BY <2>1
    <2> HIDE DEF s
    <2>3. Preceded(s)
      BY <2>2 DEF Preceded
    <2> QED BY <2>3 DEF s
  <1>3. Preceded(Coefficients(r))
    BY <1>2, HuffmanPreceded, PrecededConcat DEF Coefficients, Arrays
  <1> QED BY <1>1, <1>3 DEF Selected

LEMMA Pair == \A a, b : <<a, b>>[1] = a /\ <<a, b>>[2] = b
  OBVIOUS

\* Short tuples are sequences.
LEMMA ShortSequences ==
  ASSUME NEW S
  PROVE  /\ \A a, b \in S : <<a, b>> \in Seq(S)
         /\ \A a, b, c, d, e, f \in S : <<a, b, c, d, e, f>> \in Seq(S)
         /\ \A a, b, c, d, e, f, g \in S : <<a, b, c, d, e, f, g>> \in Seq(S)
  OBVIOUS

\* Fields none of which needs another before it.
LEMMA PlainPreceded ==
  ASSUME NEW s \in Seq(Fields),
         \A i \in 1 .. Len(s) : s[i][1] \notin {"tree", "codes", "reg_unpredictable_data"}
  PROVE  Preceded(s)
  BY DEF Preceded

\* What is known of a message.
LEMMA MessageFacts ==
  ASSUME m \in Messages
  PROVE  /\ m.format \in {"knl", "legacy"} /\ m.sizeof_T \in {4, 8}
         /\ m.format = "legacy" => m.sizeof_T = 4
         /\ m.block_size \in Nat \ {0} /\ m.unpred \in [1 .. Lanes -> Nat]
         /\ m.count \in [Regressions -> Nat] /\ m.free \in [Regressions -> Nat]
         /\ m.symbols \in [Arrays -> Nat \ {0}] /\ m.bits \in [Arrays -> Nat]
         /\ m.indicator \in Seq({0, 1})
         /\ ParamsBytes \in Nat \ {0}
  BY LayoutAssumption DEF Lanes

HeaderSize == IF m.format = "knl" THEN 7 ELSE 6

\* The fields of the header, by their place.
LEMMA HeaderFields ==
  ASSUME m \in Messages
  PROVE  /\ Len(Header(m.format)) = HeaderSize /\ Preceded(Header(m.format))
         /\ Header(m.format)[1] = <<"params", "">> /\ Header(m.format)[2] = <<"precision", "">>
         /\ Header(m.format)[3] = <<"intv_radius", "">> /\ Header(m.format)[4] = <<"mean_info", "">>
         /\ Header(m.format)[5] = <<"count", "reg">>
         /\ m.format = "knl" => /\ Header(m.format)[6] = <<"count", "reg_poly">>
                                /\ Header(m.format)[7] = <<"unpred_count_buffer", "">>
         /\ m.format = "legacy" => Header(m.format)[6] = <<"unpredictable_count", "">>
  <1>1. m.format \in {"knl", "legacy"}
    BY MessageFacts
  <1> DEFINE h == Header(m.format)
  <1>2. CASE m.format = "knl"
    <2>1. /\ Len(h) = 7 /\ h[1] = <<"params", "">> /\ h[2] = <<"precision", "">>
          /\ h[3] = <<"intv_radius", "">> /\ h[4] = <<"mean_info", "">>
          /\ h[5] = <<"count", "reg">> /\ h[6] = <<"count", "reg_poly">>
          /\ h[7] = <<"unpred_count_buffer", "">>
      BY <1>2 DEF Header
    <2>2. /\ <<"params", "">> \in Fields /\ <<"precision", "">> \in Fields
          /\ <<"intv_radius", "">> \in Fields /\ <<"mean_info", "">> \in Fields
          /\ <<"count", "reg">> \in Fields /\ <<"count", "reg_poly">> \in Fields
          /\ <<"unpred_count_buffer", "">> \in Fields
      BY <1>2 DEF Fields, Regressions
    <2>3. h \in Seq(Fields)
      <3>1. h = <<<<"params", "">>, <<"precision", "">>, <<"intv_radius", "">>, <<"mean_info", "">>,
                <<"count", "reg">>, <<"count", "reg_poly">>, <<"unpred_count_buffer", "">>>>
        BY <1>2, Zenon DEF Header
      <3> HIDE DEF h
      <3> QED BY <2>2, <3>1, ShortSequences, Zenon
    <2> HIDE DEF h
    <2>4. Preceded(h)
      <3>1. /\ h[1][1] = "params" /\ h[2][1] = "precision" /\ h[3][1] = "intv_radius"
            /\ h[4][1] = "mean_info" /\ h[5][1] = "count" /\ h[6][1] = "count"
            /\ h[7][1] = "unpred_count_buffer"
        <4>1. h[1][1] = "params"
          <5>1. h[1] = <<"params", "">>
            BY <2>1
          <5> QED BY <5>1, Pair, Zenon
        <4>2. h[2][1] = "precision"
          <5>1. h[2] = <<"precision", "">>
            BY <2>1
          <5> QED BY <5>1, Pair, Zenon
        <4>3. h[3][1] = "intv_radius"
          <5>1. h[3] = <<"intv_radius", "">>
            BY <2>1
          <5> QED BY <5>1, Pair, Zenon
        <4>4. h[4][1] = "mean_info"
          <5>1. h[4] = <<"mean_info", "">>
            BY <2>1
          <5> QED BY <5>1, Pair, Zenon
        <4>5. h[5][1] = "count"
          <5>1. h[5] = <<"count", "reg">>
            BY <2>1
          <5> QED BY <5>1, Pair, Zenon
        <4>6. h[6][1] = "count"
          <5>1. h[6] = <<"count", "reg_poly">>
            BY <2>1
          <5> QED BY <5>1, Pair, Zenon
        <4>7. h[7][1] = "unpred_count_buffer"
          <5>1. h[7] = <<"unpred_count_buffer", "">>
            BY <2>1
          <5> QED BY <5>1, Pair, Zenon
        <4> QED BY <4>1, <4>2, <4>3, <4>4, <4>5, <4>6, <4>7
      <3>2. ASSUME NEW i \in 1 .. 7
            PROVE  h[i][1] \notin {"tree", "codes", "reg_unpredictable_data"}
        <4>1. i \in {1, 2, 3, 4, 5, 6, 7}
          OBVIOUS
        <4> QED BY <3>1, <4>1
      <3> QED BY <2>1, <2>3, <3>2, PlainPreceded
    <2> QED BY <1>2, <2>1, <2>4 DEF h, HeaderSize
  <1>3. CASE m.format = "legacy"
    <2>1. /\ Len(h) = 6 /\ h[1] = <<"params", "">> /\ h[2] = <<"precision", "">>
          /\ h[3] = <<"intv_radius", "">> /\ h[4] = <<"mean_info", "">>
          /\ h[5] = <<"count", "reg">> /\ h[6] = <<"unpredictable_count", "">>
      BY <1>3 DEF Header
    <2>2. /\ <<"params", "">> \in Fields /\ <<"precision", "">> \in Fields
          /\ <<"intv_radius", "">> \in Fields /\ <<"mean_info", "">> \in Fields
          /\ <<"count", "reg">> \in Fields /\ <<"unpredictable_count", "">> \in Fields
      BY <1>3 DEF Fields, Regressions
    <2>3. h \in Seq(Fields)
      <3>1. h = <<<<"params", "">>, <<"precision", "">>, <<"intv_radius", "">>, <<"mean_info", "">>,
                <<"count", "reg">>, <<"unpredictable_count", "">>>>
        BY <1>3, Zenon DEF Header
      <3> HIDE DEF h
      <3> QED BY <2>2, <3>1, ShortSequences, Zenon
    <2> HIDE DEF h
    <2>4. Preceded(h)
      <3>1. /\ h[1][1] = "params" /\ h[2][1] = "precision" /\ h[3][1] = "intv_radius"
            /\ h[4][1] = "mean_info" /\ h[5][1] = "count" /\ h[6][1] = "unpredictable_count"
        <4>1. h[1][1] = "params"
          <5>1. h[1] = <<"params", "">>
            BY <2>1
          <5> QED BY <5>1, Pair, Zenon
        <4>2. h[2][1] = "precision"
          <5>1. h[2] = <<"precision", "">>
            BY <2>1
          <5> QED BY <5>1, Pair, Zenon
        <4>3. h[3][1] = "intv_radius"
          <5>1. h[3] = <<"intv_radius", "">>
            BY <2>1
          <5> QED BY <5>1, Pair, Zenon
        <4>4. h[4][1] = "mean_info"
          <5>1. h[4] = <<"mean_info", "">>
            BY <2>1
          <5> QED BY <5>1, Pair, Zenon
        <4>5. h[5][1] = "count"
          <5>1. h[5] = <<"count", "reg">>
            BY <2>1
          <5> QED BY <5>1, Pair, Zenon
        <4>6. h[6][1] = "unpredictable_count"
          <5>1. h[6] = <<"unpredictable_count", "">>
            BY <2>1
          <5> QED BY <5>1, Pair, Zenon
        <4> QED BY <4>1, <4>2, <4>3, <4>4, <4>5, <4>6
      <3>2. ASSUME NEW i \in 1 .. 6
            PROVE  h[i][1] \notin {"tree", "codes", "reg_unpredictable_data"}
        <4>1. i \in {1, 2, 3, 4, 5, 6}
          OBVIOUS
        <4> QED BY <3>1, <4>1
      <3> QED BY <2>1, <2>3, <3>2, PlainPreceded
    <2> QED BY <1>3, <2>1, <2>4 DEF h, HeaderSize
  <1> QED BY <1>1, <1>2, <1>3

\* The lanes need only what comes before all of them.
LEMMA LanesPreceded ==
  ASSUME m \in Messages, m.format = "knl"
  PROVE  Preceded(LaneFields(m.block_size))
  <1>1. m.block_size * m.block_size \in Nat
    BY MessageFacts
  <1> DEFINE s == LaneFields(m.block_size)
             n == m.block_size * m.block_size
  <1>2. s = [i \in 1 .. n |-> <<"lane", i>>]
    BY DEF LaneFields
  <1>3. n \in Nat /\ \A i \in 1 .. n : <<"lane", i>> \in Fields
    BY <1>1 DEF Fields, Lanes
  <1> HIDE DEF s, n
  <1>4. s \in Seq(Fields) /\ Len(s) = n /\ \A i \in 1 .. n : s[i][1] = "lane"
    BY <1>2, <1>3
  <1>5. Preceded(s)
    BY <1>4 DEF Preceded
  <1> QED BY <1>5 DEF s

\* The fields of the older codec alone.
LEMMA LegacyFieldsPreceded ==
  ASSUME m.format = "legacy"
  PROVE  Preceded(LegacyFields)
  <1>1. <<"unpredictable_data", "">> \in Fields /\ <<"indicator_bits", "">> \in Fields
    BY DEF Fields
  <1>2. LegacyFields \in Seq(Fields)
    BY <1>1, ShortSequences, Zenon DEF LegacyFields
  <1>3. /\ Len(LegacyFields) = 2 /\ LegacyFields[1] = <<"unpredictable_data", "">>
        /\ LegacyFields[2] = <<"indicator_bits", "">>
    BY DEF LegacyFields
  <1>4. \A i \in 1 .. 2 : LegacyFields[i][1] \notin {"tree", "codes", "reg_unpredictable_data"}
    <2>1. LegacyFields[1][1] = "unpredictable_data" /\ LegacyFields[2][1] = "indicator_bits"
      BY <1>3, Pair, Zenon
    <2>2. \A i \in 1 .. 2 : i = 1 \/ i = 2
      OBVIOUS
    <2> QED BY <2>1, <2>2
  <1> QED BY <1>2, <1>3, <1>4, PlainPreceded

\* The whole order, and that it begins with the header.
LEMMA OrderFacts ==
  ASSUME m \in Messages
  PROVE  /\ Preceded(WriteOrder) /\ Len(WriteOrder) \in Nat
         /\ HeaderSize < Len(WriteOrder)
         /\ \A i \in 1 .. HeaderSize : WriteOrder[i] = Header(m.format)[i]
  <1>1. "reg" \in Regressions /\ "reg_poly" \in Regressions
        /\ "indicator" \in Arrays /\ "type" \in Arrays
    BY DEF Regressions, Arrays
  <1>2. ASSUME NEW s, NEW t, Preceded(s), Preceded(t)
        PROVE  /\ Preceded(s \o t) /\ Len(s \o t) = Len(s) + Len(t)
               /\ Len(s) \in Nat /\ Len(t) \in Nat
               /\ \A i \in 1 .. Len(s) : (s \o t)[i] = s[i]
    <2>1. Preceded(s \o t)
      BY <1>2, PrecededConcat
    <2>2. s \in Seq(Fields) /\ t \in Seq(Fields)
      BY <1>2 DEF Preceded
    <2> QED BY <2>1, <2>2
  <1> DEFINE h == Header(m.format)
             type == Huffman("type")
  <1>3. Preceded(h) /\ Len(h) = HeaderSize /\ Preceded(type) /\ Len(type) = 5
    BY <1>1, HeaderFields, HuffmanPreceded
  <1>4. HeaderSize \in {6, 7}
    BY DEF HeaderSize
  <1>5. CASE m.format = "knl"
    <2> DEFINE l == LaneFields(m.block_size)
               d == Huffman("indicator")
               a == Selected("reg", m.count["reg"])
               b == Selected("reg_poly", m.count["reg_poly"])
    <2>1. Preceded(l) /\ Preceded(d) /\ Preceded(a) /\ Preceded(b)
      BY <1>1, <1>5, LanesPreceded, HuffmanPreceded, CoefficientsPreceded
    <2>2. WriteOrder = ((((h \o l) \o d) \o a) \o b) \o type
      BY <1>5 DEF WriteOrder, KnlWriteOrder
    <2> HIDE DEF h, l, d, a, b, type
    <2>3. /\ Preceded(h \o l) /\ Preceded((h \o l) \o d) /\ Preceded(((h \o l) \o d) \o a)
          /\ Preceded((((h \o l) \o d) \o a) \o b)
      BY <1>2, <1>3, <2>1
    <2>4. /\ Len(h \o l) = Len(h) + Len(l) /\ Len((h \o l) \o d) = Len(h \o l) + Len(d)
          /\ Len(((h \o l) \o d) \o a) = Len((h \o l) \o d) + Len(a)
          /\ Len((((h \o l) \o d) \o a) \o b) = Len(((h \o l) \o d) \o a) + Len(b)
          /\ Len(WriteOrder) = Len((((h \o l) \o d) \o a) \o b) + Len(type)
          /\ Len(l) \in Nat /\ Len(d) \in Nat /\ Len(a) \in Nat /\ Len(b) \in Nat
      BY <1>2, <1>3, <2>1, <2>2, <2>3
    <2>5. \A i \in 1 .. HeaderSize : WriteOrder[i] = h[i]
      <3> SUFFICES ASSUME NEW i \in 1 .. HeaderSize PROVE WriteOrder[i] = h[i]
        OBVIOUS
      <3>1. (h \o l)[i] = h[i] /\ i \in 1 .. Len(h \o l)
        BY <1>2, <1>3, <1>4, <2>1, <2>4
      <3>2. ((h \o l) \o d)[i] = h[i] /\ i \in 1 .. Len((h \o l) \o d)
        BY <1>2, <2>1, <2>3, <2>4, <3>1
      <3>3. (((h \o l) \o d) \o a)[i] = h[i] /\ i \in 1 .. Len(((h \o l) \o d) \o a)
        BY <1>2, <2>1, <2>3, <2>4, <3>2
      <3>4. ((((h \o l) \o d) \o a) \o b)[i] = h[i] /\ i \in 1 .. Len((((h \o l) \o d) \o a) \o b)
        BY <1>2, <2>1, <2>3, <2>4, <3>3
      <3> QED BY <1>2, <1>3, <2>2, <2>3, <3>4
    <2>6. Preceded(WriteOrder) /\ Len(WriteOrder) \in Nat /\ HeaderSize < Len(WriteOrder)
      BY <1>2, <1>3, <1>4, <2>2, <2>3, <2>4
    <2> QED BY <2>5, <2>6 DEF h
  <1>6. CASE m.format = "legacy"
    <2> DEFINE l == LegacyFields
               a == Selected("reg", m.count["reg"])
    <2>1. Preceded(l) /\ Preceded(a)
      BY <1>1, <1>6, LegacyFieldsPreceded, CoefficientsPreceded
    <2>2. WriteOrder = ((h \o l) \o a) \o type
      BY <1>6 DEF WriteOrder, LegacyWriteOrder
    <2> HIDE DEF h, l, a, type
    <2>3. Preceded(h \o l) /\ Preceded((h \o l) \o a)
      BY <1>2, <1>3, <2>1
    <2>4. /\ Len(h \o l) = Len(h) + Len(l) /\ Len((h \o l) \o a) = Len(h \o l) + Len(a)
          /\ Len(WriteOrder) = Len((h \o l) \o a) + Len(type)
          /\ Len(l) \in Nat /\ Len(a) \in Nat
      BY <1>2, <1>3, <2>1, <2>2, <2>3
    <2>5. \A i \in 1 .. HeaderSize : WriteOrder[i] = h[i]
      <3> SUFFICES ASSUME NEW i \in 1 .. HeaderSize PROVE WriteOrder[i] = h[i]
        OBVIOUS
      <3>1. (h \o l)[i] = h[i] /\ i \in 1 .. Len(h \o l)
        BY <1>2, <1>3, <1>4, <2>1, <2>4
      <3>2. ((h \o l) \o a)[i] = h[i] /\ i \in 1 .. Len((h \o l) \o a)
        BY <1>2, <2>1, <2>3, <2>4, <3>1
      <3> QED BY <1>2, <1>3, <2>2, <2>3, <3>2
    <2>6. Preceded(WriteOrder) /\ Len(WriteOrder) \in Nat /\ HeaderSize < Len(WriteOrder)
      BY <1>2, <1>3, <1>4, <2>2, <2>3, <2>4
    <2> QED BY <2>5, <2>6 DEF h
  <1> QED BY <1>5, <1>6, MessageFacts

----------------------------------------------------------------------------
(* The lengths of the fields.                                              *)

\* Which fields belong to which codec, and what numbers them.
LEMMA FieldKinds ==
  ASSUME NEW f \in Fields
  PROVE  /\ f[1] = "lane" => m.format = "knl" /\ f[2] \in 1 .. Lanes
         /\ f[1] = "unpred_count_buffer" => m.format = "knl"
         /\ f[1] = "unpredictable_data" => m.format # "knl"
         /\ f[1] = "reg_unpredictable_data" => f[2] \in Regressions
         /\ f[1] \in {"tree", "codes"} => f[2] \in Arrays
  <1>1. CASE f \in {"params", "precision", "intv_radius", "mean_info"} \X {""}
    BY <1>1
  <1>2. CASE f \in (IF m.format = "knl" THEN {"unpred_count_buffer"}
                    ELSE {"unpredictable_count", "unpredictable_data", "indicator_bits"}) \X {""}
    <2>1. CASE m.format = "knl"
      BY <1>2, <2>1
    <2>2. CASE m.format # "knl"
      BY <1>2, <2>2
    <2> QED BY <2>1, <2>2
  <1>3. CASE f \in (IF m.format = "knl" THEN {"lane"} \X (1 .. Lanes) ELSE {})
    BY <1>3
  <1>4. CASE f \in {"count", "reg_unpredictable_count", "reg_unpredictable_data"} \X Regressions
    BY <1>4
  <1>5. CASE f \in {"node_count", "tree_size", "tree", "type_array_size", "codes"} \X Arrays
    BY <1>5
  <1> QED BY <1>1, <1>2, <1>3, <1>4, <1>5 DEF Fields

\* The definition of the lengths, field by field.
LEMMA WrittenLengths ==
  ASSUME NEW f
  PROVE  /\ f[1] = "unpred_count_buffer" => WrittenLength(f) = int * m.block_size * m.block_size
         /\ f[1] = "lane" => WrittenLength(f) = m.sizeof_T * m.unpred[f[2]]
         /\ f[1] = "unpredictable_data" => WrittenLength(f) = m.sizeof_T * m.unpred[1]
         /\ f[1] = "indicator_bits" => WrittenLength(f) = ByteLength(Len(m.indicator))
         /\ f[1] = "reg_unpredictable_data" => WrittenLength(f) = float * m.free[f[2]]
         /\ f[1] = "tree" => WrittenLength(f) = TreeSize(NodeCount(m.symbols[f[2]]))
         /\ f[1] = "codes" => WrittenLength(f) = TypeArraySize(m.bits[f[2]])
         /\ f[1] \notin {"unpred_count_buffer", "lane", "unpredictable_data", "indicator_bits",
                         "reg_unpredictable_data", "tree", "codes"} =>
              WrittenLength(f) = FixedLength(f)
  BY Zenon DEF WrittenLength

\* How far the reader's pointer moves over each field.
LEMMA ReadLengths ==
  ASSUME NEW f
  PROVE  /\ f[1] = "unpred_count_buffer" =>
              ReadLength(f) = int * got[<<"params", "">>] * got[<<"params", "">>]
         /\ f[1] = "lane" =>
              ReadLength(f) = m.sizeof_T * got[<<"unpred_count_buffer", "">>][f[2]]
         /\ f[1] = "unpredictable_data" =>
              ReadLength(f) = float * got[<<"unpredictable_count", "">>]
         /\ f[1] = "indicator_bits" => ReadLength(f) = ByteArrayLength(Len(m.indicator))
         /\ f[1] = "reg_unpredictable_data" =>
              ReadLength(f) = float * got[<<"reg_unpredictable_count", f[2]>>]
         /\ f[1] = "tree" => ReadLength(f) = got[<<"tree_size", f[2]>>]
         /\ f[1] = "codes" => ReadLength(f) = got[<<"type_array_size", f[2]>>]
         /\ f[1] \notin {"unpred_count_buffer", "lane", "unpredictable_data", "indicator_bits",
                         "reg_unpredictable_data", "tree", "codes"} =>
              ReadLength(f) = FixedLength(f)
  BY Zenon DEF ReadLength

\* The size of a stored tree is a number.
LEMMA TreeSizeNat ==
  ASSUME NEW n \in Nat \ {0}
  PROVE  TreeSize(NodeCount(n)) \in Nat
  <1>1. NodeCount(n) \in Nat
    BY DEF NodeCount
  <1>2. \A w \in {1, 2, 4} : 1 + NodeCount(n) * (2 * w + int + 1) \in Nat
    BY <1>1 DEF int
  <1> QED BY <1>2 DEF TreeSize

\* So is the length of every field.
LEMMA LengthNat ==
  ASSUME m \in Messages, NEW f \in Fields
  PROVE  WrittenLength(f) \in Nat
  <1>1. /\ m.sizeof_T \in Nat /\ m.block_size \in Nat
        /\ f[1] = "lane" => m.unpred[f[2]] \in Nat
        /\ f[1] = "unpredictable_data" => m.unpred[1] \in Nat
        /\ f[1] = "indicator_bits" => Len(m.indicator) \in Nat
        /\ f[1] = "reg_unpredictable_data" => m.free[f[2]] \in Nat
        /\ f[1] = "tree" => m.symbols[f[2]] \in Nat \ {0}
        /\ f[1] = "codes" => m.bits[f[2]] \in Nat
    <2>1. m.sizeof_T \in Nat /\ m.block_size \in Nat
      BY MessageFacts
    <2>2. f[1] = "lane" => m.unpred[f[2]] \in Nat
      BY MessageFacts, FieldKinds
    <2>3. f[1] = "unpredictable_data" => m.unpred[1] \in Nat
      <3>1. f[1] = "unpredictable_data" => Lanes = 1
        BY FieldKinds DEF Lanes
      <3>2. m.unpred \in [1 .. Lanes -> Nat]
        BY MessageFacts
      <3>3. 1 \in 1 .. 1
        OBVIOUS
      <3> QED BY <3>1, <3>2, <3>3
    <2>4. f[1] = "indicator_bits" => Len(m.indicator) \in Nat
      BY MessageFacts
    <2>5. f[1] = "reg_unpredictable_data" => m.free[f[2]] \in Nat
      BY MessageFacts, FieldKinds
    <2>6. f[1] = "tree" => m.symbols[f[2]] \in Nat \ {0}
      BY MessageFacts, FieldKinds
    <2>7. f[1] = "codes" => m.bits[f[2]] \in Nat
      BY MessageFacts, FieldKinds
    <2> QED BY <2>1, <2>2, <2>3, <2>4, <2>5, <2>6, <2>7
  <1>2. FixedLength(f) \in Nat
    <2>1. FixedLength(f) \in {ParamsBytes, 2 * m.sizeof_T, int, size_t}
      BY Zenon DEF FixedLength
    <2> QED BY <1>1, <2>1, MessageFacts DEF int, size_t
  <1>3. /\ int * m.block_size * m.block_size \in Nat
        /\ f[1] = "lane" => m.sizeof_T * m.unpred[f[2]] \in Nat
        /\ f[1] = "unpredictable_data" => m.sizeof_T * m.unpred[1] \in Nat
        /\ f[1] = "indicator_bits" => ByteLength(Len(m.indicator)) \in Nat
        /\ f[1] = "reg_unpredictable_data" => float * m.free[f[2]] \in Nat
        /\ f[1] = "tree" => TreeSize(NodeCount(m.symbols[f[2]])) \in Nat
        /\ f[1] = "codes" => TypeArraySize(m.bits[f[2]]) \in Nat
    <2>1. /\ int * m.block_size * m.block_size \in Nat
          /\ f[1] = "lane" => m.sizeof_T * m.unpred[f[2]] \in Nat
          /\ f[1] = "unpredictable_data" => m.sizeof_T * m.unpred[1] \in Nat
      <3>1. \A a, b \in Nat : a * b \in Nat
        OBVIOUS
      <3>2. int \in Nat
        BY DEF int
      <3> QED BY <1>1, <3>1, <3>2
    <2>2. /\ f[1] = "reg_unpredictable_data" => float * m.free[f[2]] \in Nat
          /\ f[1] = "codes" => TypeArraySize(m.bits[f[2]]) \in Nat
      BY <1>1 DEF float, TypeArraySize
    <2>3. /\ f[1] = "indicator_bits" => ByteLength(Len(m.indicator)) \in Nat
          /\ f[1] = "tree" => TreeSize(NodeCount(m.symbols[f[2]])) \in Nat
      BY <1>1, BytesAgree, TreeSizeNat
    <2> QED BY <2>1, <2>2, <2>3
  <1>4. \/ f[1] \in {"unpred_count_buffer", "lane", "unpredictable_data", "indicator_bits",
                      "reg_unpredictable_data", "tree", "codes"}
        \/ f[1] \notin {"unpred_count_buffer", "lane", "unpredictable_data", "indicator_bits",
                         "reg_unpredictable_data", "tree", "codes"}
    OBVIOUS
  <1> QED BY <1>2, <1>3, <1>4, WrittenLengths, Zenon

\* What the fields that hold a length say.
LEMMA Values ==
  /\ Value(<<"params", "">>) = m.block_size
  /\ \A r : Value(<<"count", r>>) = m.count[r]
  /\ Value(<<"unpred_count_buffer", "">>) = m.unpred
  /\ Value(<<"unpredictable_count", "">>) = m.unpred[1]
  /\ Value(<<"indicator_bits", "">>) = Packed(m.indicator)
  /\ \A a : Value(<<"tree_size", a>>) = TreeSize(NodeCount(m.symbols[a]))
  /\ \A a : Value(<<"type_array_size", a>>) = TypeArraySize(m.bits[a])
  /\ \A r : Value(<<"reg_unpredictable_count", r>>) = m.free[r]
  <1>1. ASSUME NEW f
        PROVE  /\ f[1] = "params" => Value(f) = m.block_size
               /\ f[1] = "count" => Value(f) = m.count[f[2]]
               /\ f[1] = "unpred_count_buffer" => Value(f) = m.unpred
               /\ f[1] = "unpredictable_count" => Value(f) = m.unpred[1]
               /\ f[1] = "indicator_bits" => Value(f) = Packed(m.indicator)
               /\ f[1] = "tree_size" => Value(f) = TreeSize(NodeCount(m.symbols[f[2]]))
               /\ f[1] = "type_array_size" => Value(f) = TypeArraySize(m.bits[f[2]])
               /\ f[1] = "reg_unpredictable_count" => Value(f) = m.free[f[2]]
    BY Zenon DEF Value
  <1>2. ASSUME NEW a, NEW b
        PROVE  /\ a = "params" => Value(<<a, b>>) = m.block_size
               /\ a = "count" => Value(<<a, b>>) = m.count[b]
               /\ a = "unpred_count_buffer" => Value(<<a, b>>) = m.unpred
               /\ a = "unpredictable_count" => Value(<<a, b>>) = m.unpred[1]
               /\ a = "indicator_bits" => Value(<<a, b>>) = Packed(m.indicator)
               /\ a = "tree_size" => Value(<<a, b>>) = TreeSize(NodeCount(m.symbols[b]))
               /\ a = "type_array_size" => Value(<<a, b>>) = TypeArraySize(m.bits[b])
               /\ a = "reg_unpredictable_count" => Value(<<a, b>>) = m.free[b]
    <2> DEFINE f == <<a, b>>
    <2>1. f[1] = a /\ f[2] = b
      BY Pair, Zenon
    <2> HIDE DEF f
    <2>2. /\ a = "params" => Value(f) = m.block_size
          /\ a = "count" => Value(f) = m.count[b]
          /\ a = "unpred_count_buffer" => Value(f) = m.unpred
          /\ a = "unpredictable_count" => Value(f) = m.unpred[1]
          /\ a = "indicator_bits" => Value(f) = Packed(m.indicator)
          /\ a = "tree_size" => Value(f) = TreeSize(NodeCount(m.symbols[b]))
          /\ a = "type_array_size" => Value(f) = TypeArraySize(m.bits[b])
          /\ a = "reg_unpredictable_count" => Value(f) = m.free[b]
      BY <1>1, <2>1
    <2> QED BY <2>2, Zenon DEF f
  <1> QED BY <1>2, Zenon

\* The fields up to number n have been read, and read right.
HaveRead(n) ==
  /\ \A i \in 1 .. n : WriteOrder[i] \in DOMAIN got
  /\ \A f \in DOMAIN got : got[f] = Value(f)

\* What the header says, as far as it has been read.
LEMMA HeaderRead ==
  ASSUME m \in Messages, NEW n \in Nat, HaveRead(n)
  PROVE  /\ n >= 1 => got[<<"params", "">>] = m.block_size
         /\ n >= 5 => got[<<"count", "reg">>] = m.count["reg"]
         /\ n >= 6 /\ m.format = "knl" => got[<<"count", "reg_poly">>] = m.count["reg_poly"]
         /\ n >= 7 /\ m.format = "knl" => got[<<"unpred_count_buffer", "">>] = m.unpred
         /\ n >= 6 /\ m.format = "legacy" => got[<<"unpredictable_count", "">>] = m.unpred[1]
  <1>1. \A i \in 1 .. HeaderSize : i <= n =>
          /\ Header(m.format)[i] \in DOMAIN got
          /\ got[Header(m.format)[i]] = Value(Header(m.format)[i])
    <2> SUFFICES ASSUME NEW i \in 1 .. HeaderSize, i <= n
                 PROVE  /\ Header(m.format)[i] \in DOMAIN got
                        /\ got[Header(m.format)[i]] = Value(Header(m.format)[i])
      OBVIOUS
    <2>1. i \in 1 .. n /\ WriteOrder[i] = Header(m.format)[i]
      BY OrderFacts DEF HeaderSize
    <2> QED BY <2>1 DEF HaveRead
  <1>2. n >= 1 => got[<<"params", "">>] = Value(<<"params", "">>)
    <2> SUFFICES ASSUME n >= 1
                 PROVE  got[<<"params", "">>] = Value(<<"params", "">>)
      OBVIOUS
    <2>1. 1 \in 1 .. HeaderSize /\ 1 <= n
      BY DEF HeaderSize
    <2>2. Header(m.format)[1] = <<"params", "">>
      BY HeaderFields, Zenon
    <2>3. got[Header(m.format)[1]] = Value(Header(m.format)[1])
      BY <1>1, <2>1
    <2> QED BY <2>2, <2>3, Zenon
  <1>3. n >= 5 => got[<<"count", "reg">>] = Value(<<"count", "reg">>)
    <2> SUFFICES ASSUME n >= 5
                 PROVE  got[<<"count", "reg">>] = Value(<<"count", "reg">>)
      OBVIOUS
    <2>1. 5 \in 1 .. HeaderSize /\ 5 <= n
      BY DEF HeaderSize
    <2>2. Header(m.format)[5] = <<"count", "reg">>
      BY HeaderFields, Zenon
    <2>3. got[Header(m.format)[5]] = Value(Header(m.format)[5])
      BY <1>1, <2>1
    <2> QED BY <2>2, <2>3, Zenon
  <1>4. n >= 6 /\ m.format = "knl" => got[<<"count", "reg_poly">>] = Value(<<"count", "reg_poly">>)
    <2> SUFFICES ASSUME n >= 6, m.format = "knl"
                 PROVE  got[<<"count", "reg_poly">>] = Value(<<"count", "reg_poly">>)
      OBVIOUS
    <2>1. 6 \in 1 .. HeaderSize /\ 6 <= n
      BY DEF HeaderSize
    <2>2. Header(m.format)[6] = <<"count", "reg_poly">>
      BY HeaderFields, Zenon
    <2>3. got[Header(m.format)[6]] = Value(Header(m.format)[6])
      BY <1>1, <2>1
    <2> QED BY <2>2, <2>3, Zenon
  <1>5. n >= 7 /\ m.format = "knl" => got[<<"unpred_count_buffer", "">>] = Value(<<"unpred_count_buffer", "">>)
    <2> SUFFICES ASSUME n >= 7, m.format = "knl"
                 PROVE  got[<<"unpred_count_buffer", "">>] = Value(<<"unpred_count_buffer", "">>)
      OBVIOUS
    <2>1. 7 \in 1 .. HeaderSize /\ 7 <= n
      BY DEF HeaderSize
    <2>2. Header(m.format)[7] = <<"unpred_count_buffer", "">>
      BY HeaderFields, Zenon
    <2>3. got[Header(m.format)[7]] = Value(Header(m.format)[7])
      BY <1>1, <2>1
    <2> QED BY <2>2, <2>3, Zenon
  <1>6. n >= 6 /\ m.format = "legacy" => got[<<"unpredictable_count", "">>] = Value(<<"unpredictable_count", "">>)
    <2> SUFFICES ASSUME n >= 6, m.format = "legacy"
                 PROVE  got[<<"unpredictable_count", "">>] = Value(<<"unpredictable_count", "">>)
      OBVIOUS
    <2>1. 6 \in 1 .. HeaderSize /\ 6 <= n
      BY DEF HeaderSize
    <2>2. Header(m.format)[6] = <<"unpredictable_count", "">>
      BY HeaderFields, Zenon
    <2>3. got[Header(m.format)[6]] = Value(Header(m.format)[6])
      BY <1>1, <2>1
    <2> QED BY <2>2, <2>3, Zenon
  <1> QED BY <1>2, <1>3, <1>4, <1>5, <1>6, Values, Zenon

\* No field of variable length but the lanes' counts is in the header, and
\* those are not its first.
LEMMA HeaderPlain ==
  ASSUME m \in Messages, NEW i \in 1 .. HeaderSize, NEW f, f = Header(m.format)[i]
  PROVE  /\ f[1] \notin {"lane", "unpredictable_data", "indicator_bits", "reg_unpredictable_data",
                         "tree", "codes"}
         /\ f[1] = "unpred_count_buffer" => i > 1
  <1>1. ASSUME i = 1 PROVE f[1] = "params"
    <2>1. Header(m.format)[1] = <<"params", "">>
      BY HeaderFields, Zenon
    <2>2. f = <<"params", "">>
      BY <1>1, <2>1
    <2> QED BY <2>2, Pair, Zenon
  <1>2. ASSUME i = 2 PROVE f[1] = "precision"
    <2>1. Header(m.format)[2] = <<"precision", "">>
      BY HeaderFields, Zenon
    <2>2. f = <<"precision", "">>
      BY <1>2, <2>1
    <2> QED BY <2>2, Pair, Zenon
  <1>3. ASSUME i = 3 PROVE f[1] = "intv_radius"
    <2>1. Header(m.format)[3] = <<"intv_radius", "">>
      BY HeaderFields, Zenon
    <2>2. f = <<"intv_radius", "">>
      BY <1>3, <2>1
    <2> QED BY <2>2, Pair, Zenon
  <1>4. ASSUME i = 4 PROVE f[1] = "mean_info"
    <2>1. Header(m.format)[4] = <<"mean_info", "">>
      BY HeaderFields, Zenon
    <2>2. f = <<"mean_info", "">>
      BY <1>4, <2>1
    <2> QED BY <2>2, Pair, Zenon
  <1>5. ASSUME i = 5 PROVE f[1] = "count"
    <2>1. Header(m.format)[5] = <<"count", "reg">>
      BY HeaderFields, Zenon
    <2>2. f = <<"count", "reg">>
      BY <1>5, <2>1
    <2> QED BY <2>2, Pair, Zenon
  <1>6. ASSUME i = 6 PROVE f[1] = "count" \/ f[1] = "unpredictable_count"
    <2>1. \/ Header(m.format)[6] = <<"count", "reg_poly">>
          \/ Header(m.format)[6] = <<"unpredictable_count", "">>
      BY HeaderFields, MessageFacts, Zenon
    <2>2. f = <<"count", "reg_poly">> \/ f = <<"unpredictable_count", "">>
      BY <1>6, <2>1
    <2> QED BY <2>2, Pair, Zenon
  <1>7. ASSUME i = 7 PROVE f[1] = "unpred_count_buffer"
    <2>1. Header(m.format)[7] = <<"unpred_count_buffer", "">>
      <3>1. m.format = "knl"
        BY <1>7 DEF HeaderSize
      <3> QED BY <3>1, HeaderFields, Zenon
    <2>2. f = <<"unpred_count_buffer", "">>
      BY <1>7, <2>1
    <2> QED BY <2>2, Pair, Zenon
  <1>8. i \in {1, 2, 3, 4, 5, 6, 7}
    BY DEF HeaderSize
  <1> QED BY <1>1, <1>2, <1>3, <1>4, <1>5, <1>6, <1>7, <1>8

\* From what has been read before, the reader knows the length of every field.
LEMMA LengthsAgree ==
  ASSUME m \in Messages, NEW n \in Nat, n < Len(WriteOrder), HaveRead(n)
  PROVE  ReadLength(WriteOrder[n + 1]) = WrittenLength(WriteOrder[n + 1])
  <1> DEFINE f == WriteOrder[n + 1]
  <1> SUFFICES ReadLength(f) = WrittenLength(f)
    OBVIOUS
  <1>1. /\ f \in Fields /\ n + 1 \in 1 .. Len(WriteOrder)
        /\ f[1] = "tree" => n \in 1 .. n /\ WriteOrder[n] = <<"tree_size", f[2]>>
        /\ f[1] = "codes" => n \in 1 .. n /\ WriteOrder[n] = <<"type_array_size", f[2]>>
        /\ f[1] = "reg_unpredictable_data" =>
             n \in 1 .. n /\ WriteOrder[n] = <<"reg_unpredictable_count", f[2]>>
    <2>1. n + 1 \in 1 .. Len(WriteOrder) /\ (n + 1) - 1 = n /\ (n + 1 > 1 => n \in 1 .. n)
      BY OrderFacts
    <2> QED BY <2>1, OrderFacts DEF Preceded
  <1>2. n \in 1 .. n => got[WriteOrder[n]] = Value(WriteOrder[n])
    BY DEF HaveRead
  <1>3. n + 1 <= HeaderSize => n + 1 \in 1 .. HeaderSize /\ f = Header(m.format)[n + 1]
    BY OrderFacts DEF HeaderSize
  <1>4. /\ f[1] \in {"lane", "unpredictable_data"} => n >= HeaderSize
        /\ f[1] = "unpred_count_buffer" => n >= 1
    <2> HIDE DEF f
    <2>1. CASE n + 1 <= HeaderSize
      <3>1. /\ f[1] \notin {"lane", "unpredictable_data"}
            /\ f[1] = "unpred_count_buffer" => n + 1 > 1
        BY <1>3, <2>1, HeaderPlain
      <3> QED BY <3>1
    <2>2. CASE ~(n + 1 <= HeaderSize)
      BY <2>2 DEF HeaderSize
    <2> QED BY <2>1, <2>2
  <1> HIDE DEF f
  <1>5. CASE f[1] = "unpred_count_buffer"
    BY <1>4, <1>5, HeaderRead, WrittenLengths, ReadLengths, Zenon
  <1>6. CASE f[1] = "lane"
    <2>1. m.format = "knl" /\ n >= 7
      BY <1>1, <1>4, <1>6, FieldKinds DEF HeaderSize
    <2> QED BY <1>6, <2>1, HeaderRead, WrittenLengths, ReadLengths, Zenon
  <1>7. CASE f[1] = "unpredictable_data"
    <2>1. m.format = "legacy" /\ n >= 6
      BY <1>1, <1>4, <1>7, FieldKinds, MessageFacts DEF HeaderSize
    <2>2. m.sizeof_T = float
      BY <2>1, MessageFacts DEF float
    <2> QED BY <1>7, <2>1, <2>2, HeaderRead, WrittenLengths, ReadLengths, Zenon
  <1>8. CASE f[1] = "indicator_bits"
    <2>1. Len(m.indicator) \in Nat
      BY MessageFacts
    <2>2. ByteLength(Len(m.indicator)) = ByteArrayLength(Len(m.indicator))
      BY <2>1, BytesAgree
    <2> QED BY <1>8, <2>2, WrittenLengths, ReadLengths, Zenon
  <1>9. CASE f[1] = "reg_unpredictable_data"
    <2>1. got[<<"reg_unpredictable_count", f[2]>>] = Value(<<"reg_unpredictable_count", f[2]>>)
      BY <1>1, <1>2, <1>9
    <2>2. Value(<<"reg_unpredictable_count", f[2]>>) = m.free[f[2]]
      BY Values, Zenon
    <2>3. ReadLength(f) = float * got[<<"reg_unpredictable_count", f[2]>>]
      BY <1>9, ReadLengths, Zenon
    <2>4. WrittenLength(f) = float * m.free[f[2]]
      BY <1>9, WrittenLengths, Zenon
    <2> QED BY <2>1, <2>2, <2>3, <2>4, Zenon
  <1>10. CASE f[1] = "tree"
    <2>1. got[<<"tree_size", f[2]>>] = Value(<<"tree_size", f[2]>>)
      BY <1>1, <1>2, <1>10
    <2>2. Value(<<"tree_size", f[2]>>) = TreeSize(NodeCount(m.symbols[f[2]]))
      BY Values, Zenon
    <2>3. ReadLength(f) = got[<<"tree_size", f[2]>>]
      BY <1>10, ReadLengths, Zenon
    <2>4. WrittenLength(f) = TreeSize(NodeCount(m.symbols[f[2]]))
      BY <1>10, WrittenLengths, Zenon
    <2> QED BY <2>1, <2>2, <2>3, <2>4, Zenon
  <1>11. CASE f[1] = "codes"
    <2>1. got[<<"type_array_size", f[2]>>] = Value(<<"type_array_size", f[2]>>)
      BY <1>1, <1>2, <1>11
    <2>2. Value(<<"type_array_size", f[2]>>) = TypeArraySize(m.bits[f[2]])
      BY Values, Zenon
    <2>3. ReadLength(f) = got[<<"type_array_size", f[2]>>]
      BY <1>11, ReadLengths, Zenon
    <2>4. WrittenLength(f) = TypeArraySize(m.bits[f[2]])
      BY <1>11, WrittenLengths, Zenon
    <2> QED BY <2>1, <2>2, <2>3, <2>4, Zenon
  <1>12. CASE f[1] \notin {"unpred_count_buffer", "lane", "unpredictable_data", "indicator_bits",
                           "reg_unpredictable_data", "tree", "codes"}
    BY <1>12, WrittenLengths, ReadLengths, Zenon
  <1> QED BY <1>5, <1>6, <1>7, <1>8, <1>9, <1>10, <1>11, <1>12

\* The reader expects the fields in the order they were written in.
LEMMA ExpectedIsOrder ==
  ASSUME m \in Messages, NEW n \in Nat, n = read, HaveRead(n), n <= Len(WriteOrder)
  PROVE  /\ Left <=> n < Len(WriteOrder)
         /\ Left => NextField = WriteOrder[n + 1]
  <1>1. CASE n < HeaderSize
    <2>1. Expected = Header(m.format) /\ Len(Expected) = HeaderSize
      BY <1>1, HeaderFields DEF Expected
    <2>2. n + 1 \in 1 .. HeaderSize /\ n < Len(WriteOrder)
      BY <1>1, OrderFacts DEF HeaderSize
    <2> QED BY <1>1, <2>1, <2>2, OrderFacts DEF Left, NextField
  <1>2. CASE ~(n < HeaderSize)
    <2>1. Expected = WriteOrder
      <3>1. ~(read < Len(Header(m.format)))
        BY <1>2, HeaderFields
      <3>2. CASE m.format = "knl"
        <4>1. n >= 7 /\ n >= 6 /\ n >= 5 /\ n >= 1
          BY <1>2, <3>2 DEF HeaderSize
        <4>2. /\ got[<<"params", "">>] = m.block_size
              /\ got[<<"count", "reg">>] = m.count["reg"]
              /\ got[<<"count", "reg_poly">>] = m.count["reg_poly"]
          BY <3>2, <4>1, HeaderRead, Zenon
        <4>3. Expected = KnlReadOrder(got[<<"params", "">>], [r \in Regressions |-> got[<<"count", r>>]])
          BY <3>1, <3>2, Zenon DEF Expected
        <4>4. /\ [r \in Regressions |-> got[<<"count", r>>]]["reg"] = m.count["reg"]
              /\ [r \in Regressions |-> got[<<"count", r>>]]["reg_poly"] = m.count["reg_poly"]
          BY <4>2 DEF Regressions
        <4>5. WriteOrder = KnlWriteOrder
          BY <3>2 DEF WriteOrder
        <4>6. Expected = KnlReadOrder(m.block_size, [r \in Regressions |-> got[<<"count", r>>]])
          BY <4>2, <4>3
        <4> DEFINE count == [r \in Regressions |-> got[<<"count", r>>]]
        <4>7. count["reg"] = m.count["reg"] /\ count["reg_poly"] = m.count["reg_poly"]
          BY <4>4
        <4> HIDE DEF count
        <4>8. KnlReadOrder(m.block_size, count) = KnlWriteOrder
          BY <4>7 DEF KnlWriteOrder, KnlReadOrder
        <4> QED BY <4>5, <4>6, <4>8 DEF count
      <3>3. CASE m.format = "legacy"
        <4>1. n >= 5
          BY <1>2, <3>3 DEF HeaderSize
        <4>2. got[<<"count", "reg">>] = m.count["reg"]
          BY <4>1, HeaderRead, Zenon
        <4>3. Expected = LegacyReadOrder([r \in {"reg"} |-> got[<<"count", r>>]])
          BY <3>1, <3>3, Zenon DEF Expected
        <4>4. [r \in {"reg"} |-> got[<<"count", r>>]]["reg"] = m.count["reg"]
          BY <4>2
        <4>5. m.format # "knl"
          BY <3>3
        <4> QED BY <4>3, <4>4, <4>5, Zenon DEF WriteOrder, LegacyWriteOrder, LegacyReadOrder
      <3> QED BY <3>2, <3>3, MessageFacts
    <2> QED BY <2>1, OrderFacts DEF Left, NextField
  <1> QED BY <1>1, <1>2

----------------------------------------------------------------------------
(* The inductive invariant.  off[i] is where the first i fields end: both  *)
(* sides stand at such an end, and every field with bytes begins at one.   *)

Placed(off) ==
  /\ off[0] = 0 /\ off[written] = wpos /\ off[read] = rpos
  /\ \A i \in 0 .. written : off[i] \in Nat /\ off[i] <= wpos
  /\ \A i \in 1 .. written :
       /\ off[i] = off[i - 1] + WrittenLength(WriteOrder[i])
       /\ \/ WrittenLength(WriteOrder[i]) = 0
          \/ off[i - 1] \in DOMAIN compressed /\ compressed[off[i - 1]] = WriteOrder[i]

StreamInv ==
  /\ m \in Messages
  /\ written \in 0 .. Len(WriteOrder) /\ read \in 0 .. written
  /\ wpos \in Nat /\ rpos \in Nat
  /\ \E off \in [0 .. written -> Nat] : Placed(off)

NoOverlap ==
  \A p \in DOMAIN compressed :
    /\ p \in Nat /\ WrittenLength(compressed[p]) \in Nat \ {0}
    /\ p + WrittenLength(compressed[p]) <= wpos
    /\ \A q \in DOMAIN compressed : p < q => p + WrittenLength(compressed[p]) <= q

ReadInv ==
  /\ HaveRead(read)
  /\ frame.pc \in {"none", "framed", "restored", "corrupt"} /\ "pc" \in DOMAIN frame
  /\ frame.pc # "none" => written = Len(WriteOrder)
  /\ read > 0 => frame.pc = "restored"
  /\ FrameFits

Inv == StreamInv /\ NoOverlap /\ ReadInv

\* The message is fixed, and all that follows from it.
LEMMA MessageFixed ==
  ASSUME m' = m
  PROVE  /\ WriteOrder' = WriteOrder
         /\ \A f : WrittenLength(f)' = WrittenLength(f) /\ Value(f)' = Value(f)
  <1>1. WriteOrder' = WriteOrder
    BY DEF WriteOrder, KnlWriteOrder, LegacyWriteOrder
  <1>2. ASSUME NEW f PROVE WrittenLength(f)' = WrittenLength(f)
    BY Zenon DEF WrittenLength, FixedLength
  <1>3. ASSUME NEW f PROVE Value(f)' = Value(f)
    BY Zenon DEF Value
  <1> QED BY <1>1, <1>2, <1>3

\* The fields of the order are fields.
LEMMA OrderField ==
  ASSUME m \in Messages, NEW i \in 1 .. Len(WriteOrder)
  PROVE  WriteOrder[i] \in Fields /\ WrittenLength(WriteOrder[i]) \in Nat
  <1>1. WriteOrder[i] \in Fields
    BY OrderFacts DEF Preceded
  <1> QED BY <1>1, LengthNat

\* Each step of writer and reader, and the start, keeps the invariant.
LEMMA InitInv == ASSUME Init PROVE Inv
  <1>1. StreamInv
    <2>1. Len(WriteOrder) \in Nat
      BY OrderFacts DEF Init
    <2> DEFINE off == [i \in 0 .. 0 |-> 0]
    <2>2. off \in [0 .. 0 -> Nat] /\ off[0] = 0 /\ \A i \in 0 .. 0 : off[i] = 0
      OBVIOUS
    <2> HIDE DEF off
    <2>3. Placed(off)
      BY <2>2 DEF Init, Placed
    <2> QED BY <2>1, <2>2, <2>3 DEF Init, StreamInv
  <1>2. NoOverlap
    BY DEF Init, NoOverlap
  <1>3. ReadInv
    BY DEF Init, ReadInv, HaveRead, Unframed, FrameFits
  <1> QED BY <1>1, <1>2, <1>3 DEF Inv

LEMMA WriteFieldInv == ASSUME Inv, WriteField PROVE Inv'
  <1>1. /\ written < Len(WriteOrder) /\ written' = written + 1
        /\ m' = m /\ read' = read /\ rpos' = rpos /\ got' = got /\ frame' = frame
    BY DEF WriteField
  <1> DEFINE f == WriteOrder[written + 1]
             L == WrittenLength(f)
  <1>2. /\ compressed' = IF L = 0 THEN compressed
                         ELSE [p \in DOMAIN compressed \cup {wpos} |->
                                 IF p = wpos THEN f ELSE compressed[p]]
        /\ wpos' = wpos + L
    BY DEF WriteField, Advance
  <1>3. /\ m \in Messages /\ written \in Nat /\ read \in 0 .. written
        /\ wpos \in Nat /\ rpos \in Nat /\ Len(WriteOrder) \in Nat
    BY OrderFacts DEF Inv, StreamInv
  <1>4. L \in Nat
    <2>1. written + 1 \in 1 .. Len(WriteOrder)
      BY <1>1, <1>3
    <2> QED BY <1>3, <2>1, OrderField
  <1>5. WriteOrder' = WriteOrder /\ \A g : WrittenLength(g)' = WrittenLength(g) /\ Value(g)' = Value(g)
    BY <1>1, MessageFixed
  <1>6. written' \in 0 .. Len(WriteOrder') /\ read' \in 0 .. written' /\ wpos' \in Nat /\ rpos' \in Nat
    BY <1>1, <1>2, <1>3, <1>4, <1>5
  <1>7. /\ \A p \in DOMAIN compressed : p \in Nat /\ p < wpos
        /\ \A p \in DOMAIN compressed : p \in DOMAIN compressed' /\ compressed'[p] = compressed[p]
        /\ L # 0 => wpos \in DOMAIN compressed' /\ compressed'[wpos] = f
        /\ \A p \in DOMAIN compressed' : p \in DOMAIN compressed \/ (L # 0 /\ p = wpos)
    <2>1. \A p \in DOMAIN compressed : p \in Nat /\ p < wpos
      BY <1>3 DEF Inv, NoOverlap
    <2> HIDE DEF f, L
    <2> QED BY <1>2, <1>3, <2>1
  <1>8. PICK off \in [0 .. written -> Nat] : Placed(off)
    BY DEF Inv, StreamInv
  <1>9. PICK off2 \in [0 .. written' -> Nat] :
          off2[written + 1] = wpos + L /\ \A i \in 0 .. written : off2[i] = off[i]
    <2> HIDE DEF f, L
    <2> DEFINE longer == [i \in 0 .. written + 1 |-> IF i = written + 1 THEN wpos + L ELSE off[i]]
    <2>1. /\ longer \in [0 .. written' -> Nat] /\ longer[written + 1] = wpos + L
          /\ \A i \in 0 .. written : longer[i] = off[i]
      BY <1>1, <1>3, <1>4
    <2> HIDE DEF longer
    <2> QED BY <2>1
  <1>10. Placed(off2)'
    <2> HIDE DEF L
    <2>1. off2[0] = 0 /\ off2[written'] = wpos' /\ off2[read'] = rpos'
      BY <1>1, <1>2, <1>3, <1>8, <1>9 DEF Placed
    <2>2. \A i \in 0 .. written' : off2[i] \in Nat /\ off2[i] <= wpos'
      <3> SUFFICES ASSUME NEW i \in 0 .. written' PROVE off2[i] \in Nat /\ off2[i] <= wpos'
        OBVIOUS
      <3>1. CASE i = written + 1
        BY <1>2, <1>3, <1>4, <1>9, <3>1
      <3>2. CASE i \in 0 .. written
        BY <1>2, <1>3, <1>4, <1>8, <1>9, <3>2 DEF Placed
      <3> QED BY <1>1, <1>3, <3>1, <3>2
    <2>3. ASSUME NEW i \in 1 .. written'
          PROVE  /\ off2[i] = off2[i - 1] + WrittenLength(WriteOrder[i])
                 /\ \/ WrittenLength(WriteOrder[i]) = 0
                    \/ off2[i - 1] \in DOMAIN compressed' /\ compressed'[off2[i - 1]] = WriteOrder[i]
      <3>1. CASE i = written + 1
        <4>1. off2[i - 1] = wpos /\ off2[i] = wpos + L
          BY <1>3, <1>8, <1>9, <3>1 DEF Placed
        <4> QED BY <1>7, <3>1, <4>1 DEF L
      <3>2. CASE i \in 1 .. written
        <4>1. i - 1 \in 0 .. written /\ i \in 0 .. written
          BY <1>3, <3>2
        <4>2. off2[i - 1] = off[i - 1] /\ off2[i] = off[i]
          BY <1>9, <4>1
        <4> QED BY <1>7, <1>8, <3>2, <4>2 DEF Placed
      <3> QED BY <1>1, <1>3, <3>1, <3>2
    <2> QED BY <1>5, <2>1, <2>2, <2>3 DEF Placed
  <1>11. StreamInv'
    BY <1>1, <1>3, <1>6, <1>9, <1>10 DEF StreamInv
  <1>12. NoOverlap'
    <2> HIDE DEF L, f
    <2>1. \A p \in DOMAIN compressed' :
            /\ p \in Nat /\ WrittenLength(compressed'[p]) \in Nat \ {0}
            /\ p + WrittenLength(compressed'[p]) <= wpos'
            /\ p # wpos => p + WrittenLength(compressed'[p]) <= wpos
      <3> SUFFICES ASSUME NEW p \in DOMAIN compressed'
                   PROVE  /\ p \in Nat /\ WrittenLength(compressed'[p]) \in Nat \ {0}
                          /\ p + WrittenLength(compressed'[p]) <= wpos'
                          /\ p # wpos => p + WrittenLength(compressed'[p]) <= wpos
        OBVIOUS
      <3>1. CASE p \in DOMAIN compressed
        BY <1>2, <1>3, <1>4, <1>7, <3>1 DEF Inv, NoOverlap
      <3>2. CASE L # 0 /\ p = wpos
        BY <1>2, <1>3, <1>4, <1>7, <3>2 DEF L
      <3> QED BY <1>7, <3>1, <3>2
    <2>2. ASSUME NEW p \in DOMAIN compressed', NEW q \in DOMAIN compressed', p < q
          PROVE  p + WrittenLength(compressed'[p]) <= q
      <3>1. p \in DOMAIN compressed
        BY <1>3, <1>7, <2>1, <2>2
      <3>2. CASE q \in DOMAIN compressed
        BY <1>7, <2>2, <3>1, <3>2 DEF Inv, NoOverlap
      <3>3. CASE q = wpos
        BY <1>7, <2>1, <3>1, <3>3
      <3> QED BY <1>7, <3>2, <3>3
    <2> QED BY <1>5, <2>1, <2>2 DEF NoOverlap
  <1>13. ReadInv'
    <2>1. read = 0 /\ frame.pc = "none"
      BY <1>1, <1>3 DEF Inv, ReadInv
    <2>2. HaveRead(read)'
      BY <1>1, <1>5, <2>1 DEF Inv, ReadInv, HaveRead
    <2> QED BY <1>1, <2>1, <2>2 DEF Inv, ReadInv, FrameFits
  <1> QED BY <1>11, <1>12, <1>13 DEF Inv

\* What holds of the stream and of what was read is not touched by the frame.
LEMMA SameStream ==
  ASSUME Inv, UNCHANGED <<m, compressed, written, wpos, read, rpos, got>>
  PROVE  StreamInv' /\ NoOverlap' /\ HaveRead(read)'
  <1>1. /\ m' = m /\ compressed' = compressed /\ written' = written /\ wpos' = wpos
        /\ read' = read /\ rpos' = rpos /\ got' = got
    OBVIOUS
  <1>2. WriteOrder' = WriteOrder /\ \A g : WrittenLength(g)' = WrittenLength(g) /\ Value(g)' = Value(g)
    BY <1>1, MessageFixed
  <1>3. PICK off \in [0 .. written -> Nat] : Placed(off)
    BY DEF Inv, StreamInv
  <1>4. Placed(off)'
    BY <1>1, <1>2, <1>3 DEF Placed
  <1>5. StreamInv'
    BY <1>1, <1>2, <1>3, <1>4 DEF Inv, StreamInv
  <1>6. NoOverlap'
    BY <1>1, <1>2 DEF Inv, NoOverlap
  <1>7. HaveRead(read)'
    BY <1>1, <1>2 DEF Inv, ReadInv, HaveRead
  <1> QED BY <1>5, <1>6, <1>7

LEMMA PackInv == ASSUME Inv, Pack PROVE Inv'
  <1>1. /\ written = Len(WriteOrder) /\ frame.pc = "none"
        /\ m' = m /\ written' = written /\ read' = read
        /\ UNCHANGED <<m, compressed, written, wpos, read, rpos, got>>
    BY DEF Pack
  <1>2. PICK version \in {"plain", "v2"}, size \in ZSTD_compress(Allocation(wpos), wpos) :
          frame' = Frame(version, wpos, size)
    BY DEF Pack
  <1>3. wpos \in Nat
    BY DEF Inv, StreamInv
  <1>4. /\ frame'.pc = "framed" /\ "pc" \in DOMAIN frame'
        /\ frame'.first = HeaderBytes(version) /\ frame'.size = size
        /\ frame'.allocated = Allocation(wpos)
    BY <1>2 DEF Frame
  <1>5. FrameFits'
    BY <1>3, <1>4, AllocationSuffices DEF FrameFits
  <1>6. ~(read > 0)
    BY <1>1 DEF Inv, ReadInv
  <1>7. WriteOrder' = WriteOrder
    BY <1>1, MessageFixed
  <1> QED BY <1>1, <1>4, <1>5, <1>6, <1>7, SameStream DEF Inv, ReadInv

LEMMA UnpackInv == ASSUME Inv, Unpack PROVE Inv'
  <1>1. /\ frame.pc = "framed" /\ frame' = Unframe(frame)
        /\ m' = m /\ written' = written /\ read' = read
        /\ UNCHANGED <<m, compressed, written, wpos, read, rpos, got>>
    BY DEF Unpack
  <1>2. frame'.pc \in {"restored", "corrupt"} /\ "pc" \in DOMAIN frame'
    BY <1>1 DEF Unframe, Inv, ReadInv
  <1>3. ~(read > 0)
    BY <1>1 DEF Inv, ReadInv
  <1>4. WriteOrder' = WriteOrder
    BY <1>1, MessageFixed
  <1> QED BY <1>1, <1>2, <1>3, <1>4, SameStream DEF Inv, ReadInv, FrameFits

\* Where the reader stands when a field is left, it finds that field.
LEMMA NextIsThere ==
  ASSUME Inv, frame.pc = "restored", Left
  PROVE  /\ read \in Nat /\ read < written /\ written = Len(WriteOrder)
         /\ NextField = WriteOrder[read + 1]
         /\ ReadLength(NextField) = WrittenLength(NextField)
         /\ There(NextField)
  <1>1. m \in Messages /\ written = Len(WriteOrder) /\ read \in 0 .. written
        /\ written \in Nat /\ HaveRead(read) /\ read \in Nat /\ read <= Len(WriteOrder)
    BY OrderFacts DEF Inv, StreamInv, ReadInv
  <1>2. read < Len(WriteOrder) /\ NextField = WriteOrder[read + 1]
    BY <1>1, ExpectedIsOrder
  <1>3. ReadLength(NextField) = WrittenLength(NextField)
    BY <1>1, <1>2, LengthsAgree
  <1>4. PICK off \in [0 .. written -> Nat] : Placed(off)
    BY DEF Inv, StreamInv
  <1>5. read + 1 \in 1 .. written /\ (read + 1) - 1 = read
    BY <1>1, <1>2
  <1>6. There(NextField)
    BY <1>2, <1>3, <1>4, <1>5 DEF There, Placed
  <1> QED BY <1>1, <1>2, <1>3, <1>6

LEMMA ReadFieldInv == ASSUME Inv, ReadField PROVE Inv'
  <1>1. /\ frame.pc = "restored" /\ Left
        /\ m' = m /\ compressed' = compressed /\ written' = written /\ wpos' = wpos
        /\ frame' = frame /\ read' = read + 1
        /\ rpos' = rpos + ReadLength(NextField)
        /\ got' = [f \in DOMAIN got \cup {NextField} |->
                     IF f = NextField THEN Value(f) ELSE got[f]]
    BY DEF ReadField
  <1>2. /\ read \in Nat /\ read < written /\ written = Len(WriteOrder)
        /\ NextField = WriteOrder[read + 1]
        /\ ReadLength(NextField) = WrittenLength(NextField)
    BY <1>1, NextIsThere
  <1>3. WriteOrder' = WriteOrder /\ \A g : WrittenLength(g)' = WrittenLength(g) /\ Value(g)' = Value(g)
    BY <1>1, MessageFixed
  <1>4. written \in Nat /\ m \in Messages /\ read + 1 \in 1 .. written /\ (read + 1) - 1 = read
    BY <1>2, OrderFacts DEF Inv, StreamInv
  <1>5. PICK off \in [0 .. written -> Nat] : Placed(off)
    BY DEF Inv, StreamInv
  <1>6. off[read + 1] = rpos' /\ off[read + 1] \in Nat
    BY <1>1, <1>2, <1>4, <1>5 DEF Placed
  <1>7. Placed(off)'
    BY <1>1, <1>3, <1>5, <1>6 DEF Placed
  <1>8. StreamInv'
    <2>1. m' \in Messages /\ written' \in 0 .. Len(WriteOrder') /\ read' \in 0 .. written'
          /\ wpos' \in Nat /\ rpos' \in Nat
      BY <1>1, <1>2, <1>3, <1>4, <1>6 DEF Inv, StreamInv
    <2> QED BY <1>1, <1>5, <1>7, <2>1 DEF StreamInv
  <1>9. NoOverlap'
    BY <1>1, <1>3 DEF Inv, NoOverlap
  <1>10. HaveRead(read)'
    <2> DEFINE next == NextField
    <2>1. /\ DOMAIN got' = DOMAIN got \cup {next}
          /\ \A f \in DOMAIN got' : got'[f] = IF f = next THEN Value(f) ELSE got[f]
      BY <1>1
    <2>2. next = WriteOrder[read + 1]
      BY <1>2
    <2> HIDE DEF next
    <2>3. \A i \in 1 .. read + 1 : WriteOrder[i] \in DOMAIN got'
      <3> SUFFICES ASSUME NEW i \in 1 .. read + 1 PROVE WriteOrder[i] \in DOMAIN got'
        OBVIOUS
      <3>1. i = read + 1 \/ i \in 1 .. read
        BY <1>2
      <3> QED BY <2>1, <2>2, <3>1 DEF Inv, ReadInv, HaveRead
    <2>4. \A f \in DOMAIN got' : got'[f] = Value(f)
      BY <2>1 DEF Inv, ReadInv, HaveRead
    <2> QED BY <1>1, <1>3, <2>3, <2>4 DEF HaveRead
  <1> QED BY <1>1, <1>3, <1>8, <1>9, <1>10 DEF Inv, ReadInv, FrameFits

LEMMA SameInv == ASSUME Inv, UNCHANGED vars PROVE Inv'
  <1>1. UNCHANGED <<m, compressed, written, wpos, read, rpos, got>> /\ frame' = frame
        /\ m' = m /\ written' = written /\ read' = read
    BY DEF vars
  <1>2. WriteOrder' = WriteOrder
    BY <1>1, MessageFixed
  <1> QED BY <1>1, <1>2, SameStream DEF Inv, ReadInv, FrameFits

\* The fields written stand one behind the other, each where the compressor
\* stood, and the reader stands at the end of the last field it read and has
\* read it right.
THEOREM Invariance == Spec => []Inv
  <1>1. Init => Inv
    BY InitInv
  <1>2. Inv /\ [Next]_vars => Inv'
    <2> SUFFICES ASSUME Inv, [Next]_vars PROVE Inv'
      OBVIOUS
    <2>1. CASE WriteField
      BY <2>1, WriteFieldInv
    <2>2. CASE Pack
      BY <2>2, PackInv
    <2>3. CASE Unpack
      BY <2>3, UnpackInv
    <2>4. CASE ReadField
      BY <2>4, ReadFieldInv
    <2>5. CASE Finished
      BY <2>5, SameInv DEF Finished
    <2>6. CASE UNCHANGED vars
      BY <2>6, SameInv
    <2> QED BY <2>1, <2>2, <2>3, <2>4, <2>5, <2>6 DEF Next
  <1> QED BY <1>1, <1>2, PTL DEF Spec

\* No two fields overlap, whatever their lengths, and the reader never runs
\* past what was written.
THEOREM FieldsApart == Spec => []TypeOK
  <1>1. Inv => TypeOK
    <2> SUFFICES ASSUME Inv PROVE TypeOK
      OBVIOUS
    <2>1. PICK off \in [0 .. written -> Nat] : Placed(off)
      BY DEF Inv, StreamInv
    <2>2. rpos \in 0 .. wpos
      BY <2>1 DEF Inv, StreamInv, Placed
    <2> QED BY <2>2 DEF TypeOK, Inv, StreamInv, NoOverlap
  <1> QED BY <1>1, Invariance, PTL

\* Whatever the message, the two sides agree on the order and on the length of
\* all fields, those whose length the reader learns on the way included.
THEOREM FieldsFound == Spec => []FieldsLineUp
  <1>1. Inv => FieldsLineUp
    BY NextIsThere DEF FieldsLineUp
  <1> QED BY <1>1, Invariance, PTL

\* Any number of indicators, one for each block, survives its bytes.
THEOREM IndicatorsKept == Spec => []IndicatorsSurvive
  <1>1. Inv => IndicatorsSurvive
    <2> SUFFICES ASSUME Inv, <<"indicator_bits", "">> \in DOMAIN got
                 PROVE  Unpacked(Len(m.indicator), got[<<"indicator_bits", "">>]) = m.indicator
      BY DEF IndicatorsSurvive
    <2>1. got[<<"indicator_bits", "">>] = Value(<<"indicator_bits", "">>)
      BY DEF Inv, ReadInv, HaveRead
    <2>2. got[<<"indicator_bits", "">>] = Packed(m.indicator)
      BY <2>1, Values, Zenon
    <2>3. m.indicator \in Seq({0, 1})
      BY MessageFacts DEF Inv, StreamInv
    <2> QED BY <2>2, <2>3, UnpackedPacked
  <1> QED BY <1>1, Invariance, PTL

\* A stream of any length has room for its frame.
THEOREM FrameInside == Spec => []FrameFits
  <1>1. Inv => FrameFits
    BY DEF Inv, ReadInv
  <1> QED BY <1>1, Invariance, PTL
=============================================================================
