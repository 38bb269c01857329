------------------------ MODULE BlockGeometryProofs ------------------------
(***************************************************************************)
(* Lemmas about the geometry of a pass, for every array and block size:    *)
(* extents, the order in which a walk reaches the elements, where its      *)
(* pointers stand, and what the slots of the prediction buffer stand for.  *)
(***************************************************************************)
EXTENDS BlockGeometry, TLAPS

\* A quotient times its divisor does not exceed the dividend.
LEMMA DivMul ==
  ASSUME NEW r \in Nat, NEW b \in Nat \ {0}, NEW a \in Nat, a <= r \div b
  PROVE  a * b <= r
  <1>1. b * (r \div b) <= r  OBVIOUS
  <1>2. a * b <= (r \div b) * b OBVIOUS
  <1> QED BY <1>1, <1>2

\* Every block has between 1 and block_size elements along each dimension:
\* rounding the number of blocks up leaves no empty block at the edge.
LEMMA ExtentRange ==
  ASSUME NEW size, NEW d \in Nat \ {0}, NEW b \in Nat,
         size.block_size \in Nat \ {0}, b < (d - 1) \div size.block_size + 1
  PROVE  Extent(size, b, d) \in 1 .. size.block_size
  <1> DEFINE bs == size.block_size
  <1>1. b \in Nat /\ bs \in Nat \ {0} /\ d - 1 \in Nat
    OBVIOUS
  <1>2. (d - 1) \div bs \in Nat
    BY <1>1
  <1>3. b <= (d - 1) \div bs
    BY <1>1, <1>2
  <1>4. b * bs <= d - 1
    BY <1>1, <1>3, DivMul
  <1>5. b * bs \in Nat /\ (b + 1) * bs = b * bs + bs
    BY <1>1
  <1> QED BY <1>1, <1>4, <1>5 DEF Extent

\* The fields of a size.
LEMMA SizeFacts ==
  ASSUME NEW size, IsSize(size)
  PROVE  /\ size.d1 \in Nat \ {0} /\ size.d2 \in Nat \ {0} /\ size.d3 \in Nat \ {0}
         /\ size.block_size \in Nat \ {0}
         /\ size.num_x = (size.d1 - 1) \div size.block_size + 1
         /\ size.num_y = (size.d2 - 1) \div size.block_size + 1
         /\ size.num_z = (size.d3 - 1) \div size.block_size + 1
         /\ size.num_x \in Nat \ {0} /\ size.num_y \in Nat \ {0} /\ size.num_z \in Nat \ {0}
         /\ size.dim0_offset = size.d2 * size.d3 /\ size.dim1_offset = size.d3
         /\ size.dim0_offset \in Nat /\ size.dim1_offset \in Nat
         /\ size.num_elements = size.d1 * size.d2 * size.d3
  <1>1. /\ \A f \in {"d1", "d2", "d3", "block_size"} : size[f] \in Nat \ {0}
        /\ size = DSize_3d(size.d1, size.d2, size.d3, size.block_size)
    BY DEF IsSize
  <1>2. /\ size.d1 \in Nat \ {0} /\ size.d2 \in Nat \ {0} /\ size.d3 \in Nat \ {0}
        /\ size.block_size \in Nat \ {0}
    BY <1>1
  <1>3. /\ size.num_x = (size.d1 - 1) \div size.block_size + 1
        /\ size.num_y = (size.d2 - 1) \div size.block_size + 1
        /\ size.num_z = (size.d3 - 1) \div size.block_size + 1
        /\ size.dim0_offset = size.d2 * size.d3
        /\ size.dim1_offset = size.d3
        /\ size.num_elements = size.d1 * size.d2 * size.d3
    BY <1>1 DEF DSize_3d
  <1>4. \A r, b \in Nat \ {0} : (r - 1) \div b + 1 \in Nat \ {0}
    OBVIOUS
  <1>5. size.d2 * size.d3 \in Nat
    BY <1>2
  <1> QED BY <1>2, <1>3, <1>4, <1>5

\* The current block is not empty in any dimension.
LEMMA BlockRange ==
  ASSUME NEW size, IsSize(size), NEW c \in Cursors,
         c.i < size.num_x, c.j < size.num_y, c.k < size.num_z
  PROVE  /\ SizeX(size, c) \in 1 .. size.block_size
         /\ SizeY(size, c) \in 1 .. size.block_size
         /\ SizeZ(size, c) \in 1 .. size.block_size
  <1>1. c.i \in Nat /\ c.j \in Nat /\ c.k \in Nat
    BY DEF Cursors
  <1> QED BY <1>1, SizeFacts, ExtentRange DEF SizeX, SizeY, SizeZ

\* The position of an element in its slice is one of the block_size^2 lanes.
LEMMA LaneRange ==
  ASSUME NEW sy \in Nat, NEW sz \in Nat, NEW bs \in Nat, NEW jj \in Nat, NEW kk \in Nat,
         jj < sy, kk < sz, sy <= bs, sz <= bs
  PROVE  jj * sz + kk \in 0 .. bs * bs - 1
  <1>1. jj * sz + kk < sy * sz
    <2>1. (jj + 1) * sz <= sy * sz  OBVIOUS
    <2> QED BY <2>1
  <1>2. sy * sz <= bs * sz  OBVIOUS
  <1>3. bs * sz <= bs * bs  OBVIOUS
  <1> QED BY <1>1, <1>2, <1>3

\* The same of the element under a cursor.
LEMMA LaneOfRange ==
  ASSUME NEW size, IsSize(size), NEW c \in Cursors, AtElement(size, c)
  PROVE  LaneOf(size, c) \in 0 .. size.block_size * size.block_size - 1
  <1> DEFINE sy == SizeY(size, c)
             sz == SizeZ(size, c)
             bs == size.block_size
  <1>1. c.jj \in Nat /\ c.kk \in Nat
    BY DEF Cursors
  <1>2. bs \in Nat /\ sy \in 1 .. bs /\ sz \in 1 .. bs
    BY BlockRange, SizeFacts DEF AtElement
  <1>3. c.jj < sy /\ c.kk < sz
    BY DEF AtElement
  <1> HIDE DEF sy, sz, bs
  <1>4. sy \in Nat /\ sz \in Nat /\ sy <= bs /\ sz <= bs
    BY <1>2
  <1>5. c.jj * sz + c.kk \in 0 .. bs * bs - 1
    BY <1>1, <1>2, <1>3, <1>4, LaneRange
  <1> QED BY <1>5 DEF LaneOf, sy, sz, bs

\* The position of its code is a position.
LEMMA TypeAtInt ==
  ASSUME NEW size, IsSize(size), NEW c \in Cursors, AtElement(size, c)
  PROVE  TypeAt(size, c) \in Nat
  <1>1. LaneOf(size, c) \in Nat /\ c.type \in Nat
    BY LaneOfRange, SizeFacts DEF Cursors
  <1> QED BY <1>1 DEF TypeAt

----------------------------------------------------------------------------
(* The walk.                                                               *)

\* The kernels' loops stay inside the block, and type_pos plus the position in
\* the slice goes up by one: codes are written without a gap.
LEMMA NextElementStays ==
  ASSUME NEW size, IsSize(size), NEW c \in Cursors, AtElement(size, c),
         ~LastInBlock(size, c)
  PROVE  /\ NextElement(size, c) \in Cursors
         /\ AtElement(size, NextElement(size, c))
         /\ TypeAt(size, NextElement(size, c)) = TypeAt(size, c) + 1
  <1> DEFINE n == NextElement(size, c)
             sx == SizeX(size, c)
             sy == SizeY(size, c)
             sz == SizeZ(size, c)
  <1>1. sx \in Nat \ {0} /\ sy \in Nat \ {0} /\ sz \in Nat \ {0}
    BY BlockRange, SizeFacts DEF AtElement
  <1>2. /\ c.ii \in Nat /\ c.jj \in Nat /\ c.kk \in Nat /\ c.type \in Nat
        /\ c.ii < sx /\ c.jj < sy /\ c.kk < sz
    BY DEF Cursors, AtElement
  <1>3. CASE c.kk + 1 < sz
    <2>1. n = [c EXCEPT !.kk = @ + 1]
      BY <1>3 DEF NextElement
    <2>2. n \in Cursors /\ SizeX(size, n) = sx /\ SizeY(size, n) = sy /\ SizeZ(size, n) = sz
      BY <2>1, <1>2 DEF Cursors, SizeX, SizeY, SizeZ
    <2> QED BY <2>1, <2>2, <1>1, <1>2, <1>3 DEF Cursors, AtElement, TypeAt, LaneOf
  <1>4. CASE ~(c.kk + 1 < sz) /\ c.jj + 1 < sy
    <2>1. n = [c EXCEPT !.jj = @ + 1, !.kk = 0]
      BY <1>4 DEF NextElement
    <2>a. n \in Cursors
      <3>1. c.jj + 1 \in Nat /\ 0 \in Nat
        BY <1>2
      <3> QED BY <2>1, <3>1, Zenon DEF Cursors
    <2>b. n.i = c.i /\ n.j = c.j /\ n.k = c.k
      BY <2>1 DEF Cursors
    <2>2. n \in Cursors /\ SizeX(size, n) = sx /\ SizeY(size, n) = sy /\ SizeZ(size, n) = sz
      BY <2>a, <2>b DEF SizeX, SizeY, SizeZ
    <2>3. AtElement(size, n)
      BY <2>1, <2>2, <1>1, <1>2, <1>4 DEF Cursors, AtElement
    <2>4. c.kk = sz - 1
      BY <1>1, <1>2, <1>4
    <2>5. (c.jj + 1) * sz = c.jj * sz + sz
      BY <1>1, <1>2
    <2>6. c.jj * sz \in Int
      BY <1>1, <1>2
    <2>7. n.type = c.type /\ n.jj = c.jj + 1 /\ n.kk = 0
      BY <2>1 DEF Cursors
    <2>8. TypeAt(size, n) = TypeAt(size, c) + 1
      BY <2>2, <2>4, <2>5, <2>6, <2>7, <1>1, <1>2 DEF TypeAt, LaneOf
    <2> QED BY <2>2, <2>3, <2>8
  <1>5. CASE ~(c.kk + 1 < sz) /\ ~(c.jj + 1 < sy)
    <2>1. n = [c EXCEPT !.ii = @ + 1, !.jj = 0, !.kk = 0, !.type = @ + sy * sz]
      BY <1>5 DEF NextElement
    <2>2. sy * sz \in Nat
      BY <1>1
    <2>a. n \in Cursors
      <3>1. c.ii + 1 \in Nat /\ 0 \in Nat /\ c.type + sy * sz \in Nat
        BY <2>2, <1>2
      <3> QED BY <2>1, <3>1, Zenon DEF Cursors
    <2>b. n.i = c.i /\ n.j = c.j /\ n.k = c.k
      BY <2>1 DEF Cursors
    <2>3. n \in Cursors /\ SizeX(size, n) = sx /\ SizeY(size, n) = sy /\ SizeZ(size, n) = sz
      BY <2>a, <2>b DEF SizeX, SizeY, SizeZ
    <2>4. c.kk = sz - 1 /\ c.jj = sy - 1 /\ c.ii # sx - 1
      BY <1>1, <1>2, <1>5 DEF LastInBlock
    <2>5. AtElement(size, n)
      BY <2>1, <2>3, <2>4, <1>1, <1>2 DEF Cursors, AtElement
    <2>6. n.type = c.type + sy * sz /\ n.jj = 0 /\ n.kk = 0
      BY <2>1 DEF Cursors
    <2>7. (sy - 1) * sz + (sz - 1) + 1 = sy * sz
      BY <1>1
    <2>8. TypeAt(size, n) = TypeAt(size, c) + 1
      BY <2>2, <2>3, <2>4, <2>6, <2>7, <1>1, <1>2 DEF TypeAt, LaneOf
    <2> QED BY <2>3, <2>5, <2>8
  <1> QED BY <1>3, <1>4, <1>5

\* The bumps after a block lead to the first element of a block of the array,
\* unless it was the last, and leave no gap in the codes.
LEMMA NextBlockStays ==
  ASSUME NEW size, IsSize(size), NEW layer \in Nat, NEW c \in Cursors, AtElement(size, c)
  PROVE  LET n == NextBlock(size, layer, c)
         IN  /\ n \in Cursors
             /\ ~LastBlock(size, c) => AtElement(size, n)
             /\ n.ii = 0 /\ n.jj = 0 /\ n.kk = 0
             /\ LastInBlock(size, c) => TypeAt(size, n) = TypeAt(size, c) + 1
  <1> DEFINE n == NextBlock(size, layer, c)
             bs == size.block_size
             sy == SizeY(size, c)
             sz == SizeZ(size, c)
  <1>1. bs \in Nat \ {0} /\ sy \in Nat \ {0} /\ sz \in Nat \ {0}
    BY BlockRange, SizeFacts DEF AtElement
  <1>2. /\ c.i \in Nat /\ c.j \in Nat /\ c.k \in Nat /\ c.type \in Nat
        /\ c.x \in Nat /\ c.y \in Nat /\ c.z \in Nat /\ c.buf \in Int
        /\ c.i < size.num_x /\ c.j < size.num_y /\ c.k < size.num_z
    BY DEF Cursors, AtElement
  <1>3. /\ size.num_x \in Nat \ {0} /\ size.num_y \in Nat \ {0} /\ size.num_z \in Nat \ {0}
    BY SizeFacts
  <1>4. /\ bs * size.dim0_offset \in Nat /\ bs * size.dim1_offset \in Nat
        /\ bs * BufferDim1(size, layer) - bs * size.num_z \in Int /\ sy * sz \in Nat
    BY <1>1, <1>3, SizeFacts DEF BufferDim1
  <1> DEFINE past == [c EXCEPT !.ii = 0, !.jj = 0, !.kk = 0, !.type = @ + sy * sz,
                               !.buf = @ + bs, !.z = @ + sz, !.k = @ + 1]
             y == c.y + bs * size.dim1_offset
             x == c.x + bs * size.dim0_offset
  <1>5. /\ past \in Cursors /\ past.ii = 0 /\ past.jj = 0 /\ past.kk = 0
        /\ past.type = c.type + sy * sz /\ past.buf \in Int
        /\ past.i = c.i /\ past.j = c.j /\ past.k = c.k + 1
    <2>1. /\ 0 \in Nat /\ c.type + sy * sz \in Nat /\ c.buf + bs \in Int
          /\ c.z + sz \in Nat /\ c.k + 1 \in Nat
      BY <1>1, <1>2, <1>4
    <2>2. past \in Cursors
      BY <2>1, Zenon DEF Cursors
    <2>3. /\ past.ii = 0 /\ past.jj = 0 /\ past.kk = 0
          /\ past.type = c.type + sy * sz /\ past.buf = c.buf + bs
          /\ past.i = c.i /\ past.j = c.j /\ past.k = c.k + 1
      BY DEF Cursors
    <2> QED BY <2>1, <2>2, <2>3
  <1>6. x \in Nat /\ y \in Nat
    BY <1>2, <1>4
  <1>7. /\ n \in Cursors
        /\ n.ii = 0 /\ n.jj = 0 /\ n.kk = 0 /\ n.type = c.type + sy * sz
        /\ n.j < size.num_y /\ n.k < size.num_z
        /\ ~LastBlock(size, c) => n.i < size.num_x
    <2>1. CASE ~LastRow(size, c)
      <3>1. n = past
        BY <2>1 DEF NextBlock
      <3> HIDE DEF past
      <3> QED BY <2>1, <3>1, <1>2, <1>3, <1>5 DEF LastRow
    <2>2. CASE LastRow(size, c) /\ ~LastPlane(size, c)
      <3> DEFINE b == bs * BufferDim1(size, layer) - bs * size.num_z
      <3>1. n = [past EXCEPT !.k = 0, !.j = @ + 1, !.y = y, !.z = y,
                             !.buf = @ + bs * BufferDim1(size, layer) - bs * size.num_z]
        BY <2>2 DEF NextBlock
      <3>2. past.buf + bs * BufferDim1(size, layer) - bs * size.num_z \in Int
        BY <1>1, <1>3, <1>5, SizeFacts DEF BufferDim1
      <3> HIDE DEF past, x, y
      <3>3. n \in Cursors
        <4>1. 0 \in Nat /\ past.j + 1 \in Nat
          BY <1>2, <1>5
        <4> QED BY <3>1, <3>2, <4>1, <1>5, <1>6, Zenon DEF Cursors
      <3>4. /\ n.ii = 0 /\ n.jj = 0 /\ n.kk = 0 /\ n.type = c.type + sy * sz
            /\ n.i = c.i /\ n.j = c.j + 1 /\ n.k = 0
        BY <3>1, <1>5 DEF Cursors
      <3> QED BY <2>2, <3>3, <3>4, <1>2, <1>3 DEF LastPlane
    <2>3. CASE LastPlane(size, c)
      <3>1. n = [past EXCEPT !.k = 0, !.j = 0, !.i = @ + 1,
                             !.x = x, !.y = x, !.z = x, !.buf = 0]
        BY <2>3 DEF NextBlock, LastPlane
      <3> HIDE DEF past, x, y
      <3>2. n \in Cursors
        <4>1. 0 \in Nat /\ 0 \in Int /\ past.i + 1 \in Nat
          BY <1>2, <1>5
        <4> QED BY <3>1, <4>1, <1>5, <1>6, Zenon DEF Cursors
      <3>3. /\ n.ii = 0 /\ n.jj = 0 /\ n.kk = 0 /\ n.type = c.type + sy * sz
            /\ n.i = c.i + 1 /\ n.j = 0 /\ n.k = 0
        BY <3>1, <1>5 DEF Cursors
      <3> QED BY <2>3, <3>2, <3>3, <1>2, <1>3 DEF LastBlock
    <2> QED BY <2>1, <2>2, <2>3
  <1> HIDE DEF past, x, y
  <1>8. ~LastBlock(size, c) => AtElement(size, n)
    <2>1. SUFFICES ASSUME ~LastBlock(size, c) PROVE AtElement(size, n)
      OBVIOUS
    <2>2. /\ SizeX(size, n) \in 1 .. bs /\ SizeY(size, n) \in 1 .. bs
          /\ SizeZ(size, n) \in 1 .. bs
      BY <2>1, <1>7, BlockRange
    <2> QED BY <2>1, <2>2, <1>1, <1>7 DEF AtElement
  <1>9. ASSUME LastInBlock(size, c) PROVE TypeAt(size, n) = TypeAt(size, c) + 1
    <2>1. c.jj = sy - 1 /\ c.kk = sz - 1
      BY <1>9 DEF LastInBlock
    <2>2. (sy - 1) * sz + (sz - 1) + 1 = sy * sz
      BY <1>1
    <2>3. TypeAt(size, c) + 1 = c.type + sy * sz
      BY <2>1, <2>2, <1>1, <1>2, <1>4 DEF TypeAt, LaneOf
    <2>4. SizeZ(size, n) \in Int
      <3>1. n.k \in Nat
        BY <1>7 DEF Cursors
      <3> QED BY <3>1, <1>7, <1>1, ExtentRange, SizeFacts DEF SizeZ
    <2>5. TypeAt(size, n) = c.type + sy * sz
      BY <2>4, <1>2, <1>4, <1>7 DEF TypeAt, LaneOf
    <2> QED BY <2>3, <2>5
  <1> HIDE DEF n
  <1> QED BY <1>7, <1>8, <1>9 DEF n

----------------------------------------------------------------------------
(* Arithmetic.                                                             *)

\* Multiplication keeps the order.
LEMMA MulLe ==
  ASSUME NEW a \in Nat, NEW b \in Nat, NEW d \in Nat, a <= b
  PROVE  a * d <= b * d
  OBVIOUS

\* Multiplication distributes over sums and differences.
LEMMA Distributes ==
  ASSUME NEW a \in Int, NEW b \in Int, NEW d \in Int
  PROVE  (a + b) * d = a * d + b * d /\ (a - b) * d = a * d - b * d /\ a * d \in Int
  OBVIOUS

\* A number is divided in one way only.
LEMMA Euclid ==
  ASSUME NEW n \in Nat \ {0}, NEW q \in Int, NEW r \in 0 .. n - 1,
         NEW q2 \in Int, NEW r2 \in 0 .. n - 1, q * n + r = q2 * n + r2
  PROVE  q = q2 /\ r = r2
  <1>1. (q - q2) * n = r2 - r
    <2>1. (q - q2) * n = q * n - q2 * n /\ q * n \in Int /\ q2 * n \in Int
      BY Distributes
    <2> QED BY <2>1
  <1>2. q - q2 >= 1 => (q - q2) * n >= n
    OBVIOUS
  <1>3. q - q2 <= -1 => (q - q2) * n <= -n
    OBVIOUS
  <1>4. q - q2 = 0
    BY <1>1, <1>2, <1>3
  <1>5. q = q2
    BY <1>4
  <1>6. r2 - r = 0
    BY <1>1, <1>4
  <1> QED BY <1>5, <1>6

\* Quotient and remainder give the number back.
LEMMA DivMod ==
  ASSUME NEW b \in Nat \ {0}, NEW x \in Nat
  PROVE  x \div b \in Nat /\ x % b \in 0 .. b - 1 /\ x = (x \div b) * b + (x % b)
  <1>1. x \div b \in Nat /\ x % b \in 0 .. b - 1 /\ x = b * (x \div b) + (x % b)
    OBVIOUS
  <1>2. \A q \in Nat : b * q = q * b
    OBVIOUS
  <1> QED BY <1>1, <1>2

\* The block and the place in it of a coordinate.
LEMMA BlockOf ==
  ASSUME NEW b \in Nat \ {0}, NEW q \in Nat, NEW r \in 0 .. b - 1
  PROVE  (q * b + r) \div b = q /\ (q * b + r) % b = r
  <1> DEFINE x == q * b + r
  <1>1. x \in Nat
    OBVIOUS
  <1>2. x \div b \in Nat /\ x % b \in 0 .. b - 1 /\ x = (x \div b) * b + (x % b)
    BY <1>1, DivMod
  <1>3. \A q2 \in Nat, r2 \in 0 .. b - 1 : q * b + r = q2 * b + r2 => q = q2 /\ r = r2
    BY Euclid
  <1>4. x = q * b + r
    OBVIOUS
  <1> HIDE DEF x
  <1>5. x \div b = q /\ x % b = r
    BY <1>2, <1>3, <1>4
  <1> QED BY <1>5 DEF x

\* The blocks along a dimension: all but the last are full, and the last ends
\* where the array does.
LEMMA Blocks ==
  ASSUME NEW b \in Nat \ {0}, NEW d \in Nat \ {0}, NEW k \in Nat,
         k < (d - 1) \div b + 1
  PROVE  /\ k + 1 < (d - 1) \div b + 1 => (k + 1) * b < d
         /\ k + 1 = (d - 1) \div b + 1 => (k + 1) * b >= d
         /\ (k + 1) * b = k * b + b /\ k * b \in Nat /\ k * b < d
  <1> DEFINE q == (d - 1) \div b
  <1>1. d - 1 \in Nat /\ q \in Nat /\ (d - 1) % b \in 0 .. b - 1 /\ d - 1 = q * b + ((d - 1) % b)
    BY DivMod
  <1>2. (k + 1) * b = k * b + b /\ k * b \in Nat /\ q * b \in Nat /\ (q + 1) * b = q * b + b
    BY <1>1, Distributes
  <1>3. k * b <= q * b
    BY <1>1, MulLe
  <1>4. k + 1 < q + 1 => (k + 1) * b <= q * b
    BY <1>1, MulLe
  <1> HIDE DEF q
  <1>5. k + 1 < q + 1 => (k + 1) * b < d
    BY <1>1, <1>2, <1>4
  <1>6. k + 1 = q + 1 => (k + 1) * b >= d
    <2>1. SUFFICES ASSUME k + 1 = q + 1 PROVE (k + 1) * b >= d
      OBVIOUS
    <2>2. (k + 1) * b = q * b + b
      BY <1>2, <2>1
    <2> QED BY <1>1, <1>2, <2>2
  <1>7. k * b < d
    BY <1>1, <1>2, <1>3
  <1> QED BY <1>2, <1>5, <1>6, <1>7 DEF q

\* A coordinate lies in one of the blocks, inside its extent.
LEMMA InBlock ==
  ASSUME NEW size, NEW b \in Nat \ {0}, NEW d \in Nat \ {0}, NEW x \in 0 .. d - 1
  PROVE  /\ x \div b \in Nat /\ x \div b < (d - 1) \div b + 1
         /\ x % b \in Nat /\ x % b < b /\ x = (x \div b) * b + (x % b)
         /\ (x \div b) * b + (x % b) < d
  <1>1. /\ x \div b \in Nat /\ x % b \in 0 .. b - 1 /\ x = (x \div b) * b + (x % b)
        /\ d - 1 \in Nat /\ (d - 1) \div b \in Nat /\ (d - 1) % b \in 0 .. b - 1
        /\ d - 1 = ((d - 1) \div b) * b + ((d - 1) % b)
    <2>1. x \in Nat /\ d - 1 \in Nat
      OBVIOUS
    <2>2. x \div b \in Nat /\ x % b \in 0 .. b - 1 /\ x = (x \div b) * b + (x % b)
      BY <2>1, DivMod
    <2> DEFINE y == d - 1
    <2> HIDE DEF y
    <2>3. y \in Nat => y \div b \in Nat /\ y % b \in 0 .. b - 1 /\ y = (y \div b) * b + (y % b)
      BY DivMod
    <2> QED BY <2>1, <2>2, <2>3 DEF y
  <1>2. x \div b < (d - 1) \div b + 1
    <2> DEFINE q == x \div b
               q2 == (d - 1) \div b
    <2>1. q \in Nat /\ q2 \in Nat
      BY <1>1
    <2>2. q >= q2 + 1 => q * b >= (q2 + 1) * b
      BY <2>1, MulLe
    <2>3. (q2 + 1) * b = q2 * b + b /\ q * b \in Int /\ q2 * b \in Int
      BY <2>1, Distributes
    <2>4. q * b <= x /\ q2 * b + b > d - 1
      <3> HIDE DEF q, q2
      <3>1. x = q * b + (x % b) /\ d - 1 = q2 * b + ((d - 1) % b)
        BY <1>1 DEF q, q2
      <3> QED BY <1>1, <2>3, <3>1
    <2> HIDE DEF q, q2
    <2>5. ~(q >= q2 + 1)
      BY <2>1, <2>2, <2>3, <2>4
    <2> QED BY <2>1, <2>5 DEF q, q2
  <1> QED BY <1>1, <1>2

----------------------------------------------------------------------------
(* The order of the walk.                                                  *)

InArray(size, x, y, z) ==
  x \in 0 .. size.d1 - 1 /\ y \in 0 .. size.d2 - 1 /\ z \in 0 .. size.d3 - 1
Blk(size, x) == x \div size.block_size
Off(size, x) == x % size.block_size

\* The element at x, y, z comes before, or is, that under cursor d.
Before(size, d, x, y, z) ==
  \/ Blk(size, x) < d.i
  \/ /\ Blk(size, x) = d.i
     /\ \/ Blk(size, y) < d.j
        \/ /\ Blk(size, y) = d.j
           /\ \/ Blk(size, z) < d.k
              \/ /\ Blk(size, z) = d.k
                 /\ \/ Off(size, x) < d.ii
                    \/ /\ Off(size, x) = d.ii
                       /\ \/ Off(size, y) < d.jj
                          \/ Off(size, y) = d.jj /\ Off(size, z) < d.kk
At(size, d, x, y, z) ==
  /\ Blk(size, x) = d.i /\ Blk(size, y) = d.j /\ Blk(size, z) = d.k
  /\ Off(size, x) = d.ii /\ Off(size, y) = d.jj /\ Off(size, z) = d.kk

\* What an element in the array is known by.
LEMMA Position ==
  ASSUME NEW size, IsSize(size), NEW x, NEW y, NEW z, InArray(size, x, y, z)
  PROVE  /\ Blk(size, x) \in Nat /\ Blk(size, y) \in Nat /\ Blk(size, z) \in Nat
         /\ Blk(size, x) < size.num_x /\ Blk(size, y) < size.num_y
         /\ Blk(size, z) < size.num_z
         /\ Off(size, x) \in Nat /\ Off(size, y) \in Nat /\ Off(size, z) \in Nat
         /\ Off(size, x) < size.block_size /\ Off(size, y) < size.block_size
         /\ Off(size, z) < size.block_size
         /\ x = Blk(size, x) * size.block_size + Off(size, x)
         /\ y = Blk(size, y) * size.block_size + Off(size, y)
         /\ z = Blk(size, z) * size.block_size + Off(size, z)
         /\ Off(size, x) < Extent(size, Blk(size, x), size.d1)
         /\ Off(size, y) < Extent(size, Blk(size, y), size.d2)
         /\ Off(size, z) < Extent(size, Blk(size, z), size.d3)
  <1>1. ASSUME NEW d \in Nat \ {0}, NEW v \in 0 .. d - 1
        PROVE  /\ Blk(size, v) \in Nat /\ Blk(size, v) < (d - 1) \div size.block_size + 1
               /\ Off(size, v) \in Nat /\ Off(size, v) < size.block_size
               /\ v = Blk(size, v) * size.block_size + Off(size, v)
               /\ Off(size, v) < Extent(size, Blk(size, v), d)
    <2> DEFINE b == size.block_size
    <2>1. b \in Nat \ {0}
      BY SizeFacts
    <2>2. /\ v \div b \in Nat /\ v \div b < (d - 1) \div b + 1
          /\ v % b \in Nat /\ v % b < b /\ v = (v \div b) * b + (v % b)
          /\ (v \div b) * b + (v % b) < d
      BY <2>1, InBlock
    <2>3. /\ Blk(size, v) \in Nat /\ Blk(size, v) < (d - 1) \div b + 1
          /\ Off(size, v) \in Nat /\ Off(size, v) < b
          /\ v = Blk(size, v) * b + Off(size, v) /\ Blk(size, v) * b + Off(size, v) < d
      BY <2>2 DEF Blk, Off
    <2>4. Blk(size, v) * b \in Int
      BY <2>1, <2>3, Distributes
    <2>5. Off(size, v) < Extent(size, Blk(size, v), d)
      <3> HIDE DEF b
      <3>1. Off(size, v) < b /\ Off(size, v) < d - Blk(size, v) * b
        BY <2>3, <2>4
      <3> QED BY <3>1 DEF Extent, b
    <2> QED BY <2>3, <2>5
  <1>2. /\ size.d1 \in Nat \ {0} /\ size.d2 \in Nat \ {0} /\ size.d3 \in Nat \ {0}
        /\ size.num_x = (size.d1 - 1) \div size.block_size + 1
        /\ size.num_y = (size.d2 - 1) \div size.block_size + 1
        /\ size.num_z = (size.d3 - 1) \div size.block_size + 1
    BY SizeFacts
  <1>3. x \in 0 .. size.d1 - 1 /\ y \in 0 .. size.d2 - 1 /\ z \in 0 .. size.d3 - 1
    BY DEF InArray
  <1> QED BY <1>1, <1>2, <1>3

\* What the cursor is known by.
LEMMA CursorFacts ==
  ASSUME NEW size, IsSize(size), NEW d \in Cursors, AtElement(size, d)
  PROVE  /\ d.i \in Nat /\ d.j \in Nat /\ d.k \in Nat
         /\ d.ii \in Nat /\ d.jj \in Nat /\ d.kk \in Nat
         /\ d.x \in Nat /\ d.y \in Nat /\ d.z \in Nat /\ d.buf \in Int /\ d.type \in Nat
         /\ d.i < size.num_x /\ d.j < size.num_y /\ d.k < size.num_z
         /\ d.ii < SizeX(size, d) /\ d.jj < SizeY(size, d) /\ d.kk < SizeZ(size, d)
         /\ SizeX(size, d) \in 1 .. size.block_size
         /\ SizeY(size, d) \in 1 .. size.block_size
         /\ SizeZ(size, d) \in 1 .. size.block_size
         /\ size.block_size \in Nat \ {0}
  BY BlockRange, SizeFacts DEF Cursors, AtElement

\* The three ways on inside a block.
LEMMA NextElementCases ==
  ASSUME NEW size, NEW d \in Cursors
  PROVE  LET n == NextElement(size, d)
         IN  /\ n.i = d.i /\ n.j = d.j /\ n.k = d.k
             /\ n.x = d.x /\ n.y = d.y /\ n.z = d.z /\ n.buf = d.buf
             /\ \/ /\ d.kk + 1 < SizeZ(size, d)
                   /\ n.ii = d.ii /\ n.jj = d.jj /\ n.kk = d.kk + 1 /\ n.type = d.type
                \/ /\ ~(d.kk + 1 < SizeZ(size, d)) /\ d.jj + 1 < SizeY(size, d)
                   /\ n.ii = d.ii /\ n.jj = d.jj + 1 /\ n.kk = 0 /\ n.type = d.type
                \/ /\ ~(d.kk + 1 < SizeZ(size, d)) /\ ~(d.jj + 1 < SizeY(size, d))
                   /\ n.ii = d.ii + 1 /\ n.jj = 0 /\ n.kk = 0
                   /\ n.type = d.type + SizeY(size, d) * SizeZ(size, d)
  <1> DEFINE n == NextElement(size, d)
  <1>1. DOMAIN d = {"i", "j", "k", "ii", "jj", "kk", "x", "y", "z", "buf", "type"}
    BY DEF Cursors
  <1>2. CASE d.kk + 1 < SizeZ(size, d)
    <2>1. n = [d EXCEPT !.kk = @ + 1]
      BY <1>2 DEF NextElement
    <2> HIDE DEF n
    <2> QED BY <1>1, <1>2, <2>1 DEF n
  <1>3. CASE ~(d.kk + 1 < SizeZ(size, d)) /\ d.jj + 1 < SizeY(size, d)
    <2>1. n = [d EXCEPT !.jj = @ + 1, !.kk = 0]
      BY <1>3 DEF NextElement
    <2> HIDE DEF n
    <2> QED BY <1>1, <1>3, <2>1 DEF n
  <1>4. CASE ~(d.kk + 1 < SizeZ(size, d)) /\ ~(d.jj + 1 < SizeY(size, d))
    <2>1. n = [d EXCEPT !.ii = @ + 1, !.jj = 0, !.kk = 0,
                        !.type = @ + SizeY(size, d) * SizeZ(size, d)]
      BY <1>4 DEF NextElement
    <2> HIDE DEF n
    <2> QED BY <1>1, <1>4, <2>1 DEF n
  <1> QED BY <1>2, <1>3, <1>4

\* The three ways on after a block.
LEMMA NextBlockCases ==
  ASSUME NEW size, NEW layer, NEW d \in Cursors
  PROVE  LET n == NextBlock(size, layer, d)
             bs == size.block_size
             type == d.type + SizeY(size, d) * SizeZ(size, d)
         IN  /\ n.ii = 0 /\ n.jj = 0 /\ n.kk = 0 /\ n.type = type
             /\ \/ /\ ~LastRow(size, d)
                   /\ n.i = d.i /\ n.j = d.j /\ n.k = d.k + 1
                   /\ n.x = d.x /\ n.y = d.y /\ n.z = d.z + SizeZ(size, d)
                   /\ n.buf = d.buf + bs
                \/ /\ LastRow(size, d) /\ ~LastPlane(size, d)
                   /\ n.i = d.i /\ n.j = d.j + 1 /\ n.k = 0
                   /\ n.x = d.x /\ n.y = d.y + bs * size.dim1_offset
                   /\ n.z = d.y + bs * size.dim1_offset
                   /\ n.buf = d.buf + bs + bs * BufferDim1(size, layer) - bs * size.num_z
                \/ /\ LastPlane(size, d)
                   /\ n.i = d.i + 1 /\ n.j = 0 /\ n.k = 0
                   /\ n.x = d.x + bs * size.dim0_offset
                   /\ n.y = d.x + bs * size.dim0_offset /\ n.z = d.x + bs * size.dim0_offset
                   /\ n.buf = 0
  <1> DEFINE n == NextBlock(size, layer, d)
             bs == size.block_size
             past == [d EXCEPT !.ii = 0, !.jj = 0, !.kk = 0,
                               !.type = @ + SizeY(size, d) * SizeZ(size, d),
                               !.buf = @ + bs, !.z = @ + SizeZ(size, d), !.k = @ + 1]
             y == d.y + bs * size.dim1_offset
             x == d.x + bs * size.dim0_offset
  <1>1. DOMAIN d = {"i", "j", "k", "ii", "jj", "kk", "x", "y", "z", "buf", "type"}
    BY DEF Cursors
  <1>2. /\ DOMAIN past = DOMAIN d
        /\ past.ii = 0 /\ past.jj = 0 /\ past.kk = 0
        /\ past.type = d.type + SizeY(size, d) * SizeZ(size, d)
        /\ past.buf = d.buf + bs /\ past.z = d.z + SizeZ(size, d) /\ past.k = d.k + 1
        /\ past.i = d.i /\ past.j = d.j /\ past.x = d.x /\ past.y = d.y
    BY <1>1
  <1>3. CASE ~LastRow(size, d)
    <2>1. n = past
      BY <1>3 DEF NextBlock
    <2> HIDE DEF n, past
    <2> QED BY <1>2, <1>3, <2>1 DEF n
  <1>4. CASE LastRow(size, d) /\ ~LastPlane(size, d)
    <2>1. n = [past EXCEPT !.k = 0, !.j = @ + 1, !.y = y, !.z = y,
                           !.buf = @ + bs * BufferDim1(size, layer) - bs * size.num_z]
      BY <1>4 DEF NextBlock
    <2> HIDE DEF n, past
    <2> QED BY <1>1, <1>2, <1>4, <2>1 DEF n
  <1>5. CASE LastPlane(size, d)
    <2>1. n = [past EXCEPT !.k = 0, !.j = 0, !.i = @ + 1,
                           !.x = x, !.y = x, !.z = x, !.buf = 0]
      BY <1>5 DEF NextBlock, LastPlane
    <2> HIDE DEF n, past
    <2> QED BY <1>1, <1>2, <1>5, <2>1 DEF n
  <1> QED BY <1>3, <1>4, <1>5

\* Nothing comes before the first element.
LEMMA NothingFirst ==
  ASSUME NEW size, IsSize(size), NEW x, NEW y, NEW z, InArray(size, x, y, z)
  PROVE  ~Before(size, CursorStart, x, y, z)
  BY Position DEF Before, CursorStart

\* Inside a block the walk passes the element it leaves and no other.
LEMMA BeforeNextElement ==
  ASSUME NEW size, IsSize(size), NEW d \in Cursors, AtElement(size, d),
         ~LastInBlock(size, d),
         NEW x, NEW y, NEW z, InArray(size, x, y, z)
  PROVE  Before(size, NextElement(size, d), x, y, z)
            <=> Before(size, d, x, y, z) \/ At(size, d, x, y, z)
  <1> DEFINE n == NextElement(size, d)
             sy == SizeY(size, d)
             sz == SizeZ(size, d)
  <1>1. /\ d.ii \in Nat /\ d.jj \in Nat /\ d.kk \in Nat
        /\ d.jj < sy /\ d.kk < sz /\ sy \in Nat /\ sz \in Nat
        /\ d.i \in Nat /\ d.j \in Nat /\ d.k \in Nat
    BY CursorFacts
  <1>2. /\ Blk(size, x) \in Nat /\ Blk(size, y) \in Nat /\ Blk(size, z) \in Nat
        /\ Off(size, x) \in Nat /\ Off(size, y) \in Nat /\ Off(size, z) \in Nat
        /\ Blk(size, y) = d.j => Off(size, y) < sy
        /\ Blk(size, z) = d.k => Off(size, z) < sz
    BY Position DEF SizeY, SizeZ
  <1>3. /\ n.i = d.i /\ n.j = d.j /\ n.k = d.k
        /\ \/ d.kk + 1 < sz /\ n.ii = d.ii /\ n.jj = d.jj /\ n.kk = d.kk + 1
           \/ /\ ~(d.kk + 1 < sz) /\ d.jj + 1 < sy
              /\ n.ii = d.ii /\ n.jj = d.jj + 1 /\ n.kk = 0
           \/ /\ ~(d.kk + 1 < sz) /\ ~(d.jj + 1 < sy)
              /\ n.ii = d.ii + 1 /\ n.jj = 0 /\ n.kk = 0
    BY NextElementCases
  <1> HIDE DEF n, sy, sz
  <1>4. Before(size, n, x, y, z)
            <=> Before(size, d, x, y, z) \/ At(size, d, x, y, z)
    <2>1. CASE d.kk + 1 < sz /\ n.ii = d.ii /\ n.jj = d.jj /\ n.kk = d.kk + 1
      BY <2>1, <1>1, <1>2, <1>3 DEF Before, At
    <2>2. CASE /\ ~(d.kk + 1 < sz) /\ d.jj + 1 < sy
               /\ n.ii = d.ii /\ n.jj = d.jj + 1 /\ n.kk = 0
      BY <2>2, <1>1, <1>2, <1>3 DEF Before, At
    <2>3. CASE /\ ~(d.kk + 1 < sz) /\ ~(d.jj + 1 < sy)
               /\ n.ii = d.ii + 1 /\ n.jj = 0 /\ n.kk = 0
      BY <2>3, <1>1, <1>2, <1>3 DEF Before, At
    <2> QED BY <1>3, <2>1, <2>2, <2>3
  <1> QED BY <1>4 DEF n

\* Leaving a block, it passes the last element of the block and no other.
LEMMA BeforeNextBlock ==
  ASSUME NEW size, NEW layer, IsSize(size), NEW d \in Cursors, AtElement(size, d),
         LastInBlock(size, d),
         NEW x, NEW y, NEW z, InArray(size, x, y, z)
  PROVE  Before(size, NextBlock(size, layer, d), x, y, z)
            <=> Before(size, d, x, y, z) \/ At(size, d, x, y, z)
  <1> DEFINE n == NextBlock(size, layer, d)
             sx == SizeX(size, d)
             sy == SizeY(size, d)
             sz == SizeZ(size, d)
             nx == size.num_x
             ny == size.num_y
             nz == size.num_z
  <1>1. /\ sx \in Nat /\ sy \in Nat /\ sz \in Nat
        /\ d.ii = sx - 1 /\ d.jj = sy - 1 /\ d.kk = sz - 1
        /\ d.i \in Nat /\ d.j \in Nat /\ d.k \in Nat /\ d.k < nz /\ d.j < ny /\ d.i < nx
        /\ nx \in Nat /\ ny \in Nat /\ nz \in Nat
    BY CursorFacts, SizeFacts DEF LastInBlock
  <1>2. /\ Blk(size, x) \in Nat /\ Blk(size, y) \in Nat /\ Blk(size, z) \in Nat
        /\ Off(size, x) \in Nat /\ Off(size, y) \in Nat /\ Off(size, z) \in Nat
        /\ Blk(size, x) < nx /\ Blk(size, y) < ny /\ Blk(size, z) < nz
        /\ Blk(size, x) = d.i => Off(size, x) < sx
        /\ Blk(size, y) = d.j => Off(size, y) < sy
        /\ Blk(size, z) = d.k => Off(size, z) < sz
    BY Position DEF SizeX, SizeY, SizeZ
  <1>3. /\ n.ii = 0 /\ n.jj = 0 /\ n.kk = 0
        /\ \/ d.k + 1 # nz /\ n.i = d.i /\ n.j = d.j /\ n.k = d.k + 1
           \/ d.k + 1 = nz /\ d.j + 1 # ny /\ n.i = d.i /\ n.j = d.j + 1 /\ n.k = 0
           \/ d.k + 1 = nz /\ d.j + 1 = ny /\ n.i = d.i + 1 /\ n.j = 0 /\ n.k = 0
    BY NextBlockCases DEF LastRow, LastPlane
  <1> HIDE DEF n, sx, sy, sz, nx, ny, nz
  <1>4. Before(size, d, x, y, z) \/ At(size, d, x, y, z)
          <=> \/ Blk(size, x) < d.i
              \/ Blk(size, x) = d.i /\ (Blk(size, y) < d.j \/ (Blk(size, y) = d.j /\ Blk(size, z) <= d.k))
    BY <1>1, <1>2 DEF Before, At
  <1>5. Before(size, n, x, y, z)
          <=> \/ Blk(size, x) < n.i
              \/ Blk(size, x) = n.i /\ (Blk(size, y) < n.j \/ (Blk(size, y) = n.j /\ Blk(size, z) < n.k))
    BY <1>2, <1>3 DEF Before
  <1>6. Before(size, n, x, y, z)
            <=> Before(size, d, x, y, z) \/ At(size, d, x, y, z)
    <2>1. CASE d.k + 1 # nz /\ n.i = d.i /\ n.j = d.j /\ n.k = d.k + 1
      BY <2>1, <1>1, <1>2, <1>4, <1>5
    <2>2. CASE d.k + 1 = nz /\ d.j + 1 # ny /\ n.i = d.i /\ n.j = d.j + 1 /\ n.k = 0
      BY <2>2, <1>1, <1>2, <1>4, <1>5
    <2>3. CASE d.k + 1 = nz /\ d.j + 1 = ny /\ n.i = d.i + 1 /\ n.j = 0 /\ n.k = 0
      BY <2>3, <1>1, <1>2, <1>4, <1>5
    <2> QED BY <1>3, <2>1, <2>2, <2>3
  <1> QED BY <1>6 DEF n

\* Once all the planes of blocks are walked, so are all the elements.
LEMMA AllBefore ==
  ASSUME NEW size, IsSize(size), NEW d, d.i = size.num_x, NEW x, NEW y, NEW z,
         InArray(size, x, y, z)
  PROVE  Before(size, d, x, y, z)
  BY Position DEF Before

\* e places back from place r of block q.
Back(size, q, r, e) == q * size.block_size + r - e
Precedes(size, v, q, r, e) ==
  /\ Blk(size, v) \in Nat /\ Off(size, v) \in Nat
  /\ Blk(size, v) < q \/ (Blk(size, v) = q /\ Off(size, v) = r - e)

\* An element before the one under the cursor in one dimension lies in an
\* earlier block or at an earlier place of the same block.
LEMMA Earlier ==
  ASSUME NEW size, IsSize(size), NEW q \in Nat, NEW r \in Nat, r < size.block_size,
         NEW e \in Nat, Back(size, q, r, e) \in Nat
  PROVE  Precedes(size, Back(size, q, r, e), q, r, e)
  <1> DEFINE v == Back(size, q, r, e)
             b == size.block_size
             p == v \div b
             s == v % b
             f == q * b
  <1>1. b \in Nat \ {0}
    BY SizeFacts
  <1>2. p \in Nat /\ s \in 0 .. b - 1 /\ v = p * b + s
    BY <1>1, DivMod
  <1>3. f \in Nat /\ p * b \in Nat /\ (q + 1) * b = f + b /\ v = f + r - e /\ r < b
    <2>1. v = f + r - e /\ r < b
      BY DEF Back
    <2>2. (q + 1) * b = q * b + 1 * b /\ 1 * b = b /\ q * b \in Nat
      <3> HIDE DEF b
      <3> QED BY <1>1, Distributes
    <2>3. p * b \in Nat
      <3> HIDE DEF b, p
      <3> QED BY <1>1, <1>2
    <2> QED BY <2>1, <2>2, <2>3
  <1> HIDE DEF b, p, s, f, v
  <1>4. p >= q + 1 => p * b >= (q + 1) * b
    BY <1>1, <1>2, MulLe
  <1>5. ~(p >= q + 1)
    BY <1>1, <1>2, <1>3, <1>4
  <1>6. p = q => s = r - e
    <2>1. p = q => p * b = f
      BY DEF f
    <2> QED BY <1>1, <1>2, <1>3, <2>1
  <1>7. p \in Nat /\ s \in Nat /\ (p < q \/ (p = q /\ s = r - e))
    BY <1>1, <1>2, <1>5, <1>6
  <1> QED BY <1>7 DEF Precedes, Blk, Off, p, s, b, v

----------------------------------------------------------------------------
(* The running pointers.                                                   *)

\* The row-major address of an element.
Addr(size, x, y, z) == (x * size.d2 + y) * size.d3 + z

\* What the bumps have made of the pointers at the first element of a block.
Pointers(size, layer, d) ==
  LET bs == size.block_size
  IN  /\ d.x = (d.i * bs) * size.dim0_offset
      /\ d.y = d.x + (d.j * bs) * size.dim1_offset
      /\ d.z = d.y + d.k * bs
      /\ d.buf = (d.j * bs) * BufferDim1(size, layer) + d.k * bs

\* The bumps keep the pointers there.
LEMMA PointersKept ==
  ASSUME NEW size, NEW layer, IsSize(size), layer \in Nat, NEW d \in Cursors,
         AtElement(size, d), Pointers(size, layer, d)
  PROVE  /\ Pointers(size, layer, NextElement(size, d))
         /\ Pointers(size, layer, NextBlock(size, layer, d))
  <1> DEFINE bs == size.block_size
             D0 == size.dim0_offset
             D1 == size.dim1_offset
             B1 == BufferDim1(size, layer)
             nz == size.num_z
  <1>1. /\ bs \in Nat \ {0} /\ D0 \in Nat /\ D1 \in Nat /\ B1 \in Nat /\ nz \in Nat
        /\ d.i \in Nat /\ d.j \in Nat /\ d.k \in Nat
    BY SizeFacts, CursorFacts DEF BufferDim1
  <1>2. /\ d.x = (d.i * bs) * D0 /\ d.y = d.x + (d.j * bs) * D1
        /\ d.z = d.y + d.k * bs /\ d.buf = (d.j * bs) * B1 + d.k * bs
    BY DEF Pointers
  <1>3. Pointers(size, layer, NextElement(size, d))
    BY <1>2, NextElementCases DEF Pointers
  <1>4. Pointers(size, layer, NextBlock(size, layer, d))
    <2> DEFINE n == NextBlock(size, layer, d)
    <2>1. \/ /\ d.k + 1 # nz
             /\ n.i = d.i /\ n.j = d.j /\ n.k = d.k + 1
             /\ n.x = d.x /\ n.y = d.y /\ n.z = d.z + SizeZ(size, d)
             /\ n.buf = d.buf + bs
          \/ /\ d.k + 1 = nz
             /\ n.i = d.i /\ n.j = d.j + 1 /\ n.k = 0
             /\ n.x = d.x /\ n.y = d.y + bs * D1
             /\ n.z = d.y + bs * D1
             /\ n.buf = d.buf + bs + bs * B1 - bs * nz
          \/ /\ n.i = d.i + 1 /\ n.j = 0 /\ n.k = 0
             /\ n.x = d.x + bs * D0
             /\ n.y = d.x + bs * D0 /\ n.z = d.x + bs * D0
             /\ n.buf = 0
      BY NextBlockCases DEF LastRow, LastPlane
    <2>2. d.k + 1 # nz => SizeZ(size, d) = bs
      <3>1. d.k < nz /\ nz = (size.d3 - 1) \div bs + 1 /\ size.d3 \in Nat \ {0}
        BY SizeFacts DEF AtElement
      <3>2. d.k + 1 < nz => (d.k + 1) * bs < size.d3
        BY <1>1, <3>1, Blocks
      <3>3. d.k + 1 # nz => d.k + 1 < nz
        BY <1>1, <3>1
      <3> QED BY <3>2, <3>3 DEF SizeZ, Extent
    <2>3. /\ (d.i + 1) * bs = d.i * bs + bs /\ (d.j + 1) * bs = d.j * bs + bs
          /\ (d.k + 1) * bs = d.k * bs + bs
          /\ d.i * bs \in Nat /\ d.j * bs \in Nat /\ d.k * bs \in Nat
      BY <1>1, Distributes
    <2>4. /\ (d.i * bs + bs) * D0 = (d.i * bs) * D0 + bs * D0
          /\ (d.j * bs + bs) * D1 = (d.j * bs) * D1 + bs * D1
          /\ (d.j * bs + bs) * B1 = (d.j * bs) * B1 + bs * B1
          /\ (d.i * bs) * D0 \in Nat /\ (d.j * bs) * D1 \in Nat /\ (d.j * bs) * B1 \in Nat
          /\ bs * D0 \in Nat /\ bs * D1 \in Nat /\ bs * B1 \in Nat
      BY <1>1, <2>3, Distributes
    <2>5. bs * nz = nz * bs /\ 0 * bs = 0 /\ 0 * D0 = 0 /\ 0 * D1 = 0 /\ 0 * B1 = 0
      BY <1>1
    <2> HIDE DEF bs, D0, D1, B1, nz, n
    <2>6. CASE /\ d.k + 1 # nz
               /\ n.i = d.i /\ n.j = d.j /\ n.k = d.k + 1
               /\ n.x = d.x /\ n.y = d.y /\ n.z = d.z + SizeZ(size, d)
               /\ n.buf = d.buf + bs
      <3>1. /\ n.x = (n.i * bs) * D0 /\ n.y = n.x + (n.j * bs) * D1
            /\ n.z = n.y + n.k * bs /\ n.buf = (n.j * bs) * B1 + n.k * bs
        BY <2>6, <2>2, <2>3, <2>4, <1>1, <1>2
      <3> QED BY <3>1 DEF Pointers, bs, D0, D1, B1, nz, n
    <2>7. CASE /\ d.k + 1 = nz
               /\ n.i = d.i /\ n.j = d.j + 1 /\ n.k = 0
               /\ n.x = d.x /\ n.y = d.y + bs * D1
               /\ n.z = d.y + bs * D1
               /\ n.buf = d.buf + bs + bs * B1 - bs * nz
      <3>1. n.buf = (n.j * bs) * B1 + n.k * bs
        <4>1. bs * nz = d.k * bs + bs
          BY <2>3, <2>5, <2>7
        <4>2. n.buf = (d.j * bs) * B1 + bs * B1
          <5> DEFINE f == bs * B1
                     g == d.k * bs
                     h == (d.j * bs) * B1
                     m == bs * nz
          <5>1. m = g + bs /\ n.buf = d.buf + bs + f - m /\ d.buf = h + g
            BY <4>1, <2>7, <1>2
          <5>2. f \in Nat /\ g \in Nat /\ h \in Nat /\ bs \in Nat
            BY <1>1, <2>3, <2>4
          <5> HIDE DEF f, g, h, m
          <5>3. n.buf = h + f
            BY <5>1, <5>2
          <5> QED BY <5>3 DEF f, h
        <4>3. n.j * bs = d.j * bs + bs /\ n.k * bs = 0
          BY <2>7, <2>3, <2>5
        <4>4. (n.j * bs) * B1 = (d.j * bs) * B1 + bs * B1
          BY <4>3, <2>4
        <4> QED BY <4>2, <4>3, <4>4, <2>4
      <3>2. /\ n.x = (n.i * bs) * D0 /\ n.y = n.x + (n.j * bs) * D1
            /\ n.z = n.y + n.k * bs
        BY <2>7, <2>3, <2>4, <2>5, <1>1, <1>2
      <3> QED BY <3>1, <3>2 DEF Pointers, bs, D0, D1, B1, nz, n
    <2>8. CASE /\ n.i = d.i + 1 /\ n.j = 0 /\ n.k = 0
               /\ n.x = d.x + bs * D0
               /\ n.y = d.x + bs * D0 /\ n.z = d.x + bs * D0
               /\ n.buf = 0
      <3>1. /\ n.x = (n.i * bs) * D0 /\ n.y = n.x + (n.j * bs) * D1
            /\ n.z = n.y + n.k * bs /\ n.buf = (n.j * bs) * B1 + n.k * bs
        BY <2>8, <2>3, <2>4, <2>5, <1>1, <1>2
      <3> QED BY <3>1 DEF Pointers, bs, D0, D1, B1, nz, n
    <2> QED BY <2>1, <2>6, <2>7, <2>8
  <1> QED BY <1>3, <1>4

\* So an element is read at its row-major address,
LEMMA ReadsAddress ==
  ASSUME NEW size, NEW layer, IsSize(size), layer \in Nat, NEW d \in Cursors,
         AtElement(size, d), Pointers(size, layer, d)
  PROVE  DataAt(size, d) = Addr(size, d.i * size.block_size + d.ii,
                                d.j * size.block_size + d.jj,
                                d.k * size.block_size + d.kk)
  <1> DEFINE bs == size.block_size
             d2 == size.d2
             d3 == size.d3
             p  == d.i * bs
             q  == d.j * bs
             r  == d.k * bs
  <1>1. /\ d2 \in Nat /\ d3 \in Nat /\ p \in Nat /\ q \in Nat /\ r \in Nat
        /\ d.ii \in Nat /\ d.jj \in Nat /\ d.kk \in Nat
        /\ size.dim0_offset = d2 * d3 /\ size.dim1_offset = d3
    BY SizeFacts, CursorFacts
  <1>2. d.z = p * (d2 * d3) + q * d3 + r
    BY <1>1 DEF Pointers
  <1>3. DataAt(size, d) = p * (d2 * d3) + q * d3 + r + d.ii * (d2 * d3) + d.jj * d3 + d.kk
    BY <1>1, <1>2 DEF DataAt
  <1> HIDE DEF d2, d3, p, q, r
  <1>4. /\ (p + d.ii) * d2 = p * d2 + d.ii * d2 /\ p * d2 \in Nat /\ d.ii * d2 \in Nat
        /\ p * (d2 * d3) = (p * d2) * d3 /\ d.ii * (d2 * d3) = (d.ii * d2) * d3
    BY <1>1
  <1>5. ((p + d.ii) * d2 + (q + d.jj)) * d3
          = (p * d2) * d3 + (d.ii * d2) * d3 + q * d3 + d.jj * d3
    BY <1>1, <1>4
  <1>6. /\ (p * d2) * d3 \in Nat /\ (d.ii * d2) * d3 \in Nat /\ q * d3 \in Nat
        /\ d.jj * d3 \in Nat
    BY <1>1, <1>4
  <1>7. ((p + d.ii) * d2 + (q + d.jj)) * d3 + (r + d.kk)
          = p * (d2 * d3) + q * d3 + r + d.ii * (d2 * d3) + d.jj * d3 + d.kk
    BY <1>1, <1>4, <1>5, <1>6
  <1> QED BY <1>3, <1>7 DEF Addr, d2, d3, p, q, r

\* and its place is inside the array.
LEMMA ElementInArray ==
  ASSUME NEW size, IsSize(size), NEW d \in Cursors, AtElement(size, d)
  PROVE  LET x == d.i * size.block_size + d.ii
             y == d.j * size.block_size + d.jj
             z == d.k * size.block_size + d.kk
         IN  InArray(size, x, y, z) /\ At(size, d, x, y, z)
  <1> DEFINE b == size.block_size
  <1>1. ASSUME NEW e \in Nat \ {0}, NEW q \in Nat, NEW r \in Nat, r < Extent(size, q, e),
               q < (e - 1) \div b + 1
        PROVE  q * b + r \in 0 .. e - 1 /\ Blk(size, q * b + r) = q /\ Off(size, q * b + r) = r
    <2>1. b \in Nat \ {0}
      BY SizeFacts
    <2>2. /\ q + 1 < (e - 1) \div b + 1 => (q + 1) * b < e
          /\ q + 1 = (e - 1) \div b + 1 => (q + 1) * b >= e
          /\ (q + 1) * b = q * b + b /\ q * b \in Nat /\ q * b < e
      BY <2>1, <1>1, Blocks
    <2>3. Extent(size, q, e) = IF (q + 1) * b < e THEN b ELSE e - q * b
      BY DEF Extent
    <2> HIDE DEF b
    <2>4. r < b /\ q * b + r < e
      BY <2>1, <2>2, <2>3, <1>1
    <2>5. (q * b + r) \div b = q /\ (q * b + r) % b = r
      <3>1. b \in Nat \ {0} /\ q \in Nat /\ r \in 0 .. b - 1
        BY <2>1, <2>4, <1>1
      <3>2. \A b2 \in Nat \ {0}, q2 \in Nat : \A r2 \in 0 .. b2 - 1 :
              (q2 * b2 + r2) \div b2 = q2 /\ (q2 * b2 + r2) % b2 = r2
        BY BlockOf
      <3> QED BY ONLY <3>1, <3>2, Zenon
    <2>6. q * b + r \in 0 .. e - 1
      BY <2>2, <2>4, <1>1
    <2> QED BY <2>5, <2>6 DEF Blk, Off, b
  <1>2. /\ size.d1 \in Nat \ {0} /\ size.d2 \in Nat \ {0} /\ size.d3 \in Nat \ {0}
        /\ d.i < (size.d1 - 1) \div b + 1 /\ d.j < (size.d2 - 1) \div b + 1
        /\ d.k < (size.d3 - 1) \div b + 1
        /\ d.i \in Nat /\ d.j \in Nat /\ d.k \in Nat
        /\ d.ii \in Nat /\ d.jj \in Nat /\ d.kk \in Nat
        /\ d.ii < Extent(size, d.i, size.d1) /\ d.jj < Extent(size, d.j, size.d2)
        /\ d.kk < Extent(size, d.k, size.d3)
    BY SizeFacts, CursorFacts DEF AtElement, SizeX, SizeY, SizeZ
  <1> QED BY <1>1, <1>2 DEF InArray, At

\* Two digits, the low one below n, make a number below m * n.
LEMMA TwoDigits ==
  ASSUME NEW m \in Nat, NEW n \in Nat, NEW y \in 0 .. m - 1, NEW z \in 0 .. n - 1
  PROVE  y * n + z \in 0 .. m * n - 1
  <1>1. y + 1 \in Nat /\ y + 1 <= m /\ y \in Nat
    OBVIOUS
  <1>2. (y + 1) * n <= m * n
    BY <1>1, MulLe
  <1>3. (y + 1) * n = y * n + 1 * n /\ y * n \in Nat /\ 1 * n = n /\ m * n \in Nat
    BY <1>1, Distributes
  <1> QED BY <1>2, <1>3

\* Every number below m * n is made of such digits.
Digits(a, m, n) == \E y \in 0 .. m - 1, z \in 0 .. n - 1 : a = y * n + z

\* Every number below m * n has two such digits.
LEMMA DigitsOf ==
  ASSUME NEW m \in Nat \ {0}, NEW n \in Nat \ {0}, NEW t, t = m * n, NEW a \in 0 .. t - 1
  PROVE  Digits(a, m, n)
  <1>1. a \in Nat /\ m * n \in Nat /\ a < m * n
    OBVIOUS
  <1> DEFINE y == a \div n
             z == a % n
  <1>2. y \in Nat /\ z \in 0 .. n - 1 /\ a = y * n + z
    BY <1>1, DivMod
  <1> HIDE DEF y, z
  <1>3. y >= m => y * n >= m * n
    BY <1>2, MulLe
  <1>4. y * n \in Nat
    BY <1>2
  <1>5. y \in 0 .. m - 1
    BY <1>1, <1>2, <1>3, <1>4
  <1> QED BY <1>2, <1>5 DEF Digits

\* The addresses of the elements are the offsets of the array.
LEMMA AddressRange ==
  ASSUME NEW size, IsSize(size), NEW x, NEW y, NEW z, InArray(size, x, y, z)
  PROVE  Addr(size, x, y, z) \in 0 .. size.num_elements - 1
  <1> DEFINE d1 == size.d1
             d2 == size.d2
             d3 == size.d3
  <1>1. /\ d1 \in Nat /\ d2 \in Nat /\ d3 \in Nat /\ size.num_elements = d1 * d2 * d3
        /\ x \in 0 .. d1 - 1 /\ y \in 0 .. d2 - 1 /\ z \in 0 .. d3 - 1
    BY SizeFacts DEF InArray
  <1> HIDE DEF d1, d2, d3
  <1>2. x * d2 + y \in 0 .. d1 * d2 - 1 /\ d1 * d2 \in Nat
    BY <1>1, TwoDigits
  <1>3. (x * d2 + y) * d3 + z \in 0 .. (d1 * d2) * d3 - 1
    BY <1>1, <1>2, TwoDigits
  <1> QED BY <1>1, <1>3 DEF Addr, d1, d2, d3

\* Every address of the array is that of an element.
LEMMA AddressOnto ==
  ASSUME NEW size, IsSize(size), NEW a \in 0 .. size.num_elements - 1
  PROVE  \E x, y, z : InArray(size, x, y, z) /\ a = Addr(size, x, y, z)
  <1> DEFINE d1 == size.d1
             d2 == size.d2
             d3 == size.d3
  <1>1. /\ d1 \in Nat \ {0} /\ d2 \in Nat \ {0} /\ d3 \in Nat \ {0}
        /\ size.num_elements = d1 * d2 * d3
    BY SizeFacts
  <1> HIDE DEF d1, d2, d3
  <1> DEFINE m == d1 * d2
             t == size.num_elements
  <1>2. m \in Nat \ {0} /\ t = m * d3 /\ a \in 0 .. t - 1
    BY <1>1
  <1>3. PICK q \in 0 .. m - 1, z \in 0 .. d3 - 1 : a = q * d3 + z
    <2> HIDE DEF m, t
    <2>1. Digits(a, m, d3)
      BY <1>1, <1>2, DigitsOf
    <2> QED BY <2>1 DEF Digits
  <1>4. PICK x \in 0 .. d1 - 1, y \in 0 .. d2 - 1 : q = x * d2 + y
    <2>1. m = d1 * d2 /\ q \in 0 .. m - 1
      BY <1>3
    <2> HIDE DEF m
    <2>2. Digits(q, d1, d2)
      BY <1>1, <2>1, DigitsOf
    <2> QED BY <2>2 DEF Digits
  <1> QED BY <1>3, <1>4 DEF Addr, InArray, d1, d2, d3

----------------------------------------------------------------------------
(* The element under a cursor.                                             *)

\* Two elements with one address are one element.
LEMMA SameAddress ==
  ASSUME NEW size, IsSize(size), NEW x, NEW y, NEW z, InArray(size, x, y, z),
         NEW x2, NEW y2, NEW z2, InArray(size, x2, y2, z2),
         Addr(size, x, y, z) = Addr(size, x2, y2, z2)
  PROVE  x = x2 /\ y = y2 /\ z = z2
  <1> DEFINE d2 == size.d2
             d3 == size.d3
  <1>1. /\ d2 \in Nat \ {0} /\ d3 \in Nat \ {0} /\ size.d1 \in Nat
        /\ x \in Nat /\ y \in 0 .. d2 - 1 /\ z \in 0 .. d3 - 1
        /\ x2 \in Nat /\ y2 \in 0 .. d2 - 1 /\ z2 \in 0 .. d3 - 1
    BY SizeFacts DEF InArray
  <1>2. (x * d2 + y) * d3 + z = (x2 * d2 + y2) * d3 + z2
    BY DEF Addr
  <1> HIDE DEF d2, d3
  <1>3. x * d2 + y \in Int /\ x2 * d2 + y2 \in Int
    BY <1>1
  <1>4. x * d2 + y = x2 * d2 + y2 /\ z = z2
    BY <1>1, <1>2, <1>3, Euclid
  <1>5. x = x2 /\ y = y2
    BY <1>1, <1>4, Euclid
  <1> QED BY <1>4, <1>5

\* The cursor is at one element, the one it reads, and has not passed it.
LEMMA ElementUnder ==
  ASSUME NEW size, IsSize(size), NEW layer \in Nat, NEW d \in Cursors, AtElement(size, d),
         Pointers(size, layer, d), NEW x, NEW y, NEW z, InArray(size, x, y, z)
  PROVE  /\ At(size, d, x, y, z) <=> Addr(size, x, y, z) = DataAt(size, d)
         /\ At(size, d, x, y, z) => ~Before(size, d, x, y, z)
  <1> DEFINE x2 == d.i * size.block_size + d.ii
             y2 == d.j * size.block_size + d.jj
             z2 == d.k * size.block_size + d.kk
  <1>1. InArray(size, x2, y2, z2) /\ At(size, d, x2, y2, z2)
    BY ElementInArray
  <1>2. DataAt(size, d) = Addr(size, x2, y2, z2)
    BY ReadsAddress
  <1>3. At(size, d, x, y, z) => x = x2 /\ y = y2 /\ z = z2
    BY Position DEF At
  <1>4. /\ d.i \in Nat /\ d.j \in Nat /\ d.k \in Nat
        /\ d.ii \in Nat /\ d.jj \in Nat /\ d.kk \in Nat
    BY CursorFacts
  <1> HIDE DEF x2, y2, z2
  <1>5. Addr(size, x, y, z) = DataAt(size, d) => x = x2 /\ y = y2 /\ z = z2
    BY <1>1, <1>2, SameAddress
  <1>6. At(size, d, x, y, z) => ~Before(size, d, x, y, z)
    BY <1>4 DEF At, Before
  <1> QED BY <1>1, <1>2, <1>3, <1>5, <1>6

\* Some element is under the cursor.
LEMMA CursorInArray ==
  ASSUME NEW size, IsSize(size), NEW layer \in Nat, NEW d \in Cursors, AtElement(size, d),
         Pointers(size, layer, d)
  PROVE  /\ DataAt(size, d) \in 0 .. size.num_elements - 1
         /\ \E x, y, z : InArray(size, x, y, z) /\ At(size, d, x, y, z)
  <1> DEFINE x == d.i * size.block_size + d.ii
             y == d.j * size.block_size + d.jj
             z == d.k * size.block_size + d.kk
  <1>1. InArray(size, x, y, z) /\ At(size, d, x, y, z)
    BY ElementInArray
  <1>2. DataAt(size, d) = Addr(size, x, y, z)
    BY ReadsAddress
  <1> HIDE DEF x, y, z
  <1> QED BY <1>1, <1>2, AddressRange

\* The block the walk goes to from the last one is behind the array.
LEMMA PastTheEnd ==
  ASSUME NEW size, NEW layer, NEW d \in Cursors, LastBlock(size, d)
  PROVE  LET n == NextBlock(size, layer, d)
         IN  n.i = size.num_x /\ n.j = 0 /\ n.k = 0
  <1>1. d.i + 1 = size.num_x /\ LastPlane(size, d) /\ LastRow(size, d)
    BY DEF LastBlock, LastPlane
  <1> QED BY <1>1, NextBlockCases

----------------------------------------------------------------------------
(* The prediction buffer.                                                  *)

\* The elements of a block reached so far are a slab of the array.
LEMMA Slab ==
  ASSUME NEW size, IsSize(size), NEW d \in Cursors, AtElement(size, d)
  PROVE  LET bs == size.block_size
             sx == SizeX(size, d)
             sy == SizeY(size, d)
             sz == SizeZ(size, d)
         IN  /\ d.i * bs + sx = IF d.i + 1 < size.num_x THEN (d.i + 1) * bs ELSE size.d1
             /\ d.j * bs + sy = IF d.j + 1 < size.num_y THEN (d.j + 1) * bs ELSE size.d2
             /\ d.k * bs + sz = IF d.k + 1 < size.num_z THEN (d.k + 1) * bs ELSE size.d3
             /\ d.i * bs \in Nat /\ d.j * bs \in Nat /\ d.k * bs \in Nat
             /\ sx \in Nat \ {0} /\ sy \in Nat \ {0} /\ sz \in Nat \ {0}
  <1> DEFINE b == size.block_size
  <1>1. ASSUME NEW e \in Nat \ {0}, NEW q \in Nat, q < (e - 1) \div b + 1
        PROVE  /\ q * b + Extent(size, q, e)
                    = IF q + 1 < (e - 1) \div b + 1 THEN (q + 1) * b ELSE e
               /\ q * b \in Nat
    <2>1. b \in Nat \ {0} /\ (e - 1) \div b \in Nat
      BY <1>1, SizeFacts
    <2> DEFINE m == (e - 1) \div b + 1
    <2>2. /\ q + 1 < m => (q + 1) * b < e
          /\ q + 1 = m => (q + 1) * b >= e
          /\ (q + 1) * b = q * b + b /\ q * b \in Nat /\ q * b < e
      BY <2>1, <1>1, Blocks
    <2>3. Extent(size, q, e) = IF (q + 1) * b < e THEN b ELSE e - q * b
      BY DEF Extent
    <2>4. m \in Nat /\ q < m
      BY <2>1, <1>1
    <2> HIDE DEF b, m
    <2>5. q + 1 < m \/ q + 1 = m
      BY <2>4, <1>1
    <2>6. q * b + Extent(size, q, e) = IF q + 1 < m THEN (q + 1) * b ELSE e
      BY <2>1, <2>2, <2>3, <2>4, <2>5, <1>1
    <2> QED BY <2>2, <2>6 DEF m, b
  <1>2. /\ size.d1 \in Nat \ {0} /\ size.d2 \in Nat \ {0} /\ size.d3 \in Nat \ {0}
        /\ size.num_x = (size.d1 - 1) \div b + 1 /\ size.num_y = (size.d2 - 1) \div b + 1
        /\ size.num_z = (size.d3 - 1) \div b + 1
        /\ d.i \in Nat /\ d.j \in Nat /\ d.k \in Nat
        /\ d.i < size.num_x /\ d.j < size.num_y /\ d.k < size.num_z
    BY SizeFacts, CursorFacts
  <1>3. /\ SizeX(size, d) \in Nat \ {0} /\ SizeY(size, d) \in Nat \ {0}
        /\ SizeZ(size, d) \in Nat \ {0}
    BY CursorFacts
  <1> HIDE DEF b
  <1> QED BY <1>1, <1>2, <1>3 DEF SizeX, SizeY, SizeZ, b

\* Slot y, z of plane p of the prediction buffer.
Slot(size, layer, p, y, z) == p * BufferDim0(size, layer) + y * BufferDim1(size, layer) + z
IsSlot(size, layer, p, y, z) ==
  /\ p \in 0 .. (size.block_size + layer) - 1
  /\ y \in 0 .. (size.d2 + layer) - 1 /\ z \in 0 .. (size.d3 + layer) - 1

\* The prediction buffer has block_size + layer planes of padded rows.
LEMMA BufferFacts ==
  ASSUME NEW size, IsSize(size), NEW layer \in Nat
  PROVE  /\ size.block_size + layer \in Nat \ {0} /\ size.d2 + layer \in Nat \ {0}
         /\ BufferDim1(size, layer) = size.d3 + layer
         /\ BufferDim1(size, layer) \in Nat \ {0}
         /\ BufferDim0(size, layer) = (size.d2 + layer) * BufferDim1(size, layer)
         /\ BufferDim0(size, layer) \in Nat \ {0}
         /\ BufferLength(size, layer) = (size.block_size + layer) * BufferDim0(size, layer)
  <1>1. /\ size.block_size + layer \in Nat \ {0} /\ size.d2 + layer \in Nat \ {0}
        /\ size.d3 + layer \in Nat \ {0}
    BY SizeFacts
  <1>2. (size.d2 + layer) * (size.d3 + layer) \in Nat \ {0}
    BY <1>1
  <1> QED BY <1>1, <1>2 DEF BufferDim0, BufferDim1, BufferLength

\* Slots lie in the buffer, and no two share a place in it.
LEMMA SlotInBuffer ==
  ASSUME NEW size, IsSize(size), NEW layer \in Nat, NEW p, NEW y, NEW z,
         IsSlot(size, layer, p, y, z)
  PROVE  /\ Slot(size, layer, p, y, z) \in 0 .. BufferLength(size, layer) - 1
         /\ y * BufferDim1(size, layer) + z \in 0 .. BufferDim0(size, layer) - 1
  <1> DEFINE B0 == BufferDim0(size, layer)
             B1 == BufferDim1(size, layer)
             w == y * B1 + z
             bl == size.block_size + layer
             yl == size.d2 + layer
  <1>1. /\ bl \in Nat \ {0} /\ yl \in Nat \ {0} /\ B1 \in Nat \ {0} /\ B0 \in Nat \ {0}
        /\ B0 = yl * B1 /\ BufferLength(size, layer) = bl * B0
        /\ p \in 0 .. bl - 1 /\ y \in 0 .. yl - 1 /\ z \in 0 .. B1 - 1
    BY BufferFacts DEF IsSlot
  <1>2. Slot(size, layer, p, y, z) = p * B0 + y * B1 + z
    BY DEF Slot
  <1> HIDE DEF B0, B1, bl, yl
  <1>3. w \in 0 .. B0 - 1
    BY <1>1, TwoDigits
  <1>4. p * B0 + w \in 0 .. bl * B0 - 1
    <2> HIDE DEF w
    <2> QED BY <1>1, <1>3, TwoDigits
  <1>5. p * B0 + y * B1 + z = p * B0 + w
    BY <1>1
  <1> QED BY <1>1, <1>2, <1>3, <1>4, <1>5 DEF B0, B1

\* Two slots of the buffer with one index are one slot.
LEMMA SlotsApart ==
  ASSUME NEW size, IsSize(size), NEW layer \in Nat, NEW p, NEW y, NEW z,
         IsSlot(size, layer, p, y, z),
         NEW p2, NEW y2, NEW z2, IsSlot(size, layer, p2, y2, z2),
         Slot(size, layer, p, y, z) = Slot(size, layer, p2, y2, z2)
  PROVE  p = p2 /\ y = y2 /\ z = z2
  <1> DEFINE B0 == BufferDim0(size, layer)
             B1 == BufferDim1(size, layer)
             w == y * B1 + z
             w2 == y2 * B1 + z2
  <1>1. /\ B0 \in Nat \ {0} /\ B1 \in Nat \ {0}
        /\ p \in Int /\ y \in Int /\ z \in 0 .. B1 - 1
        /\ p2 \in Int /\ y2 \in Int /\ z2 \in 0 .. B1 - 1
    BY BufferFacts DEF IsSlot
  <1>2. w \in 0 .. B0 - 1 /\ w2 \in 0 .. B0 - 1
    BY SlotInBuffer
  <1>3. p * B0 + y * B1 + z = p2 * B0 + y2 * B1 + z2
    BY DEF Slot
  <1> HIDE DEF B0, B1
  <1>4. p * B0 + w = p2 * B0 + w2
    BY <1>1, <1>3
  <1>5. p = p2 /\ w = w2
    <2> HIDE DEF w, w2
    <2> QED BY <1>1, <1>2, <1>4, Euclid
  <1>6. y = y2 /\ z = z2
    BY <1>1, <1>5, Euclid
  <1> QED BY <1>5, <1>6

\* The slot of the element under the cursor: `layer` planes, rows and columns
\* in from those that stay zero.
LEMMA SlotOfElement ==
  ASSUME NEW size, IsSize(size), NEW layer \in Nat, NEW d \in Cursors, AtElement(size, d),
         Pointers(size, layer, d)
  PROVE  LET p == d.ii + layer
             y == d.j * size.block_size + d.jj + layer
             z == d.k * size.block_size + d.kk + layer
         IN  BufAt(size, layer, d) = Slot(size, layer, p, y, z) /\ IsSlot(size, layer, p, y, z)
  <1> DEFINE bs == size.block_size
             B0 == BufferDim0(size, layer)
             B1 == BufferDim1(size, layer)
             q == d.j * bs
             r == d.k * bs
  <1>1. /\ B0 \in Nat \ {0} /\ B1 \in Nat \ {0} /\ layer \in Nat /\ bs \in Nat
        /\ q \in Nat /\ r \in Nat /\ d.ii \in Nat /\ d.jj \in Nat /\ d.kk \in Nat
        /\ d.ii < SizeX(size, d) /\ SizeX(size, d) \in 1 .. bs
    BY BufferFacts, Slab, CursorFacts
  <1>2. d.buf = q * B1 + r
    BY DEF Pointers
  <1>3. q + d.jj \in 0 .. size.d2 - 1 /\ r + d.kk \in 0 .. size.d3 - 1
        /\ size.d2 \in Nat /\ size.d3 \in Nat
    BY ElementInArray, SizeFacts DEF InArray
  <1>4. BufAt(size, layer, d) = d.buf + (d.ii + layer) * B0 + (d.jj + layer) * B1 + d.kk + layer
    BY DEF BufAt
  <1> HIDE DEF B0, B1, q, r, bs
  <1>5. /\ (q + (d.jj + layer)) * B1 = q * B1 + (d.jj + layer) * B1
        /\ q * B1 \in Nat /\ (d.jj + layer) * B1 \in Nat /\ (d.ii + layer) * B0 \in Nat
    BY <1>1
  <1>6. q + d.jj + layer = q + (d.jj + layer)
    BY <1>1
  <1>7. BufAt(size, layer, d) = (d.ii + layer) * B0 + (q + d.jj + layer) * B1 + (r + d.kk + layer)
    BY <1>1, <1>2, <1>4, <1>5, <1>6
  <1>8. IsSlot(size, layer, d.ii + layer, q + d.jj + layer, r + d.kk + layer)
    BY <1>1, <1>3 DEF IsSlot, bs
  <1> QED BY <1>7, <1>8 DEF Slot, B0, B1, q, r, bs

\* memcpy moves slot p + block_size to slot p, of the top planes only.
Moved(size, layer, h, p, y, z) ==
  /\ p < layer => /\ IsSlot(size, layer, p + size.block_size, y, z)
                  /\ SlideBuffer(size, layer, h)[Slot(size, layer, p, y, z)]
                       = h[Slot(size, layer, p + size.block_size, y, z)]
  /\ ~(p < layer) => SlideBuffer(size, layer, h)[Slot(size, layer, p, y, z)]
                       = h[Slot(size, layer, p, y, z)]

\* What the memcpy after a plane of blocks does to a slot.
LEMMA Slides ==
  ASSUME NEW size, IsSize(size), NEW layer \in Nat, NEW h,
         DOMAIN h = 0 .. BufferLength(size, layer) - 1,
         NEW p, NEW y, NEW z,
         IsSlot(size, layer, p, y, z)
  PROVE  Moved(size, layer, h, p, y, z)
  <1> DEFINE B0 == BufferDim0(size, layer)
             B1 == BufferDim1(size, layer)
             bs == size.block_size
             w == y * B1 + z
             s == Slot(size, layer, p, y, z)
  <1>1. /\ B0 \in Nat \ {0} /\ B1 \in Nat \ {0} /\ bs \in Nat /\ layer \in Nat
        /\ p \in 0 .. (bs + layer) - 1 /\ y \in Nat /\ z \in Nat
    <2>1. /\ size.block_size \in Nat /\ size.d2 \in Nat /\ size.d3 \in Nat
      BY SizeFacts
    <2>2. p \in 0 .. (bs + layer) - 1 /\ y \in Nat /\ z \in Nat
      BY <2>1 DEF IsSlot
    <2> QED BY <2>1, <2>2, BufferFacts
  <1>2. w \in 0 .. B0 - 1 /\ s \in DOMAIN h
    BY SlotInBuffer
  <1>3. SlideBuffer(size, layer, h)[s] = IF s < layer * B0 THEN h[s + bs * B0] ELSE h[s]
    BY <1>2 DEF SlideBuffer
  <1>4. s = p * B0 + y * B1 + z /\ Slot(size, layer, p + bs, y, z) = (p + bs) * B0 + y * B1 + z
    BY DEF Slot
  <1> HIDE DEF B0, B1, bs, s
  <1>5. /\ (p + bs) * B0 = p * B0 + bs * B0 /\ (p + 1) * B0 = p * B0 + 1 * B0 /\ 1 * B0 = B0
        /\ p * B0 \in Nat /\ bs * B0 \in Nat /\ layer * B0 \in Nat /\ y * B1 \in Nat
    BY <1>1, Distributes
  <1>6. p < layer => (p + 1) * B0 <= layer * B0
    <2>1. p + 1 \in Nat /\ (p < layer => p + 1 <= layer)
      BY <1>1
    <2> QED BY <2>1, <1>1, MulLe
  <1>7. ~(p < layer) => layer * B0 <= p * B0
    <2>1. p \in Nat /\ (~(p < layer) => layer <= p)
      BY <1>1
    <2> QED BY <2>1, <1>1, MulLe
  <1>8. p < layer <=> s < layer * B0
    BY <1>1, <1>2, <1>4, <1>5, <1>6, <1>7
  <1>9. s + bs * B0 = Slot(size, layer, p + bs, y, z)
    BY <1>1, <1>4, <1>5
  <1>10. p < layer => IsSlot(size, layer, p + bs, y, z)
    BY <1>1 DEF IsSlot, bs
  <1> QED BY <1>3, <1>8, <1>9, <1>10 DEF Moved, s, bs
----------------------------------------------------------------------------
(* What the stencil of a prediction finds.                                 *)

\* A step back in each dimension is a fixed distance in the prediction buffer.
SlotFrom(size, layer, p, u, v, dx, dy, dz) ==
  Slot(size, layer, p - dx, u - dy, v - dz)
    = Slot(size, layer, p, u, v) - dx * BufferDim0(size, layer)
                                 - dy * BufferDim1(size, layer) - dz
LEMMA SlotBehind ==
  ASSUME NEW size, IsSize(size), NEW layer \in Nat,
         NEW p \in Int, NEW u \in Int, NEW v \in Int,
         NEW dx \in Int, NEW dy \in Int, NEW dz \in Int
  PROVE  SlotFrom(size, layer, p, u, v, dx, dy, dz)
  <1> DEFINE B0 == BufferDim0(size, layer)
             B1 == BufferDim1(size, layer)
             s1 == p * B0
             s2 == u * B1
             t1 == dx * B0
             t2 == dy * B1
  <1>1. B0 \in Int /\ B1 \in Int
    BY BufferFacts
  <1> HIDE DEF B0, B1
  <1>2. /\ (p - dx) * B0 = s1 - t1 /\ (u - dy) * B1 = s2 - t2
        /\ s1 \in Int /\ s2 \in Int /\ t1 \in Int /\ t2 \in Int
    BY <1>1, Distributes
  <1>3. /\ Slot(size, layer, p - dx, u - dy, v - dz) = (s1 - t1) + (s2 - t2) + (v - dz)
        /\ Slot(size, layer, p, u, v) = s1 + s2 + v
    BY <1>2 DEF Slot, B0, B1
  <1>4. (s1 - t1) + (s2 - t2) + (v - dz) = (s1 + s2 + v) - t1 - t2 - dz
    <2> HIDE DEF s1, s2, t1, t2
    <2> QED BY <1>2
  <1> QED BY <1>3, <1>4 DEF B0, B1, t1, t2, SlotFrom

\* An element is found in the data by the offsets of a plane and of a row.
LEMMA AddrOffsets ==
  ASSUME NEW size, IsSize(size), NEW x \in Int, NEW y \in Int, NEW z \in Int
  PROVE  Addr(size, x, y, z) = x * size.dim0_offset + y * size.dim1_offset + z
  <1> DEFINE d2 == size.d2
             d3 == size.d3
             a == x * d2
  <1>1. d2 \in Int /\ d3 \in Int /\ size.dim0_offset = d2 * d3 /\ size.dim1_offset = d3
    BY SizeFacts
  <1>2. Addr(size, x, y, z) = (a + y) * d3 + z
    BY DEF Addr
  <1> HIDE DEF d2, d3
  <1>3. a \in Int /\ a * d3 = x * (d2 * d3)
    BY <1>1
  <1>4. (a + y) * d3 = a * d3 + y * d3
    <2> HIDE DEF a
    <2> QED BY <1>1, <1>3, Distributes
  <1> QED BY <1>1, <1>2, <1>3, <1>4

\* What lies back from the cursor in some dimensions, and forward in none, has
\* been walked.
LEMMA BehindIsBefore ==
  ASSUME NEW size, IsSize(size), NEW c \in Cursors, AtElement(size, c),
         NEW dx \in Nat, NEW dy \in Nat, NEW dz \in Nat, dx # 0 \/ dy # 0 \/ dz # 0,
         Back(size, c.i, c.ii, dx) \in Nat, Back(size, c.j, c.jj, dy) \in Nat,
         Back(size, c.k, c.kk, dz) \in Nat
  PROVE  Before(size, c, Back(size, c.i, c.ii, dx), Back(size, c.j, c.jj, dy),
                Back(size, c.k, c.kk, dz))
  <1> DEFINE bs == size.block_size
             x == Back(size, c.i, c.ii, dx)
             y == Back(size, c.j, c.jj, dy)
             z == Back(size, c.k, c.kk, dz)
  <1>1. /\ c.i \in Nat /\ c.j \in Nat /\ c.k \in Nat
        /\ c.ii \in Nat /\ c.jj \in Nat /\ c.kk \in Nat
        /\ c.ii < bs /\ c.jj < bs /\ c.kk < bs
    <2>1. /\ c.ii < SizeX(size, c) /\ c.jj < SizeY(size, c) /\ c.kk < SizeZ(size, c)
          /\ SizeX(size, c) \in 1 .. bs /\ SizeY(size, c) \in 1 .. bs
          /\ SizeZ(size, c) \in 1 .. bs
          /\ c.ii \in Nat /\ c.jj \in Nat /\ c.kk \in Nat
          /\ c.i \in Nat /\ c.j \in Nat /\ c.k \in Nat
      BY CursorFacts
    <2>2. bs \in Nat \ {0}
      BY SizeFacts
    <2>3. \A m \in Nat : \A f \in 1 .. bs : m < f => m < bs
      BY <2>2
    <2> QED BY <2>1, <2>3
  <1>2. /\ Precedes(size, x, c.i, c.ii, dx) /\ Precedes(size, y, c.j, c.jj, dy)
        /\ Precedes(size, z, c.k, c.kk, dz)
    BY <1>1, Earlier
  <1> HIDE DEF x, y, z
  <1>3. Before(size, c, x, y, z)
    BY <1>1, <1>2 DEF Before, Precedes
  <1> QED BY <1>3 DEF x, y, z
=============================================================================
