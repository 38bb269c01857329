--------------------------- MODULE BlockWalkProofs ---------------------------
(***************************************************************************)
(* What holds of the walk over an array of any size, in blocks of any size *)
(* and with any number of ghost layers the constant Layers may name.       *)
(***************************************************************************)
EXTENDS BlockWalk, BlockGeometryProofs

----------------------------------------------------------------------------
(* The count of the codes.                                                 *)

\* type_pos counts the elements of the planes, the rows and the blocks passed,
\* and of the slices of this block.
Codes(d) ==
  LET bs == size.block_size
      sx == SizeX(size, d)
      sy == SizeY(size, d)
      sz == SizeZ(size, d)
  IN  d.type = ((d.i * bs) * size.d2) * size.d3 + (sx * (d.j * bs)) * size.d3
                 + (sx * sy) * (d.k * bs) + d.ii * (sy * sz)

\* Inside a block the count goes on,
LEMMA CodesInBlock ==
  ASSUME IsSize(size), NEW d \in Cursors, AtElement(size, d), Codes(d)
  PROVE  Codes(NextElement(size, d))
  <1> DEFINE n == NextElement(size, d)
             bs == size.block_size
             sx == SizeX(size, d)
             sy == SizeY(size, d)
             sz == SizeZ(size, d)
             t == ((d.i * bs) * size.d2) * size.d3 + (sx * (d.j * bs)) * size.d3
                    + (sx * sy) * (d.k * bs)
  <1>1. n.i = d.i /\ n.j = d.j /\ n.k = d.k
    BY NextElementCases
  <1>2. SizeX(size, n) = sx /\ SizeY(size, n) = sy /\ SizeZ(size, n) = sz
    BY <1>1 DEF SizeX, SizeY, SizeZ
  <1>3. \/ n.ii = d.ii /\ n.type = d.type
        \/ n.ii = d.ii + 1 /\ n.type = d.type + sy * sz
    BY NextElementCases
  <1>4. d.type = t + d.ii * (sy * sz)
    BY DEF Codes
  <1>5. /\ sx \in Nat \ {0} /\ sy \in Nat \ {0} /\ sz \in Nat \ {0} /\ d.ii \in Nat
        /\ d.i * bs \in Nat /\ d.j * bs \in Nat /\ d.k * bs \in Nat
        /\ size.d2 \in Nat /\ size.d3 \in Nat
    BY Slab, CursorFacts, SizeFacts
  <1>6. sy * sz \in Nat /\ t \in Nat
    <2>1. /\ (d.i * bs) * size.d2 \in Nat /\ sx * (d.j * bs) \in Nat /\ sx * sy \in Nat
          /\ sy * sz \in Nat
      BY <1>5
    <2>2. /\ ((d.i * bs) * size.d2) * size.d3 \in Nat /\ (sx * (d.j * bs)) * size.d3 \in Nat
          /\ (sx * sy) * (d.k * bs) \in Nat
      BY <2>1, <1>5
    <2> HIDE DEF bs, sx, sy, sz
    <2> QED BY <2>1, <2>2
  <1>7. (d.ii + 1) * (sy * sz) = d.ii * (sy * sz) + sy * sz /\ d.ii * (sy * sz) \in Nat
    BY <1>5, <1>6, Distributes
  <1> HIDE DEF t, n, sx, sy, sz, bs
  <1>8. n.type = t + n.ii * (sy * sz)
    BY <1>3, <1>4, <1>6, <1>7
  <1>9. Codes(n) <=> n.type = t + n.ii * (sy * sz)
    BY <1>1, <1>2 DEF Codes, t, bs
  <1> QED BY <1>8, <1>9 DEF n

\* and after a block too; after the last it is the number of elements.
LEMMA CodesPastBlock ==
  ASSUME IsSize(size), layer \in Nat, NEW d \in Cursors, AtElement(size, d),
         LastInBlock(size, d), Codes(d)
  PROVE  /\ ~LastBlock(size, d) => Codes(NextBlock(size, layer, d))
         /\ LastBlock(size, d) => NextBlock(size, layer, d).type = size.num_elements
  <1> DEFINE n == NextBlock(size, layer, d)
             bs == size.block_size
             d1 == size.d1
             d2 == size.d2
             d3 == size.d3
             sx == SizeX(size, d)
             sy == SizeY(size, d)
             sz == SizeZ(size, d)
             p == d.i * bs
             q == d.j * bs
             r == d.k * bs
  <1>1. /\ sx \in Nat \ {0} /\ sy \in Nat \ {0} /\ sz \in Nat \ {0}
        /\ p \in Nat /\ q \in Nat /\ r \in Nat /\ d1 \in Nat /\ d2 \in Nat /\ d3 \in Nat
        /\ d.ii = sx - 1 /\ bs \in Nat
        /\ p + sx = IF d.i + 1 < size.num_x THEN (d.i + 1) * bs ELSE d1
        /\ q + sy = IF d.j + 1 < size.num_y THEN (d.j + 1) * bs ELSE d2
        /\ r + sz = IF d.k + 1 < size.num_z THEN (d.k + 1) * bs ELSE d3
        /\ d.i \in Nat /\ d.j \in Nat /\ d.k \in Nat
        /\ d.i < size.num_x /\ d.j < size.num_y /\ d.k < size.num_z
        /\ size.num_x \in Nat /\ size.num_y \in Nat /\ size.num_z \in Nat
        /\ size.num_elements = (d1 * d2) * d3
    BY Slab, CursorFacts, SizeFacts DEF LastInBlock
  <1>2. /\ n.ii = 0 /\ n.type = d.type + sy * sz
        /\ \/ d.k + 1 # size.num_z /\ n.i = d.i /\ n.j = d.j /\ n.k = d.k + 1
           \/ /\ d.k + 1 = size.num_z /\ d.j + 1 # size.num_y
              /\ n.i = d.i /\ n.j = d.j + 1 /\ n.k = 0
           \/ /\ d.k + 1 = size.num_z /\ d.j + 1 = size.num_y
              /\ n.i = d.i + 1 /\ n.j = 0 /\ n.k = 0
    BY NextBlockCases DEF LastRow, LastPlane
  <1>3. n \in Cursors /\ (~LastBlock(size, d) => AtElement(size, n))
    BY NextBlockStays
  <1>4. LastBlock(size, d) <=> /\ d.k + 1 = size.num_z /\ d.j + 1 = size.num_y
                               /\ d.i + 1 = size.num_x
    BY DEF LastBlock, LastPlane, LastRow
  <1>5. n.type = (p * d2) * d3 + (sx * q) * d3 + (sx * sy) * (r + sz)
    <2>1. d.type = (p * d2) * d3 + (sx * q) * d3 + (sx * sy) * r + d.ii * (sy * sz)
      BY DEF Codes
    <2> HIDE DEF p, q, r, sx, sy, sz, d2, d3, n
    <2>2. d.ii * (sy * sz) + sy * sz = (sx * sy) * sz
      <3>1. sy * sz \in Nat
        BY <1>1
      <3>2. (sx - 1) * (sy * sz) = sx * (sy * sz) - 1 * (sy * sz) /\ sx * (sy * sz) \in Int
        BY <3>1, <1>1, Distributes
      <3>3. sx * (sy * sz) = (sx * sy) * sz /\ 1 * (sy * sz) = sy * sz
        BY <1>1
      <3> QED BY <3>1, <3>2, <3>3, <1>1
    <2>3. p * d2 \in Nat /\ sx * q \in Nat /\ sx * sy \in Nat /\ sy * sz \in Nat
      BY <1>1
    <2>4. /\ (p * d2) * d3 \in Nat /\ (sx * q) * d3 \in Nat /\ (sx * sy) * r \in Nat
          /\ (sx * sy) * sz \in Nat /\ d.ii * (sy * sz) \in Int
      BY <2>3, <1>1
    <2>5. (sx * sy) * (r + sz) = (sx * sy) * r + (sx * sy) * sz
      BY <2>3, <1>1
    <2> QED BY <2>1, <2>2, <2>3, <2>4, <2>5, <1>2
  <1>6. ASSUME AtElement(size, n)
        PROVE  /\ SizeX(size, n) \in Nat /\ SizeY(size, n) \in Nat /\ SizeZ(size, n) \in Nat
               /\ n.i = d.i => SizeX(size, n) = sx
               /\ n.j = d.j => SizeY(size, n) = sy
    <2>1. /\ SizeX(size, n) \in Nat /\ SizeY(size, n) \in Nat /\ SizeZ(size, n) \in Nat
      BY <1>3, <1>6, Slab
    <2>2. /\ n.i = d.i => SizeX(size, n) = sx
          /\ n.j = d.j => SizeY(size, n) = sy
      BY DEF SizeX, SizeY
    <2> QED BY <2>1, <2>2
  <1>7. Codes(n) <=> n.type = ((n.i * bs) * d2) * d3 + (SizeX(size, n) * (n.j * bs)) * d3
                               + (SizeX(size, n) * SizeY(size, n)) * (n.k * bs)
                               + n.ii * (SizeY(size, n) * SizeZ(size, n))
    BY DEF Codes
  <1>8. ASSUME d.k + 1 = size.num_z
        PROVE  n.type = (p * d2) * d3 + (sx * (q + sy)) * d3
    <2> HIDE DEF p, q, r, sx, sy, sz, d2, d3, n, bs, d1
    <2>1. r + sz = d3
      BY <1>1, <1>8
    <2>2. (sx * (q + sy)) * d3 = (sx * q) * d3 + (sx * sy) * d3
      BY <1>1
    <2>3. p * d2 \in Nat /\ sx * q \in Nat /\ sx * sy \in Nat
      BY <1>1
    <2>4. (p * d2) * d3 \in Nat /\ (sx * q) * d3 \in Nat /\ (sx * sy) * d3 \in Nat
      BY <2>3, <1>1
    <2> QED BY <2>1, <2>2, <2>4, <1>5
  <1>9. ASSUME d.k + 1 = size.num_z, d.j + 1 = size.num_y
        PROVE  n.type = ((p + sx) * d2) * d3
    <2> HIDE DEF p, q, r, sx, sy, sz, d2, d3, n, bs, d1
    <2>1. q + sy = d2
      BY <1>1, <1>9
    <2>2. ((p + sx) * d2) * d3 = (p * d2) * d3 + (sx * d2) * d3
      BY <1>1
    <2> QED BY <2>1, <2>2, <1>8, <1>9
  <1> HIDE DEF p, q, r, sx, sy, sz, d1, d2, d3, n, bs
  <1>10. CASE d.k + 1 # size.num_z
    <2>1. ~LastBlock(size, d) /\ AtElement(size, n) /\ r + sz = n.k * bs
      <3>1. ~LastBlock(size, d) /\ AtElement(size, n)
        BY <1>10, <1>3, <1>4
      <3>2. d.k + 1 < size.num_z
        <4>1. d.k \in Nat /\ d.k < size.num_z /\ size.num_z \in Nat
          BY <1>1
        <4> QED BY <4>1, <1>10
      <3>3. r + sz = (d.k + 1) * bs
        BY <3>2, <1>1
      <3>4. n.k = d.k + 1
        BY <1>10, <1>2
      <3> QED BY <3>1, <3>3, <3>4
    <2>2. n.i = d.i /\ n.j = d.j
      BY <1>10, <1>2
    <2>3. n.ii * (SizeY(size, n) * SizeZ(size, n)) = 0
      BY <2>1, <1>2, <1>6
    <2>4. n.type = ((n.i * bs) * d2) * d3 + (sx * (n.j * bs)) * d3 + (sx * sy) * (n.k * bs)
      BY <2>1, <2>2, <1>5 DEF p, q
    <2>5. n.type = n.type + 0
      <3>1. n.type \in Nat
        BY <1>3 DEF Cursors
      <3> QED BY <3>1
    <2> QED BY <2>1, <2>2, <2>3, <2>4, <2>5, <1>6, <1>7 DEF n
  <1>11. CASE d.k + 1 = size.num_z /\ d.j + 1 # size.num_y
    <2>1. ~LastBlock(size, d) /\ AtElement(size, n) /\ q + sy = n.j * bs
      <3>1. ~LastBlock(size, d) /\ AtElement(size, n)
        BY <1>11, <1>3, <1>4
      <3>2. d.j + 1 < size.num_y
        <4>1. d.j \in Nat /\ d.j < size.num_y /\ size.num_y \in Nat
          BY <1>1
        <4> QED BY <4>1, <1>11
      <3>3. q + sy = (d.j + 1) * bs
        BY <3>2, <1>1
      <3>4. n.j = d.j + 1
        BY <1>11, <1>2
      <3> QED BY <3>1, <3>3, <3>4
    <2>2. n.i = d.i /\ n.k = 0
      BY <1>11, <1>2
    <2>3. n.ii * (SizeY(size, n) * SizeZ(size, n)) = 0
      BY <2>1, <1>2, <1>6
    <2>4. (SizeX(size, n) * SizeY(size, n)) * (n.k * bs) = 0
      BY <2>1, <2>2, <1>1, <1>6
    <2>5. n.type = ((n.i * bs) * d2) * d3 + (SizeX(size, n) * (n.j * bs)) * d3
      BY <2>1, <2>2, <1>6, <1>8, <1>11 DEF p
    <2>6. n.type = n.type + 0 + 0
      <3>1. n.type \in Nat
        BY <1>3 DEF Cursors
      <3> QED BY <3>1
    <2> QED BY <2>1, <2>3, <2>4, <2>5, <2>6, <1>7 DEF n
  <1>12. CASE d.k + 1 = size.num_z /\ d.j + 1 = size.num_y /\ d.i + 1 # size.num_x
    <2>1. ~LastBlock(size, d) /\ AtElement(size, n) /\ p + sx = n.i * bs
      <3>1. ~LastBlock(size, d) /\ AtElement(size, n)
        BY <1>12, <1>3, <1>4
      <3>2. d.i + 1 < size.num_x
        <4>1. d.i \in Nat /\ d.i < size.num_x /\ size.num_x \in Nat
          BY <1>1
        <4> QED BY <4>1, <1>12
      <3>3. p + sx = (d.i + 1) * bs
        BY <3>2, <1>1
      <3>4. n.i = d.i + 1
        BY <1>12, <1>2
      <3> QED BY <3>1, <3>3, <3>4
    <2>2. n.j = 0 /\ n.k = 0
      BY <1>12, <1>2
    <2>3. n.ii * (SizeY(size, n) * SizeZ(size, n)) = 0
      BY <2>1, <1>2, <1>6
    <2>4. /\ (SizeX(size, n) * SizeY(size, n)) * (n.k * bs) = 0
          /\ (SizeX(size, n) * (n.j * bs)) * d3 = 0
      BY <2>1, <2>2, <1>1, <1>6
    <2>5. n.type = ((n.i * bs) * d2) * d3
      BY <2>1, <1>9, <1>12
    <2>6. n.type = n.type + 0 + 0 + 0
      <3>1. n.type \in Nat
        BY <1>3 DEF Cursors
      <3> QED BY <3>1
    <2> QED BY <2>1, <2>3, <2>4, <2>5, <2>6, <1>7 DEF n
  <1>13. CASE d.k + 1 = size.num_z /\ d.j + 1 = size.num_y /\ d.i + 1 = size.num_x
    <2>1. LastBlock(size, d) /\ p + sx = d1
      BY <1>13, <1>1, <1>4
    <2> QED BY <2>1, <1>1, <1>9, <1>13 DEF n
  <1> QED BY <1>10, <1>11, <1>12, <1>13

----------------------------------------------------------------------------
(* The invariant.                                                          *)

\* The walk has passed the element at x, y, z.
Walked(x, y, z) ==
  pc = "done" \/ Before(size, c, x, y, z) \/ (pc = "block" /\ At(size, c, x, y, z))

\* What was passed was visited,
Covered == \A x, y, z : InArray(size, x, y, z) /\ Walked(x, y, z) =>
             \E n \in 1 .. Len(visited) : visited[n] = Addr(size, x, y, z)

\* and is in the buffer as long as the buffer holds its plane; the ghost slots
\* are zero.
Holds(p, u, v, x, y, z) ==
  /\ IsSlot(size, layer, p, u, v)
  /\ x = c.i * size.block_size + p - layer /\ y = u - layer /\ z = v - layer
Held == \A p, u, v, x, y, z : Holds(p, u, v, x, y, z) =>
          /\ x < 0 \/ y < 0 \/ z < 0 => holds[Slot(size, layer, p, u, v)] = Ghost
          /\ InArray(size, x, y, z) /\ Walked(x, y, z)
               => holds[Slot(size, layer, p, u, v)] = Addr(size, x, y, z)

Counted == Len(visited) = CASE pc = "element" -> TypeAt(size, c)
                            [] pc = "block"   -> TypeAt(size, c) + 1
                            [] OTHER          -> size.num_elements

IInv ==
  /\ IsSize(size) /\ layer \in Nat
  /\ c \in Cursors /\ pc \in {"element", "block", "done"}
  /\ pc # "done" => AtElement(size, c) /\ Pointers(size, layer, c) /\ Codes(c)
  /\ pc = "block" => LastInBlock(size, c)
  /\ visited \in Seq(0 .. size.num_elements - 1) /\ Counted /\ Covered
  /\ DOMAIN holds = 0 .. BufferLength(size, layer) - 1
  /\ pc # "done" => Held

\* The walk starts within its invariant.
LEMMA InitInvariant == Init => IInv
  <1> SUFFICES ASSUME Init PROVE IInv
    OBVIOUS
  <1>1. /\ IsSize(size) /\ layer \in Nat /\ c = CursorStart /\ pc = "element"
        /\ visited = <<>> /\ holds = [a \in 0 .. BufferLength(size, layer) - 1 |-> Ghost]
    BY ShapesAssumption DEF Init
  <1>2. /\ c.i = 0 /\ c.j = 0 /\ c.k = 0 /\ c.ii = 0 /\ c.jj = 0 /\ c.kk = 0
        /\ c.x = 0 /\ c.y = 0 /\ c.z = 0 /\ c.buf = 0 /\ c.type = 0
    BY <1>1 DEF CursorStart
  <1>3. c \in Cursors
    BY <1>1 DEF CursorStart, Cursors
  <1>4. AtElement(size, c)
    <2>1. 0 < size.num_x /\ 0 < size.num_y /\ 0 < size.num_z
      BY <1>1, SizeFacts
    <2>2. /\ SizeX(size, c) \in 1 .. size.block_size
          /\ SizeY(size, c) \in 1 .. size.block_size
          /\ SizeZ(size, c) \in 1 .. size.block_size
      BY <2>1, <1>1, <1>2, <1>3, BlockRange
    <2> QED BY <2>1, <2>2, <1>1, <1>2, SizeFacts DEF AtElement
  <1>5. Pointers(size, layer, c)
    <2>1. /\ (0 * size.block_size) * size.dim0_offset = 0
          /\ (0 * size.block_size) * size.dim1_offset = 0
          /\ (0 * size.block_size) * BufferDim1(size, layer) = 0
          /\ 0 * size.block_size = 0
      <3>1. /\ size.block_size \in Nat /\ size.dim0_offset \in Nat
            /\ size.dim1_offset \in Nat /\ BufferDim1(size, layer) \in Nat
        BY <1>1, SizeFacts, BufferFacts
      <3>2. \A u \in Nat : 0 * u = 0
        OBVIOUS
      <3> QED BY <3>1, <3>2
    <2> QED BY <2>1, <1>2 DEF Pointers
  <1>6. Codes(c)
    <2> DEFINE bs == size.block_size
               sx == SizeX(size, c)
               sy == SizeY(size, c)
               sz == SizeZ(size, c)
    <2>1. /\ sx \in Nat /\ sy \in Nat /\ sz \in Nat /\ bs \in Nat
          /\ size.d2 \in Nat /\ size.d3 \in Nat
      BY <1>1, <1>3, <1>4, Slab, SizeFacts
    <2> HIDE DEF bs, sx, sy, sz
    <2>2. 0 * bs = 0 /\ 0 * size.d2 = 0 /\ 0 * size.d3 = 0 /\ sx * 0 = 0
      BY <2>1
    <2>3. (sx * sy) * 0 = 0 /\ 0 * (sy * sz) = 0
      BY <2>1
    <2>4. 0 = ((0 * bs) * size.d2) * size.d3 + (sx * (0 * bs)) * size.d3
                + (sx * sy) * (0 * bs) + 0 * (sy * sz)
      BY <2>2, <2>3
    <2> QED BY <2>4, <1>2 DEF Codes, bs, sx, sy, sz
  <1>7. Counted
    <2>1. SizeZ(size, c) \in Nat
      BY <1>1, <1>3, <1>4, Slab
    <2>2. TypeAt(size, c) = 0
      BY <2>1, <1>2 DEF TypeAt, LaneOf
    <2> QED BY <2>2, <1>1 DEF Counted
  <1>8. \A x, y, z : InArray(size, x, y, z) => ~Walked(x, y, z)
    BY <1>1, NothingFirst DEF Walked
  <1>9. Covered
    BY <1>8 DEF Covered
  <1>10. Held
    <2>1. \A p, u, v : IsSlot(size, layer, p, u, v) => holds[Slot(size, layer, p, u, v)] = Ghost
      BY <1>1, SlotInBuffer
    <2> QED BY <2>1, <1>8 DEF Held, Holds
  <1> QED BY <1>1, <1>3, <1>4, <1>5, <1>6, <1>7, <1>9, <1>10 DEF IInv


\* A step leaves the size alone, so only the cursor moves.
LEMMA SameSize ==
  ASSUME UNCHANGED <<size, layer>>
  PROVE  /\ \A x, y, z : InArray(size, x, y, z)' = InArray(size, x, y, z)
         /\ \A x, y, z : Addr(size, x, y, z)' = Addr(size, x, y, z)
         /\ \A p, y, z : IsSlot(size, layer, p, y, z)' = IsSlot(size, layer, p, y, z)
         /\ \A p, y, z : Slot(size, layer, p, y, z)' = Slot(size, layer, p, y, z)
         /\ \A x, y, z : Before(size, c, x, y, z)' = Before(size, c', x, y, z)
         /\ \A x, y, z : At(size, c, x, y, z)' = At(size, c', x, y, z)
         /\ Pointers(size, layer, c)' = Pointers(size, layer, c')
         /\ Codes(c)' = Codes(c')
  <1>1. size' = size /\ layer' = layer
    OBVIOUS
  <1>2. \A x, y, z : InArray(size, x, y, z)' = InArray(size, x, y, z)
    BY <1>1 DEF InArray
  <1>3. \A x, y, z : Addr(size, x, y, z)' = Addr(size, x, y, z)
    BY <1>1 DEF Addr
  <1>4. \A p, y, z : IsSlot(size, layer, p, y, z)' = IsSlot(size, layer, p, y, z)
    BY <1>1 DEF IsSlot
  <1>5. \A p, y, z : Slot(size, layer, p, y, z)' = Slot(size, layer, p, y, z)
    BY <1>1 DEF Slot
  <1>6. \A x, y, z : Before(size, c, x, y, z)' = Before(size, c', x, y, z)
    BY <1>1 DEF Before, Blk, Off
  <1>7. \A x, y, z : At(size, c, x, y, z)' = At(size, c', x, y, z)
    BY <1>1 DEF At, Blk, Off
  <1>8. Pointers(size, layer, c)' = Pointers(size, layer, c')
    BY <1>1 DEF Pointers
  <1>9. Codes(c)' = Codes(c')
    BY <1>1 DEF Codes
  <1> QED BY <1>2, <1>3, <1>4, <1>5, <1>6, <1>7, <1>8, <1>9

\* Visiting an element keeps the invariant.
LEMMA VisitInvariant == IInv /\ VisitElement => IInv'
  <1> SUFFICES ASSUME IInv, VisitElement PROVE IInv'
    OBVIOUS
  <1> DEFINE A == DataAt(size, c)
             X0 == c.i * size.block_size + c.ii
             Y0 == c.j * size.block_size + c.jj
             Z0 == c.k * size.block_size + c.kk
             s == BufAt(size, layer, c)
             n0 == Len(visited)
  <1>1. /\ IsSize(size) /\ layer \in Nat /\ c \in Cursors /\ pc = "element"
        /\ AtElement(size, c) /\ Pointers(size, layer, c) /\ Codes(c)
        /\ visited \in Seq(0 .. size.num_elements - 1) /\ Counted /\ Covered
        /\ DOMAIN holds = 0 .. BufferLength(size, layer) - 1 /\ Held
    BY DEF IInv, VisitElement
  <1>2. /\ visited' = Append(visited, A)
        /\ holds' = [holds EXCEPT ![s] = A]
        /\ size' = size /\ layer' = layer
    BY DEF VisitElement
  <1>3. InArray(size, X0, Y0, Z0) /\ At(size, c, X0, Y0, Z0) /\ A = Addr(size, X0, Y0, Z0)
    BY <1>1, ElementInArray, ReadsAddress
  <1>4. A \in 0 .. size.num_elements - 1
    BY <1>1, <1>3, AddressRange
  <1>5. s = Slot(size, layer, c.ii + layer, Y0 + layer, Z0 + layer)
        /\ IsSlot(size, layer, c.ii + layer, Y0 + layer, Z0 + layer)
    BY <1>1, SlotOfElement
  <1>6. n0 = TypeAt(size, c) /\ n0 \in Nat
    BY <1>1 DEF Counted
  <1>7. /\ visited' \in Seq(0 .. size.num_elements - 1) /\ Len(visited') = n0 + 1
        /\ \A n \in 1 .. n0 : visited'[n] = visited[n]
        /\ visited'[n0 + 1] = A
    <2> HIDE DEF A
    <2> QED BY <1>1, <1>2, <1>4
  <1>8. /\ c' \in Cursors /\ AtElement(size, c') /\ Pointers(size, layer, c') /\ Codes(c')
        /\ c'.i = c.i /\ pc' \in {"element", "block"}
        /\ pc' = "block" => LastInBlock(size, c')
        /\ pc' = "element" => TypeAt(size, c') = n0 + 1
        /\ pc' = "block" => TypeAt(size, c') + 1 = n0 + 1
        /\ \A x, y, z : InArray(size, x, y, z)
             => (Walked(x, y, z)' <=> Before(size, c, x, y, z) \/ At(size, c, x, y, z))
    <2>1. CASE LastInBlock(size, c)
      <3>1. pc' = "block" /\ c' = c
        BY <2>1 DEF VisitElement
      <3>2. \A x, y, z : Walked(x, y, z)' <=> Before(size, c, x, y, z) \/ At(size, c, x, y, z)
        BY <3>1, <1>2, SameSize, Zenon DEF Walked
      <3> QED BY <2>1, <3>1, <3>2, <1>1, <1>6
    <2>2. CASE ~LastInBlock(size, c)
      <3>1. pc' = "element" /\ c' = NextElement(size, c)
        BY <2>2, <1>1 DEF VisitElement
      <3>2. \A x, y, z : Walked(x, y, z)' <=> Before(size, c', x, y, z)
        BY <3>1, <1>2, SameSize, Zenon DEF Walked
      <3>3. \A x, y, z : InArray(size, x, y, z)
              => (Before(size, NextElement(size, c), x, y, z)
                    <=> Before(size, c, x, y, z) \/ At(size, c, x, y, z))
        BY <2>2, <1>1, BeforeNextElement
      <3>4. /\ NextElement(size, c) \in Cursors
            /\ AtElement(size, NextElement(size, c))
            /\ TypeAt(size, NextElement(size, c)) = TypeAt(size, c) + 1
            /\ Pointers(size, layer, NextElement(size, c)) /\ Codes(NextElement(size, c))
            /\ NextElement(size, c).i = c.i
        BY <2>2, <1>1, NextElementStays, PointersKept, CodesInBlock, NextElementCases
      <3> QED BY <3>1, <3>2, <3>3, <3>4, <1>6
    <2> QED BY <2>1, <2>2
  <1>9. IsSize(size)' /\ Pointers(size, layer, c)' /\ Codes(c)' /\ AtElement(size, c)'
        /\ (LastInBlock(size, c) <=> LastInBlock(size, c)) /\ (pc' = "block" => LastInBlock(size, c)')
    <2>1. Pointers(size, layer, c)' = Pointers(size, layer, c') /\ Codes(c)' = Codes(c')
      BY <1>2, SameSize
    <2> QED BY <2>1, <1>1, <1>2, <1>8
  <1>10. Counted'
    <2>1. TypeAt(size, c)' = TypeAt(size, c')
      BY <1>2
    <2>2. CASE pc' = "element"
      <3>1. Len(visited') = TypeAt(size, c)'
        BY <2>1, <2>2, <1>7, <1>8
      <3> QED BY <3>1, <2>2, Zenon DEF Counted
    <2>3. CASE pc' = "block"
      <3>1. Len(visited') = TypeAt(size, c)' + 1
        BY <2>1, <2>3, <1>7, <1>8
      <3> QED BY <3>1, <2>3, Zenon DEF Counted
    <2> QED BY <2>2, <2>3, <1>8
  <1> HIDE DEF A, s, n0, X0, Y0, Z0
  <1>11. Covered'
    <2>1. SUFFICES ASSUME NEW x, NEW y, NEW z, InArray(size, x, y, z)', Walked(x, y, z)'
                   PROVE  \E n \in 1 .. Len(visited') : visited'[n] = Addr(size, x, y, z)'
      BY DEF Covered
    <2>2. InArray(size, x, y, z) /\ Addr(size, x, y, z)' = Addr(size, x, y, z)
      BY <2>1, <1>2, SameSize
    <2>3. Before(size, c, x, y, z) \/ At(size, c, x, y, z)
      BY <2>1, <2>2, <1>8
    <2>4. CASE Before(size, c, x, y, z)
      <3>1. PICK n \in 1 .. Len(visited) : visited[n] = Addr(size, x, y, z)
        BY <2>2, <2>4, <1>1 DEF Covered, Walked
      <3>2. n \in 1 .. n0 /\ n \in 1 .. n0 + 1
        BY <1>6 DEF n0
      <3> QED BY <3>1, <3>2, <2>2, <1>7
    <2>5. CASE At(size, c, x, y, z)
      <3>1. x = X0 /\ y = Y0 /\ z = Z0
        BY <2>2, <2>5, <1>1, Position DEF At, X0, Y0, Z0
      <3>2. n0 + 1 \in 1 .. n0 + 1
        BY <1>6
      <3> QED BY <3>1, <3>2, <2>2, <1>3, <1>7
    <2> QED BY <2>3, <2>4, <2>5
  <1>12. Held'
    <2>1. SUFFICES ASSUME NEW p, NEW u, NEW v, NEW x, NEW y, NEW z,
                          Holds(p, u, v, x, y, z)'
                   PROVE  /\ x < 0 \/ y < 0 \/ z < 0
                               => holds'[Slot(size, layer, p, u, v)'] = Ghost
                          /\ InArray(size, x, y, z)' /\ Walked(x, y, z)'
                               => holds'[Slot(size, layer, p, u, v)'] = Addr(size, x, y, z)'
      BY DEF Held
    <2>2. /\ Slot(size, layer, p, u, v)' = Slot(size, layer, p, u, v)
          /\ Addr(size, x, y, z)' = Addr(size, x, y, z)
          /\ InArray(size, x, y, z)' = InArray(size, x, y, z)
          /\ IsSlot(size, layer, p, u, v)' = IsSlot(size, layer, p, u, v)
      BY <1>2, SameSize
    <2>3. Holds(p, u, v, x, y, z)
      <3>1. /\ IsSlot(size, layer, p, u, v) /\ c'.i = c.i
            /\ x = c'.i * size.block_size + p - layer /\ y = u - layer /\ z = v - layer
        BY <2>1, <2>2, <1>2, <1>8 DEF Holds
      <3> QED BY <3>1 DEF Holds
    <2>4. /\ x < 0 \/ y < 0 \/ z < 0 => holds[Slot(size, layer, p, u, v)] = Ghost
          /\ InArray(size, x, y, z) /\ Walked(x, y, z)
               => holds[Slot(size, layer, p, u, v)] = Addr(size, x, y, z)
      BY <2>3, <1>1 DEF Held
    <2>5. IsSlot(size, layer, p, u, v) /\ Slot(size, layer, p, u, v) \in DOMAIN holds
      BY <2>3, <1>1, SlotInBuffer DEF Holds
    <2>6. /\ x = c.i * size.block_size + p - layer /\ y = u - layer /\ z = v - layer
          /\ p \in Int /\ u \in Int /\ v \in Int /\ layer \in Int
          /\ c.i * size.block_size \in Int
      BY <2>3, <1>1, Slab, SizeFacts DEF Holds, IsSlot
    <2>7. s \in DOMAIN holds
      BY <1>1, <1>5, SlotInBuffer
    <2>8. CASE Slot(size, layer, p, u, v) = s
      <3>1. p = c.ii + layer /\ u = Y0 + layer /\ v = Z0 + layer
        BY <2>5, <2>8, <1>1, <1>5, SlotsApart
      <3>2. X0 \in Nat /\ Y0 \in Nat /\ Z0 \in Nat /\ c.ii \in Nat
        BY <1>1, <1>3, SizeFacts, CursorFacts DEF InArray
      <3>3. X0 = c.i * size.block_size + c.ii
        BY DEF X0
      <3>4. x = X0 /\ y = Y0 /\ z = Z0
        BY <2>6, <3>1, <3>2, <3>3
      <3>5. holds'[Slot(size, layer, p, u, v)] = A
        BY <2>7, <2>8, <1>2
      <3> QED BY <2>2, <3>2, <3>4, <3>5, <1>3
    <2>9. CASE Slot(size, layer, p, u, v) # s
      <3>1. holds'[Slot(size, layer, p, u, v)] = holds[Slot(size, layer, p, u, v)]
        BY <2>5, <2>9, <1>2
      <3>2. ASSUME InArray(size, x, y, z), At(size, c, x, y, z) PROVE FALSE
        <4>1. x = X0 /\ y = Y0 /\ z = Z0
          BY <3>2, <1>1, Position DEF At, X0, Y0, Z0
        <4>2. X0 = c.i * size.block_size + c.ii /\ c.ii \in Int
          BY <1>1, CursorFacts DEF X0
        <4>4. p = c.ii + layer
          <5> DEFINE w == c.i * size.block_size
                     e == c.ii
          <5>1. w \in Int /\ e \in Int /\ p \in Int /\ layer \in Int
            BY <4>2, <2>6
          <5>2. w + e = w + p - layer
            BY <4>1, <4>2, <2>6
          <5> HIDE DEF w, e
          <5>3. p = e + layer
            BY <5>1, <5>2
          <5> QED BY <5>3 DEF e
        <4>5. \A l, q, e \in Int : e = q - l => q = e + l
          OBVIOUS
        <4>6. u = y + layer /\ v = z + layer
          BY <4>5, <2>6
        <4> QED BY <4>1, <4>4, <4>6, <2>9, <1>5
      <3>3. InArray(size, x, y, z) /\ Walked(x, y, z)' => Walked(x, y, z)
        BY <3>2, <1>8 DEF Walked
      <3> QED BY <2>2, <2>4, <3>1, <3>3
    <2> QED BY <2>8, <2>9
  <1> QED BY <1>1, <1>2, <1>7, <1>8, <1>9, <1>10, <1>11, <1>12 DEF IInv

\* So does leaving a block.
LEMMA LeaveInvariant == IInv /\ LeaveBlock => IInv'
  <1> SUFFICES ASSUME IInv, LeaveBlock PROVE IInv'
    OBVIOUS
  <1> DEFINE n == NextBlock(size, layer, c)
             bs == size.block_size
  <1>1. /\ IsSize(size) /\ layer \in Nat /\ c \in Cursors /\ pc = "block"
        /\ AtElement(size, c) /\ Pointers(size, layer, c) /\ Codes(c)
        /\ LastInBlock(size, c)
        /\ visited \in Seq(0 .. size.num_elements - 1) /\ Counted /\ Covered
        /\ DOMAIN holds = 0 .. BufferLength(size, layer) - 1 /\ Held
    BY DEF IInv, LeaveBlock
  <1>2. /\ c' = n /\ visited' = visited /\ size' = size /\ layer' = layer
        /\ pc' = (IF LastBlock(size, c) THEN "done" ELSE "element")
        /\ holds' = IF LastPlane(size, c) THEN SlideBuffer(size, layer, holds) ELSE holds
    BY DEF LeaveBlock
  <1>3. /\ n \in Cursors /\ Pointers(size, layer, n)
        /\ ~LastBlock(size, c) => AtElement(size, n) /\ Codes(n)
        /\ TypeAt(size, n) = TypeAt(size, c) + 1
        /\ LastBlock(size, c) => n.type = size.num_elements
        /\ n.jj = 0 /\ n.kk = 0 /\ n.type = c.type + SizeY(size, c) * SizeZ(size, c)
        /\ IF LastPlane(size, c) THEN n.i = c.i + 1 /\ n.j = 0 /\ n.k = 0
                                 ELSE n.i = c.i
    <2>1. /\ n \in Cursors
          /\ ~LastBlock(size, c) => AtElement(size, n)
          /\ TypeAt(size, n) = TypeAt(size, c) + 1
      BY <1>1, NextBlockStays
    <2>2. Pointers(size, layer, n)
      BY <1>1, PointersKept
    <2>3. /\ ~LastBlock(size, c) => Codes(n)
          /\ LastBlock(size, c) => n.type = size.num_elements
      BY <1>1, CodesPastBlock
    <2>4. /\ n.jj = 0 /\ n.kk = 0 /\ n.type = c.type + SizeY(size, c) * SizeZ(size, c)
          /\ IF LastPlane(size, c) THEN n.i = c.i + 1 /\ n.j = 0 /\ n.k = 0
                                   ELSE n.i = c.i
      <3> HIDE DEF n
      <3>1. /\ n.jj = 0 /\ n.kk = 0 /\ n.type = c.type + SizeY(size, c) * SizeZ(size, c)
            /\ \/ ~LastRow(size, c) /\ n.i = c.i
               \/ LastRow(size, c) /\ ~LastPlane(size, c) /\ n.i = c.i
               \/ LastPlane(size, c) /\ n.i = c.i + 1 /\ n.j = 0 /\ n.k = 0
        BY <1>1, NextBlockCases DEF n
      <3> QED BY <3>1 DEF LastPlane
    <2> QED BY <2>1, <2>2, <2>3, <2>4
  <1>4. \A x, y, z : InArray(size, x, y, z)
          => (Before(size, n, x, y, z) <=> Before(size, c, x, y, z) \/ At(size, c, x, y, z))
    BY <1>1, BeforeNextBlock
  <1> HIDE DEF n
  <1>5. \A x, y, z : InArray(size, x, y, z) /\ Walked(x, y, z)' => Walked(x, y, z)
    <2>1. SUFFICES ASSUME NEW x, NEW y, NEW z, InArray(size, x, y, z), Walked(x, y, z)'
                   PROVE  Before(size, c, x, y, z) \/ At(size, c, x, y, z)
      BY <1>1 DEF Walked
    <2>2. CASE LastBlock(size, c)
      <3>1. n.i = size.num_x
        BY <2>2, <1>3 DEF LastBlock
      <3>2. Before(size, n, x, y, z)
        BY <2>1, <3>1, <1>1, AllBefore
      <3> QED BY <2>1, <3>2, <1>4
    <2>3. CASE ~LastBlock(size, c)
      <3>1. pc' = "element"
        BY <2>3, <1>2
      <3>2. Before(size, c', x, y, z)
        BY <2>1, <3>1, <1>2, SameSize, Zenon DEF Walked
      <3> QED BY <2>1, <3>2, <1>2, <1>4
    <2> QED BY <2>2, <2>3
  <1>6. /\ IsSize(size)' /\ (pc' # "done" => Pointers(size, layer, c)' /\ Codes(c)' /\ AtElement(size, c)')
        /\ pc' \in {"element", "block", "done"} /\ pc' # "block" /\ (c \in Cursors)'
    <2>1. Pointers(size, layer, c)' = Pointers(size, layer, c') /\ Codes(c)' = Codes(c')
      BY <1>2, SameSize
    <2> QED BY <2>1, <1>1, <1>2, <1>3
  <1>7. Len(visited) = TypeAt(size, c) + 1
    BY <1>1, Zenon DEF Counted
  <1>8. Counted'
    <2>1. CASE LastBlock(size, c)
      <3>1. TypeAt(size, n) = n.type
        <4>1. LastPlane(size, c) /\ n.k = 0 /\ n.kk = 0 /\ n.jj = 0
          BY <2>1, <1>3 DEF LastBlock
        <4>2. SizeZ(size, n) \in Int /\ n.type \in Int
          <5>1. 0 < size.num_z /\ size.num_z = (size.d3 - 1) \div bs + 1
                /\ bs \in Nat \ {0} /\ size.d3 \in Nat \ {0}
            BY <1>1, SizeFacts
          <5>2. Extent(size, 0, size.d3) \in 1 .. bs
            BY <5>1, ExtentRange
          <5>3. Extent(size, 0, size.d3) \in Int /\ n.type \in Int
            BY <5>1, <5>2, <1>3 DEF Cursors
          <5> QED BY <4>1, <5>3 DEF SizeZ
        <4>3. 0 * SizeZ(size, n) = 0
          BY <4>2
        <4> QED BY <4>1, <4>2, <4>3 DEF TypeAt, LaneOf
      <3>2. pc' = "done" /\ Len(visited') = size'.num_elements
        BY <2>1, <3>1, <1>2, <1>3, <1>7
      <3> QED BY <3>2, Zenon DEF Counted
    <2>2. CASE ~LastBlock(size, c)
      <3>1. pc' = "element" /\ Len(visited') = TypeAt(size, c)'
        BY <2>2, <1>2, <1>3, <1>7
      <3> QED BY <3>1, Zenon DEF Counted
    <2> QED BY <2>1, <2>2
  <1>9. Covered'
    <2>1. SUFFICES ASSUME NEW x, NEW y, NEW z, InArray(size, x, y, z)', Walked(x, y, z)'
                   PROVE  \E m \in 1 .. Len(visited') : visited'[m] = Addr(size, x, y, z)'
      BY DEF Covered
    <2>2. InArray(size, x, y, z) /\ Addr(size, x, y, z)' = Addr(size, x, y, z)
      BY <2>1, <1>2, SameSize
    <2>3. \E m \in 1 .. Len(visited) : visited[m] = Addr(size, x, y, z)
      BY <2>1, <2>2, <1>1, <1>5 DEF Covered
    <2> QED BY <2>2, <2>3, <1>2
  <1>10. DOMAIN holds' = 0 .. BufferLength(size, layer) - 1
    BY <1>1, <1>2 DEF SlideBuffer
  <1>11. ASSUME pc' # "done" PROVE Held'
    <2>0. ~LastBlock(size, c) /\ pc' = "element"
      BY <1>2, <1>11
    <2>1. SUFFICES ASSUME NEW p, NEW u, NEW v, NEW x, NEW y, NEW z,
                          Holds(p, u, v, x, y, z)'
                   PROVE  /\ x < 0 \/ y < 0 \/ z < 0
                               => holds'[Slot(size, layer, p, u, v)'] = Ghost
                          /\ InArray(size, x, y, z)' /\ Walked(x, y, z)'
                               => holds'[Slot(size, layer, p, u, v)'] = Addr(size, x, y, z)'
      BY DEF Held
    <2>2. /\ Slot(size, layer, p, u, v)' = Slot(size, layer, p, u, v)
          /\ Addr(size, x, y, z)' = Addr(size, x, y, z)
          /\ InArray(size, x, y, z)' = InArray(size, x, y, z)
          /\ IsSlot(size, layer, p, u, v)' = IsSlot(size, layer, p, u, v)
      BY <1>2, SameSize
    <2>3. /\ IsSlot(size, layer, p, u, v)
          /\ x = n.i * bs + p - layer /\ y = u - layer /\ z = v - layer
      BY <2>1, <2>2, <1>2 DEF Holds
    <2>4. CASE ~LastPlane(size, c)
      <3>1. n.i = c.i /\ holds' = holds
        BY <2>4, <1>2, <1>3
      <3>2. Holds(p, u, v, x, y, z)
        BY <2>3, <3>1 DEF Holds
      <3> QED BY <2>2, <3>1, <3>2, <1>1, <1>5 DEF Held
    <2>5. CASE LastPlane(size, c)
      <3> DEFINE e == c.i * bs
      <3>1. /\ p \in 0 .. (bs + layer) - 1 /\ u \in Int /\ v \in Int /\ layer \in Nat
            /\ bs \in Nat \ {0} /\ e \in Nat /\ x = (e + bs) + p - layer
        <4>1. n.i = c.i + 1 /\ c.i \in Nat /\ bs \in Nat \ {0} /\ e \in Nat
          BY <2>5, <1>1, <1>3, Slab, CursorFacts
        <4>2. n.i * bs = e + bs
          BY <4>1, Distributes
        <4>3. p \in 0 .. (bs + layer) - 1 /\ u \in Int /\ v \in Int
          BY <2>3, <1>1, SizeFacts DEF IsSlot
        <4> HIDE DEF e
        <4> QED BY <4>1, <4>2, <4>3, <2>3, <1>1
      <3>2. holds' = SlideBuffer(size, layer, holds)
        BY <2>5, <1>2
      <3>5. /\ p < layer => /\ IsSlot(size, layer, p + bs, u, v)
                            /\ SlideBuffer(size, layer, holds)[Slot(size, layer, p, u, v)]
                                 = holds[Slot(size, layer, p + bs, u, v)]
            /\ ~(p < layer) => SlideBuffer(size, layer, holds)[Slot(size, layer, p, u, v)]
                                 = holds[Slot(size, layer, p, u, v)]
        <4>1. IsSlot(size, layer, p, u, v) /\ DOMAIN holds = 0 .. BufferLength(size, layer) - 1
              /\ IsSize(size) /\ layer \in Nat
          BY <2>3, <1>1
        <4>2. Moved(size, layer, holds, p, u, v)
          BY <4>1, Slides
        <4> QED BY <4>2 DEF Moved
      <3>3. CASE p < layer
        <4>1. /\ IsSlot(size, layer, p + bs, u, v)
              /\ holds'[Slot(size, layer, p, u, v)] = holds[Slot(size, layer, p + bs, u, v)]
          BY <3>2, <3>3, <3>5
        <4>2. x = e + (p + bs) - layer
          <5> HIDE DEF e, bs
          <5> QED BY <3>1
        <4>3. Holds(p + bs, u, v, x, y, z)
          BY <2>3, <4>1, <4>2 DEF Holds
        <4> QED BY <2>2, <4>1, <4>3, <1>1, <1>5 DEF Held
      <3>4. CASE ~(p < layer)
        <4>1. holds'[Slot(size, layer, p, u, v)] = holds[Slot(size, layer, p, u, v)]
          BY <3>2, <3>4, <3>5
        <4>2. x >= e + bs /\ x \in Nat
          <5> HIDE DEF e, bs
          <5> QED BY <3>1, <3>4
        <4>3. x < 0 \/ y < 0 \/ z < 0 => holds[Slot(size, layer, p, u, v)] = Ghost
          <5>1. e + p - layer \in Int /\ (c.i * bs + p - layer = e + p - layer)
            <6>1. c.i * bs = e
              OBVIOUS
            <6> HIDE DEF e, bs
            <6> QED BY <6>1, <3>1
          <5>2. Holds(p, u, v, c.i * bs + p - layer, y, z)
            BY <2>3 DEF Holds
          <5>3. y < 0 \/ z < 0 => holds[Slot(size, layer, p, u, v)] = Ghost
            BY <5>2, <1>1 DEF Held
          <5> QED BY <4>2, <5>3
        <4>4. ASSUME InArray(size, x, y, z), Walked(x, y, z)' PROVE FALSE
          <5>1. Before(size, n, x, y, z)
            BY <2>0, <4>4, <1>2, SameSize, Zenon DEF Walked
          <5>2. /\ Blk(size, x) \in Nat /\ Off(size, x) \in Nat /\ Off(size, x) < bs
                /\ x = Blk(size, x) * bs + Off(size, x)
                /\ Blk(size, y) \in Nat /\ Blk(size, z) \in Nat /\ Off(size, y) \in Nat
                /\ Off(size, z) \in Nat
            BY <4>4, <1>1, Position
          <5>3. n.i = c.i + 1 /\ n.j = 0 /\ n.k = 0 /\ n.ii = 0 /\ n.jj = 0 /\ n.kk = 0
            BY <2>5, <1>1, <1>3, NextBlockStays DEF n
          <5>4. Blk(size, x) < c.i + 1
            BY <5>1, <5>2, <5>3 DEF Before
          <5>5. Blk(size, x) * bs <= e
            <6>1. Blk(size, x) \in Nat /\ c.i \in Nat /\ Blk(size, x) <= c.i
              BY <5>2, <5>4, <1>1, CursorFacts
            <6> QED BY <6>1, <3>1, MulLe
          <5>6. Blk(size, x) * bs \in Nat
            BY <5>2, <3>1
          <5> DEFINE f == Blk(size, x) * bs
                     o == Off(size, x)
          <5>7. f \in Nat /\ f <= e /\ o \in Nat /\ o < bs /\ x = f + o
            BY <5>2, <5>5, <5>6
          <5> HIDE DEF e, f, o, bs
          <5> QED BY <5>7, <3>1, <4>2
        <4> QED BY <2>2, <4>1, <4>3, <4>4
      <3> QED BY <3>3, <3>4
    <2> QED BY <2>4, <2>5
  <1> QED BY <1>1, <1>2, <1>6, <1>8, <1>9, <1>10, <1>11 DEF IInv

\* The invariant holds in every state.
THEOREM Invariance == Spec => []IInv
  <1>1. Init => IInv
    BY InitInvariant
  <1>2. IInv /\ [Next]_vars => IInv'
    <2>1. SUFFICES ASSUME IInv, [Next]_vars PROVE IInv'
      OBVIOUS
    <2>2. CASE VisitElement
      BY <2>1, <2>2, VisitInvariant
    <2>3. CASE LeaveBlock
      BY <2>1, <2>3, LeaveInvariant
    <2>4. CASE UNCHANGED vars
      <3>1. /\ size' = size /\ layer' = layer /\ c' = c /\ pc' = pc /\ visited' = visited
            /\ holds' = holds
        BY <2>4 DEF vars
      <3>2. /\ Pointers(size, layer, c)' = Pointers(size, layer, c) /\ Codes(c)' = Codes(c)
            /\ \A x, y, z : InArray(size, x, y, z)' = InArray(size, x, y, z)
            /\ \A x, y, z : Addr(size, x, y, z)' = Addr(size, x, y, z)
            /\ \A p, y, z : Slot(size, layer, p, y, z)' = Slot(size, layer, p, y, z)
            /\ \A p, y, z : IsSlot(size, layer, p, y, z)' = IsSlot(size, layer, p, y, z)
        BY <3>1, SameSize
      <3>3. Counted' = Counted
        BY <3>1, Zenon DEF Counted
      <3>4. \A x, y, z : Walked(x, y, z)' <=> Walked(x, y, z)
        BY <3>1, SameSize, Zenon DEF Walked
      <3>5. Covered' <=> Covered
        BY <3>1, <3>2, <3>4 DEF Covered
      <3>6. \A p, u, v, x, y, z : Holds(p, u, v, x, y, z)' <=> Holds(p, u, v, x, y, z)
        BY <3>1, <3>2 DEF Holds
      <3>7. Held' <=> Held
        BY <3>1, <3>2, <3>4, <3>6 DEF Held
      <3> QED BY <2>1, <3>1, <3>2, <3>3, <3>5, <3>7 DEF IInv
    <2> QED BY <2>1, <2>2, <2>3, <2>4 DEF Next, Done
  <1> QED BY <1>1, <1>2, PTL DEF Spec

\* The bumped pointers lead to the address the loop counters name, and the n-th
\* element visited gets the n-th code.
THEOREM PointersNeverDrift == Spec => []PointersAgree
  <1>1. IInv => PointersAgree
    <2> SUFFICES ASSUME IInv, pc = "element" PROVE PointersAgree
      BY DEF PointersAgree
    <2>1. /\ IsSize(size) /\ layer \in Nat /\ c \in Cursors /\ AtElement(size, c)
          /\ Pointers(size, layer, c) /\ Counted
      BY DEF IInv
    <2>2. DataAt(size, c) = Addr(size, X, Y, Z) /\ InArray(size, X, Y, Z)
      BY <2>1, ReadsAddress, ElementInArray DEF X, Y, Z
    <2>3. X < size.d1 /\ Y < size.d2 /\ Z < size.d3
      <3>1. /\ size.d1 \in Nat /\ size.d2 \in Nat /\ size.d3 \in Nat
        BY <2>1, SizeFacts
      <3>2. \A d \in Nat : \A v \in 0 .. d - 1 : v < d
        OBVIOUS
      <3> QED BY <2>2, <3>1, <3>2 DEF InArray
    <2>4. TypeAt(size, c) = Len(visited)
      BY <2>1, Zenon DEF Counted
    <2> QED BY <2>2, <2>3, <2>4 DEF PointersAgree, Addr
  <1> QED BY <1>1, Invariance, PTL

\* The walk visits every element once: as many visits as elements, and every
\* offset of the array among them.
THEOREM VisitsEachOnce == Spec => []EachElementOnce
  <1>1. IInv => EachElementOnce
    <2> SUFFICES ASSUME IInv, pc = "done" PROVE EachElementOnce
      BY DEF EachElementOnce
    <2>1. /\ IsSize(size) /\ visited \in Seq(0 .. size.num_elements - 1)
          /\ Counted /\ Covered
      BY DEF IInv
    <2>2. Len(visited) = size.num_elements
      BY Zenon, <2>1 DEF Counted
    <2>3. ASSUME NEW a \in 0 .. size.num_elements - 1
          PROVE  \E n \in DOMAIN visited : visited[n] = a
      <3>1. PICK x, y, z : InArray(size, x, y, z) /\ a = Addr(size, x, y, z)
        BY <2>1, AddressOnto
      <3>2. Walked(x, y, z)
        BY DEF Walked
      <3>3. \E n \in 1 .. Len(visited) : visited[n] = a
        BY <2>1, <3>1, <3>2 DEF Covered
      <3> QED BY <2>1, <3>3
    <2>4. \A n \in DOMAIN visited : visited[n] \in 0 .. size.num_elements - 1
      <3> DEFINE S == 0 .. size.num_elements - 1
      <3>1. visited \in Seq(S)
        BY <2>1
      <3> HIDE DEF S
      <3>2. \A n \in DOMAIN visited : visited[n] \in S
        BY <3>1
      <3> QED BY <3>2 DEF S
    <2>5. {visited[n] : n \in DOMAIN visited} = 0 .. size.num_elements - 1
      BY <2>3, <2>4
    <2> QED BY <2>2, <2>5 DEF EachElementOnce
  <1> QED BY <1>1, Invariance, PTL

\* Every slot a predictor reads holds the neighbour it is read for, or the zero
\* of the ghost layer, for an array of any size.
THEOREM StencilFindsNeighbours == Spec => []StencilReadsNeighbours
  <1>1. IInv => StencilReadsNeighbours
    <2> SUFFICES ASSUME IInv, pc = "element",
                        NEW dx \in 0 .. layer, NEW dy \in 0 .. layer, NEW dz \in 0 .. layer,
                        <<dx, dy, dz>> # <<0, 0, 0>>
                 PROVE  holds[BufAt(size, layer, c) - dx * BufferDim0(size, layer)
                                                    - dy * BufferDim1(size, layer) - dz]
                          = IF dx <= X /\ dy <= Y /\ dz <= Z
                            THEN DataAt(size, c) - dx * size.dim0_offset
                                   - dy * size.dim1_offset - dz
                            ELSE Ghost
      BY DEF StencilReadsNeighbours
    <2> DEFINE B0 == BufferDim0(size, layer)
               B1 == BufferDim1(size, layer)
               bs == size.block_size
               d2 == size.d2
               d3 == size.d3
               X1 == X
               Y1 == Y
               Z1 == Z
               ii == c.ii
               w == c.i * bs
               p == (ii + layer) - dx
               u == (Y1 + layer) - dy
               v == (Z1 + layer) - dz
               x == X1 - dx
               y == Y1 - dy
               z == Z1 - dz
    <2>1. /\ IsSize(size) /\ layer \in Nat /\ c \in Cursors /\ AtElement(size, c)
          /\ Pointers(size, layer, c) /\ Held
      BY DEF IInv
    <2>2. /\ B0 \in Nat /\ B1 \in Nat /\ bs \in Nat \ {0} /\ d2 \in Nat /\ d3 \in Nat
          /\ size.dim0_offset = d2 * d3 /\ size.dim1_offset = d3
          /\ ii \in Nat /\ w \in Nat /\ X1 = w + ii
      BY <2>1, BufferFacts, SizeFacts, CursorFacts, Slab DEF X
    <2>3. /\ InArray(size, X1, Y1, Z1) /\ At(size, c, X1, Y1, Z1)
          /\ DataAt(size, c) = Addr(size, X1, Y1, Z1)
      BY <2>1, ReadsAddress, ElementInArray DEF X, Y, Z
    <2>4. /\ BufAt(size, layer, c) = Slot(size, layer, ii + layer, Y1 + layer, Z1 + layer)
          /\ IsSlot(size, layer, ii + layer, Y1 + layer, Z1 + layer)
      BY <2>1, SlotOfElement DEF Y, Z
    <2>5. /\ X1 \in Nat /\ Y1 \in Nat /\ Z1 \in Nat
      BY <2>1, <2>3, SizeFacts DEF InArray
    <2>6. /\ BufAt(size, layer, c) - dx * B0 - dy * B1 - dz = Slot(size, layer, p, u, v)
          /\ IsSlot(size, layer, p, u, v)
      <3>1. /\ ii + layer \in Int /\ Y1 + layer \in Int /\ Z1 + layer \in Int
            /\ dx \in Int /\ dy \in Int /\ dz \in Int
        BY <2>1, <2>2, <2>5
      <3>2. BufAt(size, layer, c) - dx * B0 - dy * B1 - dz = Slot(size, layer, p, u, v)
        <4>1. SlotFrom(size, layer, ii + layer, Y1 + layer, Z1 + layer, dx, dy, dz)
          <5> HIDE DEF ii, Y1, Z1
          <5> QED BY <2>1, <3>1, SlotBehind
        <4> QED BY <2>4, <4>1, Zenon DEF SlotFrom
      <3>3. IsSlot(size, layer, p, u, v)
        <4> HIDE DEF ii, Y1, Z1
        <4> QED BY <2>1, <2>2, <2>4, <2>5, SizeFacts DEF IsSlot
      <3> QED BY <3>2, <3>3
    <2>7. Holds(p, u, v, x, y, z)
      <3> HIDE DEF ii, w, X1, Y1, Z1
      <3>1. y = u - layer /\ z = v - layer
        BY <2>1, <2>5
      <3>2. x = w + p - layer
        BY <2>1, <2>2, <2>5
      <3> QED BY <2>6, <3>1, <3>2 DEF Holds, w
    <2>8. /\ x < 0 \/ y < 0 \/ z < 0 => holds[Slot(size, layer, p, u, v)] = Ghost
          /\ InArray(size, x, y, z) /\ Walked(x, y, z)
               => holds[Slot(size, layer, p, u, v)] = Addr(size, x, y, z)
      <3> HIDE DEF p, u, v, x, y, z
      <3> QED BY <2>1, <2>7 DEF Held
    <2>9. CASE ~(dx <= X /\ dy <= Y /\ dz <= Z)
      <3>1. x < 0 \/ y < 0 \/ z < 0
        <4>1. ~(dx <= X1 /\ dy <= Y1 /\ dz <= Z1)
          BY <2>9
        <4> HIDE DEF X1, Y1, Z1
        <4> QED BY <4>1, <2>5
      <3>2. holds[Slot(size, layer, p, u, v)] = Ghost
        BY <2>8, <3>1
      <3> HIDE DEF p, u, v
      <3> QED BY <2>6, <2>9, <3>2
    <2>10. CASE dx <= X /\ dy <= Y /\ dz <= Z
      <3>1. /\ dx <= X1 /\ dy <= Y1 /\ dz <= Z1
        BY <2>10
      <3>2. InArray(size, x, y, z) /\ x \in Nat /\ y \in Nat /\ z \in Nat
        <4> HIDE DEF X1, Y1, Z1
        <4> QED BY <2>1, <2>3, <2>5, <3>1, SizeFacts DEF InArray
      <3>3. Before(size, c, x, y, z)
        <4>2. /\ c.i \in Nat /\ c.j \in Nat /\ c.k \in Nat
              /\ c.ii \in Nat /\ c.jj \in Nat /\ c.kk \in Nat
          BY <2>1, CursorFacts
        <4>3. /\ x = c.i * bs + c.ii - dx /\ y = c.j * bs + c.jj - dy
              /\ z = c.k * bs + c.kk - dz
          <5>1. \A e, f, d \in Int : (e + f) - d = e + f - d
            OBVIOUS
          <5>2. c.i * bs \in Int /\ c.j * bs \in Int /\ c.k * bs \in Int
            BY <2>2, <4>2
          <5>3. /\ x = (c.i * bs + c.ii) - dx /\ y = (c.j * bs + c.jj) - dy
                /\ z = (c.k * bs + c.kk) - dz
            BY DEF X, Y, Z
          <5> QED BY <4>2, <5>1, <5>2, <5>3
        <4>4. dx \in Nat /\ dy \in Nat /\ dz \in Nat
          BY <2>1
        <4>5. /\ x = Back(size, c.i, c.ii, dx) /\ y = Back(size, c.j, c.jj, dy)
              /\ z = Back(size, c.k, c.kk, dz)
          BY <4>3 DEF Back
        <4> HIDE DEF x, y, z
        <4>6. dx # 0 \/ dy # 0 \/ dz # 0
          BY Zenon
        <4> QED BY <2>1, <3>2, <4>4, <4>5, <4>6, BehindIsBefore
      <3>4. holds[Slot(size, layer, p, u, v)] = Addr(size, x, y, z)
        BY <2>8, <3>2, <3>3 DEF Walked
      <3>5. Addr(size, x, y, z) = Addr(size, X1, Y1, Z1) - dx * (d2 * d3) - dy * d3 - dz
        <4> DEFINE e1 == X1 * (d2 * d3)
                   e2 == Y1 * d3
                   t1 == dx * (d2 * d3)
                   t2 == dy * d3
        <4>1. /\ X1 \in Int /\ Y1 \in Int /\ Z1 \in Int /\ dx \in Int /\ dy \in Int
              /\ dz \in Int /\ d2 * d3 \in Int /\ d3 \in Int
          BY <2>1, <2>2, <2>5
        <4> HIDE DEF X1, Y1, Z1
        <4>2. /\ Addr(size, x, y, z) = (X1 - dx) * (d2 * d3) + (Y1 - dy) * d3 + (Z1 - dz)
              /\ Addr(size, X1, Y1, Z1) = e1 + e2 + Z1
          BY <2>1, <2>2, <4>1, AddrOffsets
        <4>3. /\ (X1 - dx) * (d2 * d3) = e1 - t1 /\ (Y1 - dy) * d3 = e2 - t2
              /\ e1 \in Int /\ e2 \in Int /\ t1 \in Int /\ t2 \in Int
          BY <4>1, Distributes
        <4>4. (e1 - t1) + (e2 - t2) + (Z1 - dz) = (e1 + e2 + Z1) - t1 - t2 - dz
          <5> HIDE DEF e1, e2, t1, t2
          <5> QED BY <4>1, <4>3
        <4> QED BY <4>2, <4>3, <4>4
      <3> HIDE DEF p, u, v, x, y, z, X1, Y1, Z1
      <3> QED BY <2>2, <2>3, <2>6, <2>10, <3>4, <3>5
    <2> QED BY <2>9, <2>10
  <1> QED BY <1>1, Invariance, PTL
=============================================================================
