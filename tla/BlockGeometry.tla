--------------------------- MODULE BlockGeometry ---------------------------
(***************************************************************************)
(* The geometry every pass of SZauto over a 3-D array shares: the size     *)
(* record DSize_3d, and the pointers with which a pass walks the array     *)
(* block by block.  All pointers are offsets from the start of their own   *)
(* allocation, in elements.                                                *)
(*                                                                         *)
(* A cursor c of a pass has                                                *)
(*   i, j, k      the block (x, y, z), the loops over num_x, num_y, num_z  *)
(*   ii, jj, kk   the element inside the block, the loops of the kernels   *)
(*   x, y, z      x_data_pos, y_data_pos, z_data_pos                       *)
(*   buf          pred_buffer_pos                                          *)
(*   type         type_pos                                                 *)
(*                                                                         *)
(* A definition whose name ends in an underscore and a word is a slip the  *)
(* programmer could have made in the definition that follows it: no        *)
(* specification uses it, and the README lists the property that tells the *)
(* two apart.                                                              *)
(***************************************************************************)
EXTENDS Integers

DSize_3d(r1, r2, r3, bs) ==
  LET blocks(r) == (r - 1) \div bs + 1
  IN  [d1 |-> r1, d2 |-> r2, d3 |-> r3, block_size |-> bs,
       num_elements |-> r1 * r2 * r3,
       num_x |-> blocks(r1), num_y |-> blocks(r2), num_z |-> blocks(r3),
       num_blocks |-> blocks(r1) * blocks(r2) * blocks(r3),
       dim0_offset |-> r2 * r3, dim1_offset |-> r3]

IsSize(size) ==
  /\ \A f \in {"d1", "d2", "d3", "block_size"} : size[f] \in Nat \ {0}
  /\ size = DSize_3d(size.d1, size.d2, size.d3, size.block_size)

\* The extent of block number b along a dimension of d elements.
Extent(size, b, d) == IF (b + 1) * size.block_size < d
                      THEN size.block_size
                      ELSE d - b * size.block_size
SizeX(size, c) == Extent(size, c.i, size.d1)
SizeY(size, c) == Extent(size, c.j, size.d2)
SizeZ(size, c) == Extent(size, c.k, size.d3)

----------------------------------------------------------------------------
(* The prediction buffer holds block_size planes of the reconstruction     *)
(* plus `layer` ghost layers below each dimension.                         *)
BufferDim1(size, layer)   == size.d3 + layer
BufferDim0(size, layer)   == (size.d2 + layer) * (size.d3 + layer)
BufferLength(size, layer) == (size.block_size + layer) * BufferDim0(size, layer)

\* Where the element under the cursor lies in each array.
DataAt_oneRow(size, c) == c.z + c.ii * size.dim0_offset + c.kk
DataAt(size, c) == c.z + c.ii * size.dim0_offset + c.jj * size.dim1_offset + c.kk
BufAt(size, layer, c) ==
  c.buf + (c.ii + layer) * BufferDim0(size, layer)
        + (c.jj + layer) * BufferDim1(size, layer) + c.kk + layer
LaneOf(size, c) == c.jj * SizeZ(size, c) + c.kk
TypeAt(size, c) == c.type + LaneOf(size, c)

----------------------------------------------------------------------------
Cursors == [i : Nat, j : Nat, k : Nat, ii : Nat, jj : Nat, kk : Nat,
            x : Nat, y : Nat, z : Nat, buf : Int, type : Nat]

\* c is at an element of the array.
AtElement(size, c) ==
  /\ c.i < size.num_x /\ c.ii < SizeX(size, c)
  /\ c.j < size.num_y /\ c.jj < SizeY(size, c)
  /\ c.k < size.num_z /\ c.kk < SizeZ(size, c)

CursorStart == [i |-> 0, j |-> 0, k |-> 0, ii |-> 0, jj |-> 0, kk |-> 0,
                x |-> 0, y |-> 0, z |-> 0, buf |-> 0, type |-> 0]

LastInBlock_firstSlice(size, c) == /\ c.jj = SizeY(size, c) - 1
                                   /\ c.kk = SizeZ(size, c) - 1
LastInBlock(size, c) == /\ c.ii = SizeX(size, c) - 1
                        /\ c.jj = SizeY(size, c) - 1
                        /\ c.kk = SizeZ(size, c) - 1

NextElement_fullSlice(size, c) ==
  IF c.kk + 1 < SizeZ(size, c) THEN [c EXCEPT !.kk = @ + 1]
  ELSE IF c.jj + 1 < SizeY(size, c) THEN [c EXCEPT !.jj = @ + 1, !.kk = 0]
  ELSE [c EXCEPT !.ii = @ + 1, !.jj = 0, !.kk = 0,
                 !.type = @ + size.block_size * size.block_size]
\* The kernels' loops: z fastest; type_pos advances a whole slice at a time.
NextElement(size, c) ==
  IF c.kk + 1 < SizeZ(size, c) THEN [c EXCEPT !.kk = @ + 1]
  ELSE IF c.jj + 1 < SizeY(size, c) THEN [c EXCEPT !.jj = @ + 1, !.kk = 0]
  ELSE [c EXCEPT !.ii = @ + 1, !.jj = 0, !.kk = 0,
                 !.type = @ + SizeY(size, c) * SizeZ(size, c)]

LastRow_pastEnd(size, c) == c.k = size.num_z
LastRow(size, c)   == c.k + 1 = size.num_z                    \* of block columns
LastPlane(size, c) == LastRow(size, c) /\ c.j + 1 = size.num_y
LastBlock(size, c) == LastPlane(size, c) /\ c.i + 1 = size.num_x

\* The bumps after a block: along z, at the end of a row of blocks along y,
\* and at the end of a plane of blocks along x.
NextBlock(size, layer, c) ==
  LET bs   == size.block_size
      past == [c EXCEPT !.ii = 0, !.jj = 0, !.kk = 0,
                        !.type = @ + SizeY(size, c) * SizeZ(size, c),
                        !.buf = @ + bs, !.z = @ + SizeZ(size, c), !.k = @ + 1]
      y    == c.y + bs * size.dim1_offset
      x    == c.x + bs * size.dim0_offset
  IN  IF ~LastRow(size, c) THEN past
      ELSE IF ~LastPlane(size, c)
      THEN [past EXCEPT !.k = 0, !.j = @ + 1, !.y = y, !.z = y,
                        !.buf = @ + bs * BufferDim1(size, layer) - bs * size.num_z]
      ELSE [past EXCEPT !.k = 0, !.j = 0, !.i = @ + 1,
                        !.x = x, !.y = x, !.z = x, !.buf = 0]

SlideBuffer_onePlane(size, layer, buffer) ==
  LET plane == BufferDim0(size, layer)
  IN  [a \in DOMAIN buffer |->
         IF a < plane THEN buffer[a + size.block_size * plane] ELSE buffer[a]]
\* memcpy of the bottom planes of the buffer to its top.
SlideBuffer(size, layer, buffer) ==
  LET plane == BufferDim0(size, layer)
  IN  [a \in DOMAIN buffer |->
         IF a < layer * plane THEN buffer[a + size.block_size * plane] ELSE buffer[a]]

=============================================================================
