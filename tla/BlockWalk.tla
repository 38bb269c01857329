----------------------------- MODULE BlockWalk -----------------------------
(***************************************************************************)
(* The walk of prediction_and_quantization_3d_with_border_predicition_and_ *)
(* knl_optimization, alone: the loops over blocks and over the elements of *)
(* a block, the pointers they bump and the buffer slots they write.  The   *)
(* decompressor and the two other walks of the library use the same bumps. *)
(***************************************************************************)
EXTENDS BlockGeometry, Sequences

CONSTANTS
  Shapes,  (* the sizes DSize_3d(r1, r2, r3, block_size) a run starts from *)
  Layers   (* the values of lorenzo_padding_layer                          *)

ASSUME ShapesAssumption ==
  /\ \A s \in Shapes : IsSize(s)
  /\ Layers \subseteq {1, 2}

VARIABLES
  size, layer,  (* arguments of the walk                                   *)
  c,            (* the cursor                                              *)
  pc,           (* "element", "block" (after a block) or "done"            *)
  visited,      (* history: data offsets in the order they were visited    *)
  holds         (* history: which element's reconstruction a slot holds    *)

vars == <<size, layer, c, pc, visited, holds>>

Ghost == -1     \* the zero memset writes: no element's reconstruction

Init ==
  /\ size \in Shapes
  /\ layer \in Layers
  /\ c = CursorStart
  /\ pc = "element"
  /\ visited = <<>>
  /\ holds = [a \in 0 .. BufferLength(size, layer) - 1 |-> Ghost]

VisitElement ==
  /\ pc = "element"
  /\ visited' = Append(visited, DataAt(size, c))
  /\ holds' = [holds EXCEPT ![BufAt(size, layer, c)] = DataAt(size, c)]
  /\ IF LastInBlock(size, c)
     THEN pc' = "block" /\ c' = c
     ELSE pc' = pc /\ c' = NextElement(size, c)
  /\ UNCHANGED <<size, layer>>

LeaveBlock ==
  /\ pc = "block"
  /\ c' = NextBlock(size, layer, c)
  /\ pc' = IF LastBlock(size, c) THEN "done" ELSE "element"
  /\ holds' = IF LastPlane(size, c) THEN SlideBuffer(size, layer, holds) ELSE holds
  /\ UNCHANGED <<size, layer, visited>>

Done == pc = "done" /\ UNCHANGED vars

Next == VisitElement \/ LeaveBlock \/ Done

Spec == Init /\ [][Next]_vars

----------------------------------------------------------------------------
(* The coordinates of the element under the cursor.                        *)
X == c.i * size.block_size + c.ii
Y == c.j * size.block_size + c.jj
Z == c.k * size.block_size + c.kk

\* Walking by pointer bumps reaches the row-major address of the element the
\* loop counters name, and the n-th element visited gets the n-th type code:
\* the running pointers x/y/z_data_pos and type_pos never drift, whatever
\* partial blocks the edges leave.
PointersAgree ==
  pc = "element" =>
    /\ DataAt(size, c) = (X * size.d2 + Y) * size.d3 + Z
    /\ X < size.d1 /\ Y < size.d2 /\ Z < size.d3
    /\ TypeAt(size, c) = Len(visited)

\* Every element is visited exactly once by the end of the walk.
EachElementOnce ==
  pc = "done" => /\ Len(visited) = size.num_elements
                 /\ {visited[n] : n \in DOMAIN visited} = 0 .. size.num_elements - 1

\* A predictor that reads up to `layer` elements back in each dimension finds
\* in the sliding buffer exactly the reconstruction of that neighbour, or the
\* zero of the ghost layer when the neighbour lies outside the array: no stale
\* plane, no neighbour of another row, no write into the ghost layers.
StencilReadsNeighbours ==
  pc = "element" =>
    \A dx, dy, dz \in 0 .. layer :
      <<dx, dy, dz>> # <<0, 0, 0>> =>
        holds[BufAt(size, layer, c) - dx * BufferDim0(size, layer)
                                    - dy * BufferDim1(size, layer) - dz]
          = IF dx <= X /\ dy <= Y /\ dz <= Z
            THEN DataAt(size, c) - dx * size.dim0_offset - dy * size.dim1_offset - dz
            ELSE Ghost

=============================================================================
