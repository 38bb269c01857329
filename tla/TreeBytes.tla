----------------------------- MODULE TreeBytes -----------------------------
(***************************************************************************)
(* The Huffman tree as it travels: pad_tree_* numbers its nodes in         *)
(* preorder and stores per node the numbers of its children (0: none), its *)
(* symbol and whether it is a leaf, in the narrowest type that holds the   *)
(* number of nodes; unpad_tree_* rebuilds it.                              *)
(*                                                                         *)
(* A pool is a sequence of nodes [freq, c, t, left, right]; left and right *)
(* are positions in the pool, 0 the null pointer; t is 1 for a leaf.       *)
(***************************************************************************)
EXTENDS Integers, Sequences

CONSTANTS Narrow, Middle, Wide   \* 256, 65536 and 2^32 on the machine

ASSUME WidthAssumption ==
  Narrow \in Nat \ {0} /\ Middle \in Nat /\ Wide \in Nat /\ Narrow < Middle /\ Middle < Wide

\* The values of the type the children's numbers are stored in.
Width_exclusive(nodeCount) == IF nodeCount <= Middle THEN Narrow ELSE Middle
Width(nodeCount) == IF nodeCount <= Narrow THEN Narrow
                    ELSE IF nodeCount <= Middle THEN Middle
                    ELSE Wide

IsLeaf(node) == node.t = 1
Parent(pool, n) == CHOOSE m \in DOMAIN pool : pool[m].left = n \/ pool[m].right = n

\* pad_tree_*: n_inode counts the nodes in the order the recursion meets them.
PadTree(pool, root, nodeCount) ==
  LET size[n \in DOMAIN pool] ==
        IF IsLeaf(pool[n]) THEN 1 ELSE 1 + size[pool[n].left] + size[pool[n].right]
      number[n \in DOMAIN pool] ==
        IF n = root THEN 0
        ELSE LET up == Parent(pool, n)
             IN  number[up] + 1 + (IF n = pool[up].left THEN 0 ELSE size[pool[up].left])
      at(i) == pool[CHOOSE n \in DOMAIN pool : number[n] = i]
      stored(n) == IF n = 0 THEN 0 ELSE number[n] % Width(nodeCount)
      nodes == 0 .. nodeCount - 1
  IN  [L |-> [i \in nodes |-> stored(at(i).left)], R |-> [i \in nodes |-> stored(at(i).right)],
       C |-> [i \in nodes |-> at(i).c], t |-> [i \in nodes |-> at(i).t]]

\* unpad_tree_*: the node made for number i has the symbol and kind stored for
\* i, except that the root of the wider encodings is always an inner node.
UnpadTree(bytes, nodeCount) ==
  IF nodeCount <= Narrow THEN bytes
  ELSE [bytes EXCEPT !.C[0] = 0, !.t[0] = 0]
=============================================================================
