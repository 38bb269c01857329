---------------------------- MODULE HuffmanHeap ----------------------------
(***************************************************************************)
(* The priority queue of the Huffman coder: a binary heap of tree nodes,   *)
(* lightest first.  q is qq[1] .. qq[qend - 1]; f gives each node's freq.  *)
(***************************************************************************)
EXTENDS Integers, Sequences

qinsert_last(q, f, n) == Append(q, n)
\* The hole at the end of the queue moves up past every heavier node.
qinsert(q, f, n) ==
  LET hole[i \in 1 .. Len(q) + 1] ==
        IF i = 1 \/ f[q[i \div 2]] <= f[n]
        THEN [Append(q, n) EXCEPT ![i] = n]
        ELSE [hole[i \div 2] EXCEPT ![i] = q[i \div 2]]
  IN  hole[Len(q) + 1]

\* The queue qremove leaves; the node it returns is Head(q).  The last node
\* goes to the top and sinks below its lighter child.
qremove(q, f) ==
  LET last == q[Len(q)]
      rest == [SubSeq(q, 1, Len(q) - 1) EXCEPT ![1] = last]
      lighter(i) == IF 2 * i + 1 <= Len(rest) /\ f[rest[2 * i + 1]] < f[rest[2 * i]]
                    THEN 2 * i + 1 ELSE 2 * i
      sink[i \in 1 .. Len(rest)] ==
        IF 2 * i > Len(rest) \/ f[last] <= f[rest[lighter(i)]]
        THEN [rest EXCEPT ![i] = last]
        ELSE [sink[lighter(i)] EXCEPT ![i] = rest[lighter(i)]]
  IN  IF Len(q) = 1 THEN <<>> ELSE sink[1]
=============================================================================
