------------------------- MODULE ErrorBoundedCodec -------------------------
(***************************************************************************)
(* What a lossy compressor with an absolute error bound promises: starting *)
(* from the data, an output array comes into being element by element,     *)
(* every element exactly once and never further from the datum than the    *)
(* bound, until it is complete.                                            *)
(***************************************************************************)
CONSTANTS
  Unset,            (* an element not produced yet                         *)
  Within(_, _)      (* Within(x, y): y reconstructs x to within the bound  *)

VARIABLES data, output

Init == output = [a \in DOMAIN data |-> Unset]

Produce(a) ==
  /\ output[a] = Unset
  /\ \A b \in DOMAIN data \ {a} : output'[b] = output[b]
  /\ DOMAIN output' = DOMAIN data
  /\ output'[a] # Unset /\ Within(data[a], output'[a])
  /\ UNCHANGED data

Next == \E a \in DOMAIN data : Produce(a)

Spec == Init /\ [][Next]_<<data, output>>

Completed == \A a \in DOMAIN data : output[a] # Unset
=============================================================================
