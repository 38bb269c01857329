----------------------- MODULE RegressionCoefficients -----------------------
(***************************************************************************)
(* How the regression coefficients of the blocks travel.  The compressor   *)
(* fits coefficients for every block that is large enough, into the next   *)
(* free slot of reg_params.  If the block selects the regression, the slot *)
(* is quantized in place against the slot before it and the pointer moves  *)
(* on; if not, the next fit overwrites it.  The decompressor rebuilds the  *)
(* slots of the selected blocks from the codes, each against the slot      *)
(* before.  The linear and the polynomial predictor each have such a       *)
(* channel.                                                                *)
(*                                                                         *)
(* Coefficients are integers on a lattice, Fl rounds to float, Scale(i, x) *)
(* is the integer part of x * recip_precisions[i].  Here, unlike in the    *)
(* kernels, the product is compared with the capacity as a double, before  *)
(* anything is converted to int.                                           *)
(*                                                                         *)
(* A definition whose name ends in an underscore and a word is a slip in   *)
(* the definition that follows it, which no specification uses.            *)
(***************************************************************************)
EXTENDS Integers, Sequences

CONSTANTS
  Num,          (* RegCoeffNum3d or RegPolyCoeffNum3d                      *)
  Blocks,       (* size.num_blocks                                         *)
  Capacity,     (* RegCoeffCapacity                                        *)
  Fits,         (* the coefficients a fit may give                         *)
  Precisions,   (* the precision of each coefficient                       *)
  Fl(_), Scale(_, _)

Coefficient == 0 .. Num - 1

ASSUME CoefficientsAssumption ==
  /\ Num \in Nat \ {0} /\ Blocks \in Nat
  /\ Capacity \in Nat \ {0} /\ Capacity % 2 = 0
  /\ Fits \subseteq [Coefficient -> Int]
  /\ Precisions \in [Coefficient -> Nat]

VARIABLES
  pc, block,       (* the pass over the blocks                             *)
  reg_params,      (* Blocks + 1 slots, the first all zero                 *)
  reg_params_pos,  (* the slot of the next fit                             *)
  i,               (* the coefficient being quantized                      *)
  type, unpred,    (* what travels: codes, coefficients without a code     *)
  reg_count,       (* what travels: the number of blocks that selected     *)
  fitted,          (* history: the coefficients as they were fitted        *)
  dec              (* the decompressor: its reg_params, type and unpred    *)
                   (* positions                                            *)

vars == <<pc, block, reg_params, reg_params_pos, i, type, unpred, reg_count, fitted, dec>>

Abs(x) == IF x < 0 THEN -x ELSE x
Radius == Capacity \div 2

Accurate(j, cur, value) == Abs(Fl(value - cur)) <= Precisions[j]
Value(j, prev, code) == Fl(prev + 2 * (code - Radius) * Precisions[j])

\* quant_diff without its fraction, and the code it gives.
Index(j, prev, cur) == Scale(j, Abs(Fl(cur - prev))) + 1
Code(j, prev, cur) ==
  LET half == Index(j, prev, cur) \div 2
  IN  IF Fl(cur - prev) > 0 THEN Radius + half ELSE Radius - half

Quantize_unchecked(j, prev, cur) ==
  LET code == Code(j, prev, cur)
  IN  IF Index(j, prev, cur) < Capacity
      THEN [type |-> code, value |-> Value(j, prev, code)] ELSE [type |-> 0, value |-> cur]
\* The code of cur against prev and what it stands for; 0 and cur itself when
\* the code would be too large or the value too far from cur.
Quantize(j, prev, cur) ==
  LET code == Code(j, prev, cur)
  IN  IF Index(j, prev, cur) < Capacity /\ Accurate(j, cur, Value(j, prev, code))
      THEN [type |-> code, value |-> Value(j, prev, code)] ELSE [type |-> 0, value |-> cur]

Slots_perBlock == 0 .. Num * Blocks - 1
Slots == 0 .. Num * (Blocks + 1) - 1

Init ==
  /\ pc = "block" /\ block = 0
  /\ reg_params = [a \in Slots |-> 0] /\ reg_params_pos = Num
  /\ i = 0 /\ type = <<>> /\ unpred = <<>> /\ reg_count = 0 /\ fitted = <<>>
  /\ dec = [reg_params |-> [a \in Coefficient |-> 0], type |-> 0, unpred |-> 0]

\* A block too small for the regression, or with the predictor disabled.
SkipFit ==
  /\ pc = "block" /\ block < Blocks
  /\ block' = block + 1
  /\ UNCHANGED <<pc, reg_params, reg_params_pos, i, type, unpred, reg_count, fitted, dec>>

Fit ==
  /\ pc = "block" /\ block < Blocks
  /\ \E p \in Fits :
       reg_params' = [a \in DOMAIN reg_params |->
         IF a - reg_params_pos \in Coefficient THEN p[a - reg_params_pos] ELSE reg_params[a]]
  /\ pc' = "select"
  /\ UNCHANGED <<block, reg_params_pos, i, type, unpred, reg_count, fitted, dec>>

SlotAfter_everyFit == reg_params_pos + Num
\* The slot after a block that selected another predictor.
SlotAfter == reg_params_pos

SelectOther ==
  /\ pc = "select"
  /\ reg_params_pos' = SlotAfter
  /\ block' = block + 1 /\ pc' = "block"
  /\ UNCHANGED <<reg_params, i, type, unpred, reg_count, fitted, dec>>

SelectRegression ==
  /\ pc = "select"
  /\ fitted' = fitted \o [j \in 1 .. Num |-> reg_params[reg_params_pos + j - 1]]
  /\ i' = 0 /\ pc' = "quantize"
  /\ UNCHANGED <<block, reg_params, reg_params_pos, type, unpred, reg_count, dec>>

QuantizeCoefficient ==
  /\ pc = "quantize"
  /\ \E cur \in {reg_params[reg_params_pos + i]} :
     \E q \in {Quantize(i, reg_params[reg_params_pos + i - Num], cur)} :
       /\ reg_params' = [reg_params EXCEPT ![reg_params_pos + i] = q.value]
       /\ type' = Append(type, q.type)
       /\ unpred' = IF q.type = 0 THEN Append(unpred, cur) ELSE unpred
  /\ IF i + 1 < Num
     THEN i' = i + 1 /\ UNCHANGED <<pc, block, reg_params_pos, reg_count>>
     ELSE /\ i' = 0 /\ pc' = "block" /\ block' = block + 1
          /\ reg_params_pos' = reg_params_pos + Num /\ reg_count' = reg_count + 1
  /\ UNCHANGED <<fitted, dec>>

\* The segment is read only if some block selected the regression.
Send ==
  /\ pc = "block" /\ block = Blocks
  /\ pc' = IF reg_count = 0 THEN "done" ELSE "recover"
  /\ UNCHANGED <<block, reg_params, reg_params_pos, i, type, unpred, reg_count, fitted, dec>>

Expected_oneShort == Num * (reg_count - 1)
\* The number of codes the decompressor asks for.
Expected == Num * reg_count

\* The decompressor's reg_params grows by one coefficient, recovered against
\* the one Num places before.
RecoverCoefficient ==
  /\ pc = "recover"
  /\ LET code == type[dec.type + 1]
         j    == dec.type % Num
     IN  dec' = [dec EXCEPT
           !.reg_params = [a \in 0 .. dec.type + Num |->
             IF a < dec.type + Num THEN dec.reg_params[a]
             ELSE IF code = 0 THEN unpred[dec.unpred + 1]
             ELSE Value(j, dec.reg_params[dec.type], code)],
           !.unpred = @ + (IF code = 0 THEN 1 ELSE 0),
           !.type = @ + 1]
  /\ pc' = IF dec.type + 1 >= Expected THEN "done" ELSE pc
  /\ UNCHANGED <<block, reg_params, reg_params_pos, i, type, unpred, reg_count, fitted>>

Finished == pc = "done" /\ UNCHANGED vars

Compress == SkipFit \/ Fit \/ SelectOther \/ SelectRegression \/ QuantizeCoefficient \/ Send
Next == Compress \/ RecoverCoefficient \/ Finished

Spec == Init /\ [][Next]_vars /\ WF_vars(Compress \/ RecoverCoefficient)

----------------------------------------------------------------------------
\* A fit and its quantization stay inside reg_params, with a slot before them.
TypeOK ==
  /\ pc \in {"block", "select", "quantize", "recover", "done"} /\ block \in 0 .. Blocks
  /\ reg_params \in [Slots -> Int] /\ i \in Coefficient
  /\ reg_params_pos = Num * (reg_count + 1)
  /\ pc \in {"select", "quantize"} => reg_params_pos + Num - 1 \in Slots
  /\ Len(type) = Num * reg_count + (IF pc = "quantize" THEN i ELSE 0)
  /\ dec.type \in 0 .. Len(type) /\ dec.unpred \in 0 .. Len(unpred)

\* What the decompressor has recovered are the coefficients the compressor
\* predicted with, although the compressor's array also held fits that were
\* never selected.
RecoversCoefficients ==
  \A a \in DOMAIN dec.reg_params : dec.reg_params[a] = reg_params[a]

\* Every quantized coefficient is within its precision of the fit.
CoefficientsAccurate ==
  \A n \in DOMAIN type :
    LET cur == fitted[n]  value == reg_params[Num + n - 1]
    IN  value = cur \/ Accurate((n - 1) % Num, cur, value)

\* Every selected block's coefficients are recovered in the end.
AllRecovered ==
  <>(pc = "done" /\ DOMAIN dec.reg_params = 0 .. Num * (reg_count + 1) - 1
                 /\ dec.unpred = Len(unpred))
=============================================================================
