-------------------- MODULE RegressionCoefficientsProofs --------------------
(***************************************************************************)
(* What holds of the channel of the regression coefficients for any number *)
(* of blocks and coefficients, any fits, precisions and capacity, and any  *)
(* rounding.  Only that numbers are numbers is assumed of the rounding.    *)
(*                                                                         *)
(* Then, that the linear fit is the least squares fit: of sums over a set, *)
(* of sums over the elements of a block, of the walk by pointer bumps, of  *)
(* the four coefficients, and of those the channel carries.                *)
(***************************************************************************)
EXTENDS FittedCoefficients, FiniteSetTheorems, WellFoundedInduction, TLAPS

\* Rounding gives a lattice point, and the product of a magnitude is not negative.
Numbers ==
  /\ \A x \in Int : Fl(x) \in Int
  /\ \A j \in Coefficient : \A x \in Nat : Scale(j, x) \in Nat

----------------------------------------------------------------------------
(* The constants.                                                          *)

\* The constants, and multiples of the number of coefficients of a block.
LEMMA ConstantFacts ==
  /\ Num \in Nat \ {0} /\ Blocks \in Nat /\ Radius \in Nat \ {0} /\ Capacity = 2 * Radius
  /\ \A n \in Nat : Num * n \in Nat /\ Num * (n + 1) = Num * n + Num
  /\ \A a, b \in Nat : a <= b => Num * a <= Num * b
  <1>1. /\ Num \in Nat \ {0} /\ Blocks \in Nat /\ Radius \in Nat \ {0} /\ Capacity = 2 * Radius
    BY CoefficientsAssumption DEF Radius
  <1>2. \A n \in Nat : Num * n \in Nat /\ Num * (n + 1) = Num * n + Num
    BY <1>1
  <1>3. ASSUME NEW a \in Nat, NEW b \in Nat, a <= b PROVE Num * a <= Num * b
    BY <1>1, <1>3
  <1> QED BY <1>1, <1>2, <1>3

\* The elements of a concatenation.
LEMMA Concatenation ==
  ASSUME NEW a \in Seq(Int), NEW b \in Seq(Int)
  PROVE  /\ a \o b \in Seq(Int) /\ Len(a \o b) = Len(a) + Len(b)
         /\ \A n \in 1 .. Len(a) : (a \o b)[n] = a[n]
         /\ \A n \in 1 .. Len(b) : (a \o b)[Len(a) + n] = b[n]
  OBVIOUS

\* The remainder by Num of a position.
LEMMA Remainder ==
  ASSUME NEW n \in Nat, NEW j \in Coefficient
  PROVE  (Num * n + j) % Num = j
  <1>1. Num \in Nat \ {0} /\ j \in Nat /\ j < Num
    BY ConstantFacts DEF Coefficient
  <1> DEFINE x == Num * n + j
             q == x \div Num
             r == x % Num
  <1>2. x \in Nat /\ q \in Int /\ r \in Nat /\ r < Num /\ x = Num * q + r
    BY <1>1
  <1>3. Num * (q - n) = j - r
    <2>1. Num * (q - n) = Num * q - Num * n
      BY <1>1, <1>2
    <2> HIDE DEF q, r
    <2>2. Num * q \in Int /\ Num * n \in Int
      BY <1>1, <1>2
    <2> QED BY <1>1, <1>2, <2>1, <2>2
  <1> HIDE DEF q, r, x
  <1>4. q - n >= 1 => Num * (q - n) >= Num
    BY <1>1, <1>2
  <1>5. q - n <= -1 => Num * (q - n) <= -Num
    BY <1>1, <1>2
  <1>6. q - n = 0
    BY <1>1, <1>2, <1>3, <1>4, <1>5
  <1>7. j - r = 0
    <2>1. Num * (q - n) = 0
      BY <1>1, <1>6
    <2> QED BY <1>3, <2>1
  <1>8. r = j
    BY <1>1, <1>2, <1>7
  <1> QED BY <1>8 DEF r, x

Sound(j, prev, cur, q) ==
  /\ q.type \in Int /\ q.value \in Int
  /\ q.type = 0 => q.value = cur
  /\ q.type # 0 => q.value = Value(j, prev, q.type)
  /\ q.value = cur \/ Accurate(j, cur, q.value)

\* A code other than 0 stands for a value within the precision, and a
\* coefficient without such a code travels as it is: the code 0 is never the
\* number of an interval.
LEMMA QuantizeFacts ==
  ASSUME Numbers, NEW j \in Coefficient, NEW prev \in Int, NEW cur \in Int, NEW q,
         q = Quantize(j, prev, cur)
  PROVE  Sound(j, prev, cur, q)
  <1> DEFINE index == Index(j, prev, cur)
             code == Code(j, prev, cur)
  <1>1. Fl(cur - prev) \in Int /\ Abs(Fl(cur - prev)) \in Nat
    BY DEF Numbers, Abs
  <1>2. index \in Nat \ {0}
    BY <1>1 DEF Index, Numbers
  <1>3. code \in Int
    BY <1>2, ConstantFacts DEF Code
  <1>4. index < Capacity => code # 0
    <2> SUFFICES ASSUME index < Capacity PROVE code # 0
      OBVIOUS
    <2>1. index \div 2 \in 0 .. Radius - 1
      BY <1>2, ConstantFacts
    <2> HIDE DEF index
    <2>2. code = Radius + index \div 2 \/ code = Radius - index \div 2
      BY DEF Code, index
    <2> QED BY <2>1, <2>2, ConstantFacts
  <1>5. Value(j, prev, code) \in Int
    <2>1. Precisions[j] \in Nat
      BY CoefficientsAssumption
    <2>2. 2 * (code - Radius) * Precisions[j] \in Int
      BY <1>3, <2>1, ConstantFacts
    <2> HIDE DEF code
    <2>3. prev + 2 * (code - Radius) * Precisions[j] \in Int
      BY <2>2
    <2> QED BY <2>3 DEF Value, Numbers
  <1>6. \/ q = [type |-> code, value |-> Value(j, prev, code)]
             /\ index < Capacity /\ Accurate(j, cur, Value(j, prev, code))
        \/ q = [type |-> 0, value |-> cur]
    BY DEF Quantize
  <1> HIDE DEF index, code
  <1> QED BY <1>3, <1>4, <1>5, <1>6 DEF Sound

----------------------------------------------------------------------------
(* The inductive invariant.                                                *)

Sent == Num * reg_count
\* The length of reg_params.
Room == Num * (Blocks + 1)

Types ==
  /\ pc \in {"block", "select", "quantize", "recover", "done"}
  /\ block \in 0 .. Blocks /\ reg_count \in 0 .. block
  /\ pc \in {"select", "quantize"} => block < Blocks
  /\ reg_params \in [Slots -> Int] /\ i \in Coefficient
  /\ reg_params_pos = Sent + Num
  /\ type \in Seq(Int) /\ unpred \in Seq(Int) /\ fitted \in Seq(Int)
  /\ Len(type) = Sent + (IF pc = "quantize" THEN i ELSE 0)
  /\ Len(fitted) = Sent + (IF pc = "quantize" THEN Num ELSE 0)
  /\ pc = "recover" => dec.type < Len(type)

\* What code number n says, where z[n] is how many of the first n are 0.
Says(n, z) ==
  /\ z[n] = z[n - 1] + (IF type[n] = 0 THEN 1 ELSE 0)
  /\ type[n] = 0 => reg_params[Num + n - 1] = unpred[z[n]]
  /\ type[n] # 0 => reg_params[Num + n - 1] = Value((n - 1) % Num, reg_params[n - 1], type[n])

\* The codes lead to the slots of the blocks that selected the regression, and
\* the decompressor has followed them so far.
Codes ==
  /\ \A j \in Coefficient : reg_params[j] = 0
  /\ \E z \in [0 .. Len(type) -> Nat] :
       /\ z[0] = 0 /\ z[Len(type)] = Len(unpred)
       /\ \A a, b \in 0 .. Len(type) : a <= b => z[a] <= z[b]
       /\ \A n \in 1 .. Len(type) : Says(n, z)
       /\ dec.type \in 0 .. Len(type) /\ dec.unpred = z[dec.type]
  /\ DOMAIN dec = {"reg_params", "type", "unpred"}
  /\ pc \notin {"recover", "done"} => dec.type = 0
  /\ DOMAIN dec.reg_params = 0 .. dec.type + Num - 1
  /\ RecoversCoefficients

\* The coefficients still to be quantized are those of the fit.
FitsKept ==
  /\ CoefficientsAccurate
  /\ pc = "quantize" =>
       \A j \in Coefficient : j >= i => fitted[Sent + j + 1] = reg_params[Sent + Num + j]

Inv == Types /\ Codes /\ FitsKept

\* The invariant holds at the start.
LEMMA InitInv == ASSUME Init PROVE Inv
  <1>1. Types
    <2>1. Num * 0 = 0 /\ Sent = 0
      BY ConstantFacts DEF Init, Sent
    <2>2. reg_params \in [Slots -> Int] /\ i \in Coefficient
      BY ConstantFacts DEF Init, Coefficient
    <2> QED BY <2>1, <2>2, ConstantFacts DEF Init, Types
  <1>2. Codes
    <2>1. \A j \in Coefficient : j \in Slots
      <3>1. Num * (Blocks + 1) >= Num
        BY ConstantFacts
      <3> QED BY <3>1, ConstantFacts DEF Coefficient, Slots
    <2> DEFINE z == [n \in 0 .. 0 |-> 0]
    <2>2. z \in [0 .. 0 -> Nat] /\ z[0] = 0 /\ \A a \in 0 .. 0 : z[a] = 0
      OBVIOUS
    <2> HIDE DEF z
    <2>3. \E y \in [0 .. Len(type) -> Nat] :
            /\ y[0] = 0 /\ y[Len(type)] = Len(unpred)
            /\ \A a, b \in 0 .. Len(type) : a <= b => y[a] <= y[b]
            /\ \A n \in 1 .. Len(type) : Says(n, y)
            /\ dec.type \in 0 .. Len(type) /\ dec.unpred = y[dec.type]
      BY <2>2 DEF Init
    <2>4. /\ DOMAIN dec = {"reg_params", "type", "unpred"} /\ dec.type = 0
          /\ dec.reg_params = [a \in Coefficient |-> 0]
          /\ reg_params = [a \in Slots |-> 0]
      BY DEF Init
    <2>5. DOMAIN dec.reg_params = 0 .. dec.type + Num - 1
      BY <2>4, ConstantFacts DEF Coefficient
    <2> QED BY <2>1, <2>3, <2>4, <2>5 DEF Codes, RecoversCoefficients
  <1>3. FitsKept
    BY DEF Init, FitsKept, CoefficientsAccurate
  <1> QED BY <1>1, <1>2, <1>3 DEF Inv

\* A slot after the last one that was sent may change: no code is about it.
LEMMA SentSlots ==
  ASSUME Inv, type' = type, unpred' = unpred, dec' = dec, reg_count' = reg_count,
         Len(type) = Sent, \A a \in 0 .. Sent + Num - 1 : reg_params'[a] = reg_params[a],
         \A n \in 1 .. Sent : fitted'[n] = fitted[n],
         pc' \notin {"recover", "done"} => dec.type = 0
  PROVE  Codes' /\ CoefficientsAccurate'
  <1>1. Sent \in Nat /\ Num \in Nat \ {0} /\ DOMAIN type = 1 .. Sent
    BY ConstantFacts DEF Inv, Types, Sent
  <1>2. PICK z \in [0 .. Len(type) -> Nat] :
          /\ z[0] = 0 /\ z[Len(type)] = Len(unpred)
          /\ \A a, b \in 0 .. Len(type) : a <= b => z[a] <= z[b]
          /\ \A n \in 1 .. Len(type) : Says(n, z)
          /\ dec.type \in 0 .. Len(type) /\ dec.unpred = z[dec.type]
    BY DEF Inv, Codes
  <1>3. ASSUME NEW n \in 1 .. Len(type) PROVE Says(n, z)'
    <2>1. /\ n - 1 \in 0 .. Sent + Num - 1 /\ Num + n - 1 \in 0 .. Sent + Num - 1
      BY <1>1
    <2>2. reg_params'[n - 1] = reg_params[n - 1] /\ reg_params'[Num + n - 1] = reg_params[Num + n - 1]
      BY <2>1
    <2> QED BY <1>2, <2>2 DEF Says
  <1>4. ASSUME NEW j \in Coefficient PROVE reg_params'[j] = 0
    <2>1. j \in 0 .. Sent + Num - 1
      BY <1>1 DEF Coefficient
    <2> QED BY <2>1 DEF Inv, Codes
  <1>5. RecoversCoefficients'
    <2> SUFFICES ASSUME NEW a \in DOMAIN dec.reg_params
                 PROVE  dec.reg_params[a] = reg_params'[a]
      BY DEF RecoversCoefficients
    <2>1. dec.reg_params[a] = reg_params[a] /\ a \in 0 .. dec.type + Num - 1
      BY DEF Inv, Codes, RecoversCoefficients
    <2>2. dec.type \in 0 .. Sent
      BY <1>2
    <2>3. a \in 0 .. Sent + Num - 1
      BY <1>1, <2>1, <2>2
    <2> QED BY <2>1, <2>3
  <1>6. CoefficientsAccurate'
    <2> SUFFICES ASSUME NEW n \in DOMAIN type
                 PROVE  \/ reg_params'[Num + n - 1] = fitted'[n]
                        \/ Accurate((n - 1) % Num, fitted'[n], reg_params'[Num + n - 1])
      BY DEF CoefficientsAccurate, Accurate
    <2>1. reg_params'[Num + n - 1] = reg_params[Num + n - 1] /\ fitted'[n] = fitted[n]
      BY <1>1
    <2> QED BY <2>1 DEF Inv, FitsKept, CoefficientsAccurate
  <1>7. \E y \in [0 .. Len(type') -> Nat] :
          /\ y[0] = 0 /\ y[Len(type')] = Len(unpred')
          /\ \A a, b \in 0 .. Len(type') : a <= b => y[a] <= y[b]
          /\ \A n \in 1 .. Len(type') : Says(n, y)'
          /\ dec'.type \in 0 .. Len(type') /\ dec'.unpred = y[dec'.type]
    BY <1>2, <1>3
  <1> QED BY <1>4, <1>5, <1>6, <1>7 DEF Inv, Codes

\* Outside the loop over the coefficients, what has been sent are whole blocks.
LEMMA SentBlocks ==
  ASSUME Inv
  PROVE  /\ Sent \in Nat /\ Num \in Nat \ {0} /\ reg_count \in Nat /\ block \in Nat
         /\ pc # "quantize" => Len(type) = Sent /\ Len(fitted) = Sent
         /\ pc \in {"select", "quantize"} => Sent + 2 * Num <= Room
         /\ DOMAIN reg_params = 0 .. Room - 1
         /\ Room \in Nat /\ Sent + Num <= Room
  <1>1. /\ reg_count \in Nat /\ block \in Nat /\ reg_count <= block /\ block <= Blocks
        /\ pc \in {"select", "quantize"} => block < Blocks
        /\ DOMAIN reg_params = 0 .. Room - 1
        /\ pc # "quantize" => Len(type) = Sent + 0 /\ Len(fitted) = Sent + 0
    BY ConstantFacts DEF Inv, Types, Slots, Room
  <1>2. Sent \in Nat /\ Num \in Nat \ {0} /\ Num * (reg_count + 1) = Sent + Num
        /\ Num * (reg_count + 2) = Sent + 2 * Num
        /\ Room \in Nat
    <2>1. Num * (reg_count + 1) = Sent + Num /\ Num * ((reg_count + 1) + 1) = Num * (reg_count + 1) + Num
      BY <1>1, ConstantFacts DEF Sent
    <2>2. Sent \in Nat /\ Num \in Nat \ {0}
      BY <1>1, ConstantFacts DEF Sent
    <2>3. (reg_count + 1) + 1 = reg_count + 2 /\ Blocks + 1 \in Nat
      BY <1>1, ConstantFacts
    <2> QED BY <2>1, <2>2, <2>3, ConstantFacts DEF Room
  <1>3. pc \in {"select", "quantize"} => Num * (reg_count + 2) <= Room
    <2>1. pc \in {"select", "quantize"} => reg_count + 2 <= Blocks + 1
      BY <1>1, ConstantFacts
    <2> QED BY <1>1, <2>1, ConstantFacts DEF Room
  <1>4. Num * (reg_count + 1) <= Room
    <2>1. reg_count + 1 <= Blocks + 1
      BY <1>1, ConstantFacts
    <2> QED BY <1>1, <2>1, ConstantFacts DEF Room
  <1> QED BY <1>1, <1>2, <1>3, <1>4

\* A block without a fit leaves slots and codes alone.
LEMMA SkipFitInv == ASSUME Inv, SkipFit PROVE Inv'
  <1>1. /\ pc = "block" /\ block < Blocks /\ block' = block + 1 /\ pc' = pc
        /\ reg_params' = reg_params /\ reg_params_pos' = reg_params_pos /\ i' = i
        /\ type' = type /\ unpred' = unpred /\ reg_count' = reg_count /\ fitted' = fitted
        /\ dec' = dec
    BY DEF SkipFit
  <1>2. Codes' /\ CoefficientsAccurate'
    BY <1>1, SentBlocks, SentSlots DEF Inv, Codes
  <1>3. Types'
    BY <1>1, ConstantFacts DEF Inv, Types, Sent
  <1> QED BY <1>1, <1>2, <1>3 DEF Inv, FitsKept

\* A fit writes behind the last slot a code is about.
LEMMA FitInv == ASSUME Inv, Fit PROVE Inv'
  <1>1. /\ pc = "block" /\ block < Blocks /\ pc' = "select" /\ block' = block
        /\ reg_params_pos' = reg_params_pos /\ i' = i
        /\ type' = type /\ unpred' = unpred /\ reg_count' = reg_count /\ fitted' = fitted
        /\ dec' = dec
    BY DEF Fit
  <1>2. PICK p \in Fits :
          reg_params' = [a \in DOMAIN reg_params |->
            IF a - reg_params_pos \in Coefficient THEN p[a - reg_params_pos] ELSE reg_params[a]]
    BY DEF Fit
  <1>3. p \in [Coefficient -> Int]
    BY CoefficientsAssumption
  <1>4. reg_params' \in [Slots -> Int]
    <2>1. reg_params \in [Slots -> Int]
      BY DEF Inv, Types
    <2> QED BY <1>2, <1>3, <2>1
  <1>5. \A a \in 0 .. Sent + Num - 1 : reg_params'[a] = reg_params[a]
    <2> SUFFICES ASSUME NEW a \in 0 .. Sent + Num - 1 PROVE reg_params'[a] = reg_params[a]
      OBVIOUS
    <2>1. a \in DOMAIN reg_params /\ a - reg_params_pos < 0
      BY SentBlocks DEF Inv, Types
    <2>2. a - reg_params_pos \notin Coefficient
      BY <2>1, ConstantFacts DEF Coefficient
    <2> QED BY <1>2, <2>1, <2>2
  <1>6. Codes' /\ CoefficientsAccurate'
    BY <1>1, <1>5, SentBlocks, SentSlots DEF Inv, Codes
  <1>7. Types'
    BY <1>1, <1>4, ConstantFacts DEF Inv, Types, Sent
  <1> QED BY <1>1, <1>6, <1>7 DEF Inv, FitsKept

\* A fit that was not selected is left where the next will be.
LEMMA SelectOtherInv == ASSUME Inv, SelectOther PROVE Inv'
  <1>1. /\ pc = "select" /\ pc' = "block" /\ block' = block + 1
        /\ reg_params' = reg_params /\ reg_params_pos' = reg_params_pos /\ i' = i
        /\ type' = type /\ unpred' = unpred /\ reg_count' = reg_count /\ fitted' = fitted
        /\ dec' = dec
    BY DEF SelectOther, SlotAfter
  <1>2. Codes' /\ CoefficientsAccurate'
    BY <1>1, SentBlocks, SentSlots DEF Inv, Codes
  <1>3. Types'
    BY <1>1, ConstantFacts DEF Inv, Types, Sent
  <1> QED BY <1>1, <1>2, <1>3 DEF Inv, FitsKept

\* The coefficients of the fit are kept before they are quantized in place.
LEMMA SelectRegressionInv == ASSUME Inv, SelectRegression PROVE Inv'
  <1>1. /\ pc = "select" /\ pc' = "quantize" /\ block' = block /\ i' = 0
        /\ reg_params' = reg_params /\ reg_params_pos' = reg_params_pos
        /\ type' = type /\ unpred' = unpred /\ reg_count' = reg_count /\ dec' = dec
        /\ fitted' = fitted \o [j \in 1 .. Num |-> reg_params[reg_params_pos + j - 1]]
    BY DEF SelectRegression
  <1>2. /\ Sent \in Nat /\ Num \in Nat \ {0} /\ fitted \in Seq(Int) /\ Len(fitted) = Sent
        /\ reg_params_pos = Sent + Num /\ reg_params \in [Slots -> Int]
        /\ Sent + 2 * Num <= Room
    BY <1>1, SentBlocks DEF Inv, Types
  <1> DEFINE fit == [j \in 1 .. Num |-> reg_params[reg_params_pos + j - 1]]
  <1>3. fit \in Seq(Int) /\ Len(fit) = Num /\ \A j \in 1 .. Num : fit[j] = reg_params[Sent + Num + j - 1]
    <2>1. \A j \in 1 .. Num : reg_params_pos + j - 1 \in Slots
      BY <1>2, SentBlocks DEF Slots, Room
    <2>2. \A j \in 1 .. Num : fit[j] \in Int
      BY <1>2, <2>1
    <2>3. fit \in [1 .. Num -> Int]
      BY <2>2
    <2> HIDE DEF fit
    <2>4. fit \in Seq(Int) /\ Len(fit) = Num
      BY <1>2, <2>3
    <2> QED BY <1>2, <2>4 DEF fit
  <1>4. /\ fitted' \in Seq(Int) /\ Len(fitted') = Sent + Num
        /\ \A n \in 1 .. Sent : fitted'[n] = fitted[n]
        /\ \A j \in 1 .. Num : fitted'[Sent + j] = fit[j]
    <2>1. fitted' = fitted \o fit
      BY <1>1
    <2> HIDE DEF fit
    <2> QED BY <1>2, <1>3, <2>1, Concatenation
  <1>5. Codes' /\ CoefficientsAccurate'
    BY <1>1, <1>4, SentBlocks, SentSlots DEF Inv, Codes
  <1>6. Types'
    BY <1>1, <1>4, ConstantFacts, SentBlocks DEF Inv, Types, Sent, Coefficient
  <1>7. ASSUME NEW j \in Coefficient
        PROVE  fitted'[Sent + j + 1] = reg_params[Sent + Num + j]
    <2>1. j + 1 \in 1 .. Num /\ Sent + (j + 1) = Sent + j + 1 /\ Sent + Num + (j + 1) - 1 = Sent + Num + j
      BY <1>2 DEF Coefficient
    <2> QED BY <1>3, <1>4, <2>1
  <1>8. Sent' = Sent
    BY <1>1 DEF Sent
  <1> QED BY <1>1, <1>5, <1>6, <1>7, <1>8 DEF Inv, FitsKept

\* Each quantized coefficient adds a code that leads to its place from the slot before.
LEMMA QuantizeCoefficientInv == ASSUME Numbers, Inv, QuantizeCoefficient PROVE Inv'
  <1> DEFINE slot == Sent + Num + i
             cur == reg_params[slot]
             prev == reg_params[Sent + i]
             q == Quantize(i, prev, cur)
             n0 == Sent + i + 1
  <1>1. /\ Sent \in Nat /\ Num \in Nat \ {0} /\ reg_count \in Nat /\ block \in Nat
        /\ i \in Nat /\ i < Num /\ i \in Coefficient
        /\ Len(type) = Sent + i /\ Len(fitted) = Sent + Num /\ reg_params_pos = Sent + Num
        /\ Sent + 2 * Num <= Room /\ reg_params \in [Slots -> Int]
        /\ Slots = 0 .. Room - 1 /\ Room \in Nat
        /\ type \in Seq(Int) /\ unpred \in Seq(Int) /\ Len(unpred) \in Nat
        /\ dec.type = 0 /\ pc = "quantize"
    <2>1. pc = "quantize"
      BY DEF QuantizeCoefficient
    <2>2. /\ Sent \in Nat /\ Num \in Nat \ {0} /\ reg_count \in Nat /\ block \in Nat
          /\ Sent + 2 * Num <= Room /\ Room \in Nat
      BY <2>1, SentBlocks
    <2>3. /\ i \in Coefficient /\ Len(type) = Sent + i /\ Len(fitted) = Sent + Num
          /\ reg_params_pos = Sent + Num /\ reg_params \in [Slots -> Int]
          /\ type \in Seq(Int) /\ unpred \in Seq(Int) /\ dec.type = 0
      BY <2>1 DEF Inv, Types, Codes
    <2>4. Len(unpred) \in Nat
      BY <2>3
    <2>5. i \in Nat /\ i < Num
      BY <2>2, <2>3 DEF Coefficient
    <2> QED BY <2>1, <2>2, <2>3, <2>4, <2>5 DEF Slots, Room
  <1>2. /\ slot \in Slots /\ Sent + i \in Slots /\ n0 \in Nat /\ n0 = Sent + i + 1
        /\ slot = Sent + Num + i /\ Slots = 0 .. Room - 1
        /\ Sent \in Nat /\ Num \in Nat \ {0} /\ i \in Nat /\ i < Num /\ Room \in Nat
        /\ Sent + 2 * Num <= Room
    BY <1>1
  <1>3. /\ reg_params' = [reg_params EXCEPT ![slot] = q.value]
        /\ type' = Append(type, q.type)
        /\ unpred' = IF q.type = 0 THEN Append(unpred, cur) ELSE unpred
        /\ fitted' = fitted /\ dec' = dec
    <2>1. reg_params_pos + i = slot /\ reg_params_pos + i - Num = Sent + i
      BY <1>1
    <2> QED BY <2>1 DEF QuantizeCoefficient
  <1>4. /\ q.type \in Int /\ q.value \in Int
        /\ q.type = 0 => q.value = cur
        /\ q.type # 0 => q.value = Value(i, prev, q.type)
        /\ q.value = cur \/ Accurate(i, cur, q.value)
    <2>1. cur \in Int /\ prev \in Int
      BY <1>1, <1>2
    <2>2. q = Quantize(i, prev, cur)
      OBVIOUS
    <2> HIDE DEF q, cur, prev
    <2>3. i \in Coefficient
      BY <1>1
    <2>4. Sound(i, prev, cur, q)
      BY <2>1, <2>2, <2>3, QuantizeFacts
    <2> QED BY <2>4 DEF Sound
  <1>5. /\ reg_params' \in [Slots -> Int] /\ reg_params'[slot] = q.value
        /\ \A a \in Slots : a # slot => reg_params'[a] = reg_params[a]
    <2> HIDE DEF q, slot
    <2> QED BY <1>1, <1>2, <1>3, <1>4
  <1>6. /\ type' \in Seq(Int) /\ Len(type') = n0 /\ type'[n0] = q.type
        /\ \A n \in 1 .. Sent + i : type'[n] = type[n]
    <2>1. type' = Append(type, q.type) /\ n0 = Len(type) + 1 /\ Len(type) = Sent + i
      BY <1>1, <1>3
    <2> HIDE DEF q, n0
    <2>2. type' \in Seq(Int) /\ Len(type') = Len(type) + 1 /\ type'[Len(type) + 1] = q.type
          /\ \A n \in 1 .. Len(type) : type'[n] = type[n]
      BY <1>1, <1>4, <2>1
    <2> QED BY <2>1, <2>2
  <1>7. /\ unpred' \in Seq(Int)
        /\ Len(unpred') = Len(unpred) + (IF q.type = 0 THEN 1 ELSE 0)
        /\ q.type = 0 => unpred'[Len(unpred')] = cur
        /\ \A n \in 1 .. Len(unpred) : unpred'[n] = unpred[n]
    <2>1. cur \in Int
      BY <1>1, <1>2
    <2> HIDE DEF q, cur
    <2> QED BY <1>1, <1>3, <2>1
  <1>8. (n0 - 1) % Num = i
    <2>1. (Num * reg_count + i) % Num = i
      BY <1>1, Remainder
    <2>2. n0 - 1 = Num * reg_count + i
      BY <1>1 DEF Sent
    <2> QED BY <2>1, <2>2
  <1> HIDE DEF q, n0, slot, cur, prev
  <1>9. PICK z \in [0 .. Len(type) -> Nat] :
          /\ z[0] = 0 /\ z[Len(type)] = Len(unpred)
          /\ \A a, b \in 0 .. Len(type) : a <= b => z[a] <= z[b]
          /\ \A n \in 1 .. Len(type) : Says(n, z)
          /\ dec.type \in 0 .. Len(type) /\ dec.unpred = z[dec.type]
    BY DEF Inv, Codes
  <1>10. PICK z2 \in [0 .. Len(type') -> Nat] :
           z2[n0] = Len(unpred') /\ \A n \in 0 .. Sent + i : z2[n] = z[n]
    <2> DEFINE longer == [n \in 0 .. Len(type') |-> IF n = n0 THEN Len(unpred') ELSE z[n]]
    <2>1. Len(unpred') \in Nat
      BY <1>1, <1>7
    <2>2. longer \in [0 .. Len(type') -> Nat]
      <3>1. \A n \in 0 .. n0 : n # n0 => n \in 0 .. Sent + i
        BY <1>2
      <3>2. Len(type') = n0 /\ Len(type) = Sent + i
        BY <1>1, <1>6
      <3> QED BY <1>9, <2>1, <3>1, <3>2
    <2>3. longer[n0] = Len(unpred') /\ \A n \in 0 .. Sent + i : longer[n] = z[n]
      <3>1. Len(type') = n0
        BY <1>6
      <3>2. n0 \in 0 .. n0 /\ \A n \in 0 .. Sent + i : n \in 0 .. n0 /\ n # n0
        BY <1>2
      <3> QED BY <3>1, <3>2
    <2> HIDE DEF longer
    <2> QED BY <2>2, <2>3
  <1>11. ASSUME NEW n \in 1 .. n0 PROVE Says(n, z2)'
    <2>1. CASE n = n0
      <3>1. n - 1 = Sent + i /\ Num + n - 1 = slot /\ n - 1 # slot /\ n - 1 \in Slots
            /\ n - 1 \in 0 .. Sent + i /\ z2[n - 1] = Len(unpred)
        BY <1>1, <1>2, <1>9, <1>10, <2>1
      <3>2. reg_params'[n - 1] = prev /\ reg_params'[Num + n - 1] = q.value
        BY <1>2, <1>5, <3>1 DEF prev
      <3> QED BY <1>4, <1>6, <1>7, <1>8, <1>10, <2>1, <3>1, <3>2 DEF Says
    <2>2. CASE n \in 1 .. Sent + i
      <3>1. Says(n, z)
        BY <1>1, <1>9, <2>2
      <3>2. /\ n - 1 \in Slots /\ n - 1 # slot /\ Num + n - 1 \in Slots /\ Num + n - 1 # slot
        BY <1>2, <2>2
      <3>3. reg_params'[n - 1] = reg_params[n - 1] /\ reg_params'[Num + n - 1] = reg_params[Num + n - 1]
        BY <1>5, <3>2
      <3>4. z2[n] = z[n] /\ z2[n - 1] = z[n - 1] /\ type'[n] = type[n]
        <4>1. n \in 0 .. Sent + i /\ n - 1 \in 0 .. Sent + i
          BY <1>1, <2>2
        <4> QED BY <1>6, <1>10, <2>2, <4>1
      <3>5. type[n] = 0 => z[n] \in 1 .. Len(unpred)
        <4>1. n \in 0 .. Len(type) /\ n - 1 \in 0 .. Len(type) /\ Len(type) \in 0 .. Len(type)
          BY <1>1, <2>2
        <4>2. z[n] <= z[Len(type)] /\ z[n] \in Nat /\ z[n - 1] \in Nat
          <5>1. n <= Len(type)
            BY <4>1
          <5> QED BY <1>9, <4>1, <5>1
        <4>3. z[Len(type)] = Len(unpred)
          BY <1>9
        <4>4. type[n] = 0 => z[n] = z[n - 1] + 1
          BY <3>1 DEF Says
        <4>5. Len(unpred) \in Nat
          BY <1>1
        <4> QED BY <4>2, <4>3, <4>4, <4>5
      <3> QED BY <1>7, <3>1, <3>3, <3>4, <3>5 DEF Says
    <2> QED BY <1>1, <1>2, <2>1, <2>2
  <1>12. ASSUME NEW a \in 0 .. n0, NEW b \in 0 .. n0, a <= b PROVE z2[a] <= z2[b]
    <2>1. CASE b \in 0 .. Sent + i
      <3>1. a \in 0 .. Sent + i
        BY <1>1, <1>2, <1>12, <2>1
      <3>2. z2[a] = z[a] /\ z2[b] = z[b]
        BY <1>10, <2>1, <3>1
      <3> QED BY <1>1, <1>9, <1>12, <2>1, <3>1, <3>2
    <2>2. CASE a \in 0 .. Sent + i /\ b = n0
      <3>1. z[a] <= z[Len(type)] /\ z[a] \in Nat
        BY <1>1, <1>9, <2>2
      <3>2. z2[a] = z[a] /\ z2[b] = Len(unpred')
        BY <1>10, <2>2
      <3>3. z[a] <= Len(unpred)
        BY <1>9, <3>1
      <3> QED BY <1>1, <1>7, <3>1, <3>2, <3>3
    <2>3. CASE a = n0 /\ b = n0
      <3>1. z2[n0] \in Nat
        BY <1>2, <1>6, <1>10
      <3> QED BY <2>3, <3>1
    <2> QED BY <1>1, <1>2, <1>12, <2>1, <2>2, <2>3
  <1>13. Codes'
    <2>1. \A j \in Coefficient : reg_params'[j] = 0
      <3>1. \A j \in Coefficient : j \in Slots /\ j # slot
        BY <1>2 DEF Coefficient
      <3> QED BY <1>5, <3>1 DEF Inv, Codes
    <2>2. RecoversCoefficients'
      <3> SUFFICES ASSUME NEW a \in DOMAIN dec.reg_params
                   PROVE  dec.reg_params[a] = reg_params'[a]
        BY <1>3 DEF RecoversCoefficients
      <3>1. dec.reg_params[a] = reg_params[a] /\ a \in 0 .. Num - 1
        BY <1>1 DEF Inv, Codes, RecoversCoefficients
      <3>2. a \in Slots /\ a # slot
        BY <1>2, <3>1
      <3> QED BY <1>5, <3>1, <3>2
    <2>3. /\ z2[0] = 0 /\ z2[Len(type')] = Len(unpred')
          /\ dec'.type \in 0 .. Len(type') /\ dec'.unpred = z2[dec'.type]
      <3>1. z2[0] = z[0] /\ dec'.type = 0
        BY <1>1, <1>2, <1>3, <1>10
      <3>2. 0 \in 0 .. n0 /\ Len(type') = n0
        BY <1>2, <1>6
      <3> QED BY <1>1, <1>3, <1>9, <1>10, <3>1, <3>2
    <2>4. \E y \in [0 .. Len(type') -> Nat] :
            /\ y[0] = 0 /\ y[Len(type')] = Len(unpred')
            /\ \A a, b \in 0 .. Len(type') : a <= b => y[a] <= y[b]
            /\ \A n \in 1 .. Len(type') : Says(n, y)'
            /\ dec'.type \in 0 .. Len(type') /\ dec'.unpred = y[dec'.type]
      BY <1>6, <1>10, <1>11, <1>12, <2>3
    <2> QED BY <1>1, <1>3, <2>1, <2>2, <2>4 DEF Inv, Codes
  <1>14. CoefficientsAccurate'
    <2> SUFFICES ASSUME NEW n \in 1 .. n0
                 PROVE  \/ reg_params'[Num + n - 1] = fitted[n]
                        \/ Accurate((n - 1) % Num, fitted[n], reg_params'[Num + n - 1])
      <3>1. DOMAIN type' = 1 .. n0
        BY <1>6
      <3> QED BY <1>3, <3>1 DEF CoefficientsAccurate, Accurate
    <2>1. CASE n = n0
      <3>1. Num + n - 1 = slot /\ n = Sent + i + 1
        BY <1>1, <1>2, <2>1
      <3>2. fitted[Sent + i + 1] = reg_params[Sent + Num + i]
        BY <1>1 DEF Inv, FitsKept
      <3>3. fitted[n] = cur
        BY <1>2, <3>1, <3>2 DEF cur
      <3>4. reg_params'[Num + n - 1] = q.value /\ (n - 1) % Num = i
        BY <1>5, <1>8, <2>1, <3>1
      <3> QED BY <1>4, <3>3, <3>4
    <2>2. CASE n \in 1 .. Sent + i
      <3>1. Num + n - 1 \in Slots /\ Num + n - 1 # slot /\ n \in DOMAIN type
        <4>1. n \in Nat /\ n >= 1 /\ n <= Sent + i
          BY <1>1, <2>2
        <4>2. Num + n - 1 >= 0 /\ Num + n - 1 < slot /\ slot <= Room - 1
          BY <1>1, <1>2, <4>1
        <4>3. Num + n - 1 \in Int /\ slot \in Int
          BY <1>1, <1>2, <4>1
        <4>4. DOMAIN type = 1 .. Sent + i
          BY <1>1
        <4> QED BY <1>1, <2>2, <4>2, <4>3, <4>4
      <3>2. reg_params'[Num + n - 1] = reg_params[Num + n - 1]
        BY <1>5, <3>1
      <3> QED BY <3>1, <3>2 DEF Inv, FitsKept, CoefficientsAccurate
    <2>3. n = n0 \/ n \in 1 .. Sent + i
      BY <1>2
    <2> QED BY <2>1, <2>2, <2>3
  <1>15. CASE i + 1 < Num
    <2>1. i' = i + 1 /\ pc' = pc /\ block' = block /\ reg_params_pos' = reg_params_pos
          /\ reg_count' = reg_count /\ Sent' = Sent
      BY <1>15 DEF QuantizeCoefficient, Sent
    <2>2. i' \in Coefficient
      BY <1>1, <1>15, <2>1 DEF Coefficient
    <2>3. Types'
      <3>1. /\ Len(type') = Sent' + i' /\ reg_params_pos' = Sent' + Num /\ pc' = "quantize"
            /\ Len(fitted') = Sent' + Num /\ reg_params' \in [Slots -> Int]
            /\ type' \in Seq(Int) /\ unpred' \in Seq(Int) /\ fitted' = fitted
        BY <1>1, <1>2, <1>3, <1>5, <1>6, <1>7, <2>1
      <3> QED BY <2>1, <2>2, <3>1 DEF Inv, Types
    <2>4. ASSUME NEW j \in Coefficient, j >= i + 1
          PROVE  fitted[Sent + j + 1] = reg_params'[Sent + Num + j]
      <3>1. Sent + Num + j \in Slots /\ Sent + Num + j # slot /\ j >= i
        BY <1>1, <1>2, <2>4 DEF Coefficient
      <3> QED BY <1>1, <1>5, <3>1 DEF Inv, FitsKept
    <2>5. FitsKept'
      BY <1>3, <1>14, <2>1, <2>4 DEF FitsKept
    <2> QED BY <1>13, <2>3, <2>5 DEF Inv
  <1>16. CASE ~(i + 1 < Num)
    <2>1. i' = 0 /\ pc' = "block" /\ block' = block + 1
          /\ reg_params_pos' = reg_params_pos + Num /\ reg_count' = reg_count + 1
      BY <1>16 DEF QuantizeCoefficient
    <2>2. Sent' = Sent + Num
      BY <1>1, <2>1, ConstantFacts DEF Sent
    <2>3. n0 = Sent + Num
      BY <1>1, <1>2, <1>16
    <2>4. Types'
      BY <1>1, <1>3, <1>5, <1>6, <1>7, <2>1, <2>2, <2>3, ConstantFacts DEF Inv, Types, Coefficient
    <2> QED BY <1>13, <1>14, <2>1, <2>4 DEF Inv, FitsKept
  <1> QED BY <1>15, <1>16

\* Sending changes nothing but whose turn it is.
LEMMA SendInv == ASSUME Inv, Send PROVE Inv'
  <1>1. /\ pc = "block" /\ pc' = (IF reg_count = 0 THEN "done" ELSE "recover")
        /\ block' = block /\ reg_params' = reg_params /\ reg_params_pos' = reg_params_pos
        /\ i' = i /\ type' = type /\ unpred' = unpred /\ reg_count' = reg_count
        /\ fitted' = fitted /\ dec' = dec
    BY DEF Send
  <1>2. Codes' /\ CoefficientsAccurate'
    BY <1>1, SentBlocks, SentSlots DEF Inv, Codes
  <1>3. reg_count # 0 => Sent >= Num
    <2>1. reg_count # 0 => Num * 1 <= Num * reg_count
      BY SentBlocks, ConstantFacts
    <2> QED BY <2>1, ConstantFacts DEF Sent
  <1>4. pc' = "recover" => dec.type < Len(type)
    BY <1>1, <1>3, SentBlocks DEF Inv, Codes
  <1>5. Types'
    BY <1>1, <1>4 DEF Inv, Types, Sent
  <1> QED BY <1>1, <1>2, <1>5 DEF Inv, FitsKept

\* Each recovered coefficient is the one the compressor left at its place.
LEMMA RecoverCoefficientInv == ASSUME Inv, RecoverCoefficient PROVE Inv'
  <1> DEFINE t == dec.type
             code == type[t + 1]
             value == IF code = 0 THEN unpred[dec.unpred + 1]
                      ELSE Value(t % Num, dec.reg_params[t], code)
  <1>1. /\ pc = "recover" /\ pc' = (IF t + 1 >= Expected THEN "done" ELSE pc)
        /\ block' = block /\ reg_params' = reg_params /\ reg_params_pos' = reg_params_pos
        /\ i' = i /\ type' = type /\ unpred' = unpred /\ reg_count' = reg_count
        /\ fitted' = fitted
        /\ dec' = [dec EXCEPT
             !.reg_params = [a \in 0 .. t + Num |-> IF a < t + Num THEN dec.reg_params[a] ELSE value],
             !.unpred = dec.unpred + (IF code = 0 THEN 1 ELSE 0),
             !.type = t + 1]
    BY DEF RecoverCoefficient
  <1>2. PICK z \in [0 .. Len(type) -> Nat] :
          /\ z[0] = 0 /\ z[Len(type)] = Len(unpred)
          /\ \A a, b \in 0 .. Len(type) : a <= b => z[a] <= z[b]
          /\ \A n \in 1 .. Len(type) : Says(n, z)
          /\ dec.type \in 0 .. Len(type) /\ dec.unpred = z[dec.type]
    BY DEF Inv, Codes
  <1>3. /\ Num \in Nat \ {0} /\ Len(type) = Sent /\ Sent \in Nat /\ t \in Nat /\ t < Len(type)
        /\ t + 1 \in 1 .. Len(type) /\ (t + 1) - 1 = t /\ Num + (t + 1) - 1 = t + Num
        /\ DOMAIN dec.reg_params = 0 .. t + Num - 1 /\ DOMAIN dec = {"reg_params", "type", "unpred"}
        /\ RecoversCoefficients
    <2>1. /\ Len(type) = Sent /\ Sent \in Nat /\ Num \in Nat \ {0}
      BY <1>1, SentBlocks
    <2>2. t < Len(type) /\ t \in Nat
      BY <1>1, <1>2, <2>1 DEF Inv, Types
    <2>3. /\ DOMAIN dec.reg_params = 0 .. t + Num - 1 /\ DOMAIN dec = {"reg_params", "type", "unpred"}
          /\ RecoversCoefficients
      BY DEF Inv, Codes
    <2> HIDE DEF t
    <2>4. t + 1 \in 1 .. Len(type) /\ (t + 1) - 1 = t /\ Num + (t + 1) - 1 = t + Num
      BY <2>1, <2>2
    <2> QED BY <2>1, <2>2, <2>3, <2>4
  <1>4. /\ DOMAIN dec' = {"reg_params", "type", "unpred"} /\ dec'.type = t + 1
        /\ dec'.unpred = dec.unpred + (IF code = 0 THEN 1 ELSE 0)
        /\ dec'.reg_params = [a \in 0 .. t + Num |-> IF a < t + Num THEN dec.reg_params[a] ELSE value]
    <2> HIDE DEF value, code, t
    <2> QED BY <1>1, <1>3
  <1>5. Says(t + 1, z)
    BY <1>2, <1>3
  <1>6. value = reg_params[t + Num] /\ dec'.unpred = z[t + 1]
    <2>1. dec.reg_params[t] = reg_params[t]
      BY <1>3 DEF RecoversCoefficients
    <2>2. dec.unpred = z[t] /\ z[t] \in Nat
      BY <1>2, <1>3
    <2>3. /\ z[t + 1] = z[t] + (IF code = 0 THEN 1 ELSE 0)
          /\ code = 0 => reg_params[t + Num] = unpred[z[t + 1]]
          /\ code # 0 => reg_params[t + Num] = Value(t % Num, reg_params[t], code)
      <3> HIDE DEF t
      <3> QED BY <1>3, <1>5 DEF Says
    <2>4. dec'.unpred = z[t + 1]
      BY <1>4, <2>2, <2>3
    <2>5. CASE code = 0
      <3>1. z[t + 1] = dec.unpred + 1
        BY <2>2, <2>3, <2>5
      <3> QED BY <2>3, <2>4, <2>5, <3>1
    <2>6. CASE code # 0
      BY <2>1, <2>3, <2>4, <2>6
    <2> QED BY <2>5, <2>6
  <1>7. RecoversCoefficients'
    <2> SUFFICES ASSUME NEW a \in 0 .. t + Num PROVE dec'.reg_params[a] = reg_params[a]
      BY <1>1, <1>4 DEF RecoversCoefficients
    <2>1. CASE a < t + Num
      <3>1. a \in DOMAIN dec.reg_params
        BY <1>3, <2>1
      <3>2. dec.reg_params[a] = reg_params[a]
        BY <1>3, <3>1 DEF RecoversCoefficients
      <3> HIDE DEF value, t, code
      <3>3. dec'.reg_params[a] = IF a < t + Num THEN dec.reg_params[a] ELSE value
        BY <1>4, Zenon
      <3> QED BY <2>1, <3>2, <3>3
    <2>2. CASE a = t + Num
      <3> HIDE DEF value, t, code
      <3>1. dec'.reg_params[a] = IF a < t + Num THEN dec.reg_params[a] ELSE value
        BY <1>4, Zenon
      <3>2. ~(a < t + Num)
        BY <1>3, <2>2
      <3>3. dec'.reg_params[a] = value
        BY <3>1, <3>2, Zenon
      <3>4. reg_params[a] = reg_params[t + Num]
        BY <2>2, Zenon
      <3> QED BY <1>6, <3>3, <3>4, Zenon
    <2>3. a < t + Num \/ a = t + Num
      <3>1. t \in Nat /\ Num \in Nat
        BY <1>3
      <3> HIDE DEF t
      <3> QED BY <3>1
    <2> QED BY <2>1, <2>2, <2>3
  <1>8. Codes'
    <2>1. DOMAIN dec'.reg_params = 0 .. dec'.type + Num - 1
      <3>1. dec'.type + Num - 1 = t + Num
        BY <1>3, <1>4
      <3> HIDE DEF value
      <3> QED BY <1>4, <3>1
    <2>2. \A n \in 1 .. Len(type) : Says(n, z)'
      BY <1>1, <1>2 DEF Says
    <2>3. \E y \in [0 .. Len(type') -> Nat] :
            /\ y[0] = 0 /\ y[Len(type')] = Len(unpred')
            /\ \A a, b \in 0 .. Len(type') : a <= b => y[a] <= y[b]
            /\ \A n \in 1 .. Len(type') : Says(n, y)'
            /\ dec'.type \in 0 .. Len(type') /\ dec'.unpred = y[dec'.type]
      <3>1. dec'.type \in 0 .. Len(type) /\ dec'.unpred = z[dec'.type]
        BY <1>3, <1>4, <1>6
      <3> QED BY <1>1, <1>2, <2>2, <3>1
    <2>4. \A j \in Coefficient : reg_params'[j] = 0
      BY <1>1 DEF Inv, Codes
    <2>5. pc' \in {"recover", "done"}
      BY <1>1
    <2> QED BY <1>4, <1>7, <2>1, <2>3, <2>4, <2>5 DEF Codes
  <1>9. Types'
    <2>1. pc' = "recover" => dec'.type < Len(type)
      BY <1>1, <1>3, <1>4 DEF Expected, Sent
    <2>2. pc' \in {"recover", "done"}
      BY <1>1
    <2> QED BY <1>1, <2>1, <2>2 DEF Inv, Types, Sent
  <1>10. FitsKept'
    <2>1. CoefficientsAccurate'
      BY <1>1 DEF Inv, FitsKept, CoefficientsAccurate, Accurate
    <2>2. pc' # "quantize"
      BY <1>1
    <2> QED BY <2>1, <2>2 DEF FitsKept
  <1> QED BY <1>8, <1>9, <1>10 DEF Inv

\* Whatever the blocks select, the codes lead from slot to slot, the
\* decompressor follows them, and the coefficients stay close to their fits.
THEOREM Invariance == ASSUME Numbers PROVE Spec => []Inv
  <1>1. Init => Inv
    BY InitInv
  <1>2. Inv /\ [Next]_vars => Inv'
    <2> SUFFICES ASSUME Inv, [Next]_vars PROVE Inv'
      OBVIOUS
    <2>1. CASE SkipFit
      BY <2>1, SkipFitInv
    <2>2. CASE Fit
      BY <2>2, FitInv
    <2>3. CASE SelectOther
      BY <2>3, SelectOtherInv
    <2>4. CASE SelectRegression
      BY <2>4, SelectRegressionInv
    <2>5. CASE QuantizeCoefficient
      BY <2>5, QuantizeCoefficientInv
    <2>6. CASE Send
      BY <2>6, SendInv
    <2>7. CASE RecoverCoefficient
      BY <2>7, RecoverCoefficientInv
    <2>8. CASE UNCHANGED vars
      BY <2>8 DEF vars, Inv, Types, Codes, FitsKept, Says, Sent, RecoversCoefficients,
                  CoefficientsAccurate, Accurate
    <2>9. CASE Finished
      BY <2>8, <2>9 DEF Finished
    <2> QED BY <2>1, <2>2, <2>3, <2>4, <2>5, <2>6, <2>7, <2>8, <2>9 DEF Next, Compress
  <1> QED BY <1>1, <1>2, PTL DEF Spec

\* A fit and its quantization stay inside reg_params with a slot before them,
\* and the decompressor reads no more than was sent.
THEOREM TypeCorrect == ASSUME Numbers PROVE Spec => []TypeOK
  <1>1. Inv => TypeOK
    <2> SUFFICES ASSUME Inv PROVE TypeOK
      OBVIOUS
    <2>1. /\ reg_params_pos = Num * (reg_count + 1)
          /\ pc \in {"select", "quantize"} => reg_params_pos + Num - 1 \in Slots
      BY SentBlocks, ConstantFacts DEF Inv, Types, Sent, Slots, Room
    <2>2. dec.type \in 0 .. Len(type) /\ dec.unpred \in 0 .. Len(unpred)
      <3>1. PICK z \in [0 .. Len(type) -> Nat] :
              /\ z[Len(type)] = Len(unpred)
              /\ \A a, b \in 0 .. Len(type) : a <= b => z[a] <= z[b]
              /\ dec.type \in 0 .. Len(type) /\ dec.unpred = z[dec.type]
        BY DEF Inv, Codes
      <3>2. Len(type) \in Nat
        BY DEF Inv, Types
      <3>3. z[dec.type] <= z[Len(type)] /\ z[dec.type] \in Nat /\ z[Len(type)] \in Nat
        BY <3>1, <3>2
      <3> QED BY <3>1, <3>3
    <2> QED BY <2>1, <2>2 DEF Inv, Types, Sent, TypeOK
  <1> QED BY <1>1, Invariance, PTL

\* The decompressor predicts with the very coefficients the compressor used,
\* although the compressor's slots also held fits no block selected.
THEOREM CoefficientsRecovered == ASSUME Numbers PROVE Spec => []RecoversCoefficients
  <1>1. Inv => RecoversCoefficients
    BY DEF Inv, Codes
  <1> QED BY <1>1, Invariance, PTL

\* However the arithmetic rounds, no coefficient that travels as a code is
\* further from its fit than its precision.
THEOREM CoefficientsClose == ASSUME Numbers PROVE Spec => []CoefficientsAccurate
  <1>1. Inv => CoefficientsAccurate
    BY DEF Inv, FitsKept
  <1> QED BY <1>1, Invariance, PTL

----------------------------------------------------------------------------
(* Sums over sets.                                                         *)

\* A set of natural numbers that is not all of them misses a least one.
LEMMA Upward ==
  ASSUME NEW S, \A n \in Nat : (\A m \in 0 .. n - 1 : m \in S) => n \in S
  PROVE  \A n \in Nat : n \in S
  <1> DEFINE T == Nat \ S
  <1>1. SUFFICES ASSUME T # {} PROVE FALSE
    OBVIOUS
  <1>2. IsWellFoundedOn(OpToRel(<, Nat), Nat)
    BY NatLessThanWellFounded
  <1>3. PICK n \in T : \A m \in T : <<m, n>> \notin OpToRel(<, Nat)
    BY <1>1, <1>2, WFMin
  <1>4. \A m \in 0 .. n - 1 : m \in S
    <2> SUFFICES ASSUME NEW m \in 0 .. n - 1, m \notin S PROVE FALSE
      OBVIOUS
    <2>1. m \in T /\ m \in Nat /\ n \in Nat /\ m < n
      OBVIOUS
    <2>2. <<m, n>> \in OpToRel(<, Nat)
      BY <2>1 DEF OpToRel
    <2> QED BY <1>3, <2>1, <2>2
  <1> QED BY <1>4

\* The element a fold over a set takes first, and the sums over all subsets.
First(t) == CHOOSE e \in t : TRUE
Adding(g, f, D) ==
  g = [t \in SUBSET D |-> IF t = {} THEN 0 ELSE f[First(t)] + g[t \ {First(t)}]]

\* Subsets of a finite set, and what is left of one without its first element.
LEMMA SubsetFacts ==
  ASSUME NEW D, IsFiniteSet(D), NEW t \in SUBSET D, t # {}, NEW e \in t
  PROVE  /\ First(t) \in t /\ t \ {e} \in SUBSET D
         /\ Cardinality(t) \in Nat /\ Cardinality(t \ {e}) = Cardinality(t) - 1
         /\ Cardinality(t) # 0
  <1>1. First(t) \in t
    BY DEF First
  <1>2. IsFiniteSet(t) /\ e \in t
    BY FS_Subset
  <1>3. Cardinality(t) \in Nat /\ Cardinality(t \ {e}) = Cardinality(t) - 1
    BY <1>2, FS_CardinalityType, FS_RemoveElement
  <1>4. Cardinality(t) # 0
    BY <1>2, FS_EmptySet
  <1> QED BY <1>1, <1>3, <1>4

\* There are such sums.
LEMMA AddingExists ==
  ASSUME NEW f, NEW D, IsFiniteSet(D)
  PROVE  \E g : Adding(g, f, D)
  <1> DEFINE Small(n) == {t \in SUBSET D : Cardinality(t) < n}
             Following(g, t) == IF t = {} THEN 0 ELSE f[First(t)] + g[t \ {First(t)}]
             S == {n \in Nat : \E g : \A t \in Small(n) : g[t] = Following(g, t)}
  <1>1. ASSUME NEW n \in Nat, \A m \in 0 .. n - 1 : m \in S
        PROVE  n \in S
    <2>1. CASE n = 0
      <3>1. \A t \in SUBSET D : Cardinality(t) \in Nat
        BY FS_Subset, FS_CardinalityType
      <3>2. Small(n) = {}
        BY <2>1, <3>1
      <3> QED BY <3>2
    <2>2. CASE n # 0
      <3>1. n - 1 \in S /\ n - 1 \in Nat
        <4>1. n - 1 \in Nat /\ n - 1 \in 0 .. n - 1
          BY <2>2
        <4> HIDE DEF S
        <4> QED BY <1>1, <4>1
      <3>2. PICK g : \A t \in Small(n - 1) : g[t] = Following(g, t)
        BY <3>1
      <3> DEFINE h == [t \in Small(n) |-> IF t \in Small(n - 1) THEN g[t] ELSE Following(g, t)]
      <3>3. ASSUME NEW t \in Small(n) PROVE h[t] = Following(h, t)
        <4>1. h[t] = Following(g, t)
          BY <3>2
        <4>2. CASE t # {}
          <5>1. First(t) \in t
            BY <4>2 DEF First
          <5>2. t \ {First(t)} \in Small(n - 1) /\ t \ {First(t)} \in Small(n)
            <6>1. Cardinality(t) \in Nat /\ Cardinality(t \ {First(t)}) = Cardinality(t) - 1
                  /\ t \ {First(t)} \in SUBSET D
              BY <4>2, <5>1, SubsetFacts
            <6> QED BY <6>1
          <5>3. h[t \ {First(t)}] = g[t \ {First(t)}]
            BY <5>2
          <5> QED BY <4>1, <4>2, <5>3
        <4> QED BY <4>1, <4>2
      <3> HIDE DEF h
      <3> QED BY <3>3
    <2> QED BY <2>1, <2>2
  <1> HIDE DEF S
  <1>2. \A n \in Nat : n \in S
    BY <1>1, Upward
  <1>3. Cardinality(D) + 1 \in Nat
    BY FS_CardinalityType
  <1>4. PICK g : \A t \in Small(Cardinality(D) + 1) : g[t] = Following(g, t)
    BY <1>2, <1>3 DEF S
  <1>5. \A t \in SUBSET D : t \in Small(Cardinality(D) + 1)
    <2> SUFFICES ASSUME NEW t \in SUBSET D PROVE Cardinality(t) < Cardinality(D) + 1
      OBVIOUS
    <2>1. Cardinality(t) <= Cardinality(D) /\ Cardinality(t) \in Nat /\ Cardinality(D) \in Nat
      BY FS_Subset, FS_CardinalityType
    <2> QED BY <2>1
  <1> DEFINE h == [t \in SUBSET D |-> g[t]]
  <1>6. ASSUME NEW t \in SUBSET D PROVE h[t] = Following(h, t)
    <2>1. t # {} => t \ {First(t)} \in SUBSET D
      OBVIOUS
    <2> QED BY <1>4, <1>5, <2>1
  <1>7. h = [t \in SUBSET D |-> h[t]]
    OBVIOUS
  <1> HIDE DEF h
  <1>8. h = [t \in SUBSET D |-> Following(h, t)]
    BY <1>6, <1>7
  <1>9. Adding(h, f, D)
    BY <1>8 DEF Adding
  <1> QED BY <1>9

\* The library's sum over a set is one of them.
LEMMA SumIs ==
  ASSUME NEW f, NEW D, IsFiniteSet(D)
  PROVE  \E h : Adding(h, f, D) /\ SumFunctionOnSet(f, D) = h[D]
  <1> DEFINE h == CHOOSE h : Adding(h, f, D)
  <1>1. Adding(h, f, D)
    BY Zenon, AddingExists
  <1>2. SumFunctionOnSet(f, D) = h[D]
    BY Zenon DEF SumFunctionOnSet, FoldFunctionOnSet, MapThenFoldSet, Adding, First
  <1> QED BY <1>1, <1>2

\* Sums of integers are integers, and any element may be taken first.
LEMMA AddingAny ==
  ASSUME NEW f, NEW D, IsFiniteSet(D), \A e \in D : f[e] \in Int,
         NEW g, Adding(g, f, D)
  PROVE  \A t \in SUBSET D : /\ g[t] \in Int
                             /\ t = {} => g[t] = 0
                             /\ \A e \in t : g[t] = f[e] + g[t \ {e}]
  <1> DEFINE Good(t) == g[t] \in Int /\ \A e \in t : g[t] = f[e] + g[t \ {e}]
             S == {n \in Nat : \A t \in SUBSET D : Cardinality(t) = n => Good(t)}
  <1>1. \A t \in SUBSET D : g[t] = IF t = {} THEN 0 ELSE f[First(t)] + g[t \ {First(t)}]
    BY DEF Adding
  <1>2. ASSUME NEW n \in Nat, \A m \in 0 .. n - 1 : m \in S
        PROVE  n \in S
    <2> SUFFICES ASSUME NEW t \in SUBSET D, Cardinality(t) = n PROVE Good(t)
      OBVIOUS
    <2>1. CASE t = {}
      <3>1. g[t] = 0
        BY <1>1, <2>1
      <3> QED BY <3>1, <2>1
    <2>2. CASE t # {}
      <3> DEFINE c == First(t)
      <3>1. c \in t /\ f[c] \in Int /\ g[t] = f[c] + g[t \ {c}]
        BY <1>1, <2>2, SubsetFacts
      <3>2. ASSUME NEW e \in t PROVE Good(t \ {e}) /\ t \ {e} \in SUBSET D /\ f[e] \in Int
        <4>1. /\ t \ {e} \in SUBSET D /\ Cardinality(t \ {e}) = n - 1 /\ n # 0
          BY SubsetFacts
        <4>2. n - 1 \in S
          <5>1. n - 1 \in 0 .. n - 1
            BY <4>1
          <5> HIDE DEF S
          <5> QED BY <5>1, <1>2
        <4>3. Good(t \ {e})
          BY <4>1, <4>2
        <4> QED BY <4>1, <4>3
      <3> HIDE DEF c
      <3>3. g[t] \in Int
        <4>1. g[t \ {c}] \in Int
          BY <3>1, <3>2
        <4> QED BY <4>1, <3>1
      <3>4. ASSUME NEW e \in t, e # c PROVE g[t] = f[e] + g[t \ {e}]
        <4>1. g[t \ {c}] = f[e] + g[(t \ {c}) \ {e}]
          BY <3>1, <3>2, <3>4
        <4>2. g[t \ {e}] = f[c] + g[(t \ {e}) \ {c}] /\ g[t \ {e}] \in Int
          BY <3>1, <3>2, <3>4
        <4>3. (t \ {e}) \ {c} = (t \ {c}) \ {e}
          OBVIOUS
        <4>4. g[(t \ {c}) \ {e}] \in Int
          <5>1. /\ t \ {c} \in SUBSET D /\ t \ {c} # {} /\ e \in t \ {c}
            BY <3>1, <3>4
          <5>2. /\ (t \ {c}) \ {e} \in SUBSET D /\ Cardinality((t \ {c}) \ {e}) = n - 2
                /\ n - 2 \in Nat
            <6>1. Cardinality(t \ {c}) = n - 1
              BY <3>1, SubsetFacts
            <6>2. /\ Cardinality((t \ {c}) \ {e}) = Cardinality(t \ {c}) - 1
                  /\ Cardinality(t \ {c}) # 0 /\ Cardinality(t \ {c}) \in Nat
                  /\ (t \ {c}) \ {e} \in SUBSET D
              BY <5>1, SubsetFacts
            <6> QED BY <6>1, <6>2
          <5>3. n - 2 \in S
            <6>1. n - 2 \in 0 .. n - 1
              BY <5>2
            <6> HIDE DEF S
            <6> QED BY <6>1, <1>2
          <5> QED BY <5>2, <5>3
        <4>5. f[e] \in Int /\ f[c] \in Int
          BY <3>1, <3>2
        <4> DEFINE w == g[(t \ {c}) \ {e}]
        <4>6. w \in Int /\ g[t] = f[c] + (f[e] + w) /\ g[t \ {e}] = f[c] + w
          BY <3>1, <4>1, <4>2, <4>3, <4>4
        <4> HIDE DEF w
        <4>7. f[c] + (f[e] + w) = f[e] + (f[c] + w)
          BY <4>5, <4>6
        <4> QED BY <4>6, <4>7
      <3> QED BY <3>1, <3>3, <3>4
    <2> QED BY <2>1, <2>2
  <1> HIDE DEF S
  <1>3. \A n \in Nat : n \in S
    BY <1>2, Upward
  <1>4. ASSUME NEW t \in SUBSET D PROVE Good(t)
    <2>1. Cardinality(t) \in Nat
      BY FS_Subset, FS_CardinalityType
    <2> QED BY <2>1, <1>3 DEF S
  <1> QED BY <1>1, <1>4

\* Over a subset the sums are the same, of whichever larger set they are.
LEMMA AddingAgree ==
  ASSUME NEW f, NEW E, IsFiniteSet(E), NEW D \in SUBSET E,
         NEW g, Adding(g, f, D), NEW h, Adding(h, f, E)
  PROVE  g[D] = h[D]
  <1> DEFINE S == {n \in Nat : \A t \in SUBSET D : Cardinality(t) = n => g[t] = h[t]}
  <1>1. IsFiniteSet(D)
    BY FS_Subset
  <1>2. \A t \in SUBSET D : g[t] = IF t = {} THEN 0 ELSE f[First(t)] + g[t \ {First(t)}]
    BY DEF Adding
  <1>3. \A t \in SUBSET D : h[t] = IF t = {} THEN 0 ELSE f[First(t)] + h[t \ {First(t)}]
    BY DEF Adding
  <1>4. ASSUME NEW n \in Nat, \A m \in 0 .. n - 1 : m \in S
        PROVE  n \in S
    <2> SUFFICES ASSUME NEW t \in SUBSET D, Cardinality(t) = n PROVE g[t] = h[t]
      OBVIOUS
    <2>1. CASE t = {}
      BY <1>2, <1>3, <2>1
    <2>2. CASE t # {}
      <3>1. First(t) \in t
        BY <2>2 DEF First
      <3>2. /\ t \ {First(t)} \in SUBSET D /\ Cardinality(t \ {First(t)}) = n - 1
            /\ n - 1 \in 0 .. n - 1
        BY <1>1, <2>2, <3>1, SubsetFacts
      <3>3. n - 1 \in S
        <4> HIDE DEF S
        <4> QED BY <3>2, <1>4
      <3>4. g[t \ {First(t)}] = h[t \ {First(t)}]
        BY <3>2, <3>3
      <3> QED BY <1>2, <1>3, <2>2, <3>4
    <2> QED BY <2>1, <2>2
  <1> HIDE DEF S
  <1>5. \A n \in Nat : n \in S
    BY <1>4, Upward
  <1>6. Cardinality(D) \in Nat
    BY <1>1, FS_CardinalityType
  <1> QED BY <1>5, <1>6 DEF S

\* The sum of f over its first n places.
Upto(f, n) == SumFunctionOnSet(f, 0 .. n - 1)

\* No place, no sum.
LEMMA SumEmpty == \A f : Upto(f, 0) = 0
  <1> SUFFICES ASSUME NEW f PROVE Upto(f, 0) = 0
    OBVIOUS
  <1>1. IsFiniteSet({}) /\ 0 .. 0 - 1 = {}
    BY FS_EmptySet
  <1>2. PICK z : Adding(z, f, {}) /\ Upto(f, 0) = z[{}]
    BY <1>1, SumIs DEF Upto
  <1> QED BY <1>2 DEF Adding

\* One place after the other.
LEMMA UptoNext ==
  ASSUME NEW f, NEW n \in Nat, \A l \in 0 .. n : f[l] \in Int
  PROVE  /\ Upto(f, n) \in Int
         /\ Upto(f, n + 1) = Upto(f, n) + f[n]
  <1> DEFINE D == 0 .. n - 1
             E == 0 .. n
  <1>1. IsFiniteSet(D) /\ IsFiniteSet(E)
    BY FS_Interval
  <1>2. PICK g : Adding(g, f, D) /\ Upto(f, n) = g[D]
    BY <1>1, SumIs DEF Upto
  <1>3. PICK h : Adding(h, f, E) /\ Upto(f, n + 1) = h[E]
    <2>1. E = 0 .. (n + 1) - 1
      OBVIOUS
    <2> QED BY <1>1, <2>1, SumIs DEF Upto
  <1>6. E \ {n} = D /\ n \in E /\ D \in SUBSET E
    OBVIOUS
  <1> HIDE DEF D, E
  <1>7. g[D] = h[D]
    BY <1>1, <1>2, <1>3, <1>6, AddingAgree
  <1>8. \A e \in E : f[e] \in Int
    BY DEF E
  <1>9. h[D] \in Int /\ h[E] = f[n] + h[D]
    <2>1. /\ \A t \in SUBSET E : h[t] \in Int /\ \A e \in t : h[t] = f[e] + h[t \ {e}]
      BY <1>1, <1>3, <1>8, AddingAny
    <2> QED BY <2>1, <1>6
  <1>10. f[n] \in Int
    BY <1>6, <1>8
  <1> QED BY <1>2, <1>3, <1>7, <1>9, <1>10

----------------------------------------------------------------------------
(* Sums, place by place.                                                   *)

\* From 0 step by step up to N.
LEMMA StepByStep ==
  ASSUME NEW N \in Nat, NEW S, 0 \in S, \A n \in 0 .. N - 1 : n \in S => n + 1 \in S
  PROVE  N \in S
  <1> DEFINE T == {n \in Nat : n <= N => n \in S}
  <1>1. ASSUME NEW n \in Nat, \A m \in 0 .. n - 1 : m \in T
        PROVE  n \in T
    <2>1. CASE n = 0
      BY <2>1
    <2>2. CASE n # 0
      <3>1. n - 1 \in 0 .. n - 1 /\ n - 1 \in Nat /\ (n - 1) + 1 = n
        BY <2>2
      <3>2. n - 1 \in T
        <4> HIDE DEF T
        <4> QED BY <1>1, <3>1
      <3>3. n <= N => n - 1 \in 0 .. N - 1
        BY <3>1
      <3> QED BY <3>1, <3>2, <3>3
    <2> QED BY <2>1, <2>2
  <1> HIDE DEF T
  <1>2. N \in T
    BY <1>1, Upward
  <1> QED BY <1>2 DEF T

\* Integers add up to an integer.
LEMMA SumIsInt ==
  ASSUME NEW N \in Nat, NEW f, \A l \in 0 .. N - 1 : f[l] \in Int
  PROVE  Upto(f, N) \in Int
  <1> DEFINE S == {n \in 0 .. N : Upto(f, n) \in Int}
  <1>1. 0 \in S
    BY SumEmpty
  <1>2. ASSUME NEW n \in 0 .. N - 1, n \in S PROVE n + 1 \in S
    <2>1. n \in Nat /\ n + 1 \in 0 .. N /\ \A l \in 0 .. n : f[l] \in Int
      OBVIOUS
    <2>2. Upto(f, n + 1) = Upto(f, n) + f[n] /\ Upto(f, n) \in Int
      BY <2>1, UptoNext
    <2> QED BY <2>1, <2>2
  <1> HIDE DEF S
  <1>3. N \in S
    BY <1>1, <1>2, StepByStep
  <1> QED BY <1>3 DEF S

\* A constant factor, and a combination of five, can be taken out of a sum.
Combination(f, N, a, b, c, d, e, u, p, q, r, t) ==
  \A l \in 0 .. N - 1 :
    /\ a[l] \in Int /\ b[l] \in Int /\ c[l] \in Int /\ d[l] \in Int /\ e[l] \in Int
    /\ f[l] = u * a[l] - (p * b[l] + q * c[l] + r * d[l] + t * e[l])

\* The sum of a combination is the combination of the sums.
LEMMA Combined ==
  ASSUME NEW N \in Nat, NEW f, NEW a, NEW b, NEW c, NEW d, NEW e,
         NEW u \in Int, NEW p \in Int, NEW q \in Int, NEW r \in Int, NEW t \in Int,
         Combination(f, N, a, b, c, d, e, u, p, q, r, t)
  PROVE  /\ Upto(f, N) = u * Upto(a, N) - (p * Upto(b, N) + q * Upto(c, N)
                                            + r * Upto(d, N) + t * Upto(e, N))
         /\ Upto(f, N) \in Int /\ Upto(a, N) \in Int /\ Upto(b, N) \in Int
         /\ Upto(c, N) \in Int /\ Upto(d, N) \in Int /\ Upto(e, N) \in Int
  <1> DEFINE S == {n \in Nat :
                     /\ Upto(f, n) = u * Upto(a, n) - (p * Upto(b, n) + q * Upto(c, n)
                                                       + r * Upto(d, n) + t * Upto(e, n))
                     /\ Upto(f, n) \in Int /\ Upto(a, n) \in Int /\ Upto(b, n) \in Int
                     /\ Upto(c, n) \in Int /\ Upto(d, n) \in Int /\ Upto(e, n) \in Int}
  <1>1. \A g : Upto(g, 0) = 0
    BY SumEmpty
  <1>2. 0 \in S
    <2>1. u * 0 - (p * 0 + q * 0 + r * 0 + t * 0) = 0
      OBVIOUS
    <2>2. /\ Upto(f, 0) = 0 /\ Upto(a, 0) = 0 /\ Upto(b, 0) = 0 /\ Upto(c, 0) = 0
          /\ Upto(d, 0) = 0 /\ Upto(e, 0) = 0
      BY <1>1
    <2> QED BY <2>1, <2>2
  <1>3. ASSUME NEW n \in 0 .. N - 1, n \in S PROVE n + 1 \in S
    <2>1. n \in Nat /\ \A l \in 0 .. n : l \in 0 .. N - 1
      OBVIOUS
    <2>2. \A l \in 0 .. n :
            /\ a[l] \in Int /\ b[l] \in Int /\ c[l] \in Int /\ d[l] \in Int /\ e[l] \in Int
            /\ f[l] = u * a[l] - (p * b[l] + q * c[l] + r * d[l] + t * e[l])
      BY <2>1 DEF Combination
    <2>3. \A l \in 0 .. n : f[l] \in Int
      BY <2>2
    <2>4. /\ Upto(f, n + 1) = Upto(f, n) + f[n] /\ Upto(a, n + 1) = Upto(a, n) + a[n]
          /\ Upto(b, n + 1) = Upto(b, n) + b[n] /\ Upto(c, n + 1) = Upto(c, n) + c[n]
          /\ Upto(d, n + 1) = Upto(d, n) + d[n] /\ Upto(e, n + 1) = Upto(e, n) + e[n]
      <3>1. \A g : (\A l \in 0 .. n : g[l] \in Int) => Upto(g, n + 1) = Upto(g, n) + g[n]
        BY <2>1, UptoNext
      <3> QED BY <3>1, <2>2, <2>3
    <2>5. /\ Upto(f, n) = u * Upto(a, n) - (p * Upto(b, n) + q * Upto(c, n)
                                             + r * Upto(d, n) + t * Upto(e, n))
          /\ Upto(f, n) \in Int /\ Upto(a, n) \in Int /\ Upto(b, n) \in Int
          /\ Upto(c, n) \in Int /\ Upto(d, n) \in Int /\ Upto(e, n) \in Int
      BY <1>3
    <2>6. \A A, B, C, D, E, x, y, z, v, w \in Int :
            (u * A - (p * B + q * C + r * D + t * E)) + (u * x - (p * y + q * z + r * v + t * w))
              = u * (A + x) - (p * (B + y) + q * (C + z) + r * (D + v) + t * (E + w))
      OBVIOUS
    <2>7. /\ a[n] \in Int /\ b[n] \in Int /\ c[n] \in Int /\ d[n] \in Int /\ e[n] \in Int
          /\ f[n] = u * a[n] - (p * b[n] + q * c[n] + r * d[n] + t * e[n])
      BY <2>1, <2>2
    <2>8. Upto(f, n + 1) = u * Upto(a, n + 1) - (p * Upto(b, n + 1) + q * Upto(c, n + 1)
                                                + r * Upto(d, n + 1) + t * Upto(e, n + 1))
      BY <2>4, <2>5, <2>6, <2>7
    <2>9. f[n] \in Int
      BY <2>1, <2>3
    <2> QED BY <2>1, <2>4, <2>5, <2>7, <2>8, <2>9
  <1> HIDE DEF S
  <1>4. N \in S
    BY <1>2, <1>3, StepByStep
  <1> QED BY <1>4 DEF S

\* Sums of constants, of the first numbers and of their squares.
LEMMA PowerSums ==
  ASSUME NEW N \in Nat, NEW a, NEW b, NEW c,
         \A l \in 0 .. N - 1 : a[l] = 1 /\ b[l] = l /\ c[l] = l * l
  PROVE  /\ Upto(a, N) = N
         /\ Upto(b, N) \in Int /\ 2 * Upto(b, N) = N * (N - 1)
         /\ Upto(c, N) \in Int /\ 6 * Upto(c, N) = N * (N - 1) * (2 * N - 1)
  <1> DEFINE S == {n \in Nat :
                     /\ Upto(a, n) = n
                     /\ Upto(b, n) \in Int /\ 2 * Upto(b, n) = n * (n - 1)
                     /\ Upto(c, n) \in Int /\ 6 * Upto(c, n) = n * (n - 1) * (2 * n - 1)}
  <1>1. 0 \in S
    <2>1. Upto(a, 0) = 0 /\ Upto(b, 0) = 0 /\ Upto(c, 0) = 0
      BY SumEmpty
    <2> QED BY <2>1
  <1>2. ASSUME NEW n \in 0 .. N - 1, n \in S PROVE n + 1 \in S
    <2>1. n \in Nat /\ \A l \in 0 .. n : l \in 0 .. N - 1 /\ l \in Int /\ l * l \in Int
      OBVIOUS
    <2>2. \A l \in 0 .. n : a[l] = 1 /\ b[l] = l /\ c[l] = l * l
      BY <2>1
    <2>3. \A l \in 0 .. n : a[l] \in Int /\ b[l] \in Int /\ c[l] \in Int
      BY <2>1, <2>2
    <2>4. /\ Upto(a, n + 1) = Upto(a, n) + a[n] /\ Upto(b, n + 1) = Upto(b, n) + b[n]
          /\ Upto(c, n + 1) = Upto(c, n) + c[n]
      <3>1. \A g : (\A l \in 0 .. n : g[l] \in Int) => Upto(g, n + 1) = Upto(g, n) + g[n]
        BY <2>1, UptoNext
      <3> QED BY <3>1, <2>3
    <2>5. a[n] = 1 /\ b[n] = n /\ c[n] = n * n
      BY <2>1, <2>2
    <2>6. /\ Upto(a, n) = n
          /\ Upto(b, n) \in Int /\ 2 * Upto(b, n) = n * (n - 1)
          /\ Upto(c, n) \in Int /\ 6 * Upto(c, n) = n * (n - 1) * (2 * n - 1)
      BY <1>2
    <2>7. 2 * (Upto(b, n) + n) = (n + 1) * ((n + 1) - 1)
      BY <2>1, <2>6
    <2>8. 6 * (Upto(c, n) + n * n) = (n + 1) * ((n + 1) - 1) * (2 * (n + 1) - 1)
      <3>1. n * (n - 1) * (2 * n - 1) + 6 * (n * n) = (n + 1) * ((n + 1) - 1) * (2 * (n + 1) - 1)
        BY <2>1
      <3>2. 6 * (Upto(c, n) + n * n) = 6 * Upto(c, n) + 6 * (n * n)
        BY <2>1, <2>6
      <3> QED BY <3>1, <3>2, <2>6
    <2>9. n * n \in Int
      BY <2>1
    <2> QED BY <2>1, <2>4, <2>5, <2>6, <2>7, <2>8, <2>9
  <1> HIDE DEF S
  <1>3. N \in S
    BY <1>1, <1>2, StepByStep
  <1> QED BY <1>3 DEF S

----------------------------------------------------------------------------
(* Numbers in mixed digits, and sums over the elements of a block.         *)

\* Two digits, the low one below z: the number and its digits.
LEMMA LowDigit ==
  ASSUME NEW z \in Nat \ {0}, NEW q \in Nat, NEW k \in 0 .. z - 1
  PROVE  q * z + k \in Nat /\ (q * z + k) \div z = q /\ (q * z + k) % z = k
  <1> DEFINE n == q * z + k
             p == n \div z
             r == n % z
  <1>1. n \in Nat /\ q * z \in Nat
    OBVIOUS
  <1>2. p \in Nat /\ r \in 0 .. z - 1 /\ n = z * p + r
    BY <1>1
  <1>3. z * p = p * z /\ p * z \in Nat
    BY <1>2
  <1> HIDE DEF p, r
  <1>4. (q - p) * z = r - k
    <2>1. (q - p) * z = q * z - p * z
      BY <1>2
    <2> QED BY <1>1, <1>2, <1>3, <2>1
  <1>5. q - p >= 1 => (q - p) * z >= z
    BY <1>2
  <1>6. q - p <= -1 => (q - p) * z <= -z
    BY <1>2
  <1>7. q - p = 0
    BY <1>2, <1>4, <1>5, <1>6
  <1>8. p = q
    BY <1>2, <1>7
  <1>9. 0 * z = 0
    OBVIOUS
  <1>10. r = k
    BY <1>2, <1>4, <1>7, <1>9
  <1> QED BY <1>1, <1>8, <1>10 DEF p, r

\* And below m * z if the high digit is below m.
LEMMA HighDigit ==
  ASSUME NEW m \in Nat, NEW z \in Nat \ {0}, NEW q \in 0 .. m - 1, NEW k \in 0 .. z - 1
  PROVE  q * z + k \in 0 .. m * z - 1
  <1>1. q \in Nat /\ q + 1 <= m /\ q * z \in Nat /\ m * z \in Nat
    OBVIOUS
  <1>2. (q + 1) * z <= m * z
    BY <1>1
  <1>3. (q + 1) * z = q * z + z
    BY <1>1
  <1> QED BY <1>1, <1>2, <1>3

\* Every number below m * z has two such digits.
LEMMA DigitsOf ==
  ASSUME NEW m \in Nat, NEW z \in Nat \ {0}, NEW n \in 0 .. m * z - 1
  PROVE  n \div z \in 0 .. m - 1 /\ n % z \in 0 .. z - 1 /\ n = (n \div z) * z + (n % z)
  <1> DEFINE q == n \div z
             k == n % z
  <1>1. n \in Nat /\ m * z \in Nat /\ n < m * z
    OBVIOUS
  <1>2. q \in Nat /\ k \in 0 .. z - 1 /\ n = z * q + k
    BY <1>1
  <1> HIDE DEF q, k
  <1>3. z * q = q * z /\ q * z \in Nat
    BY <1>2
  <1>4. q >= m => q * z >= m * z
    BY <1>2
  <1>5. q < m
    BY <1>1, <1>2, <1>3, <1>4
  <1> QED BY <1>2, <1>3, <1>5 DEF q, k

\* f[q * z + k] is g[q] * c[k].
Product(f, g, c, m, z) ==
  /\ \A l \in 0 .. m * z - 1 : f[l] \in Int
  /\ \A q \in 0 .. m - 1 : g[q] \in Int
  /\ \A k \in 0 .. z - 1 : c[k] \in Int
  /\ \A q \in 0 .. m - 1, k \in 0 .. z - 1 : f[q * z + k] = g[q] * c[k]

\* The sum of such products is the product of the sums.
LEMMA ProductSum ==
  ASSUME NEW m \in Nat, NEW z \in Nat \ {0}, NEW f, NEW g, NEW c, Product(f, g, c, m, z)
  PROVE  /\ Upto(f, m * z) = Upto(g, m) * Upto(c, z)
         /\ Upto(g, m) \in Int /\ Upto(c, z) \in Int
  <1> DEFINE C == Upto(c, z)
  <1>1. C \in Int
    BY SumIsInt DEF Product
  <1> HIDE DEF C
  <1> DEFINE S == {q \in 0 .. m : Upto(f, q * z) = Upto(g, q) * C /\ Upto(g, q) \in Int}
  <1>2. 0 \in S
    <2>1. Upto(g, 0) = 0 /\ Upto(f, 0) = 0 /\ 0 * z = 0 /\ 0 * C = 0
      BY SumEmpty, <1>1
    <2> QED BY <2>1
  <1>3. ASSUME NEW q \in 0 .. m - 1, q \in S PROVE q + 1 \in S
    <2>1. /\ q \in Nat /\ q * z \in Nat /\ g[q] \in Int /\ (q + 1) * z = q * z + z
          /\ q + 1 \in 0 .. m
      BY DEF Product
    <2>2. Upto(f, q * z) = Upto(g, q) * C /\ Upto(g, q) \in Int
      BY <1>3
    <2> DEFINE R == {k \in 0 .. z : Upto(f, q * z + k) = Upto(g, q) * C + g[q] * Upto(c, k)}
    <2>3. 0 \in R
      <3>1. Upto(c, 0) = 0 /\ g[q] * 0 = 0 /\ q * z + 0 = q * z
        BY <2>1, SumEmpty
      <3>2. Upto(g, q) * C \in Int
        BY <2>2, <1>1
      <3> QED BY <3>1, <3>2, <2>2
    <2>4. ASSUME NEW k \in 0 .. z - 1, k \in R PROVE k + 1 \in R
      <3> DEFINE n == q * z + k
      <3>1. n \in 0 .. m * z - 1 /\ n \in Nat /\ n + 1 = q * z + (k + 1)
        BY <2>1, HighDigit
      <3>2. f[n] = g[q] * c[k] /\ c[k] \in Int
        BY DEF Product
      <3>3. \A l \in 0 .. n : f[l] \in Int
        <4> HIDE DEF n
        <4>1. m * z \in Nat /\ \A l \in 0 .. n : l \in 0 .. m * z - 1
          BY <3>1
        <4> QED BY <4>1 DEF Product
      <3>4. k \in Nat /\ k \in 0 .. z /\ k + 1 \in 0 .. z /\ \A l \in 0 .. k : c[l] \in Int
        BY DEF Product
      <3>5. Upto(c, k + 1) = Upto(c, k) + c[k] /\ Upto(c, k) \in Int
        BY <3>4, UptoNext
      <3>6. Upto(f, n) = Upto(g, q) * C + g[q] * Upto(c, k)
        BY <2>4
      <3> HIDE DEF n
      <3>7. Upto(f, n + 1) = Upto(f, n) + f[n]
        BY <3>1, <3>3, UptoNext
      <3>8. g[q] * (Upto(c, k) + c[k]) = g[q] * Upto(c, k) + g[q] * c[k]
        BY <2>1, <3>2, <3>5
      <3>9. Upto(g, q) * C \in Int /\ g[q] * Upto(c, k) \in Int /\ g[q] * c[k] \in Int
        BY <1>1, <2>1, <2>2, <3>2, <3>5
      <3>10. Upto(f, n + 1) = Upto(g, q) * C + g[q] * Upto(c, k + 1)
        BY <3>2, <3>5, <3>6, <3>7, <3>8, <3>9
      <3> QED BY <3>1, <3>4, <3>10
    <2> HIDE DEF R
    <2>5. z \in R
      BY <2>3, <2>4, StepByStep
    <2>6. Upto(f, q * z + z) = Upto(g, q) * C + g[q] * C
      BY <2>5 DEF R, C
    <2>7. Upto(g, q + 1) = Upto(g, q) + g[q]
      <3>1. \A l \in 0 .. q : g[l] \in Int
        BY DEF Product
      <3> QED BY <2>1, <3>1, UptoNext
    <2>8. (Upto(g, q) + g[q]) * C = Upto(g, q) * C + g[q] * C
      BY <1>1, <2>1, <2>2
    <2> QED BY <2>1, <2>2, <2>6, <2>7, <2>8
  <1> HIDE DEF S
  <1>4. m \in S
    BY <1>2, <1>3, StepByStep
  <1> QED BY <1>1, <1>4 DEF S, C

\* The edges of a block.
IsBlock(s) == s.x \in Nat \ {0} /\ s.y \in Nat \ {0} /\ s.z \in Nat \ {0}

\* Where the loops are at the element of a number, and its number.
LEMMA LoopsAt ==
  ASSUME NEW s, IsBlock(s), NEW l \in 0 .. s.x - 1, NEW j \in 0 .. s.y - 1,
         NEW k \in 0 .. s.z - 1, NEW n, n = (l * s.y + j) * s.z + k
  PROVE  /\ n \in Elements(s) /\ I(s, n) = l /\ J(s, n) = j /\ K(s, n) = k
  <1> DEFINE q == l * s.y + j
             t == j * s.z + k
             w == s.y * s.z
  <1>1. /\ s.x \in Nat \ {0} /\ s.y \in Nat \ {0} /\ s.z \in Nat \ {0}
        /\ l \in Nat /\ j \in Nat /\ k \in Nat
    BY DEF IsBlock
  <1>2. q \in Nat /\ q \in 0 .. s.x * s.y - 1 /\ q \div s.y = l /\ q % s.y = j
    BY <1>1, LowDigit, HighDigit
  <1>3. n \div s.z = q /\ n % s.z = k
    <2> HIDE DEF q
    <2>1. (q * s.z + k) \div s.z = q /\ (q * s.z + k) % s.z = k
      BY <1>1, <1>2, LowDigit
    <2> QED BY <2>1 DEF q
  <1>4. n \in Elements(s)
    <2>1. s.x * s.y \in Nat
      BY <1>1
    <2> HIDE DEF q
    <2>2. q * s.z + k \in 0 .. (s.x * s.y) * s.z - 1
      BY <1>1, <1>2, <2>1, HighDigit
    <2> QED BY <2>2 DEF q, Elements
  <1>5. t \in 0 .. w - 1 /\ w \in Nat \ {0}
    <2>1. w \in Nat \ {0}
      BY <1>1
    <2>2. t \in 0 .. w - 1
      BY <1>1, HighDigit
    <2> QED BY <2>1, <2>2
  <1>6. n = l * w + t
    <2>1. (l * s.y + j) * s.z = (l * s.y) * s.z + j * s.z
      BY <1>1
    <2>2. (l * s.y) * s.z = l * w
      BY <1>1
    <2>3. l * w \in Nat /\ j * s.z \in Nat
      BY <1>1
    <2> QED BY <1>1, <2>1, <2>2, <2>3
  <1>7. n \div w = l
    <2> HIDE DEF t, w
    <2> QED BY <1>1, <1>5, <1>6, LowDigit
  <1> QED BY <1>2, <1>3, <1>4, <1>7 DEF I, J, K

\* Every element of the block is where the loops are at some time.
LEMMA LoopsReach ==
  ASSUME NEW s, IsBlock(s), NEW n \in Elements(s)
  PROVE  /\ n \in Nat
         /\ I(s, n) \in 0 .. s.x - 1 /\ J(s, n) \in 0 .. s.y - 1 /\ K(s, n) \in 0 .. s.z - 1
         /\ n = (I(s, n) * s.y + J(s, n)) * s.z + K(s, n)
  <1> DEFINE q == n \div s.z
             m == s.x * s.y
  <1>1. s.x \in Nat \ {0} /\ s.y \in Nat \ {0} /\ s.z \in Nat \ {0} /\ m \in Nat
    BY DEF IsBlock
  <1>2. n \in 0 .. m * s.z - 1 /\ n \in Nat
    BY DEF Elements
  <1>3. q \in 0 .. m - 1 /\ n % s.z \in 0 .. s.z - 1 /\ n = q * s.z + (n % s.z)
    <2> HIDE DEF m
    <2> QED BY <1>1, <1>2, DigitsOf
  <1>4. q \div s.y \in 0 .. s.x - 1 /\ q % s.y \in 0 .. s.y - 1 /\ q = (q \div s.y) * s.y + (q % s.y)
    <2> HIDE DEF q
    <2> QED BY <1>1, <1>3, DigitsOf
  <1> DEFINE l == q \div s.y
             j == q % s.y
             k == n % s.z
  <1>5. n = (l * s.y + j) * s.z + k /\ l \in 0 .. s.x - 1 /\ j \in 0 .. s.y - 1 /\ k \in 0 .. s.z - 1
    BY <1>3, <1>4
  <1> HIDE DEF l, j, k
  <1>6. I(s, n) = l /\ J(s, n) = j /\ K(s, n) = k
    BY <1>5, LoopsAt
  <1> QED BY <1>2, <1>5, <1>6

\* A product of a value for each coordinate sums up to the product of the sums.
Separate(f, s, a, b, c) ==
  /\ \A l \in 0 .. s.x - 1 : a[l] \in Int
  /\ \A j \in 0 .. s.y - 1 : b[j] \in Int
  /\ \A k \in 0 .. s.z - 1 : c[k] \in Int
  /\ \A n \in Elements(s) : f[n] = a[I(s, n)] * b[J(s, n)] * c[K(s, n)]

\* Over a block the sum of such products is the product of three sums.
LEMMA BlockSum ==
  ASSUME NEW s, IsBlock(s), NEW f, NEW a, NEW b, NEW c, Separate(f, s, a, b, c)
  PROVE  /\ Upto(f, s.x * s.y * s.z) = Upto(a, s.x) * Upto(b, s.y) * Upto(c, s.z)
         /\ Upto(a, s.x) \in Int /\ Upto(b, s.y) \in Int /\ Upto(c, s.z) \in Int
  <1> DEFINE m == s.x * s.y
             h == [q \in 0 .. m - 1 |-> a[q \div s.y] * b[q % s.y]]
  <1>1. s.x \in Nat \ {0} /\ s.y \in Nat \ {0} /\ s.z \in Nat \ {0} /\ m \in Nat
    BY DEF IsBlock
  <1>2. Product(h, a, b, s.x, s.y)
    <2>1. ASSUME NEW q \in 0 .. s.x * s.y - 1 PROVE h[q] \in Int
      <3>1. q \div s.y \in 0 .. s.x - 1 /\ q % s.y \in 0 .. s.y - 1
        BY <1>1, DigitsOf
      <3>2. a[q \div s.y] \in Int /\ b[q % s.y] \in Int
        BY <3>1 DEF Separate
      <3> QED BY <3>2
    <2>2. ASSUME NEW l \in 0 .. s.x - 1, NEW j \in 0 .. s.y - 1
          PROVE  h[l * s.y + j] = a[l] * b[j]
      <3>1. l \in Nat /\ l * s.y + j \in 0 .. m - 1
        BY <1>1, HighDigit
      <3>2. (l * s.y + j) \div s.y = l /\ (l * s.y + j) % s.y = j
        BY <1>1, <3>1, LowDigit
      <3> QED BY <3>1, <3>2
    <2> HIDE DEF h
    <2> QED BY <2>1, <2>2 DEF Product, Separate
  <1>3. Product(f, h, c, m, s.z)
    <2>1. \A q \in 0 .. m - 1 : h[q] \in Int
      <3> HIDE DEF h
      <3> QED BY <1>2 DEF Product
    <2>2. ASSUME NEW n \in 0 .. m * s.z - 1 PROVE f[n] \in Int
      <3>1. n \in Elements(s)
        BY DEF Elements
      <3>2. a[I(s, n)] \in Int /\ b[J(s, n)] \in Int /\ c[K(s, n)] \in Int
        BY <3>1, LoopsReach DEF Separate
      <3> QED BY <3>1, <3>2 DEF Separate
    <2>3. ASSUME NEW q \in 0 .. m - 1, NEW k \in 0 .. s.z - 1
          PROVE  f[q * s.z + k] = h[q] * c[k]
      <3> DEFINE l == q \div s.y
                 j == q % s.y
                 n == q * s.z + k
      <3>1. l \in 0 .. s.x - 1 /\ j \in 0 .. s.y - 1 /\ q = l * s.y + j /\ h[q] = a[l] * b[j]
        BY <1>1, DigitsOf
      <3> HIDE DEF h, l, j
      <3>2. n = (l * s.y + j) * s.z + k
        BY <3>1
      <3> HIDE DEF n
      <3>3. n \in Elements(s) /\ I(s, n) = l /\ J(s, n) = j /\ K(s, n) = k
        BY <3>1, <3>2, LoopsAt
      <3>4. f[n] = a[l] * b[j] * c[k]
        BY <3>3 DEF Separate
      <3> QED BY <3>1, <3>4 DEF n
    <2> HIDE DEF h, m
    <2> QED BY <2>1, <2>2, <2>3 DEF Product, Separate
  <1> HIDE DEF h
  <1>4. /\ Upto(h, m) = Upto(a, s.x) * Upto(b, s.y)
        /\ Upto(a, s.x) \in Int /\ Upto(b, s.y) \in Int
    BY <1>1, <1>2, ProductSum
  <1> HIDE DEF m
  <1>5. /\ Upto(f, m * s.z) = Upto(h, m) * Upto(c, s.z) /\ Upto(c, s.z) \in Int
    BY <1>1, <1>3, ProductSum
  <1> QED BY <1>4, <1>5 DEF m

----------------------------------------------------------------------------
(* The walk.                                                               *)

\* Where element n of the block is in the array.
Address(s, dim0, dim1, n) == I(s, n) * dim0 + J(s, n) * dim1 + K(s, n)

\* One more times a number is the number more.
LEMMA OneMore ==
  ASSUME NEW a \in Nat, NEW b \in Nat
  PROVE  (a + 1) * b = a * b + b /\ a * b \in Nat
  OBVIOUS

\* Each bump leads from the address of one element to that of the next.
LEMMA BumpLeads ==
  ASSUME NEW s, IsBlock(s), NEW dim0 \in Int, NEW dim1 \in Int,
         NEW n \in Elements(s), n # 0
  PROVE  /\ n - 1 \in Elements(s)
         /\ Address(s, dim0, dim1, n) = Address(s, dim0, dim1, n - 1) + Bump(s, dim0, dim1, n)
  <1> DEFINE m == n - 1
             l == I(s, m)
             j == J(s, m)
             k == K(s, m)
  <1>1. /\ s.x \in Nat \ {0} /\ s.y \in Nat \ {0} /\ s.z \in Nat \ {0}
    BY DEF IsBlock
  <1>2. /\ n \in Nat /\ m \in Nat /\ m \in Elements(s) /\ n = m + 1
    BY <1>1 DEF Elements
  <1>3. l \in 0 .. s.x - 1 /\ j \in 0 .. s.y - 1 /\ k \in 0 .. s.z - 1
        /\ m = (l * s.y + j) * s.z + k
    BY <1>2, LoopsReach
  <1> HIDE DEF m, l, j, k
  <1>4. l * dim0 \in Int /\ j * dim1 \in Int /\ dim1 * s.y \in Int
    BY <1>1, <1>3
  <1>5. CASE k # s.z - 1
    <2>1. k + 1 \in 0 .. s.z - 1 /\ n = (l * s.y + j) * s.z + (k + 1) /\ k + 1 # 0
      <3>1. k + 1 \in 0 .. s.z - 1 /\ k + 1 # 0 /\ k \in Nat
        <4>1. s.z \in Nat /\ k \in 0 .. s.z - 1
          BY <1>1, <1>3
        <4> QED BY <1>5, <4>1
      <3> DEFINE w == (l * s.y + j) * s.z
      <3>2. w \in Nat
        BY <1>1, <1>3
      <3>3. n = (w + k) + 1
        BY <1>2, <1>3
      <3> HIDE DEF w
      <3>4. n = w + (k + 1)
        BY <3>1, <3>2, <3>3
      <3> QED BY <3>1, <3>4 DEF w
    <2>2. I(s, n) = l /\ J(s, n) = j /\ K(s, n) = k + 1
      BY <1>3, <2>1, LoopsAt
    <2>3. Bump(s, dim0, dim1, n) = 1
      BY <2>1, <2>2 DEF Bump
    <2>4. l * dim0 + j * dim1 + (k + 1) = (l * dim0 + j * dim1 + k) + 1
      BY <1>3, <1>4
    <2> QED BY <1>2, <2>2, <2>3, <2>4 DEF Address, l, j, k, m
  <1>6. CASE k = s.z - 1 /\ j # s.y - 1
    <2>1. j + 1 \in 0 .. s.y - 1 /\ 0 \in 0 .. s.z - 1 /\ j + 1 # 0
      <3>1. s.y \in Nat /\ j \in 0 .. s.y - 1 /\ s.z \in Nat \ {0}
        BY <1>1, <1>3
      <3> QED BY <1>6, <3>1
    <2>2. n = (l * s.y + (j + 1)) * s.z + 0
      <3> DEFINE w == l * s.y + j
      <3>1. w \in Nat /\ l * s.y + (j + 1) = w + 1
        BY <1>1, <1>3
      <3>2. n = w * s.z + s.z
        BY <1>1, <1>2, <1>3, <1>6
      <3> HIDE DEF w
      <3>3. (w + 1) * s.z = w * s.z + s.z /\ w * s.z \in Nat
        <4>1. w \in Nat /\ s.z \in Nat
          BY <1>1, <3>1
        <4> QED BY <4>1, OneMore
      <3> QED BY <3>1, <3>2, <3>3
    <2>3. I(s, n) = l /\ J(s, n) = j + 1 /\ K(s, n) = 0
      BY <1>3, <2>1, <2>2, LoopsAt
    <2>4. Bump(s, dim0, dim1, n) = 1 + (dim1 - s.z)
      BY <1>1, <2>1, <2>3 DEF Bump
    <2>5. (j + 1) * dim1 = j * dim1 + dim1
      BY <1>3
    <2>6. l * dim0 + (j + 1) * dim1 + 0 = (l * dim0 + j * dim1 + k) + (1 + (dim1 - s.z))
      BY <1>1, <1>3, <1>4, <1>6, <2>5
    <2> QED BY <1>2, <2>3, <2>4, <2>6 DEF Address, l, j, k, m
  <1>7. CASE k = s.z - 1 /\ j = s.y - 1
    <2>1. n = (l + 1) * (s.y * s.z)
      <3> DEFINE w == l * s.y + j
      <3>1. w \in Nat /\ w + 1 = (l + 1) * s.y
        BY <1>1, <1>3, <1>7
      <3>2. n = w * s.z + s.z
        BY <1>1, <1>2, <1>3, <1>7
      <3> HIDE DEF w
      <3>3. (w + 1) * s.z = w * s.z + s.z /\ w * s.z \in Nat
        <4>1. w \in Nat /\ s.z \in Nat
          BY <1>1, <3>1
        <4> QED BY <4>1, OneMore
      <3>4. ((l + 1) * s.y) * s.z = (l + 1) * (s.y * s.z)
        BY <1>1, <1>3
      <3> QED BY <3>1, <3>2, <3>3, <3>4
    <2>2. n = ((l + 1) * s.y + 0) * s.z + 0
      <3>1. ((l + 1) * s.y) * s.z = (l + 1) * (s.y * s.z) /\ (l + 1) * s.y \in Nat
        BY <1>1, <1>3
      <3> QED BY <2>1, <3>1
    <2>3. l + 1 \in 0 .. s.x - 1
      <3>1. n \in 0 .. s.x * s.y * s.z - 1
        BY DEF Elements
      <3>2. s.x * s.y * s.z = s.x * (s.y * s.z) /\ s.y * s.z \in Nat \ {0}
        BY <1>1
      <3> DEFINE w == s.y * s.z
      <3>3. l + 1 >= s.x => (l + 1) * w >= s.x * w
        <4> HIDE DEF w
        <4> QED BY <1>1, <1>3, <3>2 DEF w
      <3>4. s.x * w \in Nat
        BY <1>1, <3>2
      <3>5. l \in Nat /\ s.x \in Nat
        BY <1>1, <1>3
      <3>6. (l + 1) * w < s.x * w
        BY <2>1, <3>1, <3>2, <3>4
      <3> HIDE DEF w
      <3>7. (l + 1) * w \in Int
        BY <3>1, <2>1 DEF w
      <3>8. l + 1 < s.x
        BY <3>3, <3>4, <3>5, <3>6, <3>7
      <3> QED BY <3>5, <3>8
    <2>4. I(s, n) = l + 1 /\ J(s, n) = 0 /\ K(s, n) = 0
      <3>1. 0 \in 0 .. s.y - 1 /\ 0 \in 0 .. s.z - 1
        BY <1>1
      <3> QED BY <2>2, <2>3, <3>1, LoopsAt
    <2>5. Bump(s, dim0, dim1, n) = 1 + (dim1 - s.z) + (dim0 - s.y * dim1)
      BY <1>1, <2>4 DEF Bump
    <2>6. (l + 1) * dim0 = l * dim0 + dim0 /\ j * dim1 = s.y * dim1 - dim1 /\ 0 * dim1 = 0
          /\ s.y * dim1 \in Int
      BY <1>1, <1>3, <1>7
    <2>7. (l + 1) * dim0 + 0 * dim1 + 0
            = (l * dim0 + j * dim1 + k) + (1 + (dim1 - s.z) + (dim0 - s.y * dim1))
      BY <1>1, <1>3, <1>4, <1>7, <2>6
    <2> QED BY <1>2, <2>4, <2>5, <2>7 DEF Address, l, j, k, m
  <1> QED BY <1>2, <1>5, <1>6, <1>7 DEF m

\* cur_data_pos, which compute_regression_coeffcients_3d only ever bumps, is at each
\* element of the block when the loops are, whatever array the block lies in.
THEOREM WalkFindsElements ==
  ASSUME NEW s, IsBlock(s), NEW dim0 \in Int, NEW dim1 \in Int
  PROVE  \A n \in Elements(s) : DataPos(s, dim0, dim1)[n] = I(s, n) * dim0 + J(s, n) * dim1 + K(s, n)
  <1> DEFINE A(n) == Address(s, dim0, dim1, n)
             B(n) == Bump(s, dim0, dim1, n)
             Walks(p) == p = [n \in Elements(s) |-> IF n = 0 THEN 0 ELSE p[n - 1] + B(n)]
             pos == CHOOSE p : Walks(p)
             h == [n \in Elements(s) |-> A(n)]
  <1>1. s.x * s.y * s.z \in Nat \ {0} /\ 0 \in Elements(s) /\ Elements(s) = 0 .. s.x * s.y * s.z - 1
    BY DEF IsBlock, Elements
  <1>2. A(0) = 0
    <2>1. s.x \in Nat \ {0} /\ s.y \in Nat \ {0} /\ s.z \in Nat \ {0}
      BY DEF IsBlock
    <2>2. 0 \in 0 .. s.x - 1 /\ 0 \in 0 .. s.y - 1 /\ 0 \in 0 .. s.z - 1 /\ 0 = (0 * s.y + 0) * s.z + 0
      BY <2>1
    <2>3. I(s, 0) = 0 /\ J(s, 0) = 0 /\ K(s, 0) = 0
      BY <2>2, LoopsAt
    <2> QED BY <2>3 DEF Address
  <1>3. \A n \in Elements(s) : n # 0 => n - 1 \in Elements(s) /\ A(n) = A(n - 1) + B(n)
    BY BumpLeads
  <1>4. Walks(h)
    <2>1. ASSUME NEW n \in Elements(s) PROVE h[n] = IF n = 0 THEN 0 ELSE h[n - 1] + B(n)
      <3> HIDE DEF A, B
      <3> QED BY <1>2, <1>3
    <2>2. h = [n \in Elements(s) |-> h[n]]
      OBVIOUS
    <2> HIDE DEF h, B
    <2> QED BY <2>1, <2>2
  <1>5. Walks(pos)
    <2> HIDE DEF h
    <2> QED BY Zenon, <1>4
  <1>6. DataPos(s, dim0, dim1) = pos
    BY Zenon DEF DataPos
  <1> HIDE DEF pos, h, A, B
  <1>7. \A n \in Elements(s) : pos[n] = IF n = 0 THEN 0 ELSE pos[n - 1] + B(n)
    BY <1>5
  <1> DEFINE S == {n \in Nat : n \in Elements(s) => pos[n] = A(n)}
  <1>8. ASSUME NEW n \in Nat, \A m \in 0 .. n - 1 : m \in S PROVE n \in S
    <2>1. CASE n = 0
      BY <1>2, <1>7, <2>1
    <2>2. CASE n # 0
      <3>1. n - 1 \in 0 .. n - 1
        BY <2>2
      <3>2. n - 1 \in S
        <4> HIDE DEF S
        <4> QED BY <1>8, <3>1
      <3> QED BY <1>3, <1>7, <2>2, <3>2
    <2> QED BY <2>1, <2>2
  <1> HIDE DEF S
  <1>9. \A n \in Nat : n \in S
    BY <1>8, Upward
  <1>10. ASSUME NEW n \in Elements(s) PROVE pos[n] = A(n)
    <2>1. n \in Nat
      BY <1>1
    <2> QED BY <1>9, <2>1 DEF S
  <1> QED BY <1>6, <1>10 DEF A, Address

----------------------------------------------------------------------------
(* The fit.                                                                *)

One == [l \in Nat |-> 1]
Self == [l \in Nat |-> l]
Square == [l \in Nat |-> l * l]

\* Products of powers of the coordinates, and their sums over the block.
Power(s, a, b, c) == [n \in Elements(s) |-> a[I(s, n)] * b[J(s, n)] * c[K(s, n)]]
Volume(s) == s.x * s.y * s.z
Moment(s, a, b, c) == Upto(Power(s, a, b, c), Volume(s))

\* The sum of the library is that over the numbers of the elements.
LEMMA SumOfElements ==
  ASSUME NEW s, NEW f, DOMAIN f = Elements(s)
  PROVE  SumFunction(f) = Upto(f, Volume(s))
  BY Zenon DEF SumFunction, Upto, Elements, Volume

\* The sums along an edge, of ones, of numbers and of squares.
LEMMA EdgeSums ==
  ASSUME NEW e \in Nat
  PROVE  /\ Upto(One, e) = e
         /\ Upto(Self, e) \in Int /\ 2 * Upto(Self, e) = e * (e - 1)
         /\ Upto(Square, e) \in Int /\ 6 * Upto(Square, e) = e * (e - 1) * (2 * e - 1)
  <1>1. \A l \in 0 .. e - 1 : One[l] = 1 /\ Self[l] = l /\ Square[l] = l * l
    BY DEF One, Self, Square
  <1> QED BY <1>1, PowerSums

\* The sum of a product of powers over a block is the product of the sums along the edges.
LEMMA PowersSeparate ==
  ASSUME NEW s, IsBlock(s), NEW a \in {One, Self, Square}, NEW b \in {One, Self, Square},
         NEW c \in {One, Self, Square}
  PROVE  /\ Moment(s, a, b, c) = Upto(a, s.x) * Upto(b, s.y) * Upto(c, s.z)
         /\ \A n \in Elements(s) : Power(s, a, b, c)[n] \in Int
  <1>1. s.x \in Nat \ {0} /\ s.y \in Nat \ {0} /\ s.z \in Nat \ {0}
    BY DEF IsBlock
  <1>2. \A d \in {One, Self, Square} : \A l \in Nat : d[l] \in Int
    <2>1. \A l \in Nat : One[l] \in Int /\ Self[l] \in Int /\ Square[l] \in Int
      BY DEF One, Self, Square
    <2> QED BY <2>1
  <1>3. /\ \A l \in 0 .. s.x - 1 : a[l] \in Int
        /\ \A j \in 0 .. s.y - 1 : b[j] \in Int
        /\ \A k \in 0 .. s.z - 1 : c[k] \in Int
    BY <1>1, <1>2
  <1>4. Separate(Power(s, a, b, c), s, a, b, c)
    BY <1>3 DEF Separate, Power
  <1>5. ASSUME NEW n \in Elements(s) PROVE Power(s, a, b, c)[n] \in Int
    <2>1. a[I(s, n)] \in Int /\ b[J(s, n)] \in Int /\ c[K(s, n)] \in Int
      BY <1>3, LoopsReach
    <2> QED BY <2>1 DEF Power
  <1> QED BY <1>4, <1>5, BlockSum DEF Moment, Volume

\* The moments of a block, up to the second order.
LEMMA Moments ==
  ASSUME NEW s, IsBlock(s)
  PROVE  LET N == Volume(s)
             x == s.x - 1
             y == s.y - 1
             z == s.z - 1
         IN  /\ Moment(s, One, One, One) = N
             /\ 2 * Moment(s, Self, One, One) = N * x
             /\ 2 * Moment(s, One, Self, One) = N * y
             /\ 2 * Moment(s, One, One, Self) = N * z
             /\ 6 * Moment(s, Square, One, One) = N * x * (2 * x + 1)
             /\ 6 * Moment(s, One, Square, One) = N * y * (2 * y + 1)
             /\ 6 * Moment(s, One, One, Square) = N * z * (2 * z + 1)
             /\ 4 * Moment(s, Self, Self, One) = N * x * y
             /\ 4 * Moment(s, Self, One, Self) = N * x * z
             /\ 4 * Moment(s, One, Self, Self) = N * y * z
  <1> DEFINE X == s.x
             Y == s.y
             Z == s.z
             tx == Upto(Self, X)
             ty == Upto(Self, Y)
             tz == Upto(Self, Z)
             qx == Upto(Square, X)
             qy == Upto(Square, Y)
             qz == Upto(Square, Z)
  <1>1. X \in Nat /\ Y \in Nat /\ Z \in Nat
    BY DEF IsBlock
  <1>2. /\ tx \in Int /\ 2 * tx = X * (X - 1) /\ qx \in Int /\ 6 * qx = X * (X - 1) * (2 * X - 1)
        /\ ty \in Int /\ 2 * ty = Y * (Y - 1) /\ qy \in Int /\ 6 * qy = Y * (Y - 1) * (2 * Y - 1)
        /\ tz \in Int /\ 2 * tz = Z * (Z - 1) /\ qz \in Int /\ 6 * qz = Z * (Z - 1) * (2 * Z - 1)
        /\ Upto(One, X) = X /\ Upto(One, Y) = Y /\ Upto(One, Z) = Z
    BY <1>1, EdgeSums
  <1>3. /\ Moment(s, One, One, One) = X * Y * Z
        /\ Moment(s, Self, One, One) = tx * Y * Z
        /\ Moment(s, One, Self, One) = X * ty * Z
        /\ Moment(s, One, One, Self) = X * Y * tz
        /\ Moment(s, Square, One, One) = qx * Y * Z
        /\ Moment(s, One, Square, One) = X * qy * Z
        /\ Moment(s, One, One, Square) = X * Y * qz
        /\ Moment(s, Self, Self, One) = tx * ty * Z
        /\ Moment(s, Self, One, Self) = tx * Y * tz
        /\ Moment(s, One, Self, Self) = X * ty * tz
    BY <1>2, PowersSeparate
  <1>4. Volume(s) = X * Y * Z
    BY DEF Volume
  <1> HIDE DEF X, Y, Z, tx, ty, tz, qx, qy, qz
  <1>5. \A a, b, c, t \in Int : 2 * t = a * (a - 1) =>
          2 * (t * b * c) = (a * b * c) * (a - 1) /\ 2 * (b * t * c) = (b * a * c) * (a - 1)
          /\ 2 * (b * c * t) = (b * c * a) * (a - 1)
    <2> SUFFICES ASSUME NEW a \in Int, NEW b \in Int, NEW c \in Int, NEW t \in Int,
                        2 * t = a * (a - 1)
                 PROVE  /\ 2 * (t * b * c) = (a * b * c) * (a - 1)
                        /\ 2 * (b * t * c) = (b * a * c) * (a - 1)
                        /\ 2 * (b * c * t) = (b * c * a) * (a - 1)
      OBVIOUS
    <2>1. (2 * t) * (b * c) = (a * (a - 1)) * (b * c)
      OBVIOUS
    <2>2. /\ 2 * (t * b * c) = (2 * t) * (b * c) /\ 2 * (b * t * c) = (2 * t) * (b * c)
          /\ 2 * (b * c * t) = (2 * t) * (b * c)
      OBVIOUS
    <2>3. /\ (a * b * c) * (a - 1) = (a * (a - 1)) * (b * c)
          /\ (b * a * c) * (a - 1) = (a * (a - 1)) * (b * c)
          /\ (b * c * a) * (a - 1) = (a * (a - 1)) * (b * c)
      OBVIOUS
    <2> QED BY <2>1, <2>2, <2>3
  <1>6. \A a, b, c, q \in Int : 6 * q = a * (a - 1) * (2 * a - 1) =>
          6 * (q * b * c) = (a * b * c) * (a - 1) * (2 * (a - 1) + 1)
          /\ 6 * (b * q * c) = (b * a * c) * (a - 1) * (2 * (a - 1) + 1)
          /\ 6 * (b * c * q) = (b * c * a) * (a - 1) * (2 * (a - 1) + 1)
    <2> SUFFICES ASSUME NEW a \in Int, NEW b \in Int, NEW c \in Int, NEW q \in Int,
                        6 * q = a * (a - 1) * (2 * a - 1)
                 PROVE  /\ 6 * (q * b * c) = (a * b * c) * (a - 1) * (2 * (a - 1) + 1)
                        /\ 6 * (b * q * c) = (b * a * c) * (a - 1) * (2 * (a - 1) + 1)
                        /\ 6 * (b * c * q) = (b * c * a) * (a - 1) * (2 * (a - 1) + 1)
      OBVIOUS
    <2> DEFINE w == a * (a - 1) * (2 * a - 1)
    <2>1. (6 * q) * (b * c) = w * (b * c)
      OBVIOUS
    <2>2. /\ 6 * (q * b * c) = (6 * q) * (b * c) /\ 6 * (b * q * c) = (6 * q) * (b * c)
          /\ 6 * (b * c * q) = (6 * q) * (b * c)
      OBVIOUS
    <2>3. /\ (a * b * c) * (a - 1) * (2 * (a - 1) + 1) = w * (b * c)
          /\ (b * a * c) * (a - 1) * (2 * (a - 1) + 1) = w * (b * c)
          /\ (b * c * a) * (a - 1) * (2 * (a - 1) + 1) = w * (b * c)
      OBVIOUS
    <2> QED BY <2>1, <2>2, <2>3
  <1>7. \A a, b, c, t, u \in Int : 2 * t = a * (a - 1) /\ 2 * u = b * (b - 1) =>
          4 * (t * u * c) = (a * b * c) * (a - 1) * (b - 1)
          /\ 4 * (t * c * u) = (a * c * b) * (a - 1) * (b - 1)
          /\ 4 * (c * t * u) = (c * a * b) * (a - 1) * (b - 1)
    <2> SUFFICES ASSUME NEW a \in Int, NEW b \in Int, NEW c \in Int, NEW t \in Int, NEW u \in Int,
                        2 * t = a * (a - 1), 2 * u = b * (b - 1)
                 PROVE  /\ 4 * (t * u * c) = (a * b * c) * (a - 1) * (b - 1)
                        /\ 4 * (t * c * u) = (a * c * b) * (a - 1) * (b - 1)
                        /\ 4 * (c * t * u) = (c * a * b) * (a - 1) * (b - 1)
      OBVIOUS
    <2>1. ((2 * t) * (2 * u)) * c = ((a * (a - 1)) * (b * (b - 1))) * c
      OBVIOUS
    <2>2. /\ 4 * (t * u * c) = ((2 * t) * (2 * u)) * c /\ 4 * (t * c * u) = ((2 * t) * (2 * u)) * c
          /\ 4 * (c * t * u) = ((2 * t) * (2 * u)) * c
      OBVIOUS
    <2>3. /\ (a * b * c) * (a - 1) * (b - 1) = ((a * (a - 1)) * (b * (b - 1))) * c
          /\ (a * c * b) * (a - 1) * (b - 1) = ((a * (a - 1)) * (b * (b - 1))) * c
          /\ (c * a * b) * (a - 1) * (b - 1) = ((a * (a - 1)) * (b * (b - 1))) * c
      OBVIOUS
    <2> QED BY <2>1, <2>2, <2>3
  <1>8. X \in Int /\ Y \in Int /\ Z \in Int
    BY <1>1
  <1>9. /\ 2 * (tx * Y * Z) = (X * Y * Z) * (X - 1)
        /\ 2 * (X * ty * Z) = (X * Y * Z) * (Y - 1)
        /\ 2 * (X * Y * tz) = (X * Y * Z) * (Z - 1)
    BY <1>2, <1>5, <1>8
  <1>10. /\ 6 * (qx * Y * Z) = (X * Y * Z) * (X - 1) * (2 * (X - 1) + 1)
         /\ 6 * (X * qy * Z) = (X * Y * Z) * (Y - 1) * (2 * (Y - 1) + 1)
         /\ 6 * (X * Y * qz) = (X * Y * Z) * (Z - 1) * (2 * (Z - 1) + 1)
    BY <1>2, <1>6, <1>8
  <1>11. /\ 4 * (tx * ty * Z) = (X * Y * Z) * (X - 1) * (Y - 1)
         /\ 4 * (tx * Y * tz) = (X * Y * Z) * (X - 1) * (Z - 1)
         /\ 4 * (X * ty * tz) = (X * Y * Z) * (Y - 1) * (Z - 1)
    BY <1>2, <1>7, <1>8
  <1> QED BY <1>3, <1>4, <1>9, <1>10, <1>11 DEF X, Y, Z

\* The fit has no mean error: a is N times the unit's factor, p the value at the first
\* element, and X, Y and Z the slopes.
Centred(N, m, f, p, X, Y, Z, x, y, z, sx, sy, sz) ==
  /\ N \in Int /\ m \in Int /\ f \in Int /\ p \in Int
  /\ X \in Int /\ Y \in Int /\ Z \in Int /\ x \in Int /\ y \in Int /\ z \in Int
  /\ sx \in Int /\ sy \in Int /\ sz \in Int
  /\ 2 * sx = N * x /\ 2 * sy = N * y /\ 2 * sz = N * z
  /\ 2 * p = 2 * (f * m) - (x * X + y * Y + z * Z)

\* With sums and moments of a block, what is left sums up to 0.
LEMMA NoMean ==
  ASSUME NEW N, NEW m, NEW f, NEW p, NEW X, NEW Y, NEW Z, NEW x, NEW y, NEW z,
         NEW sx, NEW sy, NEW sz, Centred(N, m, f, p, X, Y, Z, x, y, z, sx, sy, sz)
  PROVE  N * m * f - (X * sx + Y * sy + Z * sz + p * N) = 0
  <1>0. /\ N \in Int /\ m \in Int /\ f \in Int /\ p \in Int
        /\ X \in Int /\ Y \in Int /\ Z \in Int /\ x \in Int /\ y \in Int /\ z \in Int
        /\ sx \in Int /\ sy \in Int /\ sz \in Int
        /\ 2 * sx = N * x /\ 2 * sy = N * y /\ 2 * sz = N * z
        /\ 2 * p = 2 * (f * m) - (x * X + y * Y + z * Z)
    BY DEF Centred
  <1>1. /\ 2 * (X * sx) = X * (2 * sx) /\ 2 * (Y * sy) = Y * (2 * sy)
        /\ 2 * (Z * sz) = Z * (2 * sz) /\ 2 * (p * N) = (2 * p) * N
    BY <1>0
  <1>2. /\ X * (2 * sx) = X * (N * x) /\ Y * (2 * sy) = Y * (N * y)
        /\ Z * (2 * sz) = Z * (N * z)
        /\ (2 * p) * N = (2 * (f * m) - (x * X + y * Y + z * Z)) * N
    BY <1>0
  <1>3. X * (N * x) + Y * (N * y) + Z * (N * z) + (2 * (f * m) - (x * X + y * Y + z * Z)) * N
          = 2 * (N * m * f)
    BY <1>0
  <1> DEFINE A == X * sx
             B == Y * sy
             C == Z * sz
             D == p * N
             E == N * m * f
  <1>4. A \in Int /\ B \in Int /\ C \in Int /\ D \in Int /\ E \in Int
    BY <1>0
  <1>5. 2 * A + 2 * B + 2 * C + 2 * D = 2 * E
    BY <1>1, <1>2, <1>3
  <1> HIDE DEF A, B, C, D, E
  <1>6. E - (A + B + C + D) = 0
    BY <1>4, <1>5
  <1> QED BY <1>6 DEF A, B, C, D, E

\* Nor a slope along an edge of x + 1, when X is the slope along it: g is the sum of the
\* data by position, sx and qx are the moments of the edge, rxy and rxz the mixed ones,
\* and m = x * (x + 2) * o.
Sloped(N, m, o, f, g, p, X, Y, Z, x, y, z, sx, qx, rxy, rxz) ==
  /\ N \in Int /\ m \in Int /\ o \in Int /\ f \in Int /\ g \in Int /\ p \in Int
  /\ X \in Int /\ Y \in Int /\ Z \in Int /\ x \in Int /\ y \in Int /\ z \in Int
  /\ sx \in Int /\ qx \in Int /\ rxy \in Int /\ rxz \in Int
  /\ 2 * sx = N * x /\ 6 * qx = N * x * (2 * x + 1)
  /\ 4 * rxy = N * x * y /\ 4 * rxz = N * x * z
  /\ m = (x * (x + 2)) * o /\ X = (2 * g - f * x) * 6 * o
  /\ 2 * p = 2 * (f * m) - (x * X + y * Y + z * Z)

\* With sums and moments of a block, what is left has no slope along the edge.
LEMMA NoSlope ==
  ASSUME NEW N, NEW m, NEW o, NEW f, NEW g, NEW p, NEW X, NEW Y, NEW Z, NEW x, NEW y, NEW z,
         NEW sx, NEW qx, NEW rxy, NEW rxz,
         Sloped(N, m, o, f, g, p, X, Y, Z, x, y, z, sx, qx, rxy, rxz)
  PROVE  N * m * g - (X * qx + Y * rxy + Z * rxz + p * sx) = 0
  <1>0. /\ N \in Int /\ m \in Int /\ o \in Int /\ f \in Int /\ g \in Int /\ p \in Int
        /\ X \in Int /\ Y \in Int /\ Z \in Int /\ x \in Int /\ y \in Int /\ z \in Int
        /\ sx \in Int /\ qx \in Int /\ rxy \in Int /\ rxz \in Int
        /\ 2 * sx = N * x /\ 6 * qx = N * x * (2 * x + 1)
        /\ 4 * rxy = N * x * y /\ 4 * rxz = N * x * z
        /\ m = (x * (x + 2)) * o /\ X = (2 * g - f * x) * 6 * o
        /\ 2 * p = 2 * (f * m) - (x * X + y * Y + z * Z)
    BY DEF Sloped
  <1> DEFINE A == X * qx
             B == Y * rxy
             C == Z * rxz
             D == p * sx
             E == N * m * g
             M == N * x
  <1>1. A \in Int /\ B \in Int /\ C \in Int /\ D \in Int /\ E \in Int /\ M \in Int
    BY <1>0
  <1>2. 12 * A = 2 * (X * (M * (2 * x + 1)))
    <2>1. 12 * A = 2 * (X * (6 * qx))
      BY <1>0
    <2> QED BY <1>0, <2>1
  <1>3. 12 * B = 3 * (Y * (M * y)) /\ 12 * C = 3 * (Z * (M * z))
    <2>1. 12 * B = 3 * (Y * (4 * rxy)) /\ 12 * C = 3 * (Z * (4 * rxz))
      BY <1>0
    <2> QED BY <1>0, <2>1
  <1>4. 12 * D = 3 * ((2 * (f * m) - (x * X + y * Y + z * Z)) * M)
    <2>1. 12 * D = 3 * ((2 * p) * (2 * sx))
      BY <1>0
    <2> QED BY <1>0, <2>1
  <1>5. 12 * A + 12 * B + 12 * C + 12 * D = M * (X * (x + 2)) + 6 * ((f * m) * M)
    <2>1. 2 * (X * (M * (2 * x + 1))) + 3 * (Y * (M * y)) + 3 * (Z * (M * z))
            + 3 * ((2 * (f * m) - (x * X + y * Y + z * Z)) * M)
            = M * (X * (x + 2)) + 6 * ((f * m) * M)
      <3> HIDE DEF M
      <3> QED BY <1>0, <1>1
    <2> QED BY <1>2, <1>3, <1>4, <2>1
  <1>6. M * (X * (x + 2)) = 6 * (N * (m * (2 * g - f * x)))
    <2> DEFINE u == 2 * g - f * x
               v == x * (x + 2)
    <2>1. u \in Int /\ v \in Int
      BY <1>0
    <2>2. M * (X * (x + 2)) = N * (X * v)
      BY <1>0
    <2>3. X = u * 6 * o /\ m = v * o
      BY <1>0
    <2> HIDE DEF u, v
    <2>4. X * v = 6 * (m * u)
      BY <1>0, <2>1, <2>3
    <2>5. N * (6 * (m * u)) = 6 * (N * (m * u))
      BY <1>0, <2>1
    <2> QED BY <2>2, <2>4, <2>5 DEF u
  <1>7. 6 * (N * (m * (2 * g - f * x))) + 6 * ((f * m) * M) = 12 * E
    BY <1>0
  <1>8. 12 * A + 12 * B + 12 * C + 12 * D = 12 * E
    BY <1>5, <1>6, <1>7
  <1> HIDE DEF A, B, C, D, E
  <1>9. E - (A + B + C + D) = 0
    BY <1>1, <1>8
  <1> QED BY <1>9 DEF A, B, C, D, E

\* Half of an even number.
LEMMA Half ==
  ASSUME NEW w \in Int, NEW e \in Int, e = 2 * w
  PROVE  2 * (e \div 2) = e
  OBVIOUS

\* What the four coefficients p are, in terms of the sums t.
Coefficients(s, t, p) ==
  LET mx == s.x * s.x - 1
      my == s.y * s.y - 1
      mz == s.z * s.z - 1
  IN  /\ p[0] = (2 * t.fx - t.f * (s.x - 1)) * 6 * (my * mz)
      /\ p[1] = (2 * t.fy - t.f * (s.y - 1)) * 6 * (mx * mz)
      /\ p[2] = (2 * t.fz - t.f * (s.z - 1)) * 6 * (mx * my)
      /\ 2 * p[3] = 2 * (t.f * (mx * my * mz))
                      - ((s.x - 1) * p[0] + (s.y - 1) * p[1] + (s.z - 1) * p[2])
      /\ p[0] \in Int /\ p[1] \in Int /\ p[2] \in Int /\ p[3] \in Int

\* LinearFit, with the halves multiplied out.
LEMMA FitCoefficients ==
  ASSUME NEW s, IsBlock(s), NEW data, NEW dim0, NEW dim1,
         Sums(data, s, dim0, dim1).f \in Int, Sums(data, s, dim0, dim1).fx \in Int,
         Sums(data, s, dim0, dim1).fy \in Int, Sums(data, s, dim0, dim1).fz \in Int
  PROVE  Coefficients(s, Sums(data, s, dim0, dim1), LinearFit(data, s, dim0, dim1))
  <1> DEFINE t == Sums(data, s, dim0, dim1)
             p == LinearFit(data, s, dim0, dim1)
             mx == s.x * s.x - 1
             my == s.y * s.y - 1
             mz == s.z * s.z - 1
             X == (2 * t.fx - t.f * (s.x - 1)) * 6 * my * mz
             Y == (2 * t.fy - t.f * (s.y - 1)) * 6 * mx * mz
             Z == (2 * t.fz - t.f * (s.z - 1)) * 6 * mx * my
             e == (s.x - 1) * X + (s.y - 1) * Y + (s.z - 1) * Z
             W == t.f * mx * my * mz - (e \div 2)
  <1>1. /\ s.x \in Int /\ s.y \in Int /\ s.z \in Int
        /\ mx \in Int /\ my \in Int /\ mz \in Int
        /\ t.f \in Int /\ t.fx \in Int /\ t.fy \in Int /\ t.fz \in Int
    BY DEF IsBlock
  <1>2. p = [j \in 0 .. 3 |-> CASE j = 0 -> X [] j = 1 -> Y [] j = 2 -> Z [] j = 3 -> W]
    BY Zenon DEF LinearFit
  <1> HIDE DEF t, p, mx, my, mz
  <1>3. X \in Int /\ Y \in Int /\ Z \in Int
    BY <1>1
  <1>4. /\ X = 2 * ((2 * t.fx - t.f * (s.x - 1)) * 3 * my * mz)
        /\ Y = 2 * ((2 * t.fy - t.f * (s.y - 1)) * 3 * mx * mz)
        /\ Z = 2 * ((2 * t.fz - t.f * (s.z - 1)) * 3 * mx * my)
    BY <1>1
  <1>5. 2 * (e \div 2) = e /\ e \in Int /\ e \div 2 \in Int
    <2>1. PICK x, y, z \in Int : X = 2 * x /\ Y = 2 * y /\ Z = 2 * z
      <3>1. /\ (2 * t.fx - t.f * (s.x - 1)) * 3 * my * mz \in Int
            /\ (2 * t.fy - t.f * (s.y - 1)) * 3 * mx * mz \in Int
            /\ (2 * t.fz - t.f * (s.z - 1)) * 3 * mx * my \in Int
        BY <1>1
      <3> QED BY <1>4, <3>1
    <2> HIDE DEF X, Y, Z
    <2> DEFINE w == (s.x - 1) * x + (s.y - 1) * y + (s.z - 1) * z
    <2>2. w \in Int /\ e = 2 * w
      <3>1. /\ (s.x - 1) * X = 2 * ((s.x - 1) * x) /\ (s.x - 1) * x \in Int
            /\ (s.y - 1) * Y = 2 * ((s.y - 1) * y) /\ (s.y - 1) * y \in Int
            /\ (s.z - 1) * Z = 2 * ((s.z - 1) * z) /\ (s.z - 1) * z \in Int
        <4>1. \A u, v, d \in Int : v = 2 * u => (d - 1) * v = 2 * ((d - 1) * u) /\ (d - 1) * u \in Int
          OBVIOUS
        <4>2. X \in Int /\ Y \in Int /\ Z \in Int
          BY <1>3
        <4> QED BY <1>1, <2>1, <4>1, <4>2
      <3> QED BY <3>1
    <2>3. e \in Int
      BY <1>1, <1>3
    <2> HIDE DEF w, e
    <2>4. 2 * (e \div 2) = e
      BY <2>2, <2>3, Half
    <2> QED BY <2>3, <2>4
  <1>6. t.f * mx * my * mz = t.f * (mx * my * mz) /\ t.f * mx * my * mz \in Int
    BY <1>1
  <1>7. p[0] = X /\ p[1] = Y /\ p[2] = Z /\ p[3] = W
    <2> HIDE DEF X, Y, Z, W
    <2> QED BY <1>2
  <1>8. W \in Int /\ 2 * W = 2 * (t.f * (mx * my * mz)) - e
    <2> DEFINE h == e \div 2
               u == t.f * mx * my * mz
    <2>1. h \in Int /\ u \in Int /\ 2 * h = e /\ W = u - h
      BY <1>5, <1>6
    <2> HIDE DEF h, u, W, e
    <2>2. W \in Int /\ 2 * W = 2 * u - e
      BY <2>1
    <2> QED BY <1>6, <2>2 DEF u
  <1>9. /\ X = (2 * t.fx - t.f * (s.x - 1)) * 6 * (my * mz)
        /\ Y = (2 * t.fy - t.f * (s.y - 1)) * 6 * (mx * mz)
        /\ Z = (2 * t.fz - t.f * (s.z - 1)) * 6 * (mx * my)
    BY <1>1
  <1> HIDE DEF X, Y, Z, W
  <1> QED BY <1>3, <1>7, <1>8, <1>9 DEF Coefficients, t, p, mx, my, mz

\* The normal equations, in terms of sums and moments.
LEMMA NormalEquations ==
  ASSUME NEW s, IsBlock(s), NEW t, t.f \in Int, t.fx \in Int, t.fy \in Int, t.fz \in Int,
         NEW p, Coefficients(s, t, p)
  PROVE  /\ Unit(s) * t.f - (p[0] * Moment(s, Self, One, One) + p[1] * Moment(s, One, Self, One)
                             + p[2] * Moment(s, One, One, Self) + p[3] * Moment(s, One, One, One)) = 0
         /\ Unit(s) * t.fx - (p[0] * Moment(s, Square, One, One) + p[1] * Moment(s, Self, Self, One)
                              + p[2] * Moment(s, Self, One, Self) + p[3] * Moment(s, Self, One, One)) = 0
         /\ Unit(s) * t.fy - (p[0] * Moment(s, Self, Self, One) + p[1] * Moment(s, One, Square, One)
                              + p[2] * Moment(s, One, Self, Self) + p[3] * Moment(s, One, Self, One)) = 0
         /\ Unit(s) * t.fz - (p[0] * Moment(s, Self, One, Self) + p[1] * Moment(s, One, Self, Self)
                              + p[2] * Moment(s, One, One, Square) + p[3] * Moment(s, One, One, Self)) = 0
  <1> DEFINE N == Volume(s)
             x == s.x - 1
             y == s.y - 1
             z == s.z - 1
             mx == s.x * s.x - 1
             my == s.y * s.y - 1
             mz == s.z * s.z - 1
             m == mx * my * mz
             X == p[0]
             Y == p[1]
             Z == p[2]
             W == p[3]
             sx == Moment(s, Self, One, One)
             sy == Moment(s, One, Self, One)
             sz == Moment(s, One, One, Self)
             qx == Moment(s, Square, One, One)
             qy == Moment(s, One, Square, One)
             qz == Moment(s, One, One, Square)
             rxy == Moment(s, Self, Self, One)
             rxz == Moment(s, Self, One, Self)
             ryz == Moment(s, One, Self, Self)
  <1>1. /\ s.x \in Int /\ s.y \in Int /\ s.z \in Int /\ N \in Int
        /\ x \in Int /\ y \in Int /\ z \in Int /\ mx \in Int /\ my \in Int /\ mz \in Int
    BY DEF IsBlock, Volume
  <1>2. mx = x * (x + 2) /\ my = y * (y + 2) /\ mz = z * (z + 2)
    <2>1. \A e \in Int : e * e - 1 = (e - 1) * ((e - 1) + 2)
      OBVIOUS
    <2> QED BY <1>1, <2>1
  <1>3. Unit(s) = N * m
    BY <1>1 DEF Unit, Volume
  <1>4. m = (x * (x + 2)) * (my * mz) /\ m = (y * (y + 2)) * (mx * mz)
        /\ m = (z * (z + 2)) * (mx * my) /\ m \in Int
    <2>1. m = mx * (my * mz) /\ m = my * (mx * mz) /\ m = mz * (mx * my) /\ m \in Int
      <3> HIDE DEF mx, my, mz
      <3> QED BY <1>1
    <2> QED BY <2>1, <1>2
  <1>5. /\ X = (2 * t.fx - t.f * x) * 6 * (my * mz)
        /\ Y = (2 * t.fy - t.f * y) * 6 * (mx * mz)
        /\ Z = (2 * t.fz - t.f * z) * 6 * (mx * my)
        /\ 2 * W = 2 * (t.f * m) - (x * X + y * Y + z * Z)
        /\ X \in Int /\ Y \in Int /\ Z \in Int /\ W \in Int
    BY DEF Coefficients
  <1>6. /\ Moment(s, One, One, One) = N
        /\ 2 * sx = N * x /\ 2 * sy = N * y /\ 2 * sz = N * z
        /\ 6 * qx = N * x * (2 * x + 1) /\ 6 * qy = N * y * (2 * y + 1)
        /\ 6 * qz = N * z * (2 * z + 1)
        /\ 4 * rxy = N * x * y /\ 4 * rxz = N * x * z /\ 4 * ryz = N * y * z
    BY Moments
  <1>7. /\ sx \in Int /\ sy \in Int /\ sz \in Int /\ qx \in Int /\ qy \in Int /\ qz \in Int
        /\ rxy \in Int /\ rxz \in Int /\ ryz \in Int
    <2>1. \A a, b, c \in {One, Self, Square} : Moment(s, a, b, c) \in Int
      <3> SUFFICES ASSUME NEW a \in {One, Self, Square}, NEW b \in {One, Self, Square},
                          NEW c \in {One, Self, Square}
                   PROVE  Moment(s, a, b, c) \in Int
        OBVIOUS
      <3>1. \A d \in {One, Self, Square}, e \in Nat : Upto(d, e) \in Int
        BY EdgeSums
      <3>2. Upto(a, s.x) \in Int /\ Upto(b, s.y) \in Int /\ Upto(c, s.z) \in Int
        BY <3>1 DEF IsBlock
      <3>3. Moment(s, a, b, c) = Upto(a, s.x) * Upto(b, s.y) * Upto(c, s.z)
        BY PowersSeparate
      <3> QED BY <3>2, <3>3
    <2> QED BY <2>1
  <1>8. \A a, b \in Int : N * a * b = N * b * a
    BY <1>1
  <1> HIDE DEF N, x, y, z, mx, my, mz, m, X, Y, Z, W, sx, sy, sz, qx, qy, qz, rxy, rxz, ryz
  <1>9. my * mz \in Int /\ mx * mz \in Int /\ mx * my \in Int
    BY <1>1
  <1>10. N * m * t.f - (X * sx + Y * sy + Z * sz + W * N) = 0
    <2>1. Centred(N, m, t.f, W, X, Y, Z, x, y, z, sx, sy, sz)
      BY <1>1, <1>4, <1>5, <1>6, <1>7 DEF Centred
    <2> QED BY <2>1, NoMean
  <1>11. N * m * t.fx - (X * qx + Y * rxy + Z * rxz + W * sx) = 0
    <2>1. Sloped(N, m, my * mz, t.f, t.fx, W, X, Y, Z, x, y, z, sx, qx, rxy, rxz)
      BY <1>1, <1>4, <1>5, <1>6, <1>7, <1>9 DEF Sloped
    <2> QED BY <2>1, NoSlope
  <1>12. N * m * t.fy - (X * rxy + Y * qy + Z * ryz + W * sy) = 0
    <2>1. 2 * W = 2 * (t.f * m) - (y * Y + x * X + z * Z)
      BY <1>1, <1>5
    <2>2. 4 * rxy = N * y * x
      BY <1>1, <1>6, <1>8
    <2>3. Sloped(N, m, mx * mz, t.f, t.fy, W, Y, X, Z, y, x, z, sy, qy, rxy, ryz)
      BY <1>1, <1>4, <1>5, <1>6, <1>7, <1>9, <2>1, <2>2 DEF Sloped
    <2>4. N * m * t.fy - (Y * qy + X * rxy + Z * ryz + W * sy) = 0
      BY <2>3, NoSlope
    <2>5. Y * qy \in Int /\ X * rxy \in Int /\ Z * ryz \in Int /\ W * sy \in Int
      BY <1>5, <1>7
    <2> QED BY <2>4, <2>5
  <1>13. N * m * t.fz - (X * rxz + Y * ryz + Z * qz + W * sz) = 0
    <2>1. 2 * W = 2 * (t.f * m) - (z * Z + x * X + y * Y)
      BY <1>1, <1>5
    <2>2. 4 * rxz = N * z * x /\ 4 * ryz = N * z * y
      BY <1>1, <1>6, <1>8
    <2>3. Sloped(N, m, mx * my, t.f, t.fz, W, Z, X, Y, z, x, y, sz, qz, rxz, ryz)
      BY <1>1, <1>4, <1>5, <1>6, <1>7, <1>9, <2>1, <2>2 DEF Sloped
    <2>4. N * m * t.fz - (Z * qz + X * rxz + Y * ryz + W * sz) = 0
      BY <2>3, NoSlope
    <2>5. Z * qz \in Int /\ X * rxz \in Int /\ Y * ryz \in Int /\ W * sz \in Int
      BY <1>5, <1>7
    <2> QED BY <2>4, <2>5
  <1> QED BY <1>3, <1>6, <1>10, <1>11, <1>12, <1>13
          DEF X, Y, Z, W, sx, sy, sz, qx, qy, qz, rxy, rxz, ryz

\* The powers the equations use.
LEMMA PowerValues ==
  ASSUME NEW s, IsBlock(s), NEW n \in Elements(s)
  PROVE  LET l == I(s, n)
             j == J(s, n)
             k == K(s, n)
         IN  /\ l \in Int /\ j \in Int /\ k \in Int
             /\ Power(s, One, One, One)[n] = 1
             /\ Power(s, Self, One, One)[n] = l
             /\ Power(s, One, Self, One)[n] = j
             /\ Power(s, One, One, Self)[n] = k
             /\ Power(s, Square, One, One)[n] = l * l
             /\ Power(s, One, Square, One)[n] = j * j
             /\ Power(s, One, One, Square)[n] = k * k
             /\ Power(s, Self, Self, One)[n] = l * j
             /\ Power(s, Self, One, Self)[n] = l * k
             /\ Power(s, One, Self, Self)[n] = j * k
  <1> DEFINE l == I(s, n)
             j == J(s, n)
             k == K(s, n)
  <1>1. l \in Nat /\ j \in Nat /\ k \in Nat
    <2>1. l \in 0 .. s.x - 1 /\ j \in 0 .. s.y - 1 /\ k \in 0 .. s.z - 1
      BY LoopsReach
    <2> QED BY <2>1
  <1>2. \A a, b, c : Power(s, a, b, c)[n] = a[l] * b[j] * c[k]
    BY DEF Power
  <1>3. \A d \in Nat : One[d] = 1 /\ Self[d] = d /\ Square[d] = d * d
    BY DEF One, Self, Square
  <1> HIDE DEF l, j, k
  <1>4. /\ One[l] = 1 /\ One[j] = 1 /\ One[k] = 1
        /\ Self[l] = l /\ Self[j] = j /\ Self[k] = k
        /\ Square[l] = l * l /\ Square[j] = j * j /\ Square[k] = k * k
    BY <1>1, <1>3
  <1>5. /\ 1 * 1 * 1 = 1 /\ l * 1 * 1 = l /\ 1 * j * 1 = j /\ 1 * 1 * k = k
        /\ (l * l) * 1 * 1 = l * l /\ 1 * (j * j) * 1 = j * j /\ 1 * 1 * (k * k) = k * k
        /\ l * j * 1 = l * j /\ l * 1 * k = l * k /\ 1 * j * k = j * k
    BY <1>1
  <1> QED BY <1>1, <1>2, <1>4, <1>5 DEF l, j, k

\* What is left, r, of the data d after the fit p.
Remains(s, d, u, p, r) ==
  /\ u \in Int /\ p[0] \in Int /\ p[1] \in Int /\ p[2] \in Int /\ p[3] \in Int
  /\ \A n \in Elements(s) :
       /\ d[n] \in Int
       /\ r[n] = u * d[n] - (p[0] * I(s, n) + p[1] * J(s, n) + p[2] * K(s, n) + p[3])

\* What is left, the data and the coordinates, each element with the weight w.
Weighs(s, d, r, f, g, w, wi, wj, wk) ==
  \A n \in Elements(s) :
    /\ w[n] \in Int /\ f[n] = r[n] * w[n] /\ g[n] = d[n] * w[n]
    /\ wi[n] = I(s, n) * w[n] /\ wj[n] = J(s, n) * w[n] /\ wk[n] = K(s, n) * w[n]

\* The sum of what is left.
LEMMA RestSums ==
  ASSUME NEW s, IsBlock(s), NEW d, NEW u, NEW p, NEW r, Remains(s, d, u, p, r),
         NEW f, NEW g, NEW w, NEW wi, NEW wj, NEW wk, Weighs(s, d, r, f, g, w, wi, wj, wk)
  PROVE  Upto(f, Volume(s))
           = u * Upto(g, Volume(s)) - (p[0] * Upto(wi, Volume(s)) + p[1] * Upto(wj, Volume(s))
                                       + p[2] * Upto(wk, Volume(s)) + p[3] * Upto(w, Volume(s)))
  <1> DEFINE N == Volume(s)
  <1>1. N \in Nat /\ Elements(s) = 0 .. N - 1
    BY DEF IsBlock, Volume, Elements
  <1>2. ASSUME NEW n \in Elements(s)
        PROVE  /\ g[n] \in Int /\ wi[n] \in Int /\ wj[n] \in Int /\ wk[n] \in Int /\ w[n] \in Int
               /\ f[n] = u * g[n] - (p[0] * wi[n] + p[1] * wj[n] + p[2] * wk[n] + p[3] * w[n])
    <2>1. PICK l, j, k, e, v \in Int :
            l = I(s, n) /\ j = J(s, n) /\ k = K(s, n) /\ e = d[n] /\ v = w[n]
      BY PowerValues DEF Remains, Weighs
    <2>2. f[n] = (u * e - (p[0] * l + p[1] * j + p[2] * k + p[3])) * v
      BY <2>1 DEF Remains, Weighs
    <2>3. wi[n] = l * v /\ wj[n] = j * v /\ wk[n] = k * v /\ g[n] = e * v
      BY <2>1 DEF Weighs
    <2>4. \A a, b, c, h, q \in Int :
            (q * e - (a * l + b * j + c * k + h)) * v
              = q * (e * v) - (a * (l * v) + b * (j * v) + c * (k * v) + h * v)
      BY <2>1
    <2>5. u \in Int /\ p[0] \in Int /\ p[1] \in Int /\ p[2] \in Int /\ p[3] \in Int
      BY DEF Remains
    <2>6. f[n] = u * (e * v) - (p[0] * (l * v) + p[1] * (j * v) + p[2] * (k * v) + p[3] * v)
      BY <2>2, <2>4, <2>5
    <2>7. e * v \in Int /\ l * v \in Int /\ j * v \in Int /\ k * v \in Int
      BY <2>1
    <2> QED BY <2>1, <2>3, <2>6, <2>7
  <1>3. Combination(f, N, g, wi, wj, wk, w, u, p[0], p[1], p[2], p[3])
    BY <1>1, <1>2 DEF Combination
  <1>4. u \in Int /\ p[0] \in Int /\ p[1] \in Int /\ p[2] \in Int /\ p[3] \in Int
    BY DEF Remains
  <1> HIDE DEF N
  <1>5. Upto(f, N) = u * Upto(g, N) - (p[0] * Upto(wi, N) + p[1] * Upto(wj, N)
                                       + p[2] * Upto(wk, N) + p[3] * Upto(w, N))
    BY <1>1, <1>3, <1>4, Combined
  <1> QED BY <1>5 DEF N

\* The coefficients that compute_regression_coeffcients_3d takes from one pass of sums
\* over a block are the least squares fit of its elements: for every block, every data
\* and every array the block lies in.  (Where an edge is one, the unit is 0, and the code
\* divides by zero.)
THEOREM FitIsLeastSquares ==
  ASSUME NEW s, IsBlock(s), NEW dim0 \in Int, NEW dim1 \in Int, NEW data,
         \A n \in Elements(s) : data[I(s, n) * dim0 + J(s, n) * dim1 + K(s, n)] \in Int
  PROVE  LeastSquares(data, s, dim0, dim1, LinearFit(data, s, dim0, dim1), Unit(s))
  <1> DEFINE d == [n \in Elements(s) |-> data[I(s, n) * dim0 + J(s, n) * dim1 + K(s, n)]]
             pos == DataPos(s, dim0, dim1)
             t == Sums(data, s, dim0, dim1)
             p == LinearFit(data, s, dim0, dim1)
             u == Unit(s)
             N == Volume(s)
             r == [n \in Elements(s) |->
                     u * data[I(s, n) * dim0 + J(s, n) * dim1 + K(s, n)]
                       - (p[0] * I(s, n) + p[1] * J(s, n) + p[2] * K(s, n) + p[3])]
             rI == [n \in Elements(s) |-> r[n] * I(s, n)]
             rJ == [n \in Elements(s) |-> r[n] * J(s, n)]
             rK == [n \in Elements(s) |-> r[n] * K(s, n)]
             d0 == [n \in Elements(s) |-> data[pos[n]]]
             dI == [n \in Elements(s) |-> data[pos[n]] * I(s, n)]
             dJ == [n \in Elements(s) |-> data[pos[n]] * J(s, n)]
             dK == [n \in Elements(s) |-> data[pos[n]] * K(s, n)]
  <1>1. \A n \in Elements(s) : data[pos[n]] = d[n] /\ d[n] \in Int
    BY WalkFindsElements
  <1>2. /\ t.f = Upto(d0, N) /\ t.fx = Upto(dI, N) /\ t.fy = Upto(dJ, N) /\ t.fz = Upto(dK, N)
    <2>1. t = [f |-> SumFunction(d0), fx |-> SumFunction(dI), fy |-> SumFunction(dJ),
               fz |-> SumFunction(dK)]
      BY Zenon DEF Sums
    <2>2. /\ DOMAIN d0 = Elements(s) /\ DOMAIN dI = Elements(s)
          /\ DOMAIN dJ = Elements(s) /\ DOMAIN dK = Elements(s)
      OBVIOUS
    <2> HIDE DEF t, d0, dI, dJ, dK
    <2>3. /\ SumFunction(d0) = Upto(d0, N) /\ SumFunction(dI) = Upto(dI, N)
          /\ SumFunction(dJ) = Upto(dJ, N) /\ SumFunction(dK) = Upto(dK, N)
      BY <2>2, SumOfElements
    <2> QED BY <2>1, <2>3
  <1>3. /\ \A n \in Elements(s) : d0[n] = d[n] * 1 /\ dI[n] = d[n] * I(s, n)
                               /\ dJ[n] = d[n] * J(s, n) /\ dK[n] = d[n] * K(s, n)
    <2> HIDE DEF d, pos
    <2> QED BY <1>1
  <1>4. /\ \A n \in Elements(s) : r[n] = u * d[n] - (p[0] * I(s, n) + p[1] * J(s, n)
                                                   + p[2] * K(s, n) + p[3])
        /\ \A n \in Elements(s) : rI[n] = r[n] * I(s, n) /\ rJ[n] = r[n] * J(s, n)
                               /\ rK[n] = r[n] * K(s, n)
        /\ DOMAIN r = Elements(s) /\ DOMAIN rI = Elements(s)
        /\ DOMAIN rJ = Elements(s) /\ DOMAIN rK = Elements(s)
    <2> HIDE DEF p, u
    <2> QED OBVIOUS
  <1>5. LeastSquares(data, s, dim0, dim1, p, u) <=>
          SumFunction(r) = 0 /\ SumFunction(rI) = 0 /\ SumFunction(rJ) = 0 /\ SumFunction(rK) = 0
    BY Zenon DEF LeastSquares
  <1> HIDE DEF d, pos, t, p, u, N, r, rI, rJ, rK, d0, dI, dJ, dK
  <1>6. N \in Nat /\ Elements(s) = 0 .. N - 1 /\ u \in Int
    <2>1. s.x \in Nat /\ s.y \in Nat /\ s.z \in Nat
      BY DEF IsBlock
    <2>2. s.x * s.x - 1 \in Int /\ s.y * s.y - 1 \in Int /\ s.z * s.z - 1 \in Int
          /\ s.x * s.y * s.z \in Nat
      BY <2>1
    <2>3. \A a, b, c, e \in Int : a * b * c * e \in Int
      OBVIOUS
    <2>4. u \in Int
      BY <2>2, <2>3 DEF u, Unit
    <2> QED BY <2>2, <2>4 DEF N, Volume, Elements
  <1>7. t.f \in Int /\ t.fx \in Int /\ t.fy \in Int /\ t.fz \in Int
    <2>1. ASSUME NEW n \in Elements(s)
          PROVE  d0[n] \in Int /\ dI[n] \in Int /\ dJ[n] \in Int /\ dK[n] \in Int
      <3>1. I(s, n) \in Int /\ J(s, n) \in Int /\ K(s, n) \in Int
        BY PowerValues
      <3> QED BY <1>1, <1>3, <3>1
    <2> QED BY <1>2, <1>6, <2>1, SumIsInt
  <1>8. Coefficients(s, t, p)
    BY <1>7, FitCoefficients DEF t, p
  <1>9. p[0] \in Int /\ p[1] \in Int /\ p[2] \in Int /\ p[3] \in Int
    BY <1>8 DEF Coefficients
  <1>10. Remains(s, d, u, p, r)
    BY <1>1, <1>4, <1>6, <1>9 DEF Remains
  <1>11. \A n \in Elements(s) : r[n] \in Int /\ r[n] * 1 = r[n]
    <2> SUFFICES ASSUME NEW n \in Elements(s) PROVE r[n] \in Int
      OBVIOUS
    <2>1. I(s, n) \in Int /\ J(s, n) \in Int /\ K(s, n) \in Int /\ d[n] \in Int
      BY <1>1, PowerValues
    <2>2. \A a, b \in Int : a * b \in Int
      OBVIOUS
    <2>3. /\ u * d[n] \in Int /\ p[0] * I(s, n) \in Int /\ p[1] * J(s, n) \in Int
          /\ p[2] * K(s, n) \in Int
      BY <1>6, <1>9, <2>1, <2>2
    <2>4. r[n] = u * d[n] - (p[0] * I(s, n) + p[1] * J(s, n) + p[2] * K(s, n) + p[3])
      BY <1>4
    <2> QED BY <1>9, <2>3, <2>4
  <1> DEFINE P(a, b, c) == Power(s, a, b, c)
  <1>12. /\ Weighs(s, d, r, r, d0, P(One, One, One), P(Self, One, One), P(One, Self, One), P(One, One, Self))
         /\ Weighs(s, d, r, rI, dI, P(Self, One, One), P(Square, One, One), P(Self, Self, One), P(Self, One, Self))
         /\ Weighs(s, d, r, rJ, dJ, P(One, Self, One), P(Self, Self, One), P(One, Square, One), P(One, Self, Self))
         /\ Weighs(s, d, r, rK, dK, P(One, One, Self), P(Self, One, Self), P(One, Self, Self), P(One, One, Square))
    <2>1. ASSUME NEW n \in Elements(s)
          PROVE  LET l == I(s, n)
                     j == J(s, n)
                     k == K(s, n)
                 IN  /\ l * 1 = l /\ j * 1 = j /\ k * 1 = k /\ 1 \in Int
                     /\ j * l = l * j /\ k * l = l * k /\ k * j = j * k
                     /\ l \in Int /\ j \in Int /\ k \in Int
      <3>1. I(s, n) \in Int /\ J(s, n) \in Int /\ K(s, n) \in Int
        BY PowerValues
      <3> QED BY <3>1
    <2>2. Weighs(s, d, r, r, d0, P(One, One, One), P(Self, One, One), P(One, Self, One), P(One, One, Self))
      BY <1>3, <1>11, <2>1, PowerValues DEF Weighs
    <2>3. Weighs(s, d, r, rI, dI, P(Self, One, One), P(Square, One, One), P(Self, Self, One), P(Self, One, Self))
      BY <1>3, <1>4, <2>1, PowerValues DEF Weighs
    <2>4. Weighs(s, d, r, rJ, dJ, P(One, Self, One), P(Self, Self, One), P(One, Square, One), P(One, Self, Self))
      BY <1>3, <1>4, <2>1, PowerValues DEF Weighs
    <2>5. Weighs(s, d, r, rK, dK, P(One, One, Self), P(Self, One, Self), P(One, Self, Self), P(One, One, Square))
      BY <1>3, <1>4, <2>1, PowerValues DEF Weighs
    <2> QED BY <2>2, <2>3, <2>4, <2>5
  <1> DEFINE M(a, b, c) == Moment(s, a, b, c)
  <1>13. \A a, b, c : Upto(P(a, b, c), Volume(s)) = M(a, b, c)
    BY DEF Moment
  <1> HIDE DEF P
  <1>14. /\ Upto(r, N) = u * t.f - (p[0] * M(Self, One, One) + p[1] * M(One, Self, One)
                                     + p[2] * M(One, One, Self) + p[3] * M(One, One, One))
         /\ Upto(rI, N) = u * t.fx - (p[0] * M(Square, One, One) + p[1] * M(Self, Self, One)
                                     + p[2] * M(Self, One, Self) + p[3] * M(Self, One, One))
         /\ Upto(rJ, N) = u * t.fy - (p[0] * M(Self, Self, One) + p[1] * M(One, Square, One)
                                     + p[2] * M(One, Self, Self) + p[3] * M(One, Self, One))
         /\ Upto(rK, N) = u * t.fz - (p[0] * M(Self, One, Self) + p[1] * M(One, Self, Self)
                                     + p[2] * M(One, One, Square) + p[3] * M(One, One, Self))
    BY <1>2, <1>10, <1>12, <1>13, RestSums DEF N
  <1>15. Upto(r, N) = 0 /\ Upto(rI, N) = 0 /\ Upto(rJ, N) = 0 /\ Upto(rK, N) = 0
    BY <1>7, <1>8, <1>14, NormalEquations DEF u
  <1>16. SumFunction(r) = 0 /\ SumFunction(rI) = 0 /\ SumFunction(rJ) = 0 /\ SumFunction(rK) = 0
    BY <1>4, <1>15, SumOfElements DEF N
  <1>17. LeastSquares(data, s, dim0, dim1, p, u)
    BY <1>5, <1>16
  <1> QED BY <1>17 DEF p, u

----------------------------------------------------------------------------
(* The fits in the channel.                                                *)

\* What is left of the data, in fractions of w, after the fit p.
Left(data, s, dim0, dim1, p, w) ==
  [n \in Elements(s) |->
     w * data[I(s, n) * dim0 + J(s, n) * dim1 + K(s, n)]
       - (p[0] * I(s, n) + p[1] * J(s, n) + p[2] * K(s, n) + p[3])]

\* A factor that is not 0 can be taken out of a sum that is 0.
LEMMA FactorOut ==
  ASSUME NEW N \in Nat, NEW f, NEW g, NEW c \in Int, c # 0,
         \A n \in 0 .. N - 1 : f[n] \in Int /\ g[n] = c * f[n], Upto(g, N) = 0
  PROVE  Upto(f, N) = 0
  <1>1. Combination(g, N, f, f, f, f, f, c, 0, 0, 0, 0)
    BY DEF Combination
  <1>2. Upto(g, N) = c * Upto(f, N) - (0 * Upto(f, N) + 0 * Upto(f, N) + 0 * Upto(f, N)
                                        + 0 * Upto(f, N)) /\ Upto(f, N) \in Int
    BY <1>1, Combined
  <1> DEFINE t == Upto(f, N)
  <1> HIDE DEF t
  <1>3. t \in Int /\ c * t = 0
    BY <1>2 DEF t
  <1>4. t = 0
    BY <1>3
  <1> QED BY <1>4 DEF t

\* The unit of the fractions does not matter.
LEMMA OtherUnit ==
  ASSUME NEW s, IsBlock(s), NEW dim0 \in Int, NEW dim1 \in Int, NEW data,
         \A n \in Elements(s) : data[I(s, n) * dim0 + J(s, n) * dim1 + K(s, n)] \in Int,
         NEW p, NEW q, NEW c \in Int, c # 0, NEW w \in Int,
         \A j \in 0 .. 3 : p[j] \in Int /\ q[j] = c * p[j],
         LeastSquares(data, s, dim0, dim1, q, c * w)
  PROVE  LeastSquares(data, s, dim0, dim1, p, w)
  <1> DEFINE N == Volume(s)
             f == Left(data, s, dim0, dim1, p, w)
             fI == [n \in Elements(s) |-> f[n] * I(s, n)]
             fJ == [n \in Elements(s) |-> f[n] * J(s, n)]
             fK == [n \in Elements(s) |-> f[n] * K(s, n)]
             g == Left(data, s, dim0, dim1, q, c * w)
             gI == [n \in Elements(s) |-> g[n] * I(s, n)]
             gJ == [n \in Elements(s) |-> g[n] * J(s, n)]
             gK == [n \in Elements(s) |-> g[n] * K(s, n)]
  <1>1. SumFunction(g) = 0 /\ SumFunction(gI) = 0 /\ SumFunction(gJ) = 0 /\ SumFunction(gK) = 0
    BY Zenon DEF LeastSquares, Left
  <1>2. ASSUME SumFunction(f) = 0, SumFunction(fI) = 0, SumFunction(fJ) = 0, SumFunction(fK) = 0
        PROVE  LeastSquares(data, s, dim0, dim1, p, w)
    BY <1>2, Zenon DEF LeastSquares, Left
  <1>3. /\ DOMAIN f = Elements(s) /\ DOMAIN fI = Elements(s)
        /\ DOMAIN fJ = Elements(s) /\ DOMAIN fK = Elements(s)
        /\ DOMAIN g = Elements(s) /\ DOMAIN gI = Elements(s)
        /\ DOMAIN gJ = Elements(s) /\ DOMAIN gK = Elements(s)
    BY DEF Left
  <1>4. N \in Nat /\ Elements(s) = 0 .. N - 1
    <2>1. s.x * s.y * s.z \in Nat
      BY DEF IsBlock
    <2> QED BY <2>1 DEF Volume, Elements
  <1>5. ASSUME NEW n \in Elements(s)
        PROVE  f[n] \in Int /\ g[n] = c * f[n]
    <2> DEFINE d == data[I(s, n) * dim0 + J(s, n) * dim1 + K(s, n)]
    <2>1. I(s, n) \in Int /\ J(s, n) \in Int /\ K(s, n) \in Int /\ d \in Int
      BY PowerValues
    <2>2. /\ f[n] = w * d - (p[0] * I(s, n) + p[1] * J(s, n) + p[2] * K(s, n) + p[3])
          /\ g[n] = (c * w) * d - (q[0] * I(s, n) + q[1] * J(s, n) + q[2] * K(s, n) + q[3])
      BY DEF Left
    <2> HIDE DEF d, f, g
    <2>3. /\ p[0] \in Int /\ p[1] \in Int /\ p[2] \in Int /\ p[3] \in Int
          /\ q[0] = c * p[0] /\ q[1] = c * p[1] /\ q[2] = c * p[2] /\ q[3] = c * p[3]
      OBVIOUS
    <2>4. \A a, b \in Int : a * b \in Int /\ (c * a) * b = c * (a * b)
      OBVIOUS
    <2> DEFINE d0 == w * d
               d1 == p[0] * I(s, n)
               d2 == p[1] * J(s, n)
               d3 == p[2] * K(s, n)
    <2>5. /\ d0 \in Int /\ d1 \in Int /\ d2 \in Int /\ d3 \in Int
          /\ g[n] = c * d0 - (c * d1 + c * d2 + c * d3 + c * p[3])
      BY <2>1, <2>2, <2>3, <2>4
    <2>6. f[n] = d0 - (d1 + d2 + d3 + p[3])
      BY <2>2
    <2> HIDE DEF d0, d1, d2, d3
    <2> QED BY <2>3, <2>5, <2>6
  <1>6. ASSUME NEW n \in Elements(s)
        PROVE  /\ fI[n] \in Int /\ gI[n] = c * fI[n] /\ fJ[n] \in Int /\ gJ[n] = c * fJ[n]
               /\ fK[n] \in Int /\ gK[n] = c * fK[n]
    <2>1. I(s, n) \in Int /\ J(s, n) \in Int /\ K(s, n) \in Int
      BY PowerValues
    <2>2. \A a, b \in Int : a * b \in Int /\ (c * a) * b = c * (a * b)
      OBVIOUS
    <2>3. /\ fI[n] = f[n] * I(s, n) /\ fJ[n] = f[n] * J(s, n) /\ fK[n] = f[n] * K(s, n)
          /\ gI[n] = (c * f[n]) * I(s, n) /\ gJ[n] = (c * f[n]) * J(s, n)
          /\ gK[n] = (c * f[n]) * K(s, n)
      <3> HIDE DEF f, g
      <3> QED BY <1>5
    <2> HIDE DEF f, g, fI, fJ, fK, gI, gJ, gK
    <2> QED BY <1>5, <2>1, <2>2, <2>3
  <1> HIDE DEF f, g, fI, fJ, fK, gI, gJ, gK, N
  <1>7. Upto(g, N) = 0 /\ Upto(gI, N) = 0 /\ Upto(gJ, N) = 0 /\ Upto(gK, N) = 0
    BY <1>1, <1>3, SumOfElements DEF N
  <1>8. Upto(f, N) = 0 /\ Upto(fI, N) = 0 /\ Upto(fJ, N) = 0 /\ Upto(fK, N) = 0
    <2>1. /\ \A n \in 0 .. N - 1 : f[n] \in Int /\ g[n] = c * f[n]
          /\ \A n \in 0 .. N - 1 : fI[n] \in Int /\ gI[n] = c * fI[n]
          /\ \A n \in 0 .. N - 1 : fJ[n] \in Int /\ gJ[n] = c * fJ[n]
          /\ \A n \in 0 .. N - 1 : fK[n] \in Int /\ gK[n] = c * fK[n]
      BY <1>4, <1>5, <1>6
    <2>2. Upto(f, N) = 0
      BY <1>4, <1>7, <2>1, FactorOut
    <2>3. Upto(fI, N) = 0
      BY <1>4, <1>7, <2>1, FactorOut
    <2>4. Upto(fJ, N) = 0
      BY <1>4, <1>7, <2>1, FactorOut
    <2>5. Upto(fK, N) = 0
      BY <1>4, <1>7, <2>1, FactorOut
    <2> QED BY <2>2, <2>3, <2>4, <2>5
  <1>9. SumFunction(f) = 0 /\ SumFunction(fI) = 0 /\ SumFunction(fJ) = 0 /\ SumFunction(fK) = 0
    BY <1>3, <1>8, SumOfElements DEF N
  <1> QED BY <1>2, <1>9

\* Whatever the pass fits is the least squares fit of a block.
LEMMA FitsFit ==
  ASSUME Fitted, NEW p \in Fits
  PROVE  \E b \in Samples : LeastSquares(b.data, b.shape, Dim0, Dim1, p, Whole)
  <1>1. PICK b \in Samples : IsFitOf(p, b)
    BY DEF Fitted
  <1> DEFINE s == b.shape
             q == LinearFit(b.data, s, Dim0, Dim1)
             c == Unit(s) \div Whole
  <1>2. /\ s.x \in Nat /\ s.y \in Nat /\ s.z \in Nat /\ Enabled(s) /\ Unit(s) % Whole = 0
        /\ \A n \in Elements(s) : b.data[I(s, n) * Dim0 + J(s, n) * Dim1 + K(s, n)] \in Int
        /\ Dim0 \in Int /\ Dim1 \in Int /\ Whole \in Nat \ {0} /\ Num = 4
    <2>1. Dim0 \in Int /\ Dim1 \in Int /\ Whole \in Nat \ {0} /\ Num = 4
      BY DEF Fitted
    <2> QED BY <2>1, Zenon DEF Fitted
  <1>3. s.x >= 2 /\ s.y >= 2 /\ s.z >= 2
    BY <1>2 DEF Enabled
  <1>4. IsBlock(s)
    BY <1>2, <1>3 DEF IsBlock
  <1>5. \A j \in 0 .. 3 : p[j] \in Int /\ q[j] = c * p[j]
    <2>1. Coefficient = 0 .. 3 /\ p \in [Coefficient -> Int]
      BY <1>2, CoefficientsAssumption DEF Coefficient
    <2> QED BY <1>1, <2>1 DEF IsFitOf
  <1>6. Unit(s) \in Nat \ {0}
    <2>1. \A e \in Nat : e >= 2 => e * e - 1 \in Nat \ {0}
      OBVIOUS
    <2>2. /\ s.x * s.x - 1 \in Nat \ {0} /\ s.y * s.y - 1 \in Nat \ {0}
          /\ s.z * s.z - 1 \in Nat \ {0}
      BY <1>2, <1>3, <2>1
    <2>3. \A e, g \in Nat \ {0} : e * g \in Nat \ {0}
      OBVIOUS
    <2>4. s.x * s.y * s.z \in Nat \ {0}
      BY <1>4, <2>3 DEF IsBlock
    <2> QED BY <2>2, <2>3, <2>4 DEF Unit
  <1>7. c \in Int /\ c * Whole = Unit(s) /\ c # 0
    <2> DEFINE u == Unit(s)
    <2> HIDE DEF u
    <2>1. u \in Nat \ {0} /\ u % Whole = 0 /\ Whole \in Nat \ {0}
      BY <1>2, <1>6 DEF u
    <2>2. u \div Whole \in Int /\ u = Whole * (u \div Whole) + (u % Whole)
      BY <2>1
    <2> DEFINE e == u \div Whole
    <2> HIDE DEF e
    <2>3. e \in Int /\ e * Whole = u
      BY <2>1, <2>2 DEF e
    <2>4. e # 0
      BY <2>1, <2>3
    <2> QED BY <2>3, <2>4 DEF e, u
  <1>8. LeastSquares(b.data, s, Dim0, Dim1, q, c * Whole)
    BY <1>2, <1>4, <1>7, FitIsLeastSquares
  <1> DEFINE data == b.data
  <1> HIDE DEF s, q, c
  <1>9. LeastSquares(data, s, Dim0, Dim1, p, Whole)
    <2>1. Whole \in Int /\ Dim0 \in Int /\ Dim1 \in Int
      BY <1>2
    <2>2. \A n \in Elements(s) : data[I(s, n) * Dim0 + J(s, n) * Dim1 + K(s, n)] \in Int
      BY <1>2
    <2>3. LeastSquares(data, s, Dim0, Dim1, q, c * Whole)
      BY <1>8
    <2> HIDE DEF data
    <2>4. /\ c \in Int /\ c # 0
          /\ \A j \in 0 .. 3 : p[j] \in Int /\ q[j] = c * p[j]
      BY <1>5, <1>7
    <2> QED BY <1>4, <2>1, <2>2, <2>3, <2>4, OtherUnit
  <1> QED BY <1>9 DEF s

\* The slot to select from holds a whole fit, as do the coefficients of every block that
\* selected the regression before.
Slot == [j \in Coefficient |-> reg_params[reg_params_pos + j]]
FitsArrive ==
  /\ pc = "select" => Slot \in Fits
  /\ \A n \in 0 .. Len(fitted) \div Num - 1 : FittedBlock(n) \in Fits

\* A fit fills the next slot.
LEMMA FitArrives == ASSUME Inv, FitsArrive, Fit PROVE FitsArrive'
  <1>1. /\ pc' = "select" /\ reg_params_pos' = reg_params_pos /\ fitted' = fitted
        /\ pc = "block" /\ block < Blocks
    BY DEF Fit
  <1>2. PICK p \in Fits :
          reg_params' = [a \in DOMAIN reg_params |->
            IF a - reg_params_pos \in Coefficient THEN p[a - reg_params_pos] ELSE reg_params[a]]
    BY DEF Fit
  <1>3. p \in [Coefficient -> Int]
    BY CoefficientsAssumption
  <1>4. Sent + 2 * Num <= Room
    <2>1. /\ reg_count \in Nat /\ reg_count + 2 <= Blocks + 1 /\ Blocks \in Nat
      BY <1>1, SentBlocks, ConstantFacts DEF Inv, Types
    <2>2. Num * (reg_count + 2) <= Room
      BY <2>1, ConstantFacts DEF Room
    <2>3. Num * (reg_count + 2) = Sent + 2 * Num
      BY <2>1, ConstantFacts DEF Sent
    <2> QED BY <2>2, <2>3
  <1>5. ASSUME NEW j \in Coefficient PROVE reg_params'[reg_params_pos + j] = p[j]
    <2>1. /\ reg_params_pos + j \in DOMAIN reg_params /\ (reg_params_pos + j) - reg_params_pos = j
      <3>1. /\ reg_params_pos = Sent + Num /\ Sent \in Nat /\ Num \in Nat /\ Room \in Nat
            /\ DOMAIN reg_params = 0 .. Room - 1
        BY SentBlocks DEF Inv, Types
      <3>2. j \in Nat /\ j < Num
        BY <3>1 DEF Coefficient
      <3> QED BY <1>4, <3>1, <3>2
    <2> QED BY <1>2, <2>1
  <1>6. Slot' = p
    BY <1>1, <1>3, <1>5 DEF Slot
  <1>7. \A n \in 0 .. Len(fitted') \div Num - 1 : FittedBlock(n)' \in Fits
    BY <1>1 DEF FitsArrive, FittedBlock
  <1> QED BY <1>2, <1>6, <1>7 DEF FitsArrive

\* Selecting the regression keeps what is in the slot.
LEMMA SelectedArrives == ASSUME Fitted, Inv, FitsArrive, SelectRegression PROVE FitsArrive'
  <1>1. /\ pc = "select" /\ pc' = "quantize"
        /\ fitted' = fitted \o [j \in 1 .. Num |-> reg_params[reg_params_pos + j - 1]]
    BY DEF SelectRegression
  <1>2. /\ Sent \in Nat /\ Num \in Nat \ {0} /\ Num = 4 /\ fitted \in Seq(Int) /\ Len(fitted) = Sent
        /\ reg_params_pos = Sent + Num /\ reg_params \in [Slots -> Int]
        /\ Sent + 2 * Num <= Room /\ reg_count \in Nat /\ Sent = 4 * reg_count
    BY <1>1, SentBlocks DEF Fitted, Inv, Types, Sent
  <1> DEFINE fit == [j \in 1 .. Num |-> reg_params[reg_params_pos + j - 1]]
  <1>3. fit \in Seq(Int) /\ Len(fit) = Num /\ \A j \in 1 .. Num : fit[j] = reg_params[reg_params_pos + j - 1]
    <2>1. \A j \in 1 .. Num : reg_params_pos + j - 1 \in Slots
      BY <1>2, SentBlocks DEF Slots, Room
    <2>2. \A j \in 1 .. Num : fit[j] \in Int
      BY <1>2, <2>1
    <2>3. fit \in [1 .. Num -> Int]
      BY <2>2
    <2> HIDE DEF fit
    <2>4. Num \in Nat
      BY <1>2
    <2>5. fit \in Seq(Int) /\ Len(fit) = Num
      BY <2>3, <2>4
    <2> QED BY <2>5 DEF fit
  <1>4. /\ Len(fitted') = Sent + Num
        /\ \A n \in 1 .. Sent : fitted'[n] = fitted[n]
        /\ \A j \in 1 .. Num : fitted'[Sent + j] = fit[j]
    <2>1. fitted' = fitted \o fit /\ fitted \in Seq(Int) /\ Len(fitted) = Sent
      BY <1>1, <1>2
    <2>2. fit \in Seq(Int) /\ Len(fit) = Num
      BY <1>3
    <2> HIDE DEF fit
    <2> QED BY <2>1, <2>2, Concatenation
  <1> HIDE DEF fit
  <1>5. Len(fitted) \div Num = reg_count /\ Len(fitted') \div Num = reg_count + 1
    BY <1>2, <1>4
  <1>6. ASSUME NEW n \in 0 .. reg_count - 1 PROVE FittedBlock(n)' \in Fits
    <2>1. \A j \in Coefficient : Num * n + j + 1 \in 1 .. Sent
      BY <1>2 DEF Coefficient
    <2>2. \A j \in Coefficient : fitted'[Num * n + j + 1] = fitted[Num * n + j + 1]
      BY <1>4, <2>1
    <2>3. FittedBlock(n)' = FittedBlock(n)
      BY <2>2 DEF FittedBlock
    <2> QED BY <1>5, <2>3 DEF FitsArrive
  <1>7. ASSUME NEW n \in Nat, n = reg_count PROVE FittedBlock(n)' \in Fits
    <2>1. ASSUME NEW j \in Coefficient
          PROVE  fitted'[Num * n + j + 1] = reg_params[reg_params_pos + j]
      <3>1. /\ j + 1 \in 1 .. Num /\ Num * n + j + 1 = Sent + (j + 1)
            /\ reg_params_pos + (j + 1) - 1 = reg_params_pos + j
        BY <1>2, <1>7 DEF Coefficient
      <3> QED BY <1>3, <1>4, <3>1
    <2>2. [j \in Coefficient |-> fitted'[Num * n + j + 1]] = Slot
      BY <2>1 DEF Slot
    <2> QED BY <1>1, <2>2 DEF FitsArrive, FittedBlock
  <1>8. ASSUME NEW n \in 0 .. reg_count PROVE FittedBlock(n)' \in Fits
    <2>1. n \in Nat /\ (n \in 0 .. reg_count - 1 \/ n = reg_count)
      BY <1>2
    <2> QED BY <1>6, <1>7, <2>1
  <1> QED BY <1>1, <1>2, <1>5, <1>8 DEF FitsArrive

\* Whichever blocks select the regression, the coefficients kept for them are the least
\* squares fit of a block: no fit of another block comes between.
THEOREM CoefficientsFitted ==
  ASSUME Numbers, Fitted PROVE Spec => []FitsAreLeastSquares
  <1>1. Init => FitsArrive
    BY DEF Fitted, Init, FitsArrive, Coefficient
  <1>2. ASSUME Inv, FitsArrive, [Next]_vars PROVE FitsArrive'
    <2>1. CASE Fit
      BY <1>2, <2>1, FitArrives
    <2>2. CASE SelectRegression
      BY <1>2, <2>2, SelectedArrives
    <2>3. ASSUME fitted' = fitted, pc' # "select" PROVE FitsArrive'
      BY <1>2, <2>3 DEF FitsArrive, FittedBlock
    <2>4. CASE UNCHANGED vars
      BY <1>2, <2>4 DEF vars, FitsArrive, FittedBlock, Slot
    <2>5. CASE SkipFit \/ SelectOther
      BY <2>3, <2>5 DEF SkipFit, SelectOther
    <2>6. CASE QuantizeCoefficient
      BY <2>3, <2>6 DEF QuantizeCoefficient
    <2>7. CASE Send \/ RecoverCoefficient
      BY <2>3, <2>7 DEF Send, RecoverCoefficient
    <2> QED BY <1>2, <2>1, <2>2, <2>4, <2>5, <2>6, <2>7 DEF Next, Compress, Finished
  <1>3. FitsArrive => FitsAreLeastSquares
    BY FitsFit DEF FitsArrive, FitsAreLeastSquares
  <1> QED BY <1>1, <1>2, <1>3, Invariance, PTL DEF Spec
=============================================================================
