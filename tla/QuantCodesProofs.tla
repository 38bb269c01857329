-------------------------- MODULE QuantCodesProofs --------------------------
(***************************************************************************)
(* What holds of the quantization codes on their way into the stream: of   *)
(* the choice how many there are, whatever the array's shape and whatever  *)
(* the samples show, and of the Huffman coder that writes them, whatever   *)
(* the symbols.                                                            *)
(***************************************************************************)
EXTENDS QuantIntervals, HuffmanCoder, WellFoundedInduction, SequenceTheorems,
        FiniteSetTheorems, TLAPS

----------------------------------------------------------------------------
(* Induction, as facts about sets of natural numbers.                      *)

\* Every set of natural numbers has a least element.
LEMMA Least ==
  ASSUME NEW T, T \subseteq Nat, T # {}
  PROVE  \E m \in T : \A n \in T : m <= n
  <1>1. IsWellFoundedOn(OpToRel(<, Nat), Nat)
    BY NatLessThanWellFounded
  <1>2. PICK m \in T : \A n \in T : <<n, m>> \notin OpToRel(<, Nat)
    BY <1>1, WFMin
  <1>3. ASSUME NEW n \in T PROVE m <= n
    <2>1. n \in Nat /\ m \in Nat
      OBVIOUS
    <2>2. ~(n < m)
      BY <1>2, <2>1 DEF OpToRel
    <2> QED BY <2>1, <2>2
  <1> QED BY <1>3

\* A set with 0 in it and the successor of each of its members has all of Nat.
LEMMA SetInduction ==
  ASSUME NEW S, 0 \in S, \A n \in Nat : n \in S => n + 1 \in S
  PROVE  \A n \in Nat : n \in S
  <1> DEFINE T == Nat \ S
  <1> SUFFICES ASSUME T # {} PROVE FALSE
    OBVIOUS
  <1>1. PICK m \in T : \A n \in T : m <= n
    BY Least
  <1>2. m \in Nat /\ m # 0
    OBVIOUS
  <1>3. m - 1 \in Nat /\ ~(m <= m - 1)
    BY <1>2
  <1>4. m - 1 \in S
    BY <1>1, <1>3
  <1>5. (m - 1) + 1 = m
    BY <1>2
  <1> QED BY <1>3, <1>4, <1>5, <1>2

\* From the place before a step by step up to b.
LEMMA Upwards ==
  ASSUME NEW a \in Int, NEW b \in Int, b >= a - 1,
         NEW S, a - 1 \in S, \A c \in a - 1 .. b - 1 : c \in S => c + 1 \in S
  PROVE  b \in S
  <1> DEFINE T == {n \in Nat : a - 1 + n <= b => a - 1 + n \in S}
  <1>1. 0 \in T
    OBVIOUS
  <1>2. ASSUME NEW n \in Nat, n \in T PROVE n + 1 \in T
    <2>1. a - 1 + (n + 1) <= b => a - 1 + n \in a - 1 .. b - 1
      OBVIOUS
    <2>2. (a - 1 + n) + 1 = a - 1 + (n + 1)
      OBVIOUS
    <2> QED BY <1>2, <2>1, <2>2
  <1> HIDE DEF T
  <1>3. \A n \in Nat : n \in T
    BY <1>1, <1>2, SetInduction
  <1>4. b - (a - 1) \in Nat /\ a - 1 + (b - (a - 1)) = b
    OBVIOUS
  <1> QED BY <1>3, <1>4 DEF T

----------------------------------------------------------------------------
(* Sums.                                                                   *)

\* g adds up f from a to b.
Adds(g, f, a, b) == g = [i \in a - 1 .. b |-> IF i < a THEN 0 ELSE g[i - 1] + f[i]]

\* There is such a function,
LEMMA SumExists ==
  ASSUME NEW f, NEW a \in Int, NEW b \in Int, b >= a - 1
  PROVE  \E g : Adds(g, f, a, b)
  <1> DEFINE S == {n \in Nat : \E g : Adds(g, f, a, a - 1 + n)}
  <1>1. 0 \in S
    <2> DEFINE g == [i \in a - 1 .. a - 1 + 0 |-> 0]
    <2>1. \A i \in a - 1 .. a - 1 + 0 : i < a /\ g[i] = 0
      OBVIOUS
    <2>2. Adds(g, f, a, a - 1 + 0)
      BY <2>1 DEF Adds
    <2> HIDE DEF g
    <2> QED BY <2>2
  <1>2. ASSUME NEW n \in Nat, n \in S PROVE n + 1 \in S
    <2>1. PICK g : Adds(g, f, a, a - 1 + n)
      BY <1>2
    <2> DEFINE c == a - 1 + n
               h == [i \in a - 1 .. c + 1 |-> IF i = c + 1 THEN g[c] + f[i] ELSE g[i]]
    <2>2. c \in Int /\ c >= a - 1 /\ a - 1 + (n + 1) = c + 1
      OBVIOUS
    <2>3. g = [i \in a - 1 .. c |-> IF i < a THEN 0 ELSE g[i - 1] + f[i]]
      BY <2>1 DEF Adds
    <2> HIDE DEF c
    <2>4. ASSUME NEW i \in a - 1 .. c + 1
          PROVE  h[i] = IF i < a THEN 0 ELSE h[i - 1] + f[i]
      <3>1. CASE i = c + 1
        BY <3>1, <2>2
      <3>2. CASE i # c + 1
        <4>1. i \in a - 1 .. c /\ h[i] = g[i]
          BY <3>2, <2>2
        <4>2. g[i] = IF i < a THEN 0 ELSE g[i - 1] + f[i]
          BY <4>1, <2>3
        <4>3. i >= a => h[i - 1] = g[i - 1]
          BY <4>1, <2>2
        <4> QED BY <4>1, <4>2, <4>3, <2>2
      <3> QED BY <3>1, <3>2
    <2>5. h = [i \in a - 1 .. c + 1 |-> h[i]]
      OBVIOUS
    <2> HIDE DEF h
    <2>6. h = [i \in a - 1 .. c + 1 |-> IF i < a THEN 0 ELSE h[i - 1] + f[i]]
      BY <2>4, <2>5
    <2>7. Adds(h, f, a, c + 1)
      BY <2>6 DEF Adds
    <2> QED BY <2>2, <2>7
  <1> HIDE DEF S
  <1>3. \A n \in Nat : n \in S
    BY <1>1, <1>2, SetInduction
  <1>4. b - (a - 1) \in Nat /\ a - 1 + (b - (a - 1)) = b
    OBVIOUS
  <1> QED BY <1>3, <1>4 DEF S

\* and two of them agree as far as both go.
LEMMA SumUnique ==
  ASSUME NEW f, NEW a \in Int, NEW b \in Int, NEW c \in Int, NEW g, NEW h,
         Adds(g, f, a, b), Adds(h, f, a, c), b <= c, b >= a - 1
  PROVE  g[b] = h[b]
  <1> DEFINE S == {n \in Nat : a - 1 + n <= b => g[a - 1 + n] = h[a - 1 + n]}
  <1>0. /\ \A i \in a - 1 .. b : g[i] = IF i < a THEN 0 ELSE g[i - 1] + f[i]
        /\ \A i \in a - 1 .. c : h[i] = IF i < a THEN 0 ELSE h[i - 1] + f[i]
    <2>1. \A i \in a - 1 .. b : g[i] = IF i < a THEN 0 ELSE g[i - 1] + f[i]
      BY DEF Adds
    <2>2. \A i \in a - 1 .. c : h[i] = IF i < a THEN 0 ELSE h[i - 1] + f[i]
      BY DEF Adds
    <2> QED BY <2>1, <2>2
  <1>1. 0 \in S
    BY <1>0
  <1>2. ASSUME NEW n \in Nat, n \in S PROVE n + 1 \in S
    <2> DEFINE i == a - 1 + (n + 1)
    <2>1. i \in Int /\ i >= a /\ i - 1 = a - 1 + n
      OBVIOUS
    <2>2. i <= b => g[i - 1] = h[i - 1]
      BY <1>2, <2>1
    <2> HIDE DEF i
    <2>3. i <= b => g[i] = g[i - 1] + f[i] /\ h[i] = h[i - 1] + f[i]
      BY <1>0, <2>1
    <2>4. i <= b => g[i] = h[i]
      BY <2>2, <2>3
    <2> QED BY <2>4 DEF i
  <1> HIDE DEF S
  <1>3. \A n \in Nat : n \in S
    BY <1>1, <1>2, SetInduction
  <1>4. b - (a - 1) \in Nat /\ a - 1 + (b - (a - 1)) = b
    OBVIOUS
  <1> QED BY <1>3, <1>4 DEF S

\* A sum is what the recursion says.
LEMMA SumStep ==
  ASSUME NEW f, NEW a \in Int, NEW b \in Int, b >= a - 1
  PROVE  /\ Sum(f, a, a - 1) = 0
         /\ Sum(f, a, b + 1) = Sum(f, a, b) + f[b + 1]
  <1>1. ASSUME NEW c \in Int, c >= a - 1
        PROVE  \E g : Adds(g, f, a, c) /\ Sum(f, a, c) = g[c]
    <2> DEFINE g == CHOOSE g : Adds(g, f, a, c)
    <2>1. Sum(f, a, c) = g[c]
      BY DEF Sum, Adds
    <2>2. Adds(g, f, a, c)
      BY <1>1, SumExists
    <2> QED BY <2>1, <2>2
  <1>2. Sum(f, a, a - 1) = 0
    <2>1. PICK g : Adds(g, f, a, a - 1) /\ Sum(f, a, a - 1) = g[a - 1]
      BY <1>1
    <2>2. g[a - 1] = 0
      BY <2>1 DEF Adds
    <2> QED BY <2>1, <2>2
  <1>3. PICK g : Adds(g, f, a, b) /\ Sum(f, a, b) = g[b]
    BY <1>1
  <1>4. PICK h : Adds(h, f, a, b + 1) /\ Sum(f, a, b + 1) = h[b + 1]
    BY <1>1
  <1>5. g[b] = h[b]
    BY <1>3, <1>4, SumUnique
  <1>6. h[b + 1] = h[b] + f[b + 1]
    <2>1. b + 1 \in a - 1 .. b + 1 /\ ~(b + 1 < a) /\ (b + 1) - 1 = b
      OBVIOUS
    <2>2. \A i \in a - 1 .. b + 1 : h[i] = IF i < a THEN 0 ELSE h[i - 1] + f[i]
      BY <1>4 DEF Adds
    <2> QED BY <2>1, <2>2
  <1> QED BY <1>2, <1>3, <1>4, <1>5, <1>6

\* A sum of natural numbers is one, and grows with what is added.
LEMMA SumGrows ==
  ASSUME NEW f, NEW a \in Int, NEW b \in Int, b >= a - 1,
         \A i \in a .. b : f[i] \in Nat
  PROVE  /\ Sum(f, a, b) \in Nat
         /\ \A c \in a - 1 .. b : Sum(f, a, c) \in Nat /\ Sum(f, a, c) <= Sum(f, a, b)
  <1> DEFINE S == {c \in a - 1 .. b :
                     /\ Sum(f, a, c) \in Nat
                     /\ \A d \in a - 1 .. c : Sum(f, a, d) \in Nat /\ Sum(f, a, d) <= Sum(f, a, c)}
  <1>1. a - 1 \in S
    <2>1. Sum(f, a, a - 1) = 0 /\ a - 1 \in a - 1 .. b
      BY SumStep
    <2>2. \A d \in a - 1 .. a - 1 : d = a - 1
      OBVIOUS
    <2> QED BY <2>1, <2>2
  <1>2. ASSUME NEW c \in a - 1 .. b - 1, c \in S PROVE c + 1 \in S
    <2>1. c \in Int /\ c >= a - 1 /\ c + 1 \in a .. b /\ c + 1 \in a - 1 .. b
      OBVIOUS
    <2>2. Sum(f, a, c + 1) = Sum(f, a, c) + f[c + 1] /\ f[c + 1] \in Nat
      BY <2>1, SumStep
    <2>3. Sum(f, a, c + 1) \in Nat /\ Sum(f, a, c) \in Nat /\ Sum(f, a, c) <= Sum(f, a, c + 1)
      BY <1>2, <2>2
    <2>4. ASSUME NEW d \in a - 1 .. c + 1
          PROVE  Sum(f, a, d) \in Nat /\ Sum(f, a, d) <= Sum(f, a, c + 1)
      <3>1. CASE d = c + 1
        BY <3>1, <2>3
      <3>2. CASE d # c + 1
        <4>1. d \in a - 1 .. c
          BY <3>2, <2>1
        <4>2. Sum(f, a, d) \in Nat /\ Sum(f, a, d) <= Sum(f, a, c)
          BY <4>1, <1>2
        <4> QED BY <4>2, <2>3
      <3> QED BY <3>1, <3>2
    <2> QED BY <2>1, <2>3, <2>4
  <1>3. b \in S
    <2> HIDE DEF S
    <2> QED BY <1>1, <1>2, Upwards
  <1> QED BY <1>3

\* The sum of what is added place by place is the sum of the sums.
LEMMA SumPlus ==
  ASSUME NEW f, NEW g, NEW h, NEW a \in Int, NEW b \in Int, b >= a - 1,
         \A i \in a .. b : f[i] \in Nat /\ g[i] \in Nat /\ h[i] = f[i] + g[i]
  PROVE  Sum(h, a, b) = Sum(f, a, b) + Sum(g, a, b)
  <1> DEFINE S == {c \in a - 1 .. b : Sum(h, a, c) = Sum(f, a, c) + Sum(g, a, c)}
  <1>1. a - 1 \in S
    <2>1. Sum(f, a, a - 1) = 0 /\ Sum(g, a, a - 1) = 0 /\ Sum(h, a, a - 1) = 0
          /\ a - 1 \in a - 1 .. b
      BY SumStep
    <2> QED BY <2>1
  <1>2. ASSUME NEW c \in a - 1 .. b - 1, c \in S PROVE c + 1 \in S
    <2>1. c \in Int /\ c >= a - 1 /\ c + 1 \in a .. b /\ c + 1 \in a - 1 .. b /\ c \in a - 1 .. b
      OBVIOUS
    <2>2. /\ Sum(f, a, c + 1) = Sum(f, a, c) + f[c + 1]
          /\ Sum(g, a, c + 1) = Sum(g, a, c) + g[c + 1]
          /\ Sum(h, a, c + 1) = Sum(h, a, c) + h[c + 1]
      BY <2>1, SumStep
    <2>3. Sum(f, a, c) \in Nat /\ Sum(g, a, c) \in Nat
      BY <2>1, SumGrows
    <2>4. f[c + 1] \in Nat /\ g[c + 1] \in Nat /\ h[c + 1] = f[c + 1] + g[c + 1]
      BY <2>1
    <2>5. Sum(h, a, c) = Sum(f, a, c) + Sum(g, a, c)
      BY <1>2
    <2> QED BY <2>1, <2>2, <2>3, <2>4, <2>5
  <1>3. b \in S
    <2> HIDE DEF S
    <2> QED BY <1>1, <1>2, Upwards
  <1> QED BY <1>3

\* A sum of larger numbers is larger.
LEMMA SumLe ==
  ASSUME NEW f, NEW g, NEW a \in Int, NEW b \in Int, b >= a - 1,
         \A i \in a .. b : f[i] \in Nat /\ g[i] \in Nat /\ f[i] <= g[i]
  PROVE  Sum(f, a, b) <= Sum(g, a, b)
  <1> DEFINE d == [i \in a .. b |-> g[i] - f[i]]
  <1>1. \A i \in a .. b : d[i] \in Nat /\ g[i] = f[i] + d[i]
    OBVIOUS
  <1> HIDE DEF d
  <1>2. Sum(g, a, b) = Sum(f, a, b) + Sum(d, a, b)
    BY <1>1, SumPlus
  <1>3. Sum(f, a, b) \in Nat /\ Sum(d, a, b) \in Nat
    BY <1>1, SumGrows
  <1> QED BY <1>2, <1>3

\* The sum of one place.
LEMMA SumOne ==
  ASSUME NEW f, NEW a \in Int, NEW b \in Int, b >= a - 1, NEW x, NEW v \in Nat,
         \A i \in a .. b : f[i] = IF i = x THEN v ELSE 0
  PROVE  Sum(f, a, b) = IF x \in a .. b THEN v ELSE 0
  <1> DEFINE S == {c \in a - 1 .. b : Sum(f, a, c) = IF x \in a .. c THEN v ELSE 0}
  <1>1. a - 1 \in S
    <2>1. Sum(f, a, a - 1) = 0 /\ a - 1 \in a - 1 .. b /\ x \notin a .. a - 1
      BY SumStep
    <2> QED BY <2>1
  <1>2. ASSUME NEW c \in a - 1 .. b - 1, c \in S PROVE c + 1 \in S
    <2>1. c \in Int /\ c >= a - 1 /\ c + 1 \in a .. b /\ c + 1 \in a - 1 .. b
      OBVIOUS
    <2>2. Sum(f, a, c + 1) = Sum(f, a, c) + f[c + 1]
      BY <2>1, SumStep
    <2>3. Sum(f, a, c) = IF x \in a .. c THEN v ELSE 0
      BY <1>2
    <2>4. f[c + 1] = IF c + 1 = x THEN v ELSE 0
      BY <2>1
    <2>5. x \in a .. c + 1 <=> x \in a .. c \/ x = c + 1
      BY <2>1
    <2>6. c + 1 \notin a .. c
      BY <2>1
    <2>7. Sum(f, a, c + 1) = IF x \in a .. c + 1 THEN v ELSE 0
      BY <2>2, <2>3, <2>4, <2>5, <2>6
    <2> QED BY <2>1, <2>7
  <1>3. b \in S
    <2> HIDE DEF S
    <2> QED BY <1>1, <1>2, Upwards
  <1> QED BY <1>3

\* One more in one place is one more in the sum.
LEMMA SumIncremented ==
  ASSUME NEW f, NEW g, NEW a \in Int, NEW b \in Int, b >= a - 1, NEW x,
         \A i \in a .. b : f[i] \in Nat /\ g[i] = f[i] + (IF i = x THEN 1 ELSE 0)
  PROVE  Sum(g, a, b) = Sum(f, a, b) + (IF x \in a .. b THEN 1 ELSE 0)
  <1> DEFINE d == [i \in a .. b |-> IF i = x THEN 1 ELSE 0]
  <1>1. \A i \in a .. b : d[i] \in Nat /\ d[i] = (IF i = x THEN 1 ELSE 0) /\ g[i] = f[i] + d[i]
    OBVIOUS
  <1> HIDE DEF d
  <1>2. Sum(g, a, b) = Sum(f, a, b) + Sum(d, a, b)
    BY <1>1, SumPlus
  <1>3. Sum(d, a, b) = IF x \in a .. b THEN 1 ELSE 0
    BY <1>1, SumOne
  <1> QED BY <1>2, <1>3

----------------------------------------------------------------------------
(* What is decided.                                                        *)

\* Each power of two is twice the one before, as far as a capacity may go.
LEMMA Doubles ==
  /\ 2 ^ 0 = 1 /\ 2 ^ 16 = 65536 /\ 2 ^ 17 = 131072
  /\ \A k \in 0 .. 17 : 2 ^ k \in Nat
  /\ \A k \in 0 .. 16 : 2 ^ (k + 1) = 2 * 2 ^ k
  <1> DEFINE p(k) == 2 ^ k
  <1>1. /\ p(0) = 1 /\ p(1) = 2 /\ p(2) = 4 /\ p(3) = 8 /\ p(4) = 16 /\ p(5) = 32
        /\ p(6) = 64 /\ p(7) = 128 /\ p(8) = 256 /\ p(9) = 512 /\ p(10) = 1024
        /\ p(11) = 2048 /\ p(12) = 4096 /\ p(13) = 8192 /\ p(14) = 16384
        /\ p(15) = 32768 /\ p(16) = 65536 /\ p(17) = 131072
    OBVIOUS
  <1> HIDE DEF p
  <1>2. ASSUME NEW k \in 0 .. 16 PROVE p(k) \in Nat /\ p(k + 1) = 2 * p(k)
    <2>1. k \in 0 .. 8 \/ k \in 9 .. 16
      OBVIOUS
    <2>2. k \in 0 .. 8 => k \in {0, 1, 2, 3, 4, 5, 6, 7, 8}
      OBVIOUS
    <2>3. k \in 9 .. 16 => k \in {9, 10, 11, 12, 13, 14, 15, 16}
      OBVIOUS
    <2> QED BY <2>1, <2>2, <2>3, <1>1
  <1>3. \A k \in 0 .. 17 : p(k) \in Nat
    <2>1. \A k \in 0 .. 17 : k \in 0 .. 16 \/ k = 17
      OBVIOUS
    <2> QED BY <2>1, <1>1, <1>2
  <1> QED BY <1>1, <1>2, <1>3 DEF p

\* Rounding up finds its power of two, for as many intervals as there can be.
LEMMA RoundedUp ==
  ASSUME NEW base \in Nat \ {0}, base <= 2 ^ 17
  PROVE  /\ round_up_power_of_2(base) \in Nat /\ base <= round_up_power_of_2(base)
         /\ round_up_power_of_2(base) < 2 * base
  <1> DEFINE p(k) == 2 ^ k
             T == {k \in 0 .. 17 : base <= p(k)}
  <1>1. /\ p(0) = 1 /\ \A k \in 0 .. 17 : p(k) \in Nat
        /\ \A k \in 0 .. 16 : p(k + 1) = 2 * p(k)
    BY Doubles
  <1>2. base <= p(17)
    OBVIOUS
  <1>3. round_up_power_of_2(base) = CHOOSE q \in {p(k) : k \in 0 .. 17} : base <= q /\ q < 2 * base
    BY DEF round_up_power_of_2
  <1> HIDE DEF p
  <1>4. 17 \in T /\ T \subseteq Nat
    BY <1>2
  <1>5. PICK m \in T : \A n \in T : m <= n
    BY <1>4, Least
  <1>6. p(m) < 2 * base
    <2>1. CASE m = 0
      BY <2>1, <1>1
    <2>2. CASE m # 0
      <3>1. m - 1 \in 0 .. 16 /\ ~(m <= m - 1) /\ (m - 1) + 1 = m
        BY <2>2
      <3>2. ~(base <= p(m - 1)) /\ p(m - 1) \in Nat /\ p(m) = 2 * p(m - 1)
        BY <3>1, <1>1, <1>5
      <3> QED BY <3>2
    <2> QED BY <2>1, <2>2
  <1>7. \E q \in {p(k) : k \in 0 .. 17} : base <= q /\ q < 2 * base
    BY <1>6
  <1>8. \A q \in {p(k) : k \in 0 .. 17} : q \in Nat
    BY <1>1
  <1> QED BY <1>3, <1>7, <1>8

Last == QuantIntvSampleCapacity - 1
Target == (sample_count * QuantIntvAccThreshold[1]) \div QuantIntvAccThreshold[2]

\* The covering interval is one of those counted, either the samples up to it
\* are enough or it is the last, and those before it are not enough.
LEMMA CoveringFacts ==
  /\ CoveringInterval \in 0 .. Last
  /\ Sum(intervals, 0, CoveringInterval) > Target \/ CoveringInterval = Last
  /\ \A j \in 0 .. CoveringInterval - 1 : ~(Sum(intervals, 0, j) > Target)
  <1> DEFINE enough(i) == Sum(intervals, 0, i) > Target
             T == {i \in 0 .. Last : enough(i) \/ i = Last}
  <1>1. Last \in Nat
    <2>1. QuantIntvSampleCapacity \in Nat \ {0}
      BY IntervalsAssumption, Doubles
    <2> QED BY <2>1 DEF Last
  <1>2. CoveringInterval = CHOOSE i \in 0 .. Last :
                             (enough(i) \/ i = Last) /\ \A j \in 0 .. i - 1 : ~enough(j)
    BY DEF CoveringInterval, Last, Target
  <1> HIDE DEF enough
  <1>3. T \subseteq Nat /\ Last \in T
    BY <1>1
  <1>4. PICK m \in T : \A n \in T : m <= n
    BY <1>3, Least
  <1>5. \A j \in 0 .. m - 1 : ~enough(j)
    <2> SUFFICES ASSUME NEW j \in 0 .. m - 1, enough(j) PROVE FALSE
      OBVIOUS
    <2>1. j \in T /\ ~(m <= j)
      BY <1>1
    <2> QED BY <2>1, <1>4
  <1>6. \E i \in 0 .. Last : (enough(i) \/ i = Last) /\ \A j \in 0 .. i - 1 : ~enough(j)
    BY <1>4, <1>5
  <1> QED BY <1>2, <1>6 DEF enough

\* What the histograms are.
Histograms ==
  /\ intervals \in [0 .. Last -> Nat]
  /\ freq_intervals \in [0 .. QuantIntvMeanCapacity - 1 -> Nat]
  /\ samples \in [Diffs -> Nat] /\ sample_count \in Nat
  /\ preds \in [0 .. PredBound -> Nat]

\* PredsBelow the last interval, each counts the samples that are as far off as it
\* says; only in the last are there others.
PredsBelow(n) == [p \in 0 .. PredBound |-> IF p < n THEN preds[p] ELSE 0]
Clamped == \A n \in 0 .. Last : Within(n) = Sum(intervals, 0, n - 1)

\* The constants, in the form the proofs use.
LEMMA Constants ==
  /\ Last \in Nat /\ Last + 1 <= 65536 /\ QuantIntvSampleCapacity = Last + 1
  /\ QuantIntvMeanCapacity \in Nat /\ QuantIntvMeanCapacity > 3 /\ radius \in Int
  /\ QuantIntvSampleDistance \in Nat /\ QuantIntvSampleDistance > 2
  /\ DiffBound \in Nat /\ Diffs \subseteq -DiffBound .. DiffBound
  /\ QuantIntvAccThreshold[1] \in Nat /\ QuantIntvAccThreshold[2] \in Nat \ {0}
  /\ QuantIntvAccThreshold[1] <= QuantIntvAccThreshold[2]
  /\ FewestIntervals \in Nat /\ FewestIntervals % 2 = 0
  /\ PredBound \in Nat /\ PredIndices \subseteq 0 .. PredBound
  <1>1. QuantIntvSampleCapacity \in Nat \ {0} /\ QuantIntvSampleCapacity <= 65536
    BY IntervalsAssumption, Doubles
  <1>2. Last \in Nat /\ Last + 1 <= 65536 /\ QuantIntvSampleCapacity = Last + 1
    BY <1>1 DEF Last
  <1>3. radius \in Int
    BY IntervalsAssumption DEF radius
  <1> QED BY <1>2, <1>3, IntervalsAssumption

\* The samples within a distance are counted by a number that grows with it.
LEMMA WithinGrows ==
  ASSUME Histograms, NEW a \in Int, NEW b \in Int, a <= b
  PROVE  Within(a) \in Nat /\ Within(b) \in Nat /\ Within(a) <= Within(b)
  <1>1. \A n : Within(n) = Sum(PredsBelow(n), 0, PredBound)
    BY DEF Within, PredsBelow
  <1>2. 0 \in Int /\ PredBound \in Int /\ PredBound >= 0 - 1 /\ PredBound \in 0 - 1 .. PredBound
    BY Constants
  <1>3. ASSUME NEW p \in 0 .. PredBound
        PROVE  PredsBelow(a)[p] \in Nat /\ PredsBelow(b)[p] \in Nat /\ PredsBelow(a)[p] <= PredsBelow(b)[p]
    <2>1. preds[p] \in Nat /\ p \in Int
      BY DEF Histograms
    <2>2. PredsBelow(a)[p] = (IF p < a THEN preds[p] ELSE 0) /\ PredsBelow(b)[p] = (IF p < b THEN preds[p] ELSE 0)
      BY DEF PredsBelow
    <2>3. p < a => p < b
      BY <2>1
    <2> QED BY <2>1, <2>2, <2>3
  <1>4. Sum(PredsBelow(a), 0, PredBound) \in Nat /\ Sum(PredsBelow(b), 0, PredBound) \in Nat
    BY <1>2, <1>3, SumGrows
  <1>5. Sum(PredsBelow(a), 0, PredBound) <= Sum(PredsBelow(b), 0, PredBound)
    BY <1>2, <1>3, SumLe
  <1> QED BY <1>1, <1>4, <1>5

\* A count above, or not above, the truncated target is above, or not above, the
\* threshold itself.
LEMMA TargetIsThreshold ==
  ASSUME NEW k \in Nat, Histograms
  PROVE  /\ Target \in Nat
         /\ k > Target => k * QuantIntvAccThreshold[2] > sample_count * QuantIntvAccThreshold[1]
         /\ k <= Target => k * QuantIntvAccThreshold[2] <= sample_count * QuantIntvAccThreshold[1]
  <1> DEFINE n == QuantIntvAccThreshold[1]
             d == QuantIntvAccThreshold[2]
             sn == sample_count * n
             t == sn \div d
  <1>1. d \in Nat \ {0} /\ sn \in Nat
    <2>1. n \in Nat /\ d \in Nat \ {0} /\ sample_count \in Nat
      BY Constants DEF Histograms
    <2> HIDE DEF n
    <2> QED BY <2>1
  <1>2. Target = t
    BY DEF Target
  <1> HIDE DEF sn, d
  <1>3. t \in Nat /\ t * d <= sn /\ sn < (t + 1) * d
    BY <1>1
  <1> HIDE DEF t
  <1>4. k > t => (t + 1) * d <= k * d
    <2> SUFFICES ASSUME k > t PROVE (t + 1) * d <= k * d
      OBVIOUS
    <2>1. t + 1 <= k /\ t + 1 \in Nat
      BY <1>3
    <2> QED BY <2>1, <1>1
  <1>5. k <= t => k * d <= t * d
    BY <1>1, <1>3
  <1>6. k * d \in Nat /\ t * d \in Nat /\ (t + 1) * d \in Nat
    BY <1>1, <1>3
  <1>7. /\ k > t => k * d > sn
        /\ k <= t => k * d <= sn
    BY <1>1, <1>3, <1>4, <1>5, <1>6
  <1> QED BY <1>2, <1>3, <1>7 DEF sn, d

\* The number of intervals decided is even, not below the fewest, has a code for
\* enough samples or is the largest there is, and is not four times too large.
LEMMA CapacitySuffices ==
  ASSUME Histograms, Clamped,
         NEW cap, cap = estimate_quantization_intervals
  PROVE  /\ cap \in Nat /\ cap % 2 = 0 /\ cap >= FewestIntervals
         /\ \/ Within(cap \div 2 - 1) * QuantIntvAccThreshold[2]
                 > sample_count * QuantIntvAccThreshold[1]
            \/ cap >= 4 * QuantIntvSampleCapacity
         /\ cap > FewestIntervals =>
              Within(cap \div 8) * QuantIntvAccThreshold[2]
                <= sample_count * QuantIntvAccThreshold[1]
  <1> DEFINE c == CoveringInterval
             up == round_up_power_of_2(2 * (c + 1))
  <1>1. /\ c \in 0 .. Last /\ (Sum(intervals, 0, c) > Target \/ c = Last)
        /\ \A j \in 0 .. c - 1 : ~(Sum(intervals, 0, j) > Target)
    BY CoveringFacts
  <1>2. cap = IF 2 * up > FewestIntervals THEN 2 * up ELSE FewestIntervals
    BY DEF estimate_quantization_intervals
  <1> HIDE DEF c
  <1>3. up \in Nat /\ 2 * (c + 1) <= up /\ up < 2 * (2 * (c + 1))
    <2>1. 2 * (c + 1) \in Nat \ {0} /\ 2 * (c + 1) <= 131072
      BY <1>1, Constants
    <2>2. 2 * (c + 1) <= 2 ^ 17
      BY <2>1, Doubles
    <2> QED BY <2>1, <2>2, RoundedUp
  <1> HIDE DEF up
  <1>4. cap \in Nat /\ cap % 2 = 0 /\ cap >= FewestIntervals /\ cap >= 4 * (c + 1)
    <2>1. cap >= FewestIntervals /\ cap >= 2 * up /\ cap \in Nat
      BY <1>2, <1>3, Constants
    <2>2. (2 * up) % 2 = 0
      BY <1>3
    <2>3. cap % 2 = 0
      BY <1>2, <2>2, Constants
    <2>4. 2 * up >= 4 * (c + 1)
      BY <1>1, <1>3
    <2> QED BY <1>1, <1>3, <2>1, <2>3, <2>4
  <1>5. c \in Nat /\ Last \in Nat /\ c <= Last
    BY <1>1, Constants
  <1>6. \/ Within(cap \div 2 - 1) * QuantIntvAccThreshold[2]
             > sample_count * QuantIntvAccThreshold[1]
        \/ cap >= 4 * QuantIntvSampleCapacity
    <2>1. CASE c = Last
      BY <2>1, <1>4, <1>5, Constants
    <2>2. CASE c # Last
      <3>1. c + 1 \in 0 .. Last /\ (c + 1) - 1 = c
        BY <2>2, <1>5
      <3>2. Within(c + 1) = Sum(intervals, 0, c)
        BY <3>1 DEF Clamped
      <3>3. Within(c + 1) > Target
        BY <3>2, <2>2, <1>1
      <3>4. cap \div 2 - 1 \in Int /\ c + 1 \in Int /\ c + 1 <= cap \div 2 - 1
        BY <1>4, <1>5
      <3>5. /\ Within(c + 1) \in Nat /\ Within(cap \div 2 - 1) \in Nat
            /\ Within(c + 1) <= Within(cap \div 2 - 1)
        BY <3>4, WithinGrows
      <3>6. Target \in Nat
        BY <3>5, TargetIsThreshold
      <3>7. Within(cap \div 2 - 1) > Target
        BY <3>3, <3>5, <3>6
      <3> QED BY <3>5, <3>7, TargetIsThreshold
    <2> QED BY <2>1, <2>2
  <1>7. ASSUME cap > FewestIntervals
        PROVE  Within(cap \div 8) * QuantIntvAccThreshold[2]
                 <= sample_count * QuantIntvAccThreshold[1]
    <2>1. cap = 2 * up
      BY <1>2, <1>7
    <2>2. cap \div 8 \in Int /\ cap \div 8 <= c /\ c \in Int
      BY <2>1, <1>3, <1>5
    <2>3. /\ Within(cap \div 8) \in Nat /\ Within(c) \in Nat
          /\ Within(cap \div 8) <= Within(c)
      BY <2>2, WithinGrows
    <2>4. Target \in Nat
      BY <2>3, TargetIsThreshold
    <2>5. Within(c) = Sum(intervals, 0, c - 1)
      BY <1>1 DEF Clamped
    <2>6. Within(c) <= Target
      <3>1. CASE c = 0
        <4>1. Sum(intervals, 0, 0 - 1) = 0
          <5>1. 0 \in Int
            OBVIOUS
          <5> QED BY <5>1, SumStep
        <4> QED BY <4>1, <3>1, <2>4, <2>5
      <3>2. CASE c # 0
        <4>1. c - 1 \in 0 .. c - 1
          BY <3>2, <1>5
        <4>2. ~(Sum(intervals, 0, c - 1) > Target)
          BY <4>1, <1>1
        <4> QED BY <4>2, <2>3, <2>4, <2>5
      <3> QED BY <3>1, <3>2
    <2>7. Within(cap \div 8) <= Target
      BY <2>3, <2>4, <2>6
    <2> QED BY <2>3, <2>7, TargetIsThreshold
  <1> QED BY <1>4, <1>6, <1>7

----------------------------------------------------------------------------
(* The mean.                                                               *)

\* There is a fullest pair of neighbouring intervals.
LEMMA FullestExists ==
  ASSUME Histograms
  PROVE  \E i \in 1 .. QuantIntvMeanCapacity - 3 :
           \A j \in 1 .. QuantIntvMeanCapacity - 3 :
             Pair(j) < Pair(i) \/ (Pair(j) = Pair(i) /\ i <= j)
  <1> DEFINE m == QuantIntvMeanCapacity - 3
             Best(i, n) == \A j \in 1 .. n : Pair(j) < Pair(i) \/ (Pair(j) = Pair(i) /\ i <= j)
             S == {n \in 0 .. m : n = 0 \/ \E i \in 1 .. n : Best(i, n)}
  <1>1. m \in Nat /\ m >= 1
    BY Constants
  <1>2. \A j \in 1 .. m : Pair(j) \in Nat
    <2>1. \A j \in 1 .. m : /\ j \in 0 .. QuantIntvMeanCapacity - 1
                            /\ j + 1 \in 0 .. QuantIntvMeanCapacity - 1
      BY Constants
    <2> QED BY <2>1 DEF Pair, Histograms
  <1> HIDE DEF m
  <1>3. 0 \in S
    BY <1>1
  <1>4. ASSUME NEW n \in 0 .. m - 1, n \in S PROVE n + 1 \in S
    <2>1. n + 1 \in 0 .. m /\ n + 1 \in 1 .. n + 1 /\ n \in Nat /\ n + 1 \in 1 .. m
      BY <1>1
    <2>2. \A j \in 1 .. n + 1 : j \in 1 .. n \/ j = n + 1
      BY <2>1
    <2>3. CASE n = 0
      <3>1. \A j \in 1 .. 1 : j = 1
        OBVIOUS
      <3>2. Best(1, 1)
        BY <3>1
      <3> QED BY <2>1, <2>3, <3>2
    <2>4. CASE n # 0
      <3>1. PICK i \in 1 .. n : Best(i, n)
        BY <1>4, <2>4
      <3>2. i \in 1 .. m /\ i \in 1 .. n + 1 /\ i <= n + 1
        BY <2>1, <1>1
      <3>3. CASE Pair(n + 1) > Pair(i)
        <4>1. ASSUME NEW j \in 1 .. n + 1
              PROVE  Pair(j) < Pair(n + 1) \/ (Pair(j) = Pair(n + 1) /\ n + 1 <= j)
          <5>1. CASE j = n + 1
            BY <5>1, <2>1
          <5>2. CASE j # n + 1
            <6>1. j \in 1 .. n /\ j \in 1 .. m
              BY <5>2, <2>2, <2>1, <1>1
            <6>2. Pair(j) <= Pair(i) /\ Pair(j) \in Nat /\ Pair(i) \in Nat /\ Pair(n + 1) \in Nat
              BY <6>1, <3>1, <3>2, <2>1, <1>2
            <6> QED BY <6>2, <3>3
          <5> QED BY <5>1, <5>2
        <4> QED BY <4>1, <2>1
      <3>4. CASE ~(Pair(n + 1) > Pair(i))
        <4>1. ASSUME NEW j \in 1 .. n + 1
              PROVE  Pair(j) < Pair(i) \/ (Pair(j) = Pair(i) /\ i <= j)
          <5>1. CASE j = n + 1
            <6>1. Pair(j) \in Nat /\ Pair(i) \in Nat
              BY <5>1, <2>1, <3>2, <1>2
            <6> QED BY <5>1, <6>1, <3>2, <3>4
          <5>2. CASE j # n + 1
            BY <5>2, <2>2, <3>1
          <5> QED BY <5>1, <5>2
        <4> QED BY <4>1, <2>1, <3>2
      <3> QED BY <3>3, <3>4
    <2> QED BY <2>3, <2>4
  <1>5. m \in S
    <2> HIDE DEF S
    <2>1. /\ 1 \in Int /\ m \in Int /\ m >= 1 - 1 /\ 1 - 1 \in S
          /\ \A c \in 1 - 1 .. m - 1 : c \in S => c + 1 \in S
      BY <1>1, <1>3, <1>4
    <2> QED BY <2>1, Upwards
  <1> QED BY <1>1, <1>5 DEF m

\* So the pair chosen is one of the inner ones, if not all are empty.
LEMMA FullestInner ==
  ASSUME Histograms, max_sum > 0
  PROVE  /\ max_index \in 1 .. QuantIntvMeanCapacity - 3
         /\ max_sum = Pair(max_index)
  <1> DEFINE pairs == 1 .. QuantIntvMeanCapacity - 3
             fullest == CHOOSE i \in pairs :
                          \A j \in pairs : Pair(j) < Pair(i) \/ (Pair(j) = Pair(i) /\ i <= j)
  <1>1. fullest \in pairs
    BY FullestExists
  <1>2. max_index = IF Pair(fullest) = 0 THEN 0 ELSE fullest
    BY DEF max_index
  <1>3. max_index # 0
    BY DEF max_sum
  <1> HIDE DEF fullest
  <1> QED BY <1>1, <1>2, <1>3 DEF max_sum

\* The number of samples in the fullest pair is a number.
LEMMA MaxSumNat == ASSUME Histograms PROVE max_sum \in Nat
  <1> DEFINE pairs == 1 .. QuantIntvMeanCapacity - 3
             fullest == CHOOSE i \in pairs :
                          \A j \in pairs : Pair(j) < Pair(i) \/ (Pair(j) = Pair(i) /\ i <= j)
  <1>1. fullest \in pairs
    BY FullestExists
  <1>2. max_index = IF Pair(fullest) = 0 THEN 0 ELSE fullest
    BY DEF max_index
  <1> HIDE DEF fullest
  <1>3. max_index # 0 => Pair(max_index) \in Nat
    <2> SUFFICES ASSUME max_index # 0 PROVE Pair(max_index) \in Nat
      OBVIOUS
    <2>1. /\ max_index \in 0 .. QuantIntvMeanCapacity - 1
          /\ max_index + 1 \in 0 .. QuantIntvMeanCapacity - 1
      BY <1>1, <1>2, Constants
    <2> QED BY <2>1 DEF Pair, Histograms
  <1> QED BY <1>3 DEF max_sum

\* How often each difference counted in interval i came.
InInterval(i) ==
  [e \in -DiffBound .. DiffBound |->
     IF e \in Diffs /\ FreqInterval(e) = i THEN samples[e] ELSE 0]
Tallied ==
  \A i \in 0 .. QuantIntvMeanCapacity - 1 :
    freq_intervals[i] = Sum(InInterval(i), -DiffBound, DiffBound)

\* A difference counted in one of two neighbouring inner intervals is within
\* the precision of the border of the two.
LEMMA NearBorder ==
  ASSUME NEW m \in 1 .. QuantIntvMeanCapacity - 3, NEW e \in Int,
         FreqInterval(e) = m \/ FreqInterval(e) = m + 1
  PROVE  e - 2 * (m + 1 - radius) \in -2 .. 2
  <1> DEFINE index == IF e > 0 THEN e \div 2 + radius ELSE radius - 1 - ((-e) \div 2)
             r == radius
             top == QuantIntvMeanCapacity
  <1>1. /\ top \in Nat /\ top > 3 /\ r \in Int
        /\ FreqInterval(e) = IF index <= 0 THEN 0 ELSE IF index >= top THEN top - 1 ELSE index
    BY Constants DEF FreqInterval
  <1>2. index \in Int
    BY <1>1
  <1>3. index = m \/ index = m + 1
    <2> HIDE DEF index, top
    <2>1. m \in Nat /\ m >= 1 /\ m + 1 < top - 1
      BY <1>1 DEF top
    <2> QED BY <1>1, <1>2, <2>1
  <1>4. CASE e > 0
    <2>1. e \div 2 + r = m \/ e \div 2 + r = m + 1
      BY <1>3, <1>4
    <2> HIDE DEF r
    <2> QED BY <1>1, <1>4, <2>1 DEF r
  <1>5. CASE ~(e > 0)
    <2>1. r - 1 - ((-e) \div 2) = m \/ r - 1 - ((-e) \div 2) = m + 1
      BY <1>3, <1>5
    <2> HIDE DEF r
    <2> QED BY <1>1, <1>5, <2>1 DEF r
  <1> QED BY <1>4, <1>5

\* The samples near the guess are at least those of the fullest pair.
LEMMA PairIsNear ==
  ASSUME Histograms, Tallied, max_sum > 0, NEW guess, guess = MeanShift
  PROVE  LET near == [e \in -DiffBound .. DiffBound |->
                        IF e \in Diffs /\ e - 2 * guess \in -2 .. 2 THEN samples[e] ELSE 0]
         IN  /\ Sum(near, -DiffBound, DiffBound) \in Nat
             /\ max_sum \in Nat /\ max_sum <= Sum(near, -DiffBound, DiffBound)
  <1> DEFINE m == max_index
             B == DiffBound
             near == [e \in -B .. B |->
                        IF e \in Diffs /\ e - 2 * guess \in -2 .. 2 THEN samples[e] ELSE 0]
             f == InInterval(m)
             g == InInterval(m + 1)
             h == [e \in -B .. B |-> f[e] + g[e]]
  <1>1. m \in 1 .. QuantIntvMeanCapacity - 3 /\ max_sum = freq_intervals[m] + freq_intervals[m + 1]
    BY FullestInner DEF Pair
  <1>2. guess = m + 1 - radius
    BY DEF MeanShift
  <1>3. B \in Nat /\ -B \in Int /\ B >= -B - 1 /\ Diffs \subseteq -B .. B
    BY Constants
  <1>4. freq_intervals[m] = Sum(f, -B, B) /\ freq_intervals[m + 1] = Sum(g, -B, B)
    <2>1. m \in 0 .. QuantIntvMeanCapacity - 1 /\ m + 1 \in 0 .. QuantIntvMeanCapacity - 1
      BY <1>1, Constants
    <2> QED BY <2>1 DEF Tallied
  <1>5. \A e \in Diffs : samples[e] \in Nat
    BY DEF Histograms
  <1> HIDE DEF B, m
  <1>6. ASSUME NEW e \in -B .. B
        PROVE  f[e] \in Nat /\ g[e] \in Nat /\ near[e] \in Nat /\ f[e] + g[e] <= near[e]
    <2>1. /\ f[e] = IF e \in Diffs /\ FreqInterval(e) = m THEN samples[e] ELSE 0
          /\ g[e] = IF e \in Diffs /\ FreqInterval(e) = m + 1 THEN samples[e] ELSE 0
      BY DEF InInterval, B
    <2>2. near[e] = IF e \in Diffs /\ e - 2 * guess \in -2 .. 2 THEN samples[e] ELSE 0
      OBVIOUS
    <2>3. e \in Int /\ m \in Int
      BY <1>1, <1>3
    <2>4. FreqInterval(e) = m \/ FreqInterval(e) = m + 1 => e - 2 * guess \in -2 .. 2
      BY <1>1, <1>2, <2>3, NearBorder
    <2>5. e \in Diffs => samples[e] \in Nat
      BY <1>5
    <2> HIDE DEF f, g, near
    <2>6. ~(FreqInterval(e) = m /\ FreqInterval(e) = m + 1)
      BY <2>3
    <2>7. CASE e \in Diffs
      BY <2>1, <2>2, <2>4, <2>5, <2>6, <2>7
    <2>8. CASE e \notin Diffs
      BY <2>1, <2>2, <2>8
    <2> QED BY <2>7, <2>8
  <1>7. \A e \in -B .. B : /\ h[e] = f[e] + g[e] /\ h[e] \in Nat /\ near[e] \in Nat
                           /\ h[e] <= near[e] /\ f[e] \in Nat /\ g[e] \in Nat
    BY <1>6
  <1> HIDE DEF f, g, h, near
  <1>8. Sum(h, -B, B) = Sum(f, -B, B) + Sum(g, -B, B)
    BY <1>3, <1>7, SumPlus
  <1>9. Sum(h, -B, B) <= Sum(near, -B, B)
    BY <1>3, <1>7, SumLe
  <1>10. Sum(h, -B, B) \in Nat /\ Sum(near, -B, B) \in Nat
    BY <1>3, <1>7, SumGrows
  <1> QED BY <1>1, <1>4, <1>8, <1>9, <1>10 DEF near, B

----------------------------------------------------------------------------
(* The inductive invariant.                                                *)

\* Where the second walk is: each row begins at least one element into the
\* array's row, which neither of the walk's counters says.
Staggered ==
  /\ n1_count \in Nat \ {0} /\ n2_count \in Nat \ {0}
  /\ offset_count \in Nat \ {0}
  /\ data_pos = n1_count * r23 + n2_count * r3 + offset_count

Inv ==
  /\ shape \in Shapes
  /\ Histograms /\ Tallied
  /\ Clamped
  /\ pc \in {"mean", "sample", "done"}
  /\ pc = "mean" => n1_count = 1 /\ n2_count = 1
  /\ pc = "sample" => Staggered
  /\ pc # "done" => use_mean = FALSE
  /\ CapacityCovers /\ MeanSupported

\* The shape of the array.
LEMMA ShapeFacts ==
  ASSUME shape \in Shapes
  PROVE  /\ r1 \in Nat \ {0} /\ r2 \in Nat \ {0} /\ r3 \in Nat \ {0}
         /\ r23 = r2 * r3 /\ r23 \in Nat /\ len \in Nat
  <1>1. r1 \in Nat \ {0} /\ r2 \in Nat \ {0} /\ r3 \in Nat \ {0}
    BY IntervalsAssumption DEF r1, r2, r3
  <1> DEFINE a == r1
             b == r2
             c == r3
  <1>2. r23 = b * c /\ len = a * (b * c)
    BY DEF r23, len
  <1> HIDE DEF a, b, c
  <1>3. a \in Nat /\ b \in Nat /\ c \in Nat
    BY <1>1 DEF a, b, c
  <1>4. b * c \in Nat /\ a * (b * c) \in Nat
    BY <1>3
  <1> QED BY <1>1, <1>2, <1>4 DEF b, c

\* It holds at the start,
LEMMA InitInv == ASSUME Init PROVE Inv
  <1>1. /\ shape \in Shapes /\ pc = "mean" /\ n1_count = 1 /\ n2_count = 1
        /\ intervals = [i \in 0 .. Last |-> 0]
        /\ freq_intervals = [i \in 0 .. QuantIntvMeanCapacity - 1 |-> 0]
        /\ sample_count = 0 /\ samples = [d \in Diffs |-> 0] /\ use_mean = FALSE
        /\ preds = [p \in 0 .. PredBound |-> 0]
    BY DEF Init, Last
  <1>2. Histograms
    BY <1>1 DEF Histograms
  <1>3. Clamped
    <2> SUFFICES ASSUME NEW n \in 0 .. Last PROVE Within(n) = Sum(intervals, 0, n - 1)
      BY DEF Clamped
    <2>1. /\ 0 \in Int /\ n - 1 \in Int /\ n - 1 >= 0 - 1 /\ 0 \in Nat
          /\ PredBound \in Int /\ PredBound >= 0 - 1
          /\ \A i \in 0 .. n - 1 : intervals[i] = IF i = -1 THEN 0 ELSE 0
      BY <1>1, Constants
    <2>2. Sum(intervals, 0, n - 1) = IF -1 \in 0 .. n - 1 THEN 0 ELSE 0
      BY <2>1, SumOne
    <2>3. \A p \in 0 .. PredBound : PredsBelow(n)[p] = IF p = -1 THEN 0 ELSE 0
      BY <1>1 DEF PredsBelow
    <2>4. Sum(PredsBelow(n), 0, PredBound) = IF -1 \in 0 .. PredBound THEN 0 ELSE 0
      BY <2>1, <2>3, SumOne
    <2> QED BY <2>2, <2>4 DEF Within, PredsBelow
  <1>4. Tallied
    <2> SUFFICES ASSUME NEW i \in 0 .. QuantIntvMeanCapacity - 1
                 PROVE  freq_intervals[i] = Sum(InInterval(i), -DiffBound, DiffBound)
      BY DEF Tallied
    <2>1. \A e \in -DiffBound .. DiffBound : InInterval(i)[e] = IF e = 0 THEN 0 ELSE 0
      BY <1>1 DEF InInterval
    <2>2. DiffBound \in Int /\ -DiffBound \in Int /\ DiffBound >= -DiffBound - 1 /\ 0 \in Nat
      BY Constants
    <2>3. Sum(InInterval(i), -DiffBound, DiffBound) = IF 0 \in -DiffBound .. DiffBound THEN 0 ELSE 0
      BY <2>1, <2>2, SumOne
    <2> QED BY <1>1, <2>3
  <1> QED BY <1>1, <1>2, <1>3, <1>4 DEF Inv, CapacityCovers, MeanSupported

\* is kept by the walk for the mean and its end,
LEMMA MeanInv == ASSUME Inv, MeanStep \/ MeanEnd PROVE Inv'
  <1>1. /\ shape' = shape /\ n1_count' = n1_count /\ n2_count' = n2_count
        /\ intervals' = intervals /\ freq_intervals' = freq_intervals
        /\ sample_count' = sample_count /\ samples' = samples /\ preds' = preds
        /\ capacity' = capacity /\ mean_guess' = mean_guess /\ use_mean' = use_mean
        /\ pc = "mean" /\ pc' \in {"mean", "sample"}
    BY DEF MeanStep, MeanEnd, counts, decided
  <1>2. Histograms' /\ Tallied' /\ Clamped'
    BY <1>1 DEF Inv, Histograms, Tallied, InInterval, Clamped, Within
  <1>3. pc' = "sample" => Staggered'
    <2> SUFFICES ASSUME MeanEnd PROVE Staggered'
      BY <1>1 DEF MeanStep
    <2>1. /\ data_pos' = r23 + r3 + QuantIntvSampleDistance - 2
          /\ offset_count' = QuantIntvSampleDistance - 2
          /\ n1_count' = 1 /\ n2_count' = 1
      BY <1>1 DEF MeanEnd, Start, Inv
    <2>2. r23' = r23 /\ r3' = r3
      BY <1>1 DEF r23, r2, r3
    <2>3. r23 \in Nat /\ r3 \in Nat
      BY ShapeFacts DEF Inv
    <2>4. offset_count' \in Nat \ {0}
      BY <2>1, Constants
    <2>5. data_pos' = 1 * r23 + 1 * r3 + offset_count'
      BY <2>1, <2>3, Constants
    <2> QED BY <2>1, <2>2, <2>4, <2>5 DEF Staggered
  <1>4. use_mean' = FALSE /\ CapacityCovers' /\ MeanSupported'
    BY <1>1 DEF Inv, CapacityCovers, MeanSupported
  <1> QED BY <1>1, <1>2, <1>3, <1>4 DEF Inv

\* The counters of a sample are in the histograms.
LEMMA Indices ==
  /\ \A p \in Nat : PredInterval(p) \in 0 .. Last
  /\ \A d \in Int : FreqInterval(d) \in 0 .. QuantIntvMeanCapacity - 1
  <1>1. ASSUME NEW p \in Nat PROVE PredInterval(p) \in 0 .. Last
    BY Constants DEF PredInterval
  <1>2. ASSUME NEW d \in Int PROVE FreqInterval(d) \in 0 .. QuantIntvMeanCapacity - 1
    <2> DEFINE index == IF d > 0 THEN d \div 2 + radius ELSE radius - 1 - ((-d) \div 2)
               top == QuantIntvMeanCapacity
    <2>1. index \in Int /\ top \in Nat /\ top > 3
      BY Constants
    <2>2. FreqInterval(d) = IF index <= 0 THEN 0 ELSE IF index >= top THEN top - 1 ELSE index
      BY DEF FreqInterval
    <2> HIDE DEF index, top
    <2>3. FreqInterval(d) \in 0 .. top - 1
      BY <2>1, <2>2
    <2> QED BY <2>3 DEF top
  <1> QED BY <1>1, <1>2

\* by every sample,
LEMMA SampleInv == ASSUME Inv, SampleStep PROVE Inv'
  <1>1. /\ shape' = shape /\ pc' = pc /\ pc = "sample" /\ sample_count' = sample_count + 1
        /\ capacity' = capacity /\ mean_guess' = mean_guess /\ use_mean' = use_mean
    BY DEF SampleStep, decided
  <1>2. PICK p \in PredIndices, d \in Diffs :
          /\ intervals' = [intervals EXCEPT ![PredInterval(p)] = @ + 1]
          /\ freq_intervals' = [freq_intervals EXCEPT ![FreqInterval(d)] = @ + 1]
          /\ samples' = [samples EXCEPT ![d] = @ + 1]
          /\ preds' = [preds EXCEPT ![p] = @ + 1]
    BY DEF SampleStep
  <1> DEFINE x == PredInterval(p)
             y == FreqInterval(d)
             B == DiffBound
  <1>3. /\ x \in 0 .. Last /\ y \in 0 .. QuantIntvMeanCapacity - 1
        /\ d \in -B .. B /\ B \in Nat /\ d \in Int /\ p \in 0 .. PredBound
    <2>1. p \in Nat /\ p \in 0 .. PredBound /\ d \in -B .. B /\ B \in Nat
      BY Constants
    <2>2. d \in Int
      BY <2>1
    <2> QED BY <2>1, <2>2, Indices
  <1>4. Histograms
    BY DEF Inv
  <1>5. Histograms'
    <2>1. intervals' \in [0 .. Last -> Nat]
      BY <1>2, <1>3, <1>4 DEF Histograms
    <2>2. freq_intervals' \in [0 .. QuantIntvMeanCapacity - 1 -> Nat]
      BY <1>2, <1>3, <1>4 DEF Histograms
    <2>3. samples' \in [Diffs -> Nat] /\ sample_count' \in Nat
      BY <1>1, <1>2, <1>4 DEF Histograms
    <2>4. preds' \in [0 .. PredBound -> Nat]
      BY <1>2, <1>3, <1>4 DEF Histograms
    <2> QED BY <2>1, <2>2, <2>3, <2>4 DEF Histograms
  <1> HIDE DEF x, y
  <1>6. Clamped'
    <2> SUFFICES ASSUME NEW n \in 0 .. Last PROVE Within(n)' = Sum(intervals', 0, n - 1)
      BY DEF Clamped, Within
    <2> DEFINE f == PredsBelow(n)
               g == PredsBelow(n)'
               z == IF p < n THEN p ELSE -1
    <2>1. /\ 0 \in Int /\ n - 1 \in Int /\ n - 1 >= 0 - 1 /\ PredBound \in Int
          /\ PredBound >= 0 - 1 /\ n \in Int /\ p \in Int
      BY <1>3, Constants
    <2>2. \A i \in 0 .. n - 1 : /\ intervals[i] \in Nat
                                /\ intervals'[i] = intervals[i] + (IF i = x THEN 1 ELSE 0)
      <3>1. \A i \in 0 .. n - 1 : i \in 0 .. Last
        BY Constants
      <3> QED BY <3>1, <1>2, <1>4 DEF Histograms, x
    <2>3. Sum(intervals', 0, n - 1)
            = Sum(intervals, 0, n - 1) + (IF x \in 0 .. n - 1 THEN 1 ELSE 0)
      BY <2>1, <2>2, SumIncremented
    <2>4. ASSUME NEW q \in 0 .. PredBound
          PROVE  f[q] \in Nat /\ g[q] = f[q] + (IF q = z THEN 1 ELSE 0)
      <3>1. preds[q] \in Nat /\ preds'[q] = preds[q] + (IF q = p THEN 1 ELSE 0)
        <4>1. preds \in [0 .. PredBound -> Nat]
          BY <1>4 DEF Histograms
        <4>2. preds' = [preds EXCEPT ![p] = @ + 1]
          BY <1>2
        <4>3. preds'[q] = IF q = p THEN preds[q] + 1 ELSE preds[q]
          BY <4>1, <4>2
        <4>4. preds[q] \in Nat
          BY <4>1
        <4> QED BY <4>3, <4>4
      <3>2. /\ f[q] = IF q < n THEN preds[q] ELSE 0
            /\ g[q] = IF q < n THEN preds'[q] ELSE 0
        BY DEF PredsBelow
      <3> HIDE DEF f, g
      <3>3. q \in Int /\ q # -1 /\ (q = z <=> q = p /\ q < n)
        BY <2>1
      <3> QED BY <3>1, <3>2, <3>3
    <2> HIDE DEF f, g, z
    <2>5. Sum(g, 0, PredBound) = Sum(f, 0, PredBound) + (IF z \in 0 .. PredBound THEN 1 ELSE 0)
      BY <2>1, <2>4, SumIncremented
    <2>6. z \in 0 .. PredBound <=> p < n
      BY <1>3, <2>1 DEF z
    <2>7. x \in 0 .. n - 1 <=> p < n
      <3>1. x = IF p >= Last + 1 THEN Last ELSE p
        BY Constants DEF x, PredInterval
      <3> QED BY <3>1, <1>3, <2>1, Constants
    <2>8. Sum(f, 0, PredBound) = Sum(intervals, 0, n - 1)
      BY DEF Inv, Clamped, Within, PredsBelow, f
    <2>9. Sum(g, 0, PredBound) = Within(n)'
      BY DEF Within, PredsBelow, g
    <2> QED BY <2>3, <2>5, <2>6, <2>7, <2>8, <2>9
  <1>7. Tallied'
    <2> SUFFICES ASSUME NEW i \in 0 .. QuantIntvMeanCapacity - 1
                 PROVE  freq_intervals'[i] = Sum(InInterval(i)', -B, B)
      BY DEF Tallied
    <2> DEFINE f == InInterval(i)
               g == InInterval(i)'
               z == IF y = i THEN d ELSE B + 1
    <2>1. freq_intervals[i] = Sum(f, -B, B)
      BY DEF Inv, Tallied
    <2>2. freq_intervals'[i] = freq_intervals[i] + (IF i = y THEN 1 ELSE 0)
      BY <1>2, <1>4 DEF Histograms, y
    <2>3. ASSUME NEW e \in -B .. B
          PROVE  f[e] \in Nat /\ g[e] = f[e] + (IF e = z THEN 1 ELSE 0)
      <3>1. f[e] = IF e \in Diffs /\ FreqInterval(e) = i THEN samples[e] ELSE 0
        BY DEF InInterval
      <3>2. g[e] = IF e \in Diffs /\ FreqInterval(e) = i THEN samples'[e] ELSE 0
        BY DEF InInterval, B, FreqInterval, radius
      <3>3. e \in Diffs => /\ samples[e] \in Nat
                           /\ samples'[e] = samples[e] + (IF e = d THEN 1 ELSE 0)
        BY <1>2, <1>4 DEF Histograms
      <3>4. e # B + 1 /\ e \in Int
        BY <1>3
      <3> HIDE DEF f, g
      <3>5. CASE e = d
        <4>1. FreqInterval(e) = y /\ e \in Diffs
          BY <3>5 DEF y
        <4> QED BY <4>1, <3>1, <3>2, <3>3, <3>4, <3>5
      <3>6. CASE e # d
        <4>1. e # z
          BY <3>4, <3>6
        <4> QED BY <4>1, <3>1, <3>2, <3>3, <3>6
      <3> QED BY <3>5, <3>6
    <2>4. B \in Int /\ -B \in Int /\ B >= -B - 1
      BY <1>3
    <2> HIDE DEF f, g, z, B
    <2>5. Sum(g, -B, B) = Sum(f, -B, B) + (IF z \in -B .. B THEN 1 ELSE 0)
      BY <2>3, <2>4, SumIncremented
    <2>6. z \in -B .. B <=> y = i
      BY <1>3, <2>4 DEF z
    <2>7. freq_intervals'[i] = Sum(g, -B, B)
      BY <2>1, <2>2, <2>5, <2>6
    <2> QED BY <2>7 DEF g
  <1>8. Staggered'
    <2> DEFINE D == QuantIntvSampleDistance
               n1 == n1_count
               n2 == n2_count
               o == offset_count
               s1 == (n1 + 1 + 1) % D
               wide == r23
               row == r3
    <2>1. /\ wide \in Nat /\ row \in Nat /\ wide = r2 * row /\ r2 \in Nat
          /\ wide' = wide /\ row' = row
      <3>1. r23' = r23 /\ r3' = r3
        BY <1>1 DEF r23, r2, r3
      <3> QED BY <3>1, ShapeFacts DEF Inv
    <2>2. /\ n1 \in Nat \ {0} /\ n2 \in Nat \ {0} /\ o \in Nat \ {0}
          /\ data_pos = n1 * wide + n2 * row + o /\ D \in Nat /\ D > 2
      BY <1>1, Constants DEF Inv, Staggered
    <2>3. CASE ~(o + D >= row)
      <3>1. /\ n1_count' = n1 /\ n2_count' = n2 /\ offset_count' = o + D
            /\ data_pos' = data_pos + D
        BY <2>3 DEF SampleStep
      <3> HIDE DEF n1, n2, o, D, wide, row
      <3>2. n1 * wide \in Nat /\ n2 * row \in Nat
        BY <2>1, <2>2
      <3>3. data_pos' = n1 * wide + n2 * row + (o + D) /\ o + D \in Nat \ {0}
        BY <2>2, <3>2, <3>1
      <3>4. data_pos' = n1_count' * wide' + n2_count' * row' + offset_count'
        BY <3>1, <3>3, <2>1
      <3> QED BY <2>2, <3>1, <3>3, <3>4 DEF Staggered, wide, row, n1, n2
    <2>4. CASE o + D >= row
      <3> DEFINE m1 == IF n2 + 1 = r2 THEN n1 + 1 ELSE n1
                 m2 == IF n2 + 1 = r2 THEN 1 ELSE n2 + 1
                 t == (m1 + m2) % D
                 jump == IF n2 + 1 = r2 THEN row ELSE 0
      <3>2. m1 \in Nat \ {0} /\ m2 \in Nat \ {0}
        BY <2>2
      <3>3. t \in 0 .. D - 1
        <4> HIDE DEF m1, m2, D
        <4> QED BY <3>2, <2>2
      <3>1. /\ n1_count' = m1 /\ n2_count' = m2 /\ offset_count' = D - t
            /\ data_pos' = data_pos + jump + ((row + D - (o + D)) + (D - t))
        <4>1. /\ n1_count' = m1 /\ n2_count' = m2 /\ offset_count' = RowOffset(t)
              /\ data_pos' = data_pos + jump + ((row + D - (o + D)) + (D - t))
          BY <2>4 DEF SampleStep, RowStep
        <4>2. t # D
          <5> HIDE DEF t, D
          <5> QED BY <3>3, <2>2
        <4> QED BY <4>1, <4>2 DEF RowOffset
      <3>4. m1 * wide + m2 * row = n1 * wide + n2 * row + row + jump
        <4> HIDE DEF n1, n2, wide, row
        <4>1. CASE n2 + 1 = r2
          <5>1. (n1 + 1) * wide = n1 * wide + wide /\ n1 * wide \in Nat
            BY <2>1, <2>2
          <5>2. wide = n2 * row + row /\ n2 * row \in Nat
            BY <4>1, <2>1, <2>2
          <5>3. m1 = n1 + 1 /\ m2 = 1 /\ jump = row
            BY <4>1
          <5> QED BY <5>1, <5>2, <5>3, <2>1
        <4>2. CASE n2 + 1 # r2
          <5>1. (n2 + 1) * row = n2 * row + row /\ n2 * row \in Nat /\ n1 * wide \in Nat
            BY <2>1, <2>2
          <5>2. m1 = n1 /\ m2 = n2 + 1 /\ jump = 0
            BY <4>2
          <5> QED BY <5>1, <5>2, <2>1
        <4> QED BY <4>1, <4>2
      <3>5. /\ n1 * wide \in Nat /\ n2 * row \in Nat /\ jump \in Nat
            /\ m1 * wide \in Nat /\ m2 * row \in Nat
        <4> HIDE DEF m1, m2
        <4> QED BY <2>1, <2>2, <3>2
      <3> HIDE DEF m1, m2, t, jump, D, n1, n2, o, wide, row
      <3>6. data_pos' = m1 * wide + m2 * row + (D - t) /\ D - t \in Nat \ {0}
        <4> DEFINE a == n1 * wide
                   b == n2 * row
                   c == m1 * wide
                   q == m2 * row
        <4>1. /\ a \in Nat /\ b \in Nat /\ c \in Nat /\ q \in Nat
              /\ c + q = a + b + row + jump /\ data_pos = a + b + o
          BY <2>2, <3>4, <3>5
        <4> HIDE DEF a, b, c, q
        <4>2. data_pos' = c + q + (D - t)
          BY <4>1, <3>1, <3>3, <3>5, <2>1, <2>2
        <4> QED BY <4>2, <3>3, <2>2 DEF c, q
      <3>7. data_pos' = n1_count' * wide' + n2_count' * row' + offset_count'
        BY <3>1, <3>6, <2>1
      <3> QED BY <3>1, <3>2, <3>6, <3>7 DEF Staggered, wide, row
    <2> QED BY <2>3, <2>4
  <1>9. use_mean' = FALSE /\ CapacityCovers' /\ MeanSupported'
    BY <1>1 DEF Inv, CapacityCovers, MeanSupported
  <1> QED BY <1>1, <1>5, <1>6, <1>7, <1>8, <1>9 DEF Inv

\* and by the decision.
LEMMA DecideInv == ASSUME Inv, Decide PROVE Inv'
  <1>1. /\ shape' = shape /\ intervals' = intervals /\ freq_intervals' = freq_intervals
        /\ sample_count' = sample_count /\ samples' = samples /\ preds' = preds /\ pc' = "done"
        /\ capacity' = estimate_quantization_intervals /\ mean_guess' = MeanShift
        /\ use_mean' = (sample_count > 0
                         /\ (2 * max_sum > sample_count \/ max_sum > intervals[0]))
    BY DEF Decide, walk, counts
  <1>2. Histograms /\ Tallied /\ Clamped
    BY DEF Inv
  <1>3. Histograms' /\ Tallied' /\ Clamped'
    BY <1>1, <1>2 DEF Histograms, Tallied, InInterval, Clamped, Within
  <1>4. CapacityCovers'
    <2> DEFINE cap == capacity'
    <2>1. /\ cap % 2 = 0 /\ cap >= FewestIntervals
          /\ \/ Within(cap \div 2 - 1) * QuantIntvAccThreshold[2]
                  > sample_count * QuantIntvAccThreshold[1]
             \/ cap >= 4 * QuantIntvSampleCapacity
          /\ cap > FewestIntervals =>
               Within(cap \div 8) * QuantIntvAccThreshold[2]
                 <= sample_count * QuantIntvAccThreshold[1]
      BY <1>1, <1>2, CapacitySuffices
    <2> HIDE DEF cap
    <2>2. \A n : Sum([p \in 0 .. PredBound |-> IF p < n THEN preds'[p] ELSE 0], 0, PredBound)
                   = Within(n)
      BY <1>1 DEF Within
    <2> QED BY <1>1, <2>1, <2>2 DEF CapacityCovers, Within, cap
  <1>5. MeanSupported'
    <2> SUFFICES ASSUME use_mean' PROVE MeanSupported'
      BY DEF MeanSupported
    <2> DEFINE guess == mean_guess'
               near == [e \in -DiffBound .. DiffBound |->
                          IF e \in Diffs /\ e - 2 * guess \in -2 .. 2 THEN samples[e] ELSE 0]
               all == Sum(near, -DiffBound, DiffBound)
    <2>1. sample_count > 0 /\ (2 * max_sum > sample_count \/ max_sum > intervals[0])
      BY <1>1
    <2>2. sample_count \in Nat /\ intervals[0] \in Nat
      <3>1. 0 \in 0 .. Last
        BY Constants
      <3> QED BY <3>1, <1>2 DEF Histograms
    <2>3. max_sum \in Nat
      BY <1>2, MaxSumNat
    <2>4. max_sum > 0
      BY <2>1, <2>2, <2>3
    <2>5. all \in Nat /\ max_sum \in Nat /\ max_sum <= all
      BY <2>4, <1>1, <1>2, PairIsNear
    <2> HIDE DEF all
    <2>6. all > 0 /\ (2 * all > sample_count \/ all > intervals[0])
      BY <2>1, <2>2, <2>4, <2>5
    <2> QED BY <2>6, <1>1 DEF MeanSupported, all
  <1> QED BY <1>1, <1>3, <1>4, <1>5 DEF Inv

\* The invariant holds in every state.
THEOREM Invariance == Spec => []Inv
  <1>1. Inv /\ [Next]_vars => Inv'
    <2> SUFFICES ASSUME Inv, [Next]_vars PROVE Inv'
      OBVIOUS
    <2>1. CASE UNCHANGED vars
      <3>1. /\ shape' = shape /\ pc' = pc /\ UNCHANGED walk /\ UNCHANGED counts
            /\ UNCHANGED decided
        BY <2>1 DEF vars
      <3>2. Histograms' /\ Tallied' /\ Clamped'
        BY <3>1 DEF Inv, Histograms, Tallied, InInterval, Clamped, Within, counts
      <3>3. pc' = "sample" => Staggered'
        BY <3>1 DEF Inv, Staggered, walk, r23, r2, r3
      <3>4. CapacityCovers' /\ MeanSupported'
        BY <3>1 DEF Inv, CapacityCovers, Within, MeanSupported, counts, decided
      <3> QED BY <3>1, <3>2, <3>3, <3>4 DEF Inv, walk, decided
    <2>2. CASE Finished
      BY <2>1, <2>2 DEF Finished
    <2> QED BY <2>1, <2>2, MeanInv, SampleInv, DecideInv DEF Next
  <1> QED BY <1>1, InitInv, PTL DEF Spec

\* The samples and all their neighbours are read inside the array.
THEOREM WalkReadsInside == Spec => []ReadsInside
  <1>1. Inv => ReadsInside
    <2> SUFFICES ASSUME Inv, pc = "sample", Inside(data_pos)
                 PROVE  Inside(data_pos - r23 - r3 - 1)
      BY DEF ReadsInside
    <2>1. Staggered /\ r23 \in Nat /\ r3 \in Nat /\ len \in Nat
      BY ShapeFacts DEF Inv
    <2> DEFINE wide == r23
               row == r3
               a == n1_count * wide
               b == n2_count * row
    <2>2. a \in Nat /\ a >= wide /\ b \in Nat /\ b >= row
      <3> HIDE DEF wide, row
      <3>1. n1_count \in Nat \ {0} /\ n2_count \in Nat \ {0} /\ wide \in Nat /\ row \in Nat
        BY <2>1 DEF Staggered, wide, row
      <3>2. n1_count * wide = (n1_count - 1) * wide + wide /\ (n1_count - 1) * wide \in Nat
        BY <3>1
      <3>3. n2_count * row = (n2_count - 1) * row + row /\ (n2_count - 1) * row \in Nat
        BY <3>1
      <3> QED BY <3>1, <3>2, <3>3
    <2>3. data_pos = a + b + offset_count /\ offset_count \in Nat \ {0}
      BY <2>1 DEF Staggered
    <2>4. data_pos \in 0 .. len - 1
      BY DEF Inside
    <2> HIDE DEF a, b, wide, row
    <2>5. wide \in Nat /\ row \in Nat
      BY <2>1 DEF wide, row
    <2>6. data_pos - wide - row - 1 \in 0 .. len - 1
      BY <2>1, <2>2, <2>3, <2>4, <2>5
    <2> QED BY <2>6 DEF Inside, wide, row
  <1> QED BY <1>1, Invariance, PTL

\* The capacity decided has a code for more than the threshold of the samples,
\* each taken as far off as it is, or is the largest the code decides on.
THEOREM EnoughIntervals == Spec => []CapacityCovers
  <1>1. Inv => CapacityCovers
    BY DEF Inv
  <1> QED BY <1>1, Invariance, PTL

\* The mean gets a code only when samples near it support it.
THEOREM MeanHasSupport == Spec => []MeanSupported
  <1>1. Inv => MeanSupported
    BY DEF Inv
  <1> QED BY <1>1, Invariance, PTL

----------------------------------------------------------------------------
(* Recursion.                                                             *)

\* Induction on a rank.
LEMMA RankInduction ==
  ASSUME NEW D, NEW r, \A i \in D : r[i] \in Nat,
         NEW T, \A i \in D : (\A j \in D : r[j] < r[i] => j \in T) => i \in T
  PROVE  \A i \in D : i \in T
  <1> DEFINE R == {r[i] : i \in D \ T}
  <1> SUFFICES ASSUME NEW e \in D, e \notin T PROVE FALSE
    OBVIOUS
  <1>1. R \subseteq Nat /\ R # {}
    OBVIOUS
  <1>2. PICK m \in R : \A n \in R : m <= n
    <2> HIDE DEF R
    <2> QED BY <1>1, Least
  <1>3. PICK i \in D \ T : m = r[i]
    OBVIOUS
  <1>4. ASSUME NEW j \in D, r[j] < r[i] PROVE j \in T
    <2>1. j \notin T => m <= r[j]
      BY <1>2
    <2> QED BY <2>1, <1>3, <1>4
  <1> QED BY <1>3, <1>4

\* The clauses of a recursive definition: at the places in Stop a base, at others
\* a step from what is at the next place, which is lower in rank.
Descends(D, V, r, N, Stop, base, next, step) ==
  /\ N \in Nat /\ \A i \in D : r[i] \in Nat /\ r[i] < N
  /\ \A i \in D : i \in Stop => base[i] \in V
  /\ \A i \in D : i \notin Stop =>
       next[i] \in D /\ r[next[i]] < r[i] /\ \A w \in V : step[i][w] \in V
Solves(g, D, Stop, base, next, step) ==
  \A i \in D : g[i] = IF i \in Stop THEN base[i] ELSE step[i][g[next[i]]]

\* There is a function that satisfies them.
LEMMA RecursionExists ==
  ASSUME NEW D, NEW V, NEW r, NEW N, NEW Stop, NEW base, NEW next, NEW step,
         Descends(D, V, r, N, Stop, base, next, step)
  PROVE  \E g \in [D -> V] : Solves(g, D, Stop, base, next, step)
  <1>0. /\ N \in Nat /\ \A i \in D : r[i] \in Nat /\ r[i] < N
        /\ \A i \in D : i \in Stop => base[i] \in V
        /\ \A i \in D : i \notin Stop =>
             next[i] \in D /\ r[next[i]] < r[i] /\ \A w \in V : step[i][w] \in V
    BY DEF Descends
  <1> DEFINE Below(n) == {i \in D : r[i] < n}
             Good(n, g) == \A i \in Below(n) :
                             g[i] = IF i \in Stop THEN base[i] ELSE step[i][g[next[i]]]
             S == {n \in Nat : \E g \in [Below(n) -> V] : Good(n, g)}
  <1>1. 0 \in S
    <2>1. Below(0) = {}
      BY <1>0
    <2>2. [i \in {} |-> i] \in [Below(0) -> V] /\ Good(0, [i \in {} |-> i])
      BY <2>1
    <2> QED BY <2>2
  <1>2. ASSUME NEW n \in Nat, n \in S PROVE n + 1 \in S
    <2>1. PICK g \in [Below(n) -> V] : Good(n, g)
      BY <1>2
    <2> DEFINE h == [i \in Below(n + 1) |->
                       IF i \in Below(n) THEN g[i]
                       ELSE IF i \in Stop THEN base[i] ELSE step[i][g[next[i]]]]
    <2>2. \A i \in Below(n + 1) : i \in D /\ r[i] <= n /\ (i \notin Below(n) => r[i] = n)
      BY <1>0
    <2>3. \A i \in Below(n + 1) : i \notin Stop =>
            /\ next[i] \in Below(n) /\ next[i] \in Below(n + 1) /\ g[next[i]] \in V
            /\ step[i][g[next[i]]] \in V
      <3> SUFFICES ASSUME NEW i \in Below(n + 1), i \notin Stop
                   PROVE  /\ next[i] \in Below(n) /\ next[i] \in Below(n + 1)
                          /\ g[next[i]] \in V /\ step[i][g[next[i]]] \in V
        OBVIOUS
      <3>1. /\ next[i] \in D /\ r[next[i]] < r[i] /\ r[i] <= n
            /\ r[i] \in Nat /\ r[next[i]] \in Nat
        BY <1>0, <2>2
      <3>2. next[i] \in Below(n) /\ next[i] \in Below(n + 1)
        BY <3>1
      <3>3. g[next[i]] \in V
        BY <3>2
      <3> QED BY <1>0, <3>1, <3>2, <3>3
    <2>4. h \in [Below(n + 1) -> V]
      <3>1. ASSUME NEW i \in Below(n + 1)
            PROVE  (IF i \in Below(n) THEN g[i]
                    ELSE IF i \in Stop THEN base[i] ELSE step[i][g[next[i]]]) \in V
        <4> HIDE DEF Below
        <4> QED BY <1>0, <2>2, <2>3
      <3> QED BY <3>1
    <2>5. Good(n + 1, h)
      <3> SUFFICES ASSUME NEW i \in Below(n + 1)
                   PROVE  h[i] = IF i \in Stop THEN base[i] ELSE step[i][h[next[i]]]
        OBVIOUS
      <3>1. h[i] = IF i \in Stop THEN base[i] ELSE step[i][g[next[i]]]
        <4> HIDE DEF Below
        <4> QED BY <2>1
      <3>2. i \notin Stop => h[next[i]] = g[next[i]]
        <4> HIDE DEF Below
        <4> QED BY <2>3
      <3> QED BY <3>1, <3>2
    <2> HIDE DEF Below, h, Good
    <2> QED BY <2>4, <2>5
  <1> HIDE DEF S
  <1>3. N \in S
    BY <1>0, <1>1, <1>2, SetInduction
  <1>4. Below(N) = D
    BY <1>0
  <1> QED BY <1>3, <1>4 DEF S, Solves

----------------------------------------------------------------------------
(* The packer.                                                             *)

\* The memory holds the bits from its beginning.
Holds(ones, bits) == \A b \in 1 .. Len(bits) : bits[b] = 1 <=> b - 1 \in ones

\* A packer that has written bits: what is free of the byte begun is zero.
Packs(k, bits) ==
  /\ DOMAIN k = {"p", "lackBits", "ones", "outSize"}
  /\ k.p \in Nat /\ k.lackBits \in 0 .. ByteBits - 1
  /\ BitsWritten(k) = Len(bits) /\ k.outSize = Bytes(Len(bits))
  /\ Holds(k.ones, bits)
  /\ \A b \in Len(bits) .. Len(bits) + k.lackBits - 1 : b \notin k.ones

\* Whole bytes and what is left.
LEMMA InBytes ==
  ASSUME NEW n \in Nat
  PROVE  \E q \in Nat : \E r \in 0 .. ByteBits - 1 :
           /\ n = ByteBits * q + r /\ n \div ByteBits = q /\ n % ByteBits = r
  <1> DEFINE B == ByteBits
             q == n \div B
             r == n % B
  <1>1. B \in Nat \ {0}
    BY PackerAssumption
  <1> HIDE DEF B
  <1>2. q \in Nat /\ r \in 0 .. B - 1 /\ n = B * q + r
    BY <1>1
  <1> QED BY <1>2 DEF B

\* How many bytes some bits take, and what the last one lacks.
LEMMA BytesFacts ==
  ASSUME NEW q \in Nat, NEW r \in 0 .. ByteBits - 1
  PROVE  /\ Bytes(ByteBits * q + r) = (IF r = 0 THEN q ELSE q + 1)
         /\ Lacking(ByteBits * q + r) = (IF r = 0 THEN 0 ELSE ByteBits - r)
         /\ (ByteBits * q + r) \div ByteBits = q
         /\ Bytes(ByteBits * q) = q
  <1> DEFINE B == ByteBits
             f == B * q
  <1>1. B \in Nat \ {0} /\ r \in 0 .. B - 1
    BY PackerAssumption
  <1> HIDE DEF B
  <1>2. f \in Nat /\ B * (q + 1) = f + B /\ q + 1 \in Nat
    BY <1>1
  <1>3. \A a \in Nat : \A e \in 0 .. B - 1 : (B * a + e) \div B = a /\ (B * a + e) % B = e
    BY <1>1
  <1>4. (f + r) \div B = q /\ (f + r) % B = r
    BY <1>1, <1>3
  <1>5. (f + r + B - 1) \div B = IF r = 0 THEN q ELSE q + 1
    <2>1. CASE r = 0
      <3>1. f + r + B - 1 = B * q + (B - 1) /\ B - 1 \in 0 .. B - 1
        <4>1. f + r + B - 1 = f + (B - 1)
          <5> HIDE DEF f
          <5> QED BY <2>1, <1>1, <1>2
        <4> QED BY <4>1, <1>1
      <3> QED BY <2>1, <3>1, <1>3
    <2>2. CASE r # 0
      <3>1. f + r + B - 1 = B * (q + 1) + (r - 1) /\ r - 1 \in 0 .. B - 1
        <4>1. f + r + B - 1 = (f + B) + (r - 1)
          <5> HIDE DEF f
          <5> QED BY <2>2, <1>1, <1>2
        <4> QED BY <4>1, <2>2, <1>1, <1>2
      <3> QED BY <2>2, <3>1, <1>2, <1>3
    <2> QED BY <2>1, <2>2
  <1>6. (f + B - 1) \div B = q
    <2>1. f + B - 1 = B * q + (B - 1) /\ B - 1 \in 0 .. B - 1
      <3>1. f + B - 1 = f + (B - 1)
        <4> HIDE DEF f
        <4> QED BY <1>1, <1>2
      <3> QED BY <3>1, <1>1
    <2> QED BY <2>1, <1>3
  <1> QED BY <1>4, <1>5, <1>6 DEF Bytes, Lacking, B, f

\* What follows what is held.
LEMMA HoldsMore ==
  ASSUME NEW bits \in Seq({0, 1}), NEW more \in Seq({0, 1}), NEW ones,
         Holds(ones, bits),
         \A b \in 1 .. Len(more) : more[b] = 1 <=> Len(bits) + (b - 1) \in ones
  PROVE  Holds(ones, bits \o more)
  <1>1. Len(bits) \in Nat /\ Len(more) \in Nat /\ Len(bits \o more) = Len(bits) + Len(more)
    OBVIOUS
  <1>2. ASSUME NEW b \in 1 .. Len(bits) + Len(more)
        PROVE  (bits \o more)[b] = 1 <=> b - 1 \in ones
    <2>1. CASE b <= Len(bits)
      <3>1. (bits \o more)[b] = bits[b] /\ b \in 1 .. Len(bits)
        BY <1>1, <2>1
      <3> QED BY <3>1 DEF Holds
    <2>2. CASE b > Len(bits)
      <3> DEFINE e == b - Len(bits)
      <3>1. (bits \o more)[b] = more[e] /\ e \in 1 .. Len(more)
        BY <1>1, <2>2
      <3>2. Len(bits) + (e - 1) = b - 1
        BY <1>1
      <3> QED BY <3>1, <3>2
    <2> QED BY <1>1, <2>1, <2>2
  <1> QED BY <1>1, <1>2 DEF Holds

\* A word stored on a byte boundary.
LEMMA AlignedAppends ==
  ASSUME NEW k, k.p \in Nat, k.outSize = k.p,
         NEW ones, NEW bits \in Seq({0, 1}), Len(bits) = ByteBits * k.p, Holds(ones, bits),
         NEW more \in Seq({0, 1}), Len(more) <= WordBits
  PROVE  Packs(PackAligned(k, ones, Word(more), Len(more)), bits \o more)
  <1> DEFINE B == ByteBits
             p == k.p
             f == B * p
             n == Len(more)
             ones2 == StoreWord(ones, p, Word(more))
             k2 == PackAligned(k, ones, Word(more), n)
  <1>1. B \in Nat \ {0} /\ n \in Nat /\ f \in Nat /\ n <= WordBits /\ WordBits \in Nat
    <2>1. B \in Nat \ {0} /\ WordBytes \in Nat \ {0}
      BY PackerAssumption
    <2>2. WordBits \in Nat
      BY <2>1 DEF WordBits
    <2> QED BY <2>1, <2>2
  <1>2. PICK q \in Nat, r \in 0 .. B - 1 : n = B * q + r /\ n \div B = q
    BY <1>1, InBytes
  <1>3. /\ k2.p = p + q /\ k2.lackBits = (IF r = 0 THEN 0 ELSE B - r)
        /\ k2.outSize = p + (IF r = 0 THEN q ELSE q + 1) /\ k2.ones = ones2
        /\ DOMAIN k2 = {"p", "lackBits", "ones", "outSize"}
    <2>1. /\ k2.p = p + n \div B /\ k2.lackBits = Lacking(n) /\ k2.outSize = p + Bytes(n)
          /\ k2.ones = ones2 /\ DOMAIN k2 = {"p", "lackBits", "ones", "outSize"}
      BY DEF PackAligned
    <2>2. Bytes(n) = (IF r = 0 THEN q ELSE q + 1) /\ Lacking(n) = IF r = 0 THEN 0 ELSE B - r
      BY <1>2, BytesFacts
    <2> QED BY <1>2, <2>1, <2>2
  <1>4. Len(bits \o more) = f + n /\ f + n = B * (p + q) + r
    <2> DEFINE g == B * q
    <2>1. B * (p + q) = f + g /\ g \in Nat
      <3>1. \A x, y, z \in Nat : x * (y + z) = x * y + x * z /\ x * z \in Nat
        OBVIOUS
      <3>2. B \in Nat /\ p \in Nat /\ q \in Nat
        BY <1>1
      <3> QED BY <3>1, <3>2
    <2>2. n = g + r /\ Len(bits) = f /\ Len(bits \o more) = Len(bits) + n
      BY <1>2
    <2> HIDE DEF f, g, n
    <2> QED BY <2>1, <2>2, <1>1, <1>2
  <1>5. Bytes(f + n) = IF r = 0 THEN p + q ELSE (p + q) + 1
    BY <1>4, <1>2, BytesFacts
  <1>6. ones2 = (ones \ (f .. f + WordBits - 1)) \cup {f + b : b \in Word(more)}
    BY DEF StoreWord
  <1>7. \A b : b \in Word(more) <=> b \in 0 .. n - 1 /\ more[b + 1] = 1
    BY DEF Word
  <1> HIDE DEF B, p, f, n, k2, ones2
  <1>8. \A b \in 0 .. f - 1 : b \in ones2 <=> b \in ones
    <2> SUFFICES ASSUME NEW b \in 0 .. f - 1 PROVE b \in ones2 <=> b \in ones
      OBVIOUS
    <2>1. b \notin f .. f + WordBits - 1
      BY <1>1
    <2>2. b \notin {f + e : e \in Word(more)}
      BY <1>1, <1>7
    <2> QED BY <2>1, <2>2, <1>6
  <1>9. \A e \in 0 .. WordBits - 1 : f + e \in ones2 <=> e \in Word(more)
    <2> SUFFICES ASSUME NEW e \in 0 .. WordBits - 1
                 PROVE f + e \in ones2 <=> e \in Word(more)
      OBVIOUS
    <2>1. f + e \in f .. f + WordBits - 1
      BY <1>1
    <2>2. \A d \in Word(more) : f + d = f + e => d = e
      BY <1>1, <1>7
    <2> QED BY <2>1, <2>2, <1>6
  <1>10. Holds(ones2, bits \o more)
    <2>1. Holds(ones2, bits)
      BY <1>1, <1>8 DEF Holds, f, B, p
    <2>2. ASSUME NEW b \in 1 .. n PROVE more[b] = 1 <=> f + (b - 1) \in ones2
      <3>1. b - 1 \in 0 .. n - 1 /\ b - 1 \in 0 .. WordBits - 1 /\ (b - 1) + 1 = b
        BY <1>1
      <3>2. f + (b - 1) \in ones2 <=> b - 1 \in Word(more)
        BY <3>1, <1>9
      <3>3. b - 1 \in Word(more) <=> more[(b - 1) + 1] = 1
        BY <3>1, <1>7
      <3> QED BY <3>1, <3>2, <3>3
    <2> QED BY <2>1, <2>2, HoldsMore DEF n, f, B, p
  <1>11. BitsWritten(k2) = f + n
    <2>1. B - (B - r) = r /\ (r # 0 => B - r # 0)
      BY <1>1, <1>2
    <2>2. BitsWritten(k2) = B * (p + q) + (IF k2.lackBits = 0 THEN 0 ELSE B - k2.lackBits)
      BY <1>3 DEF BitsWritten, B
    <2>3. (IF k2.lackBits = 0 THEN 0 ELSE B - k2.lackBits) = r
      BY <2>1, <1>3
    <2> QED BY <2>2, <2>3, <1>4
  <1>12. ASSUME NEW b \in f + n .. f + n + k2.lackBits - 1 PROVE b \notin ones2
    <2>1. r # 0 /\ k2.lackBits = B - r
      <3>1. CASE r = 0
        BY <3>1, <1>1, <1>3
      <3> QED BY <3>1, <1>3
    <2>2. n + (B - r) <= WordBits
      <3> DEFINE g == B * q
                 W == WordBytes
      <3>1. WordBits = B * W /\ W \in Nat
        BY PackerAssumption DEF WordBits, B
      <3>2. q < W
        <4> SUFFICES ASSUME q >= W PROVE FALSE
          BY <1>2, <3>1
        <4>1. B * q >= B * W
          <5> HIDE DEF W
          <5> QED BY <1>1, <1>2, <3>1
        <4>2. g \in Nat /\ n = g + r /\ g >= WordBits
          BY <4>1, <3>1, <1>1, <1>2
        <4> HIDE DEF g, W
        <4> QED BY <4>2, <2>1, <1>1, <1>2
      <3>3. B * (q + 1) <= B * W /\ B * (q + 1) = g + B /\ g \in Nat
        <4> HIDE DEF W
        <4> QED BY <1>1, <1>2, <3>1, <3>2
      <3>4. n = g + r
        BY <1>2
      <3> HIDE DEF g, W
      <3> QED BY <3>1, <3>3, <3>4, <1>1, <1>2
    <2> DEFINE e == b - f
    <2>3. e \in 0 .. WordBits - 1 /\ ~(e \in 0 .. n - 1) /\ b = f + e
      BY <2>1, <2>2, <1>1, <1>2
    <2> QED BY <2>3, <1>7, <1>9
  <1>13. k2.p \in Nat /\ k2.lackBits \in 0 .. B - 1
    BY <1>1, <1>2, <1>3 DEF p
  <1>14. k2.outSize = Bytes(f + n)
    BY <1>2, <1>3, <1>5 DEF p
  <1>15. Packs(k2, bits \o more)
    BY <1>3, <1>4, <1>10, <1>11, <1>12, <1>13, <1>14 DEF Packs, B
  <1> QED BY <1>15 DEF k2, n

\* Bits put into what is free of the byte begun.
LEMMA FillAppends ==
  ASSUME NEW k, NEW bits \in Seq({0, 1}), Packs(k, bits), k.lackBits # 0,
         NEW c \in Seq({0, 1}), NEW more \in Seq({0, 1}), Len(more) <= k.lackBits,
         Len(more) <= Len(c), \A b \in 1 .. Len(more) : more[b] = c[b],
         Len(more) = Len(c) \/ Len(more) = k.lackBits
  PROVE  LET ones == OrTopBits(k.ones, k.p, Word(c), k.lackBits)
         IN  /\ Holds(ones, bits \o more)
             /\ \A b \in Len(bits) + Len(more) .. Len(bits) + k.lackBits - 1 : b \notin ones
             /\ ByteBits * (k.p + 1) = Len(bits) + k.lackBits /\ k.outSize = k.p + 1
             /\ Len(bits) \in Nat
  <1> DEFINE B == ByteBits
             f == B * k.p
             m == Len(more)
             l == k.lackBits
             at == Len(bits)
             ones == OrTopBits(k.ones, k.p, Word(c), l)
  <1>1. B \in Nat \ {0} /\ k.p \in Nat /\ l \in 1 .. B - 1 /\ m \in Nat /\ Len(c) \in Nat
        /\ m <= l /\ m <= Len(c) /\ (m = Len(c) \/ m = l)
    BY PackerAssumption DEF Packs
  <1>2. f \in Nat /\ B * (k.p + 1) = f + B /\ at = f + (B - l)
    <2>1. at = f + (B - l)
      BY <1>1 DEF Packs, BitsWritten
    <2>2. \A x, y \in Nat : x * (y + 1) = x * y + x /\ x * y \in Nat
      OBVIOUS
    <2> QED BY <2>1, <2>2, <1>1
  <1>3. k.outSize = k.p + 1
    <2>1. B - l \in 0 .. B - 1 /\ B - l # 0
      BY <1>1
    <2>2. k.outSize = Bytes(B * k.p + (B - l))
      BY <1>2 DEF Packs
    <2> QED BY <2>1, <2>2, <1>1, BytesFacts
  <1>4. ones = k.ones \cup {f + B - l + b : b \in {d \in Word(c) : d < l}}
    BY DEF OrTopBits
  <1>5. \A b : b \in Word(c) <=> b \in 0 .. Len(c) - 1 /\ c[b + 1] = 1
    BY DEF Word
  <1>6. Holds(k.ones, bits) /\ \A b \in at .. at + l - 1 : b \notin k.ones
    BY DEF Packs
  <1> HIDE DEF B, f, m, l, at, ones
  <1>7. ones = k.ones \cup {at + b : b \in {d \in Word(c) : d < l}}
    <2>1. \A b \in Nat : f + B - l + b = at + b
      BY <1>1, <1>2
    <2>2. \A b \in Word(c) : b \in Nat
      BY <1>1, <1>5
    <2> QED BY <2>1, <2>2, <1>4
  <1>8. at \in Nat
    BY <1>1, <1>2
  <1>9. \A e \in 0 .. l - 1 : at + e \in ones <=> e \in Word(c)
    <2> SUFFICES ASSUME NEW e \in 0 .. l - 1 PROVE at + e \in ones <=> e \in Word(c)
      OBVIOUS
    <2>1. at + e \in at .. at + l - 1
      BY <1>1, <1>8
    <2>2. \A d \in Word(c) : at + d = at + e => d = e
      BY <1>1, <1>5, <1>8
    <2>3. e < l
      BY <1>1
    <2> QED BY <2>1, <2>2, <2>3, <1>6, <1>7
  <1>10. \A b \in 0 .. at - 1 : b \in ones <=> b \in k.ones
    <2> SUFFICES ASSUME NEW b \in 0 .. at - 1 PROVE b \in ones <=> b \in k.ones
      OBVIOUS
    <2>1. \A d \in Word(c) : at + d # b
      BY <1>1, <1>5, <1>8
    <2> QED BY <2>1, <1>7
  <1>11. Holds(ones, bits \o more)
    <2>1. Holds(ones, bits)
      BY <1>6, <1>8, <1>10 DEF Holds, at
    <2>2. ASSUME NEW b \in 1 .. m PROVE more[b] = 1 <=> at + (b - 1) \in ones
      <3>1. b - 1 \in 0 .. l - 1 /\ b - 1 \in 0 .. Len(c) - 1 /\ (b - 1) + 1 = b
        BY <1>1
      <3>2. at + (b - 1) \in ones <=> b - 1 \in Word(c)
        BY <3>1, <1>9
      <3>3. b - 1 \in Word(c) <=> c[(b - 1) + 1] = 1
        BY <3>1, <1>5
      <3>4. more[b] = c[b]
        BY DEF m
      <3> QED BY <3>1, <3>2, <3>3, <3>4
    <2> QED BY <2>1, <2>2, HoldsMore DEF m, at
  <1>12. ASSUME NEW b \in at + m .. at + l - 1 PROVE b \notin ones
    <2> DEFINE e == b - at
    <2>1. e \in 0 .. l - 1 /\ ~(e \in 0 .. Len(c) - 1) /\ b = at + e
      BY <1>1, <1>8
    <2> QED BY <2>1, <1>5, <1>9
  <1>13. f + B = at + l
    BY <1>1, <1>2
  <1> QED BY <1>2, <1>3, <1>8, <1>11, <1>12, <1>13 DEF B, f, m, l, at, ones

\* One code more, wherever in a byte the last ended, and whatever lay ahead.
LEMMA PackAppends ==
  ASSUME NEW k, NEW bits \in Seq({0, 1}), Packs(k, bits),
         NEW c \in Seq({0, 1}), Len(c) <= WordBits
  PROVE  Packs(Pack(k, c), bits \o c)
  <1> DEFINE B == ByteBits
             l == k.lackBits
             n == Len(c)
             ones == OrTopBits(k.ones, k.p, Word(c), l)
  <1>1. B \in Nat \ {0} /\ k.p \in Nat /\ l \in 0 .. B - 1 /\ n \in Nat /\ WordBits \in Nat
        /\ n <= WordBits
    BY PackerAssumption DEF Packs, WordBits
  <1>2. CASE l = 0
    <2>1. Len(bits) = B * k.p /\ k.outSize = k.p /\ Holds(k.ones, bits)
      <3>1. Len(bits) = B * k.p
        BY <1>1, <1>2 DEF Packs, BitsWritten
      <3>2. Bytes(B * k.p) = k.p
        <4>1. 0 \in 0 .. B - 1
          BY <1>1
        <4> QED BY <1>1, <4>1, BytesFacts
      <3> QED BY <3>1, <3>2 DEF Packs
    <2>2. Packs(PackAligned(k, k.ones, Word(c), n), bits \o c)
      BY <1>1, <2>1, AlignedAppends
    <2> QED BY <1>2, <2>2 DEF Pack
  <1>3. CASE l # 0 /\ l < n
    <2> DEFINE c1 == SubSeq(c, 1, l)
               c2 == SubSeq(c, l + 1, n)
               next == [k EXCEPT !.p = @ + 1]
    <2>1. /\ c1 \in Seq({0, 1}) /\ Len(c1) = l /\ \A b \in 1 .. l : c1[b] = c[b]
          /\ c2 \in Seq({0, 1}) /\ Len(c2) = n - l
          /\ \A b \in 1 .. n - l : c2[b] = c[l + b]
          /\ c = c1 \o c2
      <3>1. l \in 1 .. n /\ l \in Nat /\ n \in Nat /\ l < n
        BY <1>1, <1>3
      <3>2. /\ c1 \in Seq({0, 1}) /\ Len(c1) = l /\ \A b \in 1 .. l : c1[b] = c[b]
        BY <3>1
      <3>3. /\ c2 \in Seq({0, 1}) /\ Len(c2) = n - l
            /\ \A b \in 1 .. n - l : c2[b] = c[l + b]
        BY <3>1
      <3>4. Len(c1 \o c2) = n
        BY <3>1, <3>2, <3>3
      <3>5. ASSUME NEW b \in 1 .. n PROVE c[b] = (c1 \o c2)[b]
        <4> HIDE DEF c1, c2, l
        <4>1. CASE b <= l
          BY <4>1, <3>1, <3>2, <3>3
        <4>2. CASE b > l
          <5>1. b - l \in 1 .. n - l /\ l + (b - l) = b
            BY <4>2, <3>1
          <5>2. (c1 \o c2)[b] = c2[b - l]
            BY <4>2, <3>1, <3>2, <3>3
          <5> DEFINE d == b - l
          <5>3. d \in 1 .. n - l /\ l + d = b /\ (c1 \o c2)[b] = c2[d]
            BY <5>1, <5>2
          <5> HIDE DEF d
          <5>4. c2[d] = c[l + d]
            BY <5>3, <3>3
          <5> QED BY <5>3, <5>4, Zenon
        <4>3. b <= l \/ b > l
          <5> HIDE DEF n
          <5> QED BY <3>1
        <4> QED BY <4>1, <4>2, <4>3, Zenon
      <3>6. c1 \o c2 \in Seq({0, 1})
        BY <3>2, <3>3
      <3> HIDE DEF c1, c2, l
      <3>7. c = c1 \o c2
        BY <3>4, <3>5, <3>6, SeqEqual
      <3> QED BY <3>2, <3>3, <3>7
    <2> HIDE DEF c1, c2, l, n
    <2>2. /\ Holds(ones, bits \o c1) /\ B * (k.p + 1) = Len(bits) + l /\ k.outSize = k.p + 1
          /\ Len(bits) \in Nat
      <3>1. /\ k.lackBits # 0 /\ Len(c1) <= k.lackBits /\ Len(c1) = k.lackBits
            /\ Len(c1) <= Len(c) /\ \A b \in 1 .. Len(c1) : c1[b] = c[b]
        BY <1>1, <1>3, <2>1 DEF l, n
      <3> QED BY <2>1, <3>1, FillAppends DEF l
    <2>3. next.p = k.p + 1 /\ next.outSize = k.outSize
      BY DEF Packs
    <2>4. bits \o c1 \in Seq({0, 1}) /\ Len(bits \o c1) = B * next.p
      <3>1. bits \o c1 \in Seq({0, 1}) /\ Len(bits \o c1) = Len(bits) + l
        BY <2>1, ConcatProperties
      <3> QED BY <2>2, <2>3, <3>1, Zenon
    <2>5. ShiftLeft(Word(c), l) = Word(c2)
      <3>1. l \in Nat /\ n \in Nat /\ l < n
        BY <1>1, <1>3
      <3>2. \A b : b \in Word(c) <=> b \in 0 .. n - 1 /\ c[b + 1] = 1
        BY DEF Word, n
      <3>3. \A b : b \in Word(c2) <=> b \in 0 .. (n - l) - 1 /\ c2[b + 1] = 1
        BY <2>1 DEF Word
      <3>4. \A b \in 0 .. (n - l) - 1 : c2[b + 1] = c[(b + l) + 1]
        <4> SUFFICES ASSUME NEW b \in 0 .. (n - l) - 1 PROVE c2[b + 1] = c[(b + l) + 1]
          OBVIOUS
        <4>1. b + 1 \in 1 .. n - l /\ l + (b + 1) = (b + l) + 1
          BY <3>1
        <4> QED BY <2>1, <4>1
      <3>5. ASSUME NEW b \in Word(c), b >= l PROVE b - l \in Word(c2)
        <4>1. b \in 0 .. n - 1 /\ c[b + 1] = 1
          BY <3>2, <3>5
        <4>2. b - l \in 0 .. (n - l) - 1 /\ (b - l) + l = b
          BY <4>1, <3>1, <3>5
        <4> QED BY <4>1, <4>2, <3>3, <3>4
      <3>6. ASSUME NEW b \in Word(c2)
            PROVE  b + l \in Word(c) /\ b + l >= l /\ (b + l) - l = b
        <4>1. b \in 0 .. (n - l) - 1 /\ c2[b + 1] = 1
          BY <3>3
        <4>2. b + l \in 0 .. n - 1 /\ b + l >= l /\ (b + l) - l = b
          BY <4>1, <3>1
        <4> QED BY <4>1, <4>2, <3>2, <3>4
      <3>7. \A b : b \in ShiftLeft(Word(c), l)
                    <=> \E d \in Word(c) : d >= l /\ b = d - l
        BY DEF ShiftLeft
      <3>8. \A b : b \in ShiftLeft(Word(c), l) <=> b \in Word(c2)
        BY <3>5, <3>6, <3>7
      <3> QED BY <3>8
    <2>6. Len(c2) <= WordBits
      BY <1>1, <1>3, <2>1
    <2> DEFINE two == bits \o c1
    <2>7. Packs(PackAligned(next, ones, Word(c2), Len(c2)), (bits \o c1) \o c2)
      <3>1. next.p \in Nat /\ next.outSize = next.p
        BY <1>1, <2>2, <2>3
      <3>2. two \in Seq({0, 1}) /\ Len(two) = B * next.p /\ Holds(ones, two)
        BY <2>2, <2>4
      <3>3. c2 \in Seq({0, 1})
        BY <2>1
      <3> HIDE DEF next, ones, two
      <3>4. Packs(PackAligned(next, ones, Word(c2), Len(c2)), two \o c2)
        BY <3>1, <3>2, <3>3, <2>6, AlignedAppends
      <3> QED BY <3>4 DEF two
    <2>8. (bits \o c1) \o c2 = bits \o c
      BY <2>1
    <2>9. Pack(k, c) = PackAligned(next, ones, ShiftLeft(Word(c), l), n - l)
      BY <1>3 DEF Pack, l, n, next
    <2> QED BY <2>1, <2>5, <2>7, <2>8, <2>9
  <1>4. CASE l # 0 /\ ~(l < n)
    <2> DEFINE k2 == Pack(k, c)
    <2> HIDE DEF l, n
    <2>1. /\ Holds(ones, bits \o c) /\ B * (k.p + 1) = Len(bits) + l /\ k.outSize = k.p + 1
          /\ Len(bits) \in Nat
          /\ \A b \in Len(bits) + n .. Len(bits) + l - 1 : b \notin ones
      BY <1>1, <1>4, FillAppends DEF l, n
    <2>2. /\ k2.p = k.p + (IF l = n THEN 1 ELSE 0) /\ k2.lackBits = l - n
          /\ k2.ones = ones /\ k2.outSize = k.outSize
          /\ DOMAIN k2 = {"p", "lackBits", "ones", "outSize"}
      BY <1>4 DEF Pack, Packs, l, n
    <2> HIDE DEF k2, ones
    <2>3. Len(bits \o c) = Len(bits) + n
      BY DEF n
    <2>4. BitsWritten(k2) = Len(bits) + n /\ Bytes(Len(bits) + n) = k.p + 1
      <3> DEFINE f == B * k.p
                 at == Len(bits)
      <3>1. f \in Nat /\ B * (k.p + 1) = f + B /\ f + B = at + l /\ at \in Nat
        <4>1. \A x, y \in Nat : x * (y + 1) = x * y + x /\ x * y \in Nat
          OBVIOUS
        <4> QED BY <1>1, <2>1, <4>1
      <3>2. BitsWritten(k2) = B * k2.p + (IF k2.lackBits = 0 THEN 0 ELSE B - k2.lackBits)
        BY DEF BitsWritten
      <3>3. CASE l = n
        <4>1. k2.p = k.p + 1 /\ k2.lackBits = 0
          BY <1>1, <2>2, <3>3
        <4>2. BitsWritten(k2) = B * (k.p + 1) + 0
          BY <3>2, <4>1
        <4>3. Bytes(B * (k.p + 1)) = k.p + 1
          <5>1. 0 \in 0 .. B - 1 /\ k.p + 1 \in Nat
            BY <1>1
          <5> QED BY <5>1, BytesFacts
        <4>4. B * (k.p + 1) + 0 = at + n /\ B * (k.p + 1) = at + n
          <5> HIDE DEF f, at, B
          <5> QED BY <1>1, <3>1, <3>3
        <4> QED BY <4>2, <4>3, <4>4
      <3>4. CASE l # n
        <4>1. k2.p = k.p /\ k2.lackBits = l - n /\ l - n # 0
          <5>1. k.p + 0 = k.p /\ l - n # 0
            BY <1>1, <1>4, <3>4
          <5> QED BY <2>2, <3>4, <5>1
        <4>2. BitsWritten(k2) = f + (B - (l - n))
          BY <3>2, <4>1
        <4>3. B - (l - n) \in 0 .. B - 1 /\ B - (l - n) # 0
          BY <1>1, <1>4, <4>1
        <4>4. Bytes(B * k.p + (B - (l - n))) = k.p + 1
          BY <1>1, <4>3, BytesFacts
        <4>5. f + (B - (l - n)) = at + n
          <5> HIDE DEF f, at, B
          <5> QED BY <1>1, <3>1
        <4> QED BY <4>2, <4>4, <4>5
      <3> QED BY <3>3, <3>4
    <2>5. Packs(k2, bits \o c)
      <3>1. k2.p \in Nat /\ k2.lackBits \in 0 .. B - 1
        BY <1>1, <1>4, <2>2
      <3>2. (Len(bits) + n) + (l - n) - 1 = Len(bits) + l - 1
        BY <1>1, <2>1
      <3>3. \A b \in Len(bits \o c) .. Len(bits \o c) + k2.lackBits - 1 : b \notin k2.ones
        BY <2>1, <2>2, <2>3, <3>2
      <3>4. Holds(k2.ones, bits \o c) /\ BitsWritten(k2) = Len(bits \o c)
            /\ k2.outSize = Bytes(Len(bits \o c))
        BY <2>1, <2>2, <2>3, <2>4
      <3> QED BY <2>2, <3>1, <3>3, <3>4 DEF Packs
    <2> QED BY <2>5 DEF k2
  <1> QED BY <1>2, <1>3, <1>4

----------------------------------------------------------------------------
(* The queue.                                                              *)

\* Something is among the places of q from a to b.
Among(q, a, b, e) == \E i \in a .. b : q[i] = e

\* What qinsert finds: the queue with the hole at each place of the way up.
Holes(hole, q, f, n) ==
  \A i \in 1 .. Len(q) + 1 :
    hole[i] = IF i = 1 \/ f[q[i \div 2]] <= f[n]
              THEN [Append(q, n) EXCEPT ![i] = n]
              ELSE [hole[i \div 2] EXCEPT ![i] = q[i \div 2]]

\* qinsert finds this, going up from the end of the queue.
LEMMA InsertUnfolds ==
  ASSUME NEW S, NEW q \in Seq(S), NEW f, NEW n \in S
  PROVE  \E hole : qinsert(q, f, n) = hole[Len(q) + 1] /\ Holes(hole, q, f, n)
  <1> DEFINE L == Len(q)
             D == 1 .. L + 1
             V == [D -> S]
             Stop == {i \in D : i = 1 \/ f[q[i \div 2]] <= f[n]}
             base == [i \in D |-> [Append(q, n) EXCEPT ![i] = n]]
             next == [i \in D |-> i \div 2]
             step == [i \in D |-> [w \in V |-> [w EXCEPT ![i] = q[i \div 2]]]]
             r == [i \in D |-> i - 1]
             Eq(h) == h = [i \in D |-> IF i = 1 \/ f[q[i \div 2]] <= f[n]
                                       THEN [Append(q, n) EXCEPT ![i] = n]
                                       ELSE [h[i \div 2] EXCEPT ![i] = q[i \div 2]]]
  <1>1. L \in Nat /\ q \in [1 .. L -> S]
    OBVIOUS
  <1>2. /\ Append(q, n) \in V /\ Append(q, n)[L + 1] = n
        /\ \A i \in 1 .. L : Append(q, n)[i] = q[i]
    <2>1. Append(q, n) \in Seq(S) /\ Len(Append(q, n)) = L + 1
      OBVIOUS
    <2>2. Append(q, n) \in [1 .. Len(Append(q, n)) -> S]
      BY <2>1, LenProperties
    <2>3. Append(q, n)[L + 1] = n /\ \A i \in 1 .. L : Append(q, n)[i] = q[i]
      OBVIOUS
    <2> QED BY <2>1, <2>2, <2>3
  <1> HIDE DEF L
  <1>3. \A i \in D : i # 1 => i \div 2 \in 1 .. L /\ i \div 2 \in D /\ i \div 2 < i
    BY <1>1
  <1>4. \E h : Eq(h)
    <2>1. \A i \in D : r[i] \in Nat /\ r[i] < L + 1
      BY <1>1
    <2>2. \A i \in D : i \in Stop => base[i] \in V
      BY <1>2
    <2>3. \A i \in D : i \notin Stop =>
            next[i] \in D /\ r[next[i]] < r[i] /\ \A w \in V : step[i][w] \in V
      BY <1>1, <1>3
    <2>4. PICK g \in [D -> V] : Solves(g, D, Stop, base, next, step)
      <3> DEFINE N == L + 1
      <3>1. N \in Nat /\ \A i \in D : r[i] \in Nat /\ r[i] < N
        BY <1>1, <2>1
      <3> HIDE DEF D, V, r, Stop, base, next, step, N
      <3>2. Descends(D, V, r, N, Stop, base, next, step)
        BY <2>2, <2>3, <3>1 DEF Descends
      <3> QED BY <3>2, RecursionExists
    <2>5. ASSUME NEW i \in D
          PROVE  g[i] = IF i = 1 \/ f[q[i \div 2]] <= f[n]
                        THEN [Append(q, n) EXCEPT ![i] = n]
                        ELSE [g[i \div 2] EXCEPT ![i] = q[i \div 2]]
      <3>1. i # 1 => g[i \div 2] \in V
        BY <1>3
      <3>2. g[i] = IF i \in Stop THEN base[i] ELSE step[i][g[next[i]]]
        BY <2>4 DEF Solves
      <3>3. i \in Stop <=> i = 1 \/ f[q[i \div 2]] <= f[n]
        OBVIOUS
      <3>4. i \notin Stop => step[i][g[next[i]]] = [g[i \div 2] EXCEPT ![i] = q[i \div 2]]
        <4> HIDE DEF V
        <4> QED BY <3>1, <3>3
      <3> HIDE DEF Stop, step, next, V
      <3> QED BY <3>2, <3>3, <3>4
    <2>6. Eq(g)
      <3> HIDE DEF D, V
      <3>1. g = [i \in D |-> g[i]]
        BY <2>4
      <3> QED BY <2>5, <3>1
    <2> QED BY <2>6
  <1> DEFINE hole == CHOOSE h : Eq(h)
  <1>5. Eq(hole)
    BY <1>4
  <1>6. qinsert(q, f, n) = hole[L + 1]
    BY Zenon DEF qinsert, L
  <1> HIDE DEF hole
  <1>7. \A i \in D : hole[i] = IF i = 1 \/ f[q[i \div 2]] <= f[n]
                               THEN [Append(q, n) EXCEPT ![i] = n]
                               ELSE [hole[i \div 2] EXCEPT ![i] = q[i \div 2]]
    BY <1>5
  <1> QED BY <1>6, <1>7 DEF L, Holes

\* The queue that comes of an insertion has the old nodes and the new one.
LEMMA InsertKeeps ==
  ASSUME NEW S, NEW q \in Seq(S), NEW f, NEW n \in S
  PROVE  /\ qinsert(q, f, n) \in [1 .. Len(q) + 1 -> S]
         /\ Among(qinsert(q, f, n), 1, Len(q) + 1, n)
         /\ \A i \in 1 .. Len(q) : Among(qinsert(q, f, n), 1, Len(q) + 1, q[i])
  <1> DEFINE L == Len(q)
             D == 1 .. L + 1
             V == [D -> S]
             r == [i \in D |-> i - 1]
  <1>1. L \in Nat /\ q \in [1 .. L -> S]
    OBVIOUS
  <1>2. /\ Append(q, n) \in V /\ Append(q, n)[L + 1] = n
        /\ \A i \in 1 .. L : Append(q, n)[i] = q[i]
    <2>1. Append(q, n) \in Seq(S) /\ Len(Append(q, n)) = L + 1
      OBVIOUS
    <2>2. Append(q, n) \in [1 .. Len(Append(q, n)) -> S]
      BY <2>1, LenProperties
    <2>3. Append(q, n)[L + 1] = n /\ \A i \in 1 .. L : Append(q, n)[i] = q[i]
      OBVIOUS
    <2> QED BY <2>1, <2>2, <2>3
  <1> HIDE DEF L
  <1>3. \A i \in D : i # 1 => i \div 2 \in 1 .. L /\ i \div 2 \in D /\ i \div 2 < i
    BY <1>1
  <1>6. PICK hole : qinsert(q, f, n) = hole[L + 1] /\ Holes(hole, q, f, n)
    BY InsertUnfolds DEF L
  <1>7. \A i \in D : hole[i] = IF i = 1 \/ f[q[i \div 2]] <= f[n]
                               THEN [Append(q, n) EXCEPT ![i] = n]
                               ELSE [hole[i \div 2] EXCEPT ![i] = q[i \div 2]]
    BY <1>6 DEF Holes, L
  <1> DEFINE T == {i \in D : /\ hole[i] \in V
                             /\ \A j \in 1 .. L : j > i => hole[i][j] = q[j]
                             /\ Among(hole[i], 1, i, n)
                             /\ \A j \in 1 .. L : j < i => Among(hole[i], 1, i, q[j])}
  <1>8. ASSUME NEW i \in D, \A j \in D : r[j] < r[i] => j \in T PROVE i \in T
    <2>1. CASE i = 1 \/ f[q[i \div 2]] <= f[n]
      <3>1. hole[i] = [Append(q, n) EXCEPT ![i] = n]
        BY <1>7, <2>1
      <3>2. hole[i] \in V /\ hole[i][i] = n
        BY <1>2, <3>1
      <3>3. \A j \in 1 .. L : j # i => hole[i][j] = q[j]
        <4>1. \A j \in 1 .. L : j \in DOMAIN Append(q, n)
          BY <1>1, <1>2
        <4>2. \A j \in 1 .. L : j # i => hole[i][j] = Append(q, n)[j]
          BY <3>1, <4>1
        <4> QED BY <1>2, <4>2
      <3>4. /\ i \in 1 .. i
            /\ \A j \in 1 .. L : (j > i => j # i) /\ (j < i => j \in 1 .. i /\ j # i)
        BY <1>1
      <3>5. \A j \in 1 .. L : j > i => hole[i][j] = q[j]
        BY <3>3, <3>4
      <3>6. Among(hole[i], 1, i, n)
        BY <3>2, <3>4 DEF Among
      <3>7. \A j \in 1 .. L : j < i => Among(hole[i], 1, i, q[j])
        BY <3>3, <3>4 DEF Among
      <3> HIDE DEF D, V
      <3> QED BY <3>2, <3>5, <3>6, <3>7
    <2>2. CASE ~(i = 1 \/ f[q[i \div 2]] <= f[n])
      <3> DEFINE u == i \div 2
      <3>1. hole[i] = [hole[u] EXCEPT ![i] = q[u]] /\ u \in 1 .. L /\ u \in D /\ u < i
        BY <1>3, <1>7, <2>2
      <3> HIDE DEF u
      <3>2. u \in T
        <4>1. r[u] < r[i]
          BY <3>1
        <4> HIDE DEF T, r, D
        <4> QED BY <1>8, <3>1, <4>1
      <3>3. /\ hole[u] \in V /\ \A j \in 1 .. L : j > u => hole[u][j] = q[j]
            /\ Among(hole[u], 1, u, n)
            /\ \A j \in 1 .. L : j < u => Among(hole[u], 1, u, q[j])
        BY <3>2
      <3>4. /\ hole[i] \in V /\ hole[i][i] = q[u]
            /\ \A j \in D : j # i => hole[i][j] = hole[u][j]
        BY <1>1, <3>1, <3>3
      <3>5. \A e : Among(hole[u], 1, u, e) => Among(hole[i], 1, i, e)
        <4> SUFFICES ASSUME NEW e, NEW j \in 1 .. u, hole[u][j] = e
                     PROVE  \E m \in 1 .. i : hole[i][m] = e
          BY DEF Among
        <4>1. j \in D /\ j # i /\ j \in 1 .. i
          BY <1>1, <3>1
        <4> QED BY <4>1, <3>4
      <3>6. ASSUME NEW j \in 1 .. L, j > i PROVE hole[i][j] = q[j]
        <4>1. j > u /\ j # i /\ j \in D
          BY <3>1, <3>6, <1>1
        <4> QED BY <4>1, <3>3, <3>4
      <3>7. ASSUME NEW j \in 1 .. L, j < i PROVE Among(hole[i], 1, i, q[j])
        <4>1. CASE j < u
          BY <4>1, <3>3, <3>5
        <4>2. CASE j = u
          <5>1. i \in 1 .. i
            BY <1>1
          <5> QED BY <4>2, <5>1, <3>4 DEF Among
        <4>3. CASE j > u
          <5>1. j \in D /\ j # i /\ j \in 1 .. i
            BY <1>1, <3>7
          <5>2. hole[i][j] = q[j]
            BY <5>1, <4>3, <3>3, <3>4
          <5> QED BY <5>1, <5>2 DEF Among
        <4> QED BY <4>1, <4>2, <4>3, <1>1, <3>1
      <3> HIDE DEF D, V
      <3> QED BY <3>3, <3>4, <3>5, <3>6, <3>7
    <2> QED BY <2>1, <2>2
  <1>9. L + 1 \in T
    <2>1. \A i \in D : r[i] \in Nat
      BY <1>1
    <2>2. L + 1 \in D
      BY <1>1
    <2> HIDE DEF T, D, r
    <2> QED BY <1>8, <2>1, <2>2, RankInduction
  <1>10. \A i \in 1 .. L : i < L + 1
    BY <1>1
  <1> QED BY <1>6, <1>9, <1>10 DEF L

\* What qremove finds: the last node put first, and the queue with the hole at each
\* place of the way down.
Sinks(sink, rest, lighter, q, f) ==
  LET R    == Len(q) - 1
      last == q[R + 1]
  IN  /\ rest[1] = last /\ \A i \in 2 .. R : rest[i] = q[i]
      /\ \A i \in 1 .. R :
           lighter[i] = IF 2 * i + 1 <= R /\ f[rest[2 * i + 1]] < f[rest[2 * i]]
                        THEN 2 * i + 1 ELSE 2 * i
      /\ \A i \in 1 .. R :
           sink[i] = IF 2 * i > R \/ f[last] <= f[rest[lighter[i]]]
                     THEN [rest EXCEPT ![i] = last]
                     ELSE [sink[lighter[i]] EXCEPT ![i] = rest[lighter[i]]]

\* qremove finds this, going down from the top of the queue.
LEMMA RemoveUnfolds ==
  ASSUME NEW S, NEW q \in Seq(S), NEW f, Len(q) > 1
  PROVE  \E sink, lighter : \E rest \in [1 .. Len(q) - 1 -> S] :
           qremove(q, f) = sink[1] /\ Sinks(sink, rest, lighter, q, f)
  <1> DEFINE R == Len(q) - 1
             D == 1 .. R
             V == [D -> S]
             last == q[Len(q)]
             rest == [SubSeq(q, 1, Len(q) - 1) EXCEPT ![1] = last]
             lighter(i) == IF 2 * i + 1 <= Len(rest) /\ f[rest[2 * i + 1]] < f[rest[2 * i]]
                           THEN 2 * i + 1 ELSE 2 * i
             Ends(i) == 2 * i > Len(rest) \/ f[last] <= f[rest[lighter(i)]]
             Stop == {i \in D : Ends(i)}
             base == [i \in D |-> [rest EXCEPT ![i] = last]]
             next == [i \in D |-> lighter(i)]
             step == [i \in D |-> [w \in V |-> [w EXCEPT ![i] = rest[lighter(i)]]]]
             r == [i \in D |-> R - i]
             Eq(h) == h = [i \in 1 .. Len(rest) |->
                             IF Ends(i) THEN [rest EXCEPT ![i] = last]
                             ELSE [h[lighter(i)] EXCEPT ![i] = rest[lighter(i)]]]
  <1>1. R \in Nat \ {0} /\ Len(q) = R + 1 /\ q \in [1 .. R + 1 -> S] /\ last \in S
        /\ last = q[R + 1]
    <2>1. Len(q) \in Nat /\ q \in [1 .. Len(q) -> S]
      BY LenProperties
    <2>2. R + 1 = Len(q) /\ R \in Nat \ {0} /\ Len(q) \in 1 .. Len(q)
      BY <2>1
    <2> QED BY <2>1, <2>2
  <1>2. /\ rest \in V /\ Len(rest) = R /\ rest[1] = last
        /\ \A i \in D : i # 1 => rest[i] = q[i]
    <2> DEFINE front == SubSeq(q, 1, R)
    <2>1. front \in Seq(S) /\ Len(front) = R /\ \A i \in D : front[i] = q[i]
      BY <1>1
    <2>2. front \in [D -> S] /\ DOMAIN front = D
      BY <2>1, LenProperties
    <2>3. rest = [front EXCEPT ![1] = last]
      OBVIOUS
    <2> HIDE DEF front, rest, last, R
    <2>4. rest \in [D -> S] /\ rest[1] = last /\ \A i \in D : i # 1 => rest[i] = front[i]
      BY <1>1, <2>2, <2>3
    <2>5. rest \in Seq(S) /\ Len(rest) = R
      <3>1. R \in Nat
        BY <1>1
      <3> QED BY <2>4, <3>1
    <2> QED BY <2>1, <2>4, <2>5
  <1> HIDE DEF R, last, rest
  <1>3. ASSUME NEW i \in D, ~Ends(i) PROVE lighter(i) \in D /\ lighter(i) > i
    <2>1. 2 * i <= R
      BY <1>1, <1>2, <1>3
    <2> QED BY <1>1, <1>2, <2>1
  <1> HIDE DEF lighter
  <1>4. \E h : Eq(h)
    <2>1. \A i \in D : r[i] \in Nat /\ r[i] < R
      BY <1>1
    <2>2. \A i \in D : i \in Stop => base[i] \in V
      BY <1>1, <1>2
    <2>3. \A i \in D : i \notin Stop =>
            next[i] \in D /\ r[next[i]] < r[i] /\ \A w \in V : step[i][w] \in V
      BY <1>1, <1>2, <1>3
    <2>4. PICK g \in [D -> V] : Solves(g, D, Stop, base, next, step)
      <3>1. R \in Nat
        BY <1>1
      <3> HIDE DEF D, V, r, Stop, base, next, step
      <3>2. Descends(D, V, r, R, Stop, base, next, step)
        BY <2>1, <2>2, <2>3, <3>1 DEF Descends
      <3> QED BY <3>2, RecursionExists
    <2>5. ASSUME NEW i \in D
          PROVE  g[i] = IF Ends(i) THEN [rest EXCEPT ![i] = last]
                        ELSE [g[lighter(i)] EXCEPT ![i] = rest[lighter(i)]]
      <3>1. ~Ends(i) => g[lighter(i)] \in V
        BY <1>3
      <3>2. g[i] = IF i \in Stop THEN base[i] ELSE step[i][g[next[i]]]
        BY <2>4 DEF Solves
      <3>3. i \in Stop <=> Ends(i)
        OBVIOUS
      <3> HIDE DEF Ends
      <3>4. i \notin Stop => step[i][g[next[i]]]
                               = [g[lighter(i)] EXCEPT ![i] = rest[lighter(i)]]
        <4> HIDE DEF V
        <4> QED BY <3>1, <3>3
      <3>5. base[i] = [rest EXCEPT ![i] = last]
        OBVIOUS
      <3> HIDE DEF Stop, step, next, V, base
      <3> QED BY <3>2, <3>3, <3>4, <3>5
    <2>6. Eq(g)
      <3> HIDE DEF V, Ends
      <3>1. g = [i \in D |-> g[i]] /\ 1 .. Len(rest) = D
        BY <2>4, <1>2
      <3> HIDE DEF D
      <3> QED BY <2>5, <3>1
    <2> QED BY <2>6
  <1> DEFINE sink == CHOOSE h : Eq(h)
  <1>5. Eq(sink)
    BY <1>4
  <1>6. qremove(q, f) = sink[1]
    <2>1. Len(q) # 1
      BY <1>1
    <2> QED BY <2>1, Zenon DEF qremove, last, rest, lighter
  <1> HIDE DEF sink
  <1>7. \A i \in D : sink[i] = IF Ends(i) THEN [rest EXCEPT ![i] = last]
                               ELSE [sink[lighter(i)] EXCEPT ![i] = rest[lighter(i)]]
    <2>1. 1 .. Len(rest) = D
      BY <1>2
    <2> HIDE DEF Ends, D
    <2> QED BY <1>5, <2>1
  <1> DEFINE lf == [i \in D |-> lighter(i)]
  <1>9. Sinks(sink, rest, lf, q, f)
    <2>1. /\ Len(q) - 1 = R /\ last = q[R + 1] /\ 1 .. Len(q) - 1 = D
      BY <1>1 DEF R
    <2>2. \A i \in 2 .. R : rest[i] = q[i]
      BY <1>1, <1>2
    <2>3. \A i \in D : lf[i] = IF 2 * i + 1 <= R /\ f[rest[2 * i + 1]] < f[rest[2 * i]]
                               THEN 2 * i + 1 ELSE 2 * i
      BY <1>2 DEF lighter
    <2>4. \A i \in D : sink[i] = IF 2 * i > R \/ f[last] <= f[rest[lf[i]]]
                                 THEN [rest EXCEPT ![i] = last]
                                 ELSE [sink[lf[i]] EXCEPT ![i] = rest[lf[i]]]
      BY <1>2, <1>7
    <2> HIDE DEF lf, Ends, Eq
    <2> QED BY <2>1, <2>2, <2>3, <2>4, <1>2 DEF Sinks
  <1>10. rest \in [1 .. Len(q) - 1 -> S]
    BY <1>2 DEF R
  <1> QED BY <1>6, <1>9, <1>10

\* The queue that is left of a removal has every node but the first.
LEMMA RemoveKeeps ==
  ASSUME NEW S, NEW q \in Seq(S), NEW f, Len(q) > 1
  PROVE  /\ qremove(q, f) \in [1 .. Len(q) - 1 -> S]
         /\ \A i \in 2 .. Len(q) : Among(qremove(q, f), 1, Len(q) - 1, q[i])
  <1> DEFINE R == Len(q) - 1
             D == 1 .. R
             V == [D -> S]
             last == q[Len(q)]
             r == [i \in D |-> R - i]
  <1>1. R \in Nat \ {0} /\ Len(q) = R + 1 /\ q \in [1 .. R + 1 -> S] /\ last \in S
        /\ last = q[R + 1]
    <2>1. Len(q) \in Nat /\ q \in [1 .. Len(q) -> S]
      BY LenProperties
    <2>2. R + 1 = Len(q) /\ R \in Nat \ {0} /\ Len(q) \in 1 .. Len(q)
      BY <2>1
    <2> QED BY <2>1, <2>2
  <1>5. PICK sink, lighter : \E rest \in [1 .. Len(q) - 1 -> S] :
          qremove(q, f) = sink[1] /\ Sinks(sink, rest, lighter, q, f)
    BY RemoveUnfolds
  <1>6. PICK rest \in [1 .. Len(q) - 1 -> S] :
          qremove(q, f) = sink[1] /\ Sinks(sink, rest, lighter, q, f)
    BY <1>5
  <1> DEFINE Ends(i) == 2 * i > R \/ f[last] <= f[rest[lighter[i]]]
  <1>2. rest \in V /\ rest[1] = last /\ \A i \in D : i # 1 => rest[i] = q[i]
    <2>1. \A i \in D : i # 1 => i \in 2 .. R
      BY <1>1
    <2> QED BY <2>1, <1>1, <1>6 DEF Sinks, R
  <1>3. ASSUME NEW i \in D, ~Ends(i) PROVE lighter[i] \in D /\ lighter[i] > i
    <2>1. lighter[i] = IF 2 * i + 1 <= R /\ f[rest[2 * i + 1]] < f[rest[2 * i]]
                       THEN 2 * i + 1 ELSE 2 * i
      BY <1>6 DEF Sinks, R
    <2>2. 2 * i <= R
      BY <1>1, <1>3
    <2> QED BY <1>1, <2>1, <2>2
  <1>7. \A i \in D : sink[i] = IF Ends(i) THEN [rest EXCEPT ![i] = last]
                               ELSE [sink[lighter[i]] EXCEPT ![i] = rest[lighter[i]]]
    BY <1>1, <1>6 DEF Sinks, R
  <1> HIDE DEF R, last
  <1> DEFINE T == {i \in D : /\ sink[i] \in V
                             /\ \A j \in D : j < i => sink[i][j] = rest[j]
                             /\ Among(sink[i], i, R, last)
                             /\ \A j \in D : j > i => Among(sink[i], i, R, rest[j])}
  <1>8. ASSUME NEW i \in D, \A j \in D : r[j] < r[i] => j \in T PROVE i \in T
    <2>1. CASE Ends(i)
      <3>1. sink[i] = [rest EXCEPT ![i] = last]
        BY <1>7, <2>1
      <3>2. sink[i] \in V /\ sink[i][i] = last /\ \A j \in D : j # i => sink[i][j] = rest[j]
        BY <1>1, <1>2, <3>1
      <3>3. /\ i \in i .. R
            /\ \A j \in D : (j < i => j # i) /\ (j > i => j \in i .. R /\ j # i)
        BY <1>1
      <3> HIDE DEF D, V
      <3> QED BY <3>2, <3>3 DEF Among
    <2>2. CASE ~Ends(i)
      <3> DEFINE u == lighter[i]
      <3>1. sink[i] = [sink[u] EXCEPT ![i] = rest[u]] /\ u \in D /\ u > i
        BY <1>3, <1>7, <2>2
      <3> HIDE DEF u
      <3>2. u \in T
        <4>1. r[u] < r[i]
          BY <1>1, <3>1
        <4> HIDE DEF r, T
        <4> QED BY <1>8, <3>1, <4>1
      <3>3. /\ sink[u] \in V /\ \A j \in D : j < u => sink[u][j] = rest[j]
            /\ Among(sink[u], u, R, last)
            /\ \A j \in D : j > u => Among(sink[u], u, R, rest[j])
        BY <3>2
      <3>4. sink[i] \in V /\ sink[i][i] = rest[u]
            /\ \A j \in D : j # i => sink[i][j] = sink[u][j]
        BY <1>2, <3>1, <3>3
      <3>5. \A e : Among(sink[u], u, R, e) => Among(sink[i], i, R, e)
        <4> SUFFICES ASSUME NEW e, NEW j \in u .. R, sink[u][j] = e
                     PROVE  \E m \in i .. R : sink[i][m] = e
          BY DEF Among
        <4>1. j \in D /\ j # i /\ j \in i .. R
          BY <1>1, <3>1
        <4> QED BY <4>1, <3>4
      <3>6. ASSUME NEW j \in D, j < i PROVE sink[i][j] = rest[j]
        <4>1. j < u /\ j # i
          BY <3>1, <3>6, <1>1
        <4> QED BY <4>1, <3>3, <3>4
      <3>7. ASSUME NEW j \in D, j > i PROVE Among(sink[i], i, R, rest[j])
        <4>1. CASE j > u
          BY <4>1, <3>3, <3>5
        <4>2. CASE j = u
          <5>1. i \in i .. R
            BY <1>1
          <5> QED BY <4>2, <5>1, <3>4 DEF Among
        <4>3. CASE j < u
          <5>1. j # i /\ j \in i .. R
            BY <1>1, <3>7
          <5>2. sink[i][j] = rest[j]
            BY <5>1, <4>3, <3>3, <3>4
          <5> QED BY <5>1, <5>2 DEF Among
        <4> QED BY <4>1, <4>2, <4>3, <1>1, <3>1
      <3> HIDE DEF D, V
      <3> QED BY <3>3, <3>4, <3>5, <3>6, <3>7
    <2> QED BY <2>1, <2>2
  <1>9. 1 \in T
    <2>1. (\A i \in D : r[i] \in Nat) /\ 1 \in D
      BY <1>1
    <2> HIDE DEF T, D, r
    <2> QED BY <1>8, <2>1, RankInduction
  <1>10. ASSUME NEW i \in 2 .. R + 1 PROVE Among(sink[1], 1, R, q[i])
    <2>1. CASE i = R + 1
      BY <2>1, <1>1, <1>9
    <2>2. CASE i # R + 1
      <3>1. i \in D /\ i > 1 /\ i # 1
        BY <2>2, <1>1
      <3> QED BY <3>1, <1>2, <1>9
    <2> QED BY <2>1, <2>2
  <1> QED BY <1>1, <1>6, <1>9, <1>10 DEF R

----------------------------------------------------------------------------
(* The codes.                                                              *)

Node == [freq : Nat, c : Nat, t : {0, 1}, left : Nat, right : Nat]

\* A node's children were made before it.
Pool(p) == p \in Seq(Node) /\ \A n \in DOMAIN p : p[n].left < n /\ p[n].right < n

ChildOf(p, n, m) == p[m].left = n \/ p[m].right = n

\* A node that is not in the queue is the child of another.
Placed(p, q, n) == Among(q, 1, Len(q), n) \/ \E m \in DOMAIN p : ChildOf(p, n, m)

LeafOf(p, c, n) == IsLeaf(p[n]) /\ p[n].c = c

\* Read off a tree whose root alone is left in the queue, the codes are
\* sequences of bits: every walk from a leaf upwards ends at the root.
LEMMA CodesAreBits ==
  ASSUME Pool(pool), qq \in Seq(DOMAIN pool), Len(qq) = 1,
         \A n \in DOMAIN pool : Placed(pool, qq, n),
         \A c \in Symbols : \E n \in DOMAIN pool : LeafOf(pool, c, n)
  PROVE  CodeOfLeaf \in [Symbols -> Seq({0, 1})]
  <1> DEFINE D == DOMAIN pool
             N == Len(pool)
             V == Seq({0, 1})
             Stop == {Root}
             bit(n) == IF pool[Parent(pool, n)].left = n THEN 0 ELSE 1
             base == [n \in D |-> <<>>]
             next == [n \in D |-> Parent(pool, n)]
             step == [n \in D |-> [w \in V |-> Append(w, bit(n))]]
             r == [n \in D |-> N - n]
             Eq(h) == h = [n \in D |-> IF n = Root THEN <<>>
                            ELSE LET up == Parent(pool, n)
                                 IN  Append(h[up], IF pool[up].left = n THEN 0 ELSE 1)]
  <1>1. N \in Nat /\ D = 1 .. N /\ pool \in [D -> Node]
    BY DEF Pool
  <1>2. ASSUME NEW n \in D, n # Root
        PROVE  Parent(pool, n) \in D /\ n < Parent(pool, n)
    <2>1. ~Among(qq, 1, Len(qq), n)
      BY <1>2 DEF Among, Root
    <2>2. \E m \in D : pool[m].left = n \/ pool[m].right = n
      BY <2>1 DEF Placed, ChildOf
    <2>3. /\ Parent(pool, n) \in D
          /\ pool[Parent(pool, n)].left = n \/ pool[Parent(pool, n)].right = n
      BY <2>2, Zenon DEF Parent
    <2> QED BY <2>3 DEF Pool
  <1>3. \A n \in D : bit(n) \in {0, 1}
    OBVIOUS
  <1>4. \E h : Eq(h)
    <2>1. N \in Nat /\ \A n \in D : r[n] \in Nat /\ r[n] < N
      BY <1>1
    <2>2. \A n \in D : n \in Stop => base[n] \in V
      OBVIOUS
    <2>3. \A n \in D : n \notin Stop =>
            next[n] \in D /\ r[next[n]] < r[n] /\ \A w \in V : step[n][w] \in V
      <3> SUFFICES ASSUME NEW n \in D, n # Root
                   PROVE  /\ next[n] \in D /\ r[next[n]] < r[n]
                          /\ \A w \in V : step[n][w] \in V
        OBVIOUS
      <3>1. next[n] \in D /\ n < next[n]
        BY <1>2
      <3>2. r[next[n]] < r[n]
        <4> HIDE DEF next
        <4> QED BY <3>1, <1>1
      <3>3. ASSUME NEW w \in V PROVE step[n][w] \in V
        <4> HIDE DEF bit
        <4> QED BY <1>3
      <3> QED BY <3>1, <3>2, <3>3
    <2>4. PICK g \in [D -> V] : Solves(g, D, Stop, base, next, step)
      <3> HIDE DEF D, V, r, Stop, base, next, step, N
      <3>1. Descends(D, V, r, N, Stop, base, next, step)
        BY <2>1, <2>2, <2>3 DEF Descends
      <3> QED BY <3>1, RecursionExists
    <2>5. ASSUME NEW n \in D
          PROVE  g[n] = IF n = Root THEN <<>> ELSE Append(g[Parent(pool, n)], bit(n))
      <3>1. n # Root => g[Parent(pool, n)] \in V
        BY <1>2
      <3>2. g[n] = IF n \in Stop THEN base[n] ELSE step[n][g[next[n]]]
        BY <2>4 DEF Solves
      <3> HIDE DEF V, bit
      <3> QED BY <3>1, <3>2
    <2>6. Eq(g)
      <3> HIDE DEF D, V
      <3>1. g = [n \in D |-> g[n]]
        BY <2>4
      <3> QED BY <2>5, <3>1
    <2> QED BY <2>6
  <1> DEFINE path == CHOOSE h : Eq(h)
             leaf(c) == CHOOSE n \in D : IsLeaf(pool[n]) /\ pool[n].c = c
  <1>5. Eq(path)
    BY <1>4
  <1>6. CodeOfLeaf = [c \in Symbols |-> path[leaf(c)]]
    BY Zenon DEF CodeOfLeaf
  <1> HIDE DEF path
  <1>7. \A n \in D :
          path[n] = IF n = Root THEN <<>> ELSE Append(path[Parent(pool, n)], bit(n))
    BY <1>5
  <1> DEFINE T == {n \in D : path[n] \in V}
  <1>8. ASSUME NEW n \in D, \A m \in D : r[m] < r[n] => m \in T PROVE n \in T
    <2>1. CASE n = Root
      <3>1. path[n] = <<>>
        <4> HIDE DEF bit
        <4> QED BY <1>7, <2>1
      <3>2. <<>> \in V
        OBVIOUS
      <3> HIDE DEF V
      <3> QED BY <3>1, <3>2
    <2>2. CASE n # Root
      <3> DEFINE up == Parent(pool, n)
      <3>1. up \in D /\ n < up
        BY <1>2, <2>2
      <3>2. r[up] < r[n]
        <4> HIDE DEF up
        <4> QED BY <3>1, <1>1
      <3>3. path[up] \in V
        BY <1>8, <3>1, <3>2
      <3>4. path[n] = Append(path[up], bit(n))
        BY <1>7, <2>2
      <3>5. ASSUME NEW w \in V, NEW b \in {0, 1} PROVE Append(w, b) \in V
        OBVIOUS
      <3> HIDE DEF bit, V
      <3>6. path[n] \in V
        BY <3>3, <3>4, <3>5, <1>3
      <3> QED BY <3>6
    <2> QED BY <2>1, <2>2
  <1>9. \A n \in D : n \in T
    <2>1. \A n \in D : r[n] \in Nat
      BY <1>1
    <2> HIDE DEF D, T, r
    <2> QED BY <1>8, <2>1, RankInduction
  <1>10. \A c \in Symbols : leaf(c) \in D
    BY DEF LeafOf
  <1> HIDE DEF leaf, D
  <1> QED BY <1>6, <1>9, <1>10

----------------------------------------------------------------------------
(* The codes one behind the other.                                         *)

\* Those of the first n symbols of the array a.
Joined(a, c, n) ==
  LET all[k \in 0 .. n] == IF k = 0 THEN <<>> ELSE all[k - 1] \o c[a[k]]
  IN  all[n]

\* Each symbol appends its code.
LEMMA JoinedAppends ==
  ASSUME NEW a, NEW L \in Nat, NEW c, \A k \in 1 .. L : c[a[k]] \in Seq({0, 1})
  PROVE  /\ \A n \in 0 .. L : Joined(a, c, n) \in Seq({0, 1})
         /\ Joined(a, c, 0) = <<>>
         /\ \A n \in 1 .. L : Joined(a, c, n) = Joined(a, c, n - 1) \o c[a[n]]
  <1> DEFINE D == 0 .. L
             V == Seq({0, 1})
             Stop == {0}
             base == [k \in D |-> <<>>]
             next == [k \in D |-> k - 1]
             step == [k \in D |-> [w \in V |-> w \o c[a[k]]]]
             r == [k \in D |-> k]
             Eq(n, h) == h = [k \in 0 .. n |-> IF k = 0 THEN <<>> ELSE h[k - 1] \o c[a[k]]]
  <1>1. PICK g \in [D -> V] : Solves(g, D, Stop, base, next, step)
    <2> DEFINE N == L + 1
    <2>1. N \in Nat /\ \A k \in D : r[k] \in Nat /\ r[k] < N
      OBVIOUS
    <2>2. \A k \in D : k \in Stop => base[k] \in V
      OBVIOUS
    <2>3. \A k \in D : k \notin Stop =>
            next[k] \in D /\ r[next[k]] < r[k] /\ \A w \in V : step[k][w] \in V
      <3> SUFFICES ASSUME NEW k \in D, k # 0
                   PROVE  /\ next[k] \in D /\ r[next[k]] < r[k]
                          /\ \A w \in V : step[k][w] \in V
        OBVIOUS
      <3>1. next[k] \in D /\ r[next[k]] < r[k]
        OBVIOUS
      <3>2. \A w \in V : step[k][w] \in V
        <4>1. k \in 1 .. L
          OBVIOUS
        <4>2. c[a[k]] \in V
          BY <4>1
        <4> QED BY <4>2
      <3> QED BY <3>1, <3>2
    <2> HIDE DEF D, V, r, Stop, base, next, step, N
    <2>4. Descends(D, V, r, N, Stop, base, next, step)
      BY <2>1, <2>2, <2>3 DEF Descends
    <2> QED BY <2>4, RecursionExists
  <1>2. g[0] = <<>> /\ \A k \in 1 .. L : g[k - 1] \in V /\ g[k] = g[k - 1] \o c[a[k]]
    <2>1. g[0] = <<>>
      <3>1. 0 \in D /\ 0 \in Stop /\ base[0] = <<>>
        OBVIOUS
      <3> HIDE DEF D, Stop, base, V, next, step
      <3> QED BY <3>1, <1>1 DEF Solves
    <2>2. ASSUME NEW k \in 1 .. L PROVE g[k - 1] \in V /\ g[k] = g[k - 1] \o c[a[k]]
      <3>1. k \in D /\ k \notin Stop /\ k - 1 \in D /\ next[k] = k - 1
        OBVIOUS
      <3>2. g[k - 1] \in V
        <4> HIDE DEF D, V
        <4> QED BY <3>1, <1>1
      <3>3. g[k] = step[k][g[next[k]]]
        <4> HIDE DEF D, Stop, next, step, V
        <4> QED BY <3>1, <1>1 DEF Solves
      <3>4. step[k][g[k - 1]] = g[k - 1] \o c[a[k]]
        <4> HIDE DEF D, V
        <4> QED BY <3>1, <3>2
      <3> HIDE DEF step, D, Stop, next, V
      <3> QED BY <3>1, <3>2, <3>3, <3>4
    <2> QED BY <2>1, <2>2
  <1>3. ASSUME NEW n \in 0 .. L PROVE Joined(a, c, n) = g[n]
    <2> DEFINE all == CHOOSE h : Eq(n, h)
    <2>1. Eq(n, [k \in 0 .. n |-> g[k]])
      <3> DEFINE f == [k \in 0 .. n |-> g[k]]
      <3>1. ASSUME NEW k \in 0 .. n
            PROVE  f[k] = IF k = 0 THEN <<>> ELSE f[k - 1] \o c[a[k]]
        <4>1. CASE k = 0
          BY <4>1, <1>2
        <4>2. CASE k # 0
          <5>1. k \in 1 .. L /\ k - 1 \in 0 .. n
            BY <4>2
          <5>2. f[k] = g[k] /\ f[k - 1] = g[k - 1]
            BY <5>1
          <5>3. g[k] = g[k - 1] \o c[a[k]]
            BY <5>1, <1>2
          <5> HIDE DEF f
          <5> QED BY <5>2, <5>3, <4>2
        <4> QED BY <4>1, <4>2
      <3>2. f = [k \in 0 .. n |-> f[k]]
        OBVIOUS
      <3> HIDE DEF f
      <3>3. Eq(n, f)
        BY <3>1, <3>2
      <3> QED BY <3>3 DEF f
    <2>2. Eq(n, all)
      BY <2>1
    <2>3. Joined(a, c, n) = all[n]
      BY Zenon DEF Joined
    <2> HIDE DEF all
    <2> DEFINE S == {k \in Nat : k <= n => all[k] = g[k]}
    <2>4. 0 \in S
      BY <2>2, <1>2
    <2>5. ASSUME NEW k \in Nat, k \in S PROVE k + 1 \in S
      <3> SUFFICES ASSUME k + 1 <= n PROVE all[k + 1] = g[k + 1]
        OBVIOUS
      <3>1. /\ k + 1 \in 0 .. n /\ k + 1 \in 1 .. L /\ k + 1 # 0 /\ (k + 1) - 1 = k
            /\ all[k] = g[k]
        BY <2>5
      <3>2. all[k + 1] = all[(k + 1) - 1] \o c[a[k + 1]]
        <4> DEFINE K == k + 1
        <4> HIDE DEF K
        <4>1. all[K] = IF K = 0 THEN <<>> ELSE all[K - 1] \o c[a[K]]
          BY <2>2, <3>1 DEF K
        <4> QED BY <4>1, <3>1 DEF K
      <3>3. g[k + 1] = g[(k + 1) - 1] \o c[a[k + 1]]
        <4> DEFINE K == k + 1
        <4> HIDE DEF K
        <4>1. K \in 1 .. L
          BY <3>1 DEF K
        <4>2. g[K] = g[K - 1] \o c[a[K]]
          BY <4>1, <1>2
        <4> QED BY <4>2 DEF K
      <3> QED BY <3>1, <3>2, <3>3
    <2>6. n \in S
      <3>1. n \in Nat
        OBVIOUS
      <3> HIDE DEF S
      <3> QED BY <3>1, <2>4, <2>5, SetInduction
    <2> QED BY <2>3, <2>6
  <1>4. \A n \in 1 .. L : n \in 0 .. L /\ n - 1 \in 0 .. L
    OBVIOUS
  <1> HIDE DEF V, D
  <1>5. \A n \in 0 .. L : Joined(a, c, n) \in V
    BY <1>3, <1>1 DEF D
  <1>6. Joined(a, c, 0) = <<>>
    BY <1>2, <1>3
  <1>7. \A n \in 1 .. L : Joined(a, c, n) = Joined(a, c, n - 1) \o c[a[n]]
    BY <1>2, <1>3, <1>4
  <1> QED BY <1>5, <1>6, <1>7 DEF V

----------------------------------------------------------------------------
(* The invariant: what is true of the heap while the tree is built, of the *)
(* codes once it is, and of the packer while they are written.             *)

HeapInv ==
  /\ Pool(pool) /\ qq \in Seq(DOMAIN pool)
  /\ \A n \in DOMAIN pool : Placed(pool, qq, n)
  /\ phase = "leaves" => \A n \in DOMAIN pool : IsLeaf(pool[n])
  /\ phase = "merge" => \A c \in Symbols : \E n \in DOMAIN pool : LeafOf(pool, c, n)

CodeInv == code \in [Symbols -> Seq({0, 1})]

PackInv ==
  /\ phase \in {"leaves", "merge", "code"} => encoded = 0 /\ Packs(packer, <<>>)
  /\ phase = "encode" => encoded \in 0 .. Len(s) /\ Packs(packer, Joined(s, code, encoded))

CoderInv ==
  /\ s \in Arrays
  /\ phase \in {"leaves", "merge"} => HeapInv
  /\ phase \in {"code", "encode"} => CodeInv
  /\ PackInv

\* The array's symbols occur finitely often.
LEMMA FreqIsNat ==
  ASSUME s \in Arrays, NEW c
  PROVE  freq(c) \in Nat
  <1>1. s \in Seq(Nat)
    BY ArraysAssumption
  <1>2. DOMAIN s = 1 .. Len(s) /\ Len(s) \in Nat
    BY <1>1
  <1>3. IsFiniteSet(DOMAIN s)
    BY <1>2, FS_Interval
  <1>4. IsFiniteSet({i \in DOMAIN s : s[i] = c})
    BY <1>3, FS_Subset
  <1> QED BY <1>4, FS_CardinalityType DEF freq

\* Every node is placed, or will be as a child of node.
PlacedBut(p, q, node) ==
  \A n \in DOMAIN p : Placed(p, q, n) \/ n = node.left \/ n = node.right

\* A node appended to the pool and put into the queue: nothing is lost.
LEMMA InsertPlaces ==
  ASSUME NEW p, Pool(p), NEW q \in Seq(DOMAIN p), NEW node \in Node,
         node.left <= Len(p), node.right <= Len(p), NEW f,
         PlacedBut(p, q, node)
  PROVE  LET new == Append(p, node)
             qn  == qinsert(q, f, Len(p) + 1)
         IN  Pool(new) /\ qn \in Seq(DOMAIN new) /\ \A n \in DOMAIN new : Placed(new, qn, n)
  <1> DEFINE L == Len(p)
             D == 1 .. L + 1
             new == Append(p, node)
             qn == qinsert(q, f, Len(p) + 1)
  <1>1. /\ L \in Nat /\ p \in Seq(Node) /\ DOMAIN p = 1 .. L
        /\ \A n \in 1 .. L : p[n].left < n /\ p[n].right < n
    BY DEF Pool
  <1>2. /\ new \in Seq(Node) /\ DOMAIN new = D /\ new[L + 1] = node
        /\ \A n \in 1 .. L : new[n] = p[n]
    BY <1>1
  <1>3. /\ q \in Seq(D) /\ L + 1 \in D /\ Len(q) \in Nat
        /\ \A i \in 1 .. Len(q) : q[i] \in 1 .. L
    <2>1. \A i \in 1 .. Len(q) : q[i] \in 1 .. L
      BY <1>1
    <2>2. 1 .. L \subseteq D
      BY <1>1
    <2>3. q \in Seq(D)
      BY <2>2, <1>1
    <2> QED BY <1>1, <2>1, <2>3
  <1>4. /\ qn \in [1 .. Len(q) + 1 -> D]
        /\ Among(qn, 1, Len(q) + 1, L + 1)
        /\ \A i \in 1 .. Len(q) : Among(qn, 1, Len(q) + 1, q[i])
    <2> HIDE DEF D
    <2> QED BY <1>3, InsertKeeps
  <1>5. qn \in Seq(D) /\ Len(qn) = Len(q) + 1
    <2> HIDE DEF D, qn
    <2> QED BY <1>3, <1>4
  <1>6. Pool(new)
    <2>1. ASSUME NEW n \in D PROVE new[n].left < n /\ new[n].right < n
      <3>1. CASE n = L + 1
        <4>1. node.left \in Nat /\ node.right \in Nat
          BY DEF Node
        <4> HIDE DEF new
        <4> QED BY <3>1, <4>1, <1>1, <1>2
      <3>2. CASE n # L + 1
        <4>1. n \in 1 .. L
          BY <3>2, <1>1
        <4> QED BY <4>1, <1>1, <1>2
      <3> QED BY <3>1, <3>2
    <2> HIDE DEF new, D
    <2> QED BY <2>1, <1>2 DEF Pool
  <1>7. ASSUME NEW n \in D PROVE Placed(new, qn, n)
    <2>1. CASE n = L + 1
      BY <2>1, <1>4, <1>5 DEF Placed
    <2>2. CASE n # L + 1
      <3>1. n \in 1 .. L
        BY <2>2, <1>1
      <3>2. CASE Among(q, 1, Len(q), n)
        <4>1. Among(qn, 1, Len(q) + 1, n)
          <5> HIDE DEF qn
          <5> QED BY <3>2, <1>4 DEF Among
        <4> HIDE DEF qn
        <4> QED BY <4>1, <1>5 DEF Placed
      <3>3. CASE \E m \in 1 .. L : ChildOf(p, n, m)
        <4>1. PICK m \in 1 .. L : ChildOf(p, n, m)
          BY <3>3
        <4>2. m \in D /\ ChildOf(new, n, m)
          <5> HIDE DEF new
          <5> QED BY <4>1, <1>1, <1>2 DEF ChildOf
        <4> HIDE DEF new, qn
        <4> QED BY <4>2, <1>2 DEF Placed
      <3>4. CASE n = node.left \/ n = node.right
        <4>1. L + 1 \in D /\ ChildOf(new, n, L + 1)
          <5> HIDE DEF new
          <5> QED BY <3>4, <1>2, <1>3 DEF ChildOf
        <4> HIDE DEF new, qn
        <4> QED BY <4>1, <1>2 DEF Placed
      <3>5. Placed(p, q, n) \/ n = node.left \/ n = node.right
        BY <3>1, <1>1 DEF PlacedBut
      <3> QED BY <3>2, <3>3, <3>4, <3>5, <1>1 DEF Placed
    <2> QED BY <2>1, <2>2
  <1> HIDE DEF new, qn
  <1>8. \A n \in DOMAIN new : Placed(new, qn, n)
    BY <1>7, <1>2
  <1>9. qn \in Seq(DOMAIN new)
    BY <1>5, <1>2
  <1> QED BY <1>6, <1>8, <1>9 DEF new, qn

\* Before the first leaf: an empty queue, and a packer that has written nothing.
LEMMA InitCoder == CoderInit => CoderInv
  <1> SUFFICES ASSUME CoderInit PROVE CoderInv
    OBVIOUS
  <1>1. /\ s \in Arrays /\ phase = "leaves" /\ pool = <<>> /\ qq = <<>> /\ encoded = 0
    BY DEF CoderInit
  <1>2. HeapInv
    <2>1. <<>> \in Seq(Node) /\ DOMAIN <<>> = {} /\ <<>> \in Seq({})
      OBVIOUS
    <2> QED BY <1>1, <2>1 DEF HeapInv, Pool
  <1>3. Packs(packer, <<>>)
    <2>1. PICK garbage : packer = PackerStart(garbage)
      BY DEF CoderInit
    <2>2. /\ DOMAIN packer = {"p", "lackBits", "ones", "outSize"}
          /\ packer.p = 0 /\ packer.lackBits = 0 /\ packer.outSize = 0
      BY <2>1 DEF PackerStart
    <2>3. 0 \in 0 .. ByteBits - 1 /\ ByteBits * 0 = 0
      BY PackerAssumption
    <2>4. Bytes(0) = 0
      <3>1. Bytes(ByteBits * 0) = 0
        BY <2>3, BytesFacts
      <3> QED BY <3>1, <2>3
    <2>5. BitsWritten(packer) = 0
      BY <2>2, <2>3 DEF BitsWritten
    <2>6. Len(<<>>) = 0 /\ 1 .. 0 = {} /\ 0 .. 0 + 0 - 1 = {}
      OBVIOUS
    <2> QED BY <2>2, <2>3, <2>4, <2>5, <2>6 DEF Packs, Holds
  <1> QED BY <1>1, <1>2, <1>3 DEF CoderInv, PackInv

\* init() loses no leaf, and ends with one for each symbol.
LEMMA InsertLeafKeeps == CoderInv /\ InsertLeaf => CoderInv'
  <1> SUFFICES ASSUME CoderInv, InsertLeaf PROVE CoderInv'
    OBVIOUS
  <1>1. /\ phase = "leaves" /\ s \in Arrays /\ s' = s /\ code' = code
        /\ packer' = packer /\ encoded' = encoded /\ encoded = 0 /\ Packs(packer, <<>>)
        /\ phase' \in {"leaves", "merge"}
    BY DEF InsertLeaf, CoderInv, PackInv
  <1>2. /\ Pool(pool) /\ qq \in Seq(DOMAIN pool)
        /\ \A n \in DOMAIN pool : Placed(pool, qq, n)
        /\ \A n \in DOMAIN pool : IsLeaf(pool[n])
    BY <1>1 DEF CoderInv, HeapInv
  <1> DEFINE made == {pool[n].c : n \in DOMAIN pool}
             node(c) == LeafNode(c, freq(c))
             new(c) == Append(pool, node(c))
  <1>3. PICK c \in Symbols :
          /\ pool' = new(c)
          /\ qq' = qinsert(qq, [n \in DOMAIN new(c) |-> new(c)[n].freq], Len(new(c)))
          /\ phase' = IF made \cup {c} = Symbols THEN "merge" ELSE phase
    BY Zenon DEF InsertLeaf
  <1>4. /\ node(c) \in Node /\ node(c).left = 0 /\ node(c).right = 0
        /\ IsLeaf(node(c)) /\ node(c).c = c
    <2>1. freq(c) \in Nat
      BY <1>1, FreqIsNat
    <2>2. c \in Nat
      BY <1>1, ArraysAssumption DEF Symbols
    <2> QED BY <2>1, <2>2 DEF Node, LeafNode, IsLeaf
  <1>5. /\ Len(pool) \in Nat /\ DOMAIN pool = 1 .. Len(pool) /\ Len(new(c)) = Len(pool) + 1
        /\ DOMAIN new(c) = 1 .. Len(pool) + 1
        /\ new(c)[Len(pool) + 1] = node(c) /\ \A n \in DOMAIN pool : new(c)[n] = pool[n]
    <2> HIDE DEF node
    <2> QED BY <1>2, <1>4 DEF Pool
  <1> DEFINE f == [n \in DOMAIN new(c) |-> new(c)[n].freq]
  <1>6. /\ Pool(new(c)) /\ qinsert(qq, f, Len(pool) + 1) \in Seq(DOMAIN new(c))
        /\ \A n \in DOMAIN new(c) : Placed(new(c), qinsert(qq, f, Len(pool) + 1), n)
    <2> HIDE DEF node, f
    <2>1. PlacedBut(pool, qq, node(c))
      BY <1>2 DEF PlacedBut
    <2>2. node(c).left <= Len(pool) /\ node(c).right <= Len(pool)
      BY <1>4, <1>5
    <2> QED BY <1>2, <1>4, <2>1, <2>2, InsertPlaces
  <1>7. /\ Pool(pool)' /\ (qq \in Seq(DOMAIN pool))'
        /\ (\A n \in DOMAIN pool : Placed(pool, qq, n))'
    <2> HIDE DEF node
    <2> QED BY <1>3, <1>5, <1>6
  <1>8. \A n \in DOMAIN new(c) : IsLeaf(new(c)[n])
    <2> HIDE DEF node, new
    <2>1. ASSUME NEW n \in DOMAIN new(c) PROVE IsLeaf(new(c)[n])
      <3>1. n \in DOMAIN pool \/ n = Len(pool) + 1
        BY <1>5
      <3> QED BY <3>1, <1>2, <1>4, <1>5
    <2> QED BY <2>1
  <1>9. ASSUME phase' = "merge", NEW d \in Symbols
        PROVE  \E n \in DOMAIN new(c) : LeafOf(new(c), d, n)
    <2>1. d \in made \cup {c}
      <3>1. phase' # phase
        BY <1>1, <1>9
      <3> QED BY <3>1, <1>3
    <2> HIDE DEF node, new
    <2>2. CASE d = c
      <3>1. Len(pool) + 1 \in DOMAIN new(c)
        BY <1>5
      <3> QED BY <3>1, <2>2, <1>4, <1>5 DEF LeafOf
    <2>3. CASE d \in made
      <3>1. PICK n \in DOMAIN pool : d = pool[n].c
        BY <2>3
      <3>2. n \in DOMAIN new(c)
        BY <1>5
      <3> QED BY <3>1, <3>2, <1>2, <1>5 DEF LeafOf
    <2> QED BY <2>1, <2>2, <2>3
  <1>10. HeapInv'
    <2>1. Symbols' = Symbols
      BY <1>1 DEF Symbols
    <2>2. (\A n \in DOMAIN pool : IsLeaf(pool[n]))'
      <3> HIDE DEF new
      <3> QED BY <1>3, <1>8
    <2>3. phase' = "merge" =>
            (\A d \in Symbols : \E n \in DOMAIN pool : LeafOf(pool, d, n))'
      <3> HIDE DEF new
      <3> QED BY <1>3, <1>9, <2>1
    <2> QED BY <1>7, <2>2, <2>3 DEF HeapInv
  <1> QED BY <1>1, <1>10 DEF CoderInv, PackInv

\* A function on the first n numbers is a sequence.
LEMMA SeqOfLength ==
  ASSUME NEW S, NEW n \in Nat, NEW g \in [1 .. n -> S]
  PROVE  g \in Seq(S) /\ Len(g) = n
  OBVIOUS

\* What the two removals leave lacks at most the two nodes removed.
LEMMA RemoveTwo ==
  ASSUME NEW S, NEW q \in Seq(S), Len(q) > 1, NEW f
  PROVE  LET q1 == qremove(q, f)
             q2 == qremove(q1, f)
         IN  /\ Head(q) \in S /\ Head(q1) \in S /\ q2 \in Seq(S)
             /\ \A n : Among(q, 1, Len(q), n) =>
                  Among(q2, 1, Len(q2), n) \/ n \in {Head(q), Head(q1)}
  <1> DEFINE q1 == qremove(q, f)
             q2 == qremove(q1, f)
             L == Len(q)
  <1>1. /\ L \in Nat /\ q \in [1 .. L -> S] /\ Head(q) = q[1] /\ Head(q) \in S
    OBVIOUS
  <1>2. q1 \in [1 .. L - 1 -> S] /\ \A i \in 2 .. L : Among(q1, 1, L - 1, q[i])
    BY RemoveKeeps
  <1> HIDE DEF q1
  <1>3. q1 \in Seq(S) /\ Len(q1) = L - 1 /\ L - 1 >= 1
    <2>1. L - 1 \in Nat /\ L - 1 >= 1
      BY <1>1
    <2> HIDE DEF L
    <2> QED BY <1>2, <2>1, SeqOfLength
  <1>4. Head(q1) = q1[1] /\ Head(q1) \in S
    BY <1>3
  <1>5. /\ q2 \in Seq(S)
        /\ \A i \in 2 .. L - 1 : Among(q2, 1, Len(q2), q1[i])
    <2>1. CASE L - 1 = 1
      <3>1. q2 = <<>>
        BY <2>1, <1>3, Zenon DEF qremove
      <3>2. 2 .. L - 1 = {}
        BY <2>1, <1>1
      <3>3. q2 \in Seq(S)
        BY <3>1
      <3> QED BY <3>2, <3>3
    <2>2. CASE L - 1 > 1
      <3>1. /\ q2 \in [1 .. L - 2 -> S]
            /\ \A i \in 2 .. L - 1 : Among(q2, 1, L - 2, q1[i])
        <4>1. /\ q2 \in [1 .. Len(q1) - 1 -> S]
              /\ \A i \in 2 .. Len(q1) : Among(q2, 1, Len(q1) - 1, q1[i])
          BY <2>2, <1>3, RemoveKeeps
        <4>2. Len(q1) - 1 = L - 2
          BY <1>1, <1>3
        <4> QED BY <4>1, <4>2, <1>3
      <3> HIDE DEF q2
      <3>2. q2 \in Seq(S) /\ Len(q2) = L - 2
        <4>1. L - 2 \in Nat
          BY <1>1, <2>2
        <4> HIDE DEF L
        <4> QED BY <3>1, <4>1, SeqOfLength
      <3> QED BY <3>1, <3>2
    <2> QED BY <2>1, <2>2, <1>1, <1>3
  <1> HIDE DEF q2
  <1>6. ASSUME NEW n, Among(q, 1, L, n)
        PROVE  Among(q2, 1, Len(q2), n) \/ n \in {Head(q), Head(q1)}
    <2>1. PICK i \in 1 .. L : q[i] = n
      BY <1>6 DEF Among
    <2>2. CASE i = 1
      BY <2>1, <2>2, <1>1
    <2>3. CASE i # 1
      <3>1. i \in 2 .. L
        BY <2>3, <1>1
      <3>2. PICK j \in 1 .. L - 1 : q1[j] = n
        BY <3>1, <2>1, <1>2 DEF Among
      <3>3. j = 1 \/ j \in 2 .. L - 1
        BY <1>1
      <3> QED BY <3>2, <3>3, <1>4, <1>5
    <2> QED BY <2>2, <2>3
  <1> QED BY <1>1, <1>4, <1>5, <1>6 DEF q1, q2

\* Merging two nodes loses none: what leaves the queue becomes a child.
LEMMA MergeKeeps == CoderInv /\ Merge => CoderInv'
  <1> SUFFICES ASSUME CoderInv, Merge PROVE CoderInv'
    OBVIOUS
  <1>1. /\ phase = "merge" /\ Len(qq) > 1 /\ s \in Arrays
        /\ s' = s /\ phase' = phase /\ code' = code
        /\ packer' = packer /\ encoded' = encoded /\ encoded = 0 /\ Packs(packer, <<>>)
    BY DEF Merge, CoderInv, PackInv
  <1>2. /\ Pool(pool) /\ qq \in Seq(DOMAIN pool)
        /\ \A n \in DOMAIN pool : Placed(pool, qq, n)
        /\ \A c \in Symbols : \E n \in DOMAIN pool : LeafOf(pool, c, n)
    BY <1>1 DEF CoderInv, HeapInv
  <1> DEFINE q1 == qremove(qq, Freq)
             q2 == qremove(q1, Freq)
             f(node) == [n \in 1 .. Len(pool) + 1 |->
                           IF n \in DOMAIN pool THEN pool[n].freq ELSE node.freq]
  <1>3. PICK node \in {InnerNode(Head(qq), Head(q1)), InnerNode(Head(q1), Head(qq))} :
          /\ pool' = Append(pool, node)
          /\ qq' = qinsert(q2, f(node), Len(pool) + 1)
    BY Zenon DEF Merge
  <1>4. /\ Head(qq) \in DOMAIN pool /\ Head(q1) \in DOMAIN pool /\ q2 \in Seq(DOMAIN pool)
        /\ \A n : Among(qq, 1, Len(qq), n) =>
             Among(q2, 1, Len(q2), n) \/ n \in {Head(qq), Head(q1)}
    BY <1>1, <1>2, RemoveTwo
  <1> DEFINE new == Append(pool, node)
             qn == qinsert(q2, f(node), Len(pool) + 1)
  <1> HIDE DEF q2, q1
  <1>5. /\ Len(pool) \in Nat /\ DOMAIN pool = 1 .. Len(pool)
        /\ pool \in [DOMAIN pool -> Node]
    BY <1>2 DEF Pool
  <1>6. /\ node \in Node /\ node.left <= Len(pool) /\ node.right <= Len(pool)
        /\ {node.left, node.right} = {Head(qq), Head(q1)}
    <2>1. /\ pool[Head(qq)].freq \in Nat /\ pool[Head(q1)].freq \in Nat
          /\ Head(qq) \in Nat /\ Head(qq) <= Len(pool)
          /\ Head(q1) \in Nat /\ Head(q1) <= Len(pool)
      BY <1>4, <1>5 DEF Node
    <2>2. ASSUME NEW a \in {Head(qq), Head(q1)}, NEW b \in {Head(qq), Head(q1)}
          PROVE  /\ InnerNode(a, b) \in Node
                 /\ InnerNode(a, b).left = a /\ InnerNode(a, b).right = b
                 /\ a <= Len(pool) /\ b <= Len(pool)
      <3>1. /\ pool[a].freq \in Nat /\ pool[b].freq \in Nat /\ a \in Nat /\ b \in Nat
            /\ a <= Len(pool) /\ b <= Len(pool)
        BY <2>1
      <3>2. pool[a].freq + pool[b].freq \in Nat
        BY <3>1
      <3> QED BY <3>1, <3>2 DEF InnerNode, Node
    <2> QED BY <2>2, <1>3
  <1>7. PlacedBut(pool, q2, node)
    <2> SUFFICES ASSUME NEW n \in DOMAIN pool
                 PROVE  Placed(pool, q2, n) \/ n = node.left \/ n = node.right
      BY DEF PlacedBut
    <2>1. Placed(pool, qq, n)
      BY <1>2
    <2>2. CASE \E m \in DOMAIN pool : ChildOf(pool, n, m)
      BY <2>2 DEF Placed
    <2>3. CASE Among(qq, 1, Len(qq), n)
      BY <2>3, <1>4, <1>6 DEF Placed
    <2> QED BY <2>1, <2>2, <2>3 DEF Placed
  <1>8. Pool(new) /\ qn \in Seq(DOMAIN new) /\ \A n \in DOMAIN new : Placed(new, qn, n)
    <2> HIDE DEF f
    <2> QED BY <1>2, <1>4, <1>6, <1>7, InsertPlaces
  <1>9. /\ Pool(pool)' /\ (qq \in Seq(DOMAIN pool))'
        /\ (\A n \in DOMAIN pool : Placed(pool, qq, n))'
    <2> HIDE DEF f
    <2> QED BY <1>3, <1>8
  <1>10. \A c \in Symbols : \E n \in DOMAIN new : LeafOf(new, c, n)
    <2> SUFFICES ASSUME NEW c \in Symbols PROVE \E n \in DOMAIN new : LeafOf(new, c, n)
      OBVIOUS
    <2>1. PICK n \in DOMAIN pool : LeafOf(pool, c, n)
      BY <1>2
    <2>2. n \in DOMAIN new /\ new[n] = pool[n]
      BY <1>2, <1>5, <1>6 DEF Pool
    <2> HIDE DEF new
    <2> QED BY <2>1, <2>2 DEF LeafOf
  <1>11. HeapInv'
    <2>1. Symbols' = Symbols
      BY <1>1 DEF Symbols
    <2> HIDE DEF new
    <2>2. (\A c \in Symbols : \E n \in DOMAIN pool : LeafOf(pool, c, n))'
      BY <1>3, <1>10, <2>1 DEF new
    <2> QED BY <1>9, <2>2, <1>1 DEF HeapInv
  <1> QED BY <1>1, <1>11 DEF CoderInv, PackInv

\* The codes before the first symbol and after one more.
LEMMA CodesJoined ==
  ASSUME s \in Arrays, CodeInv
  PROVE  /\ Len(s) \in Nat /\ \A n \in 1 .. Len(s) : s[n] \in Symbols
         /\ \A n \in 0 .. Len(s) : Joined(s, code, n) \in Seq({0, 1})
         /\ Joined(s, code, 0) = <<>>
         /\ \A n \in 1 .. Len(s) : Joined(s, code, n) = Joined(s, code, n - 1) \o code[s[n]]
  <1>1. Len(s) \in Nat /\ DOMAIN s = 1 .. Len(s)
    BY ArraysAssumption
  <1>2. \A n \in 1 .. Len(s) : s[n] \in Symbols
    BY <1>1 DEF Symbols
  <1>3. \A n \in 1 .. Len(s) : code[s[n]] \in Seq({0, 1})
    BY <1>2 DEF CodeInv
  <1> QED BY <1>1, <1>2, <1>3, JoinedAppends

\* Codes of more than a word, which encode() writes as two, are not modelled
\* (BitPacker): what is encoded is proved of the runs in which none arises, and that
\* short arrays have no others (CodesAreShort).
OneWord == phase = "encode" => \A c \in Symbols : Len(code[c]) <= WordBits

\* encode() puts the code of the next symbol behind what it has written.
LEMMA EncodeSymbolKeeps == CoderInv /\ OneWord /\ EncodeSymbol => CoderInv'
  <1> SUFFICES ASSUME CoderInv, OneWord, EncodeSymbol PROVE CoderInv'
    OBVIOUS
  <1>1. /\ phase = "encode" /\ phase' = phase /\ s' = s /\ code' = code
        /\ s \in Arrays /\ CodeInv
        /\ encoded' = encoded + 1 /\ encoded < Len(s)
        /\ packer' = Pack(packer, code[s[encoded + 1]])
        /\ encoded \in 0 .. Len(s) /\ Packs(packer, Joined(s, code, encoded))
    BY DEF EncodeSymbol, CoderInv, PackInv
  <1> DEFINE n == encoded + 1
  <1>2. n \in 1 .. Len(s) /\ n - 1 = encoded /\ n \in 0 .. Len(s)
    BY <1>1, CodesJoined
  <1>3. code[s[n]] \in Seq({0, 1}) /\ Len(code[s[n]]) <= WordBits
    <2> HIDE DEF n
    <2>1. s[n] \in Symbols
      BY <1>1, <1>2, CodesJoined
    <2> QED BY <2>1, <1>1 DEF CodeInv, OneWord
  <1>4. Packs(packer', Joined(s, code, n))
    <2>1. Joined(s, code, encoded) \in Seq({0, 1})
      BY <1>1, CodesJoined
    <2>2. Joined(s, code, n) = Joined(s, code, encoded) \o code[s[n]]
      <3> HIDE DEF n
      <3>1. Joined(s, code, n) = Joined(s, code, n - 1) \o code[s[n]]
        BY <1>1, <1>2, CodesJoined
      <3> QED BY <3>1, <1>2
    <2>3. packer' = Pack(packer, code[s[n]])
      BY <1>1
    <2> HIDE DEF n
    <2> QED BY <1>1, <1>3, <2>1, <2>2, <2>3, PackAppends
  <1>5. encoded' = n /\ n \in 0 .. Len(s)
    BY <1>1, <1>2
  <1> HIDE DEF n
  <1> QED BY <1>1, <1>4, <1>5 DEF CoderInv, PackInv, CodeInv, Symbols

\* Every step keeps the invariant.
LEMMA StepKeepsCoder == CoderInv /\ OneWord /\ [CoderNext]_coding => CoderInv'
  <1> SUFFICES ASSUME CoderInv, OneWord, [CoderNext]_coding PROVE CoderInv'
    OBVIOUS
  <1>1. CASE InsertLeaf
    BY <1>1, InsertLeafKeeps
  <1>2. CASE Merge
    BY <1>2, MergeKeeps
  <1>3. CASE BuildCode
    <2>1. /\ phase = "merge" /\ phase' = "code" /\ s' = s /\ code' = CodeOfLeaf
          /\ Len(qq) = 1
          /\ packer' = packer /\ encoded' = encoded /\ HeapInv /\ s \in Arrays
          /\ encoded = 0 /\ Packs(packer, <<>>)
      BY <1>3 DEF BuildCode, CoderInv, PackInv
    <2>2. CodeOfLeaf \in [Symbols -> Seq({0, 1})]
      BY <2>1, CodesAreBits DEF HeapInv
    <2>3. CodeInv'
      BY <2>1, <2>2 DEF CodeInv, Symbols
    <2> QED BY <2>1, <2>3 DEF CoderInv, PackInv
  <1>4. CASE WriteTree
    <2>1. /\ phase = "code" /\ phase' = "encode" /\ s' = s /\ code' = code
          /\ CodeInv /\ s \in Arrays
          /\ packer' = packer /\ encoded' = encoded /\ encoded = 0 /\ Packs(packer, <<>>)
      BY <1>4 DEF WriteTree, CoderInv, PackInv
    <2>2. Joined(s, code, 0) = <<>> /\ 0 \in 0 .. Len(s)
      BY <2>1, CodesJoined
    <2>3. CodeInv'
      BY <2>1 DEF CodeInv, Symbols
    <2> QED BY <2>1, <2>2, <2>3 DEF CoderInv, PackInv
  <1>5. CASE EncodeSymbol
    BY <1>5, EncodeSymbolKeeps
  <1>6. CASE CloseSegment \/ ReadTree \/ DecodeConstant
    <2>1. s' = s /\ phase' \in {"rebuild", "decode", "done"}
      BY <1>6 DEF CloseSegment, ReadTree, DecodeConstant
    <2> QED BY <2>1 DEF CoderInv, PackInv
  <1>7. CASE DecodeBit
    <2>1. s' = s /\ phase = "decode" /\ phase' \in {"decode", "done"}
      <3>1. s' = s /\ phase = "decode"
        BY <1>7 DEF DecodeBit
      <3>2. phase' \in {"done", phase}
        BY <1>7 DEF DecodeBit
      <3> QED BY <3>1, <3>2
    <2> QED BY <2>1 DEF CoderInv, PackInv
  <1>8. CASE UNCHANGED coding
    BY <1>8 DEF coding, CoderInv, PackInv, HeapInv, CodeInv, Symbols, freq
  <1>9. Coded => UNCHANGED coding
    BY DEF Coded
  <1> QED BY <1>1, <1>2, <1>3, <1>4, <1>5, <1>6, <1>7, <1>8, <1>9
          DEF CoderNext, Encode, Decode

\* At every point of encode()'s loop the memory up to its position holds exactly
\* the codes of the symbols so far, one behind the other, whatever the memory held
\* before, and outSize counts the bytes they take.
THEOREM CodesArePacked == CoderSpec /\ []OneWord => []PackedCodes
  <1>1. CoderInv => PackedCodes
    <2> SUFFICES ASSUME CoderInv, phase = "encode"
                 PROVE  LET bits == Concatenation(encoded)
                        IN  /\ BitsWritten(packer) = Len(bits)
                            /\ packer.outSize = Bytes(Len(bits))
                            /\ \A b \in 1 .. Len(bits) : bits[b] = 1 <=> b - 1 \in packer.ones
      BY DEF PackedCodes
    <2>1. Concatenation(encoded) = Joined(s, code, encoded)
      BY Zenon DEF Concatenation, Joined
    <2>2. Packs(packer, Joined(s, code, encoded))
      BY DEF CoderInv, PackInv
    <2> QED BY <2>1, <2>2 DEF Packs, Holds
  <1>2. CoderInv /\ OneWord /\ [CoderNext]_coding => CoderInv'
    BY StepKeepsCoder
  <1> QED BY <1>1, <1>2, InitCoder, PTL DEF CoderSpec

----------------------------------------------------------------------------
(* The tree as it is stored.                                               *)

\* A binary tree: leaves have no children, an inner node two that were made before
\* it, and every node but the root is the child of exactly one.
Tree(p, root) ==
  /\ p \in Seq(Node) /\ root \in DOMAIN p
  /\ \A n \in DOMAIN p : IsLeaf(p[n]) => p[n].left = 0 /\ p[n].right = 0
  /\ \A n \in DOMAIN p : ~IsLeaf(p[n]) =>
       p[n].left \in 1 .. n - 1 /\ p[n].right \in 1 .. n - 1 /\ p[n].left # p[n].right
  /\ \A n \in DOMAIN p : n # root => \E m \in DOMAIN p : ChildOf(p, n, m)
  /\ \A n, m, l \in DOMAIN p : ChildOf(p, n, m) /\ ChildOf(p, n, l) => m = l
  /\ \A m \in DOMAIN p : ~ChildOf(p, root, m)

Inner(p) == {n \in DOMAIN p : ~IsLeaf(p[n])}

\* What that says of Parent.
Family(p, root) ==
  /\ Len(p) \in Nat /\ DOMAIN p = 1 .. Len(p) /\ root \in DOMAIN p
  /\ \A n \in DOMAIN p : n # root =>
       Parent(p, n) \in Inner(p) /\ n < Parent(p, n) /\ ChildOf(p, n, Parent(p, n))
  /\ \A m \in Inner(p) :
       /\ p[m].left \in DOMAIN p /\ p[m].right \in DOMAIN p
       /\ p[m].left < m /\ p[m].right < m /\ p[m].left # p[m].right
       /\ p[m].left # root /\ p[m].right # root
       /\ Parent(p, p[m].left) = m /\ Parent(p, p[m].right) = m

\* In such a tree Parent finds the one parent of each node, which was made later.
LEMMA TreeFamily ==
  ASSUME NEW p, NEW root, Tree(p, root)
  PROVE  Family(p, root)
  <1> DEFINE D == DOMAIN p
  <1>1. Len(p) \in Nat /\ D = 1 .. Len(p) /\ root \in D
    BY DEF Tree
  <1>2. ASSUME NEW n \in D, NEW m \in D, ChildOf(p, n, m)
        PROVE  /\ m \in Inner(p) /\ n < m /\ n # root /\ Parent(p, n) = m
    <2>1. n # 0
      BY <1>1
    <2>2. ~IsLeaf(p[m])
      BY <1>2, <2>1 DEF Tree, ChildOf
    <2>3. n < m
      <3>1. p[m].left \in 1 .. m - 1 /\ p[m].right \in 1 .. m - 1
        BY <2>2 DEF Tree
      <3> QED BY <3>1, <1>1, <1>2 DEF ChildOf
    <2>4. n # root
      BY <1>2 DEF Tree
    <2>5. Parent(p, n) \in D /\ ChildOf(p, n, Parent(p, n))
      BY <1>2, Zenon DEF Parent, ChildOf
    <2>6. Parent(p, n) = m
      BY <1>2, <2>5 DEF Tree
    <2> QED BY <2>2, <2>3, <2>4, <2>6 DEF Inner
  <1>3. ASSUME NEW n \in D, n # root
        PROVE  Parent(p, n) \in Inner(p) /\ n < Parent(p, n) /\ ChildOf(p, n, Parent(p, n))
    <2>1. PICK m \in D : ChildOf(p, n, m)
      BY <1>3 DEF Tree
    <2> QED BY <1>2, <2>1
  <1>4. ASSUME NEW m \in Inner(p)
        PROVE  /\ p[m].left \in D /\ p[m].right \in D
               /\ p[m].left < m /\ p[m].right < m /\ p[m].left # p[m].right
               /\ p[m].left # root /\ p[m].right # root
               /\ Parent(p, p[m].left) = m /\ Parent(p, p[m].right) = m
    <2>1. /\ m \in D /\ p[m].left \in 1 .. m - 1 /\ p[m].right \in 1 .. m - 1
          /\ p[m].left # p[m].right
      BY DEF Inner, Tree
    <2>2. p[m].left \in D /\ p[m].right \in D
      BY <1>1, <2>1
    <2>3. ChildOf(p, p[m].left, m) /\ ChildOf(p, p[m].right, m)
      BY DEF ChildOf
    <2> QED BY <1>2, <2>1, <2>2, <2>3
  <1> QED BY <1>1, <1>3, <1>4 DEF Family

\* The number of nodes below each, as pad_tree_* comes past them.
Sizes(p, g) ==
  g = [n \in DOMAIN p |-> IF IsLeaf(p[n]) THEN 1 ELSE 1 + g[p[n].left] + g[p[n].right]]

\* They exist: a node's children were made before it.
LEMMA SizesExist ==
  ASSUME NEW p, NEW root, Family(p, root)
  PROVE  \E g \in [DOMAIN p -> Nat \ {0}] : Sizes(p, g)
  <1> DEFINE D == DOMAIN p
             L == Len(p)
             Good(n, g) == \A i \in 1 .. n :
                g[i] = IF IsLeaf(p[i]) THEN 1 ELSE 1 + g[p[i].left] + g[p[i].right]
             S == {n \in Nat : n <= L => \E g \in [1 .. n -> Nat \ {0}] : Good(n, g)}
  <1>1. L \in Nat /\ D = 1 .. L
    BY DEF Family
  <1>2. 0 \in S
    <2>1. [i \in {} |-> i] \in [1 .. 0 -> Nat \ {0}] /\ Good(0, [i \in {} |-> i])
      OBVIOUS
    <2> QED BY <2>1
  <1>3. ASSUME NEW n \in Nat, n \in S PROVE n + 1 \in S
    <2> SUFFICES ASSUME n + 1 <= L
                 PROVE  \E g \in [1 .. n + 1 -> Nat \ {0}] : Good(n + 1, g)
      OBVIOUS
    <2>1. PICK g \in [1 .. n -> Nat \ {0}] : Good(n, g)
      BY <1>1, <1>3
    <2> DEFINE m == n + 1
               v == IF IsLeaf(p[m]) THEN 1 ELSE 1 + g[p[m].left] + g[p[m].right]
               h == [i \in 1 .. m |-> IF i = m THEN v ELSE g[i]]
    <2>2. \A i \in 1 .. m : ~IsLeaf(p[i]) =>
            /\ p[i].left \in 1 .. n /\ p[i].right \in 1 .. n
            /\ p[i].left \in 1 .. m /\ p[i].right \in 1 .. m
            /\ p[i].left # m /\ p[i].right # m
      <3> SUFFICES ASSUME NEW i \in 1 .. m, ~IsLeaf(p[i])
                   PROVE  /\ p[i].left \in 1 .. n /\ p[i].right \in 1 .. n
                          /\ p[i].left \in 1 .. m /\ p[i].right \in 1 .. m
                          /\ p[i].left # m /\ p[i].right # m
        OBVIOUS
      <3>1. i \in Inner(p)
        BY <1>1 DEF Inner
      <3>2. p[i].left \in 1 .. L /\ p[i].right \in 1 .. L /\ p[i].left < i /\ p[i].right < i
        BY <3>1, <1>1 DEF Family
      <3> QED BY <3>2
    <2>3. v \in Nat \ {0}
      <3>1. CASE IsLeaf(p[m])
        BY <3>1
      <3>2. CASE ~IsLeaf(p[m])
        <4>1. /\ p[m].left \in 1 .. n /\ p[m].right \in 1 .. n
          BY <2>2, <3>2
        <4>2. PICK a \in Nat, b \in Nat : a = g[p[m].left] /\ b = g[p[m].right]
          <5> HIDE DEF m
          <5> QED BY <4>1
        <4>3. v = 1 + a + b
          BY <4>2, <3>2
        <4> HIDE DEF v
        <4> QED BY <4>3
      <3> QED BY <3>1, <3>2
    <2>4. h \in [1 .. m -> Nat \ {0}]
      <3>1. \A i \in 1 .. m : i # m => i \in 1 .. n
        OBVIOUS
      <3> HIDE DEF v, m
      <3> QED BY <2>3, <3>1
    <2>5. Good(m, h)
      <3> SUFFICES ASSUME NEW i \in 1 .. m
                   PROVE  h[i] = IF IsLeaf(p[i]) THEN 1 ELSE 1 + h[p[i].left] + h[p[i].right]
        OBVIOUS
      <3>1. ~IsLeaf(p[i]) => h[p[i].left] = g[p[i].left] /\ h[p[i].right] = g[p[i].right]
        <4> HIDE DEF v, m
        <4> QED BY <2>2
      <3>2. CASE i = m
        <4>1. h[i] = v
          BY <3>2
        <4> HIDE DEF h, m
        <4> QED BY <4>1, <3>1, <3>2
      <3>3. CASE i # m
        <4>1. i \in 1 .. n /\ h[i] = g[i]
          BY <3>3
        <4> HIDE DEF h, m
        <4> QED BY <4>1, <3>1, <2>1
      <3> QED BY <3>2, <3>3
    <2> HIDE DEF h, Good
    <2> QED BY <2>4, <2>5
  <1> HIDE DEF S, Good
  <1>4. L \in S
    BY <1>1, <1>2, <1>3, SetInduction
  <1>5. PICK g \in [1 .. L -> Nat \ {0}] : Good(L, g)
    BY <1>1, <1>4 DEF S
  <1>6. Sizes(p, g)
    <2>1. g = [n \in D |-> g[n]]
      BY <1>1, <1>5
    <2>2. \A n \in D : g[n] = IF IsLeaf(p[n]) THEN 1 ELSE 1 + g[p[n].left] + g[p[n].right]
      BY <1>1, <1>5 DEF Good
    <2> QED BY <2>1, <2>2 DEF Sizes
  <1> QED BY <1>1, <1>5, <1>6

\* What goes down from the root: a value there, and at each other node one that
\* comes of its parent's.
Steps(p, root, V, step) ==
  \A n \in DOMAIN p : n # root => \A w \in V : step[n][w] \in V
Down(p, root, base, step, g) ==
  \A n \in DOMAIN p : g[n] = IF n = root THEN base ELSE step[n][g[Parent(p, n)]]

\* There is such a function: every walk upwards ends at the root.
LEMMA DownExists ==
  ASSUME NEW p, NEW root, Family(p, root), NEW V, NEW base \in V, NEW step,
         Steps(p, root, V, step)
  PROVE  \E g \in [DOMAIN p -> V] : Down(p, root, base, step, g)
  <1> DEFINE D == DOMAIN p
             N == Len(p)
             Stop == {root}
             start == [n \in D |-> base]
             next == [n \in D |-> Parent(p, n)]
             r == [n \in D |-> N - n]
  <1>1. /\ N \in Nat /\ D = 1 .. N
        /\ \A n \in D : n # root => Parent(p, n) \in D /\ n < Parent(p, n)
    BY DEF Family, Inner
  <1>2. \A n \in D : r[n] \in Nat /\ r[n] < N
    BY <1>1
  <1>3. \A n \in D : n \in Stop => start[n] \in V
    OBVIOUS
  <1>4. \A n \in D : n \notin Stop =>
          next[n] \in D /\ r[next[n]] < r[n] /\ \A w \in V : step[n][w] \in V
    <2> SUFFICES ASSUME NEW n \in D, n # root
                 PROVE  next[n] \in D /\ r[next[n]] < r[n] /\ \A w \in V : step[n][w] \in V
      OBVIOUS
    <2>1. next[n] \in D /\ n < next[n]
      BY <1>1
    <2>2. r[next[n]] < r[n]
      <3> HIDE DEF next
      <3> QED BY <2>1, <1>1
    <2> QED BY <2>1, <2>2 DEF Steps
  <1>5. PICK g \in [D -> V] : Solves(g, D, Stop, start, next, step)
    <2> HIDE DEF D, r, Stop, start, next, N
    <2>1. Descends(D, V, r, N, Stop, start, next, step)
      BY <1>1, <1>2, <1>3, <1>4 DEF Descends
    <2> QED BY <2>1, RecursionExists
  <1>6. Down(p, root, base, step, g)
    BY <1>5 DEF Solves, Down
  <1> QED BY <1>5, <1>6

\* Induction from the root down.
LEMMA DownInduction ==
  ASSUME NEW p, NEW root, Family(p, root), NEW T, root \in T,
         \A n \in DOMAIN p : n # root /\ Parent(p, n) \in T => n \in T
  PROVE  \A n \in DOMAIN p : n \in T
  <1> DEFINE D == DOMAIN p
             N == Len(p)
             r == [n \in D |-> N - n]
  <1>1. /\ N \in Nat /\ D = 1 .. N
        /\ \A n \in D : n # root => Parent(p, n) \in D /\ n < Parent(p, n)
    BY DEF Family, Inner
  <1>2. \A n \in D : r[n] \in Nat
    BY <1>1
  <1>3. ASSUME NEW n \in D, \A m \in D : r[m] < r[n] => m \in T PROVE n \in T
    <2> SUFFICES ASSUME n # root PROVE n \in T
      OBVIOUS
    <2>1. PICK u \in D : u = Parent(p, n) /\ n < u
      BY <1>1
    <2>2. r[u] < r[n]
      BY <2>1, <1>1
    <2> QED BY <1>3, <2>1, <2>2
  <1> HIDE DEF r
  <1> QED BY <1>2, <1>3, RankInduction

\* The two numbers pad_tree_* works with, as in PadTree.
Size(p) ==
  LET size[n \in DOMAIN p] ==
        IF IsLeaf(p[n]) THEN 1 ELSE 1 + size[p[n].left] + size[p[n].right]
  IN  size
Number(p, root) ==
  LET number[n \in DOMAIN p] ==
        IF n = root THEN 0
        ELSE LET up == Parent(p, n)
             IN  number[up] + 1 + (IF n = p[up].left THEN 0 ELSE Size(p)[p[up].left])
  IN  number

\* A node's own number, then the left ones, then the right ones.
Preorder(p, root, size, number) ==
  /\ size \in [DOMAIN p -> Nat \ {0}] /\ number \in [DOMAIN p -> Nat]
  /\ number[root] = 0
  /\ \A n \in Inner(p) :
       /\ size[n] = 1 + size[p[n].left] + size[p[n].right]
       /\ number[p[n].left] = number[n] + 1
       /\ number[p[n].right] = number[n] + 1 + size[p[n].left]
  /\ \A n \in DOMAIN p \ Inner(p) : size[n] = 1

\* What PadTree computes satisfies that.
LEMMA NumberedInPreorder ==
  ASSUME NEW p, NEW root, Family(p, root)
  PROVE  Preorder(p, root, Size(p), Number(p, root))
  <1> DEFINE D == DOMAIN p
             size == Size(p)
             number == Number(p, root)
             past(n) == IF n = p[Parent(p, n)].left THEN 0 ELSE size[p[Parent(p, n)].left]
             EqN(h) == h = [n \in D |-> IF n = root THEN 0
                              ELSE LET up == Parent(p, n)
                                   IN  h[up] + 1 + (IF n = p[up].left THEN 0
                                                    ELSE Size(p)[p[up].left])]
  <1>1. /\ Len(p) \in Nat /\ D = 1 .. Len(p) /\ root \in D /\ Inner(p) \subseteq D
        /\ \A n \in Inner(p) : /\ p[n].left \in D /\ p[n].right \in D
                               /\ p[n].left < n /\ p[n].right < n
        /\ \A n \in D : n # root => Parent(p, n) \in Inner(p)
    BY DEF Family, Inner
  <1>2. size = [n \in D |-> IF IsLeaf(p[n]) THEN 1
                            ELSE 1 + size[p[n].left] + size[p[n].right]]
    <2> DEFINE Eq(g) == g = [n \in D |-> IF IsLeaf(p[n]) THEN 1
                                         ELSE 1 + g[p[n].left] + g[p[n].right]]
    <2>1. \E g : Eq(g)
      BY SizesExist DEF Sizes
    <2>2. size = CHOOSE g : Eq(g)
      BY Zenon DEF Size
    <2> HIDE DEF size, Eq
    <2>3. Eq(size)
      BY <2>1, <2>2
    <2> QED BY <2>3 DEF Eq
  <1> HIDE DEF size
  <1>3. /\ DOMAIN size = D
        /\ \A n \in Inner(p) : size[n] = 1 + size[p[n].left] + size[p[n].right]
        /\ \A n \in D \ Inner(p) : size[n] = 1
    BY <1>2 DEF Inner
  <1> DEFINE T == {n \in D : size[n] \in Nat \ {0}}
             r == [n \in D |-> n]
  <1>4. ASSUME NEW n \in D, \A m \in D : r[m] < r[n] => m \in T PROVE n \in T
    <2>1. CASE n \in Inner(p)
      <3>1. p[n].left \in T /\ p[n].right \in T
        BY <1>1, <1>4, <2>1
      <3>2. PICK a \in Nat, b \in Nat : a = size[p[n].left] /\ b = size[p[n].right]
        BY <3>1
      <3>3. size[n] = 1 + a + b
        BY <3>2, <2>1, <1>3
      <3> QED BY <3>2, <3>3
    <2>2. CASE n \notin Inner(p)
      BY <2>2, <1>3
    <2> QED BY <2>1, <2>2
  <1>5. \A n \in D : n \in T
    <2>1. \A n \in D : r[n] \in Nat
      BY <1>1
    <2> HIDE DEF r, T, D
    <2> QED BY <1>4, <2>1, RankInduction
  <1>6. size \in [D -> Nat \ {0}]
    BY <1>2, <1>5
  <1>7. \A n \in D : n # root => past(n) \in Nat
    BY <1>1, <1>6
  <1>8. \E h : EqN(h)
    <2> DEFINE step == [n \in D |-> [w \in Nat |-> w + 1 + past(n)]]
    <2>1. Steps(p, root, Nat, step)
      <3> HIDE DEF past
      <3> QED BY <1>7 DEF Steps
    <2>2. PICK h \in [D -> Nat] : Down(p, root, 0, step, h)
      <3>1. 0 \in Nat
        OBVIOUS
      <3> HIDE DEF step
      <3> QED BY <2>1, <3>1, DownExists
    <2>3. ASSUME NEW n \in D
          PROVE  h[n] = IF n = root THEN 0 ELSE h[Parent(p, n)] + 1 + past(n)
      <3> HIDE DEF past
      <3> QED BY <2>2, <1>1 DEF Down
    <2>4. EqN(h)
      <3>1. h = [n \in D |-> h[n]]
        BY <2>2
      <3> QED BY <3>1, <2>3 DEF size
    <2> QED BY <2>4
  <1>9. EqN(number)
    <2>1. number = CHOOSE h : EqN(h)
      BY Zenon DEF Number
    <2> HIDE DEF number, EqN
    <2> QED BY <1>8, <2>1
  <1> HIDE DEF number
  <1>10. /\ DOMAIN number = D /\ number[root] = 0
         /\ \A n \in D : n # root => number[n] = number[Parent(p, n)] + 1 + past(n)
    BY <1>1, <1>9 DEF size
  <1>11. number \in [D -> Nat]
    <2> DEFINE U == {n \in D : number[n] \in Nat}
    <2>1. root \in U
      BY <1>1, <1>10
    <2>2. ASSUME NEW n \in D, n # root, Parent(p, n) \in U PROVE n \in U
      <3>1. PICK a \in Nat, b \in Nat : a = number[Parent(p, n)] /\ b = past(n)
        BY <2>2, <1>7
      <3> HIDE DEF past
      <3>2. number[n] = a + 1 + b
        BY <2>2, <3>1, <1>10
      <3> QED BY <3>2
    <2> HIDE DEF U
    <2>3. \A n \in D : n \in U
      BY <2>1, <2>2, DownInduction
    <2>4. number = [n \in D |-> number[n]]
      BY <1>9
    <2> QED BY <2>3, <2>4 DEF U
  <1>12. ASSUME NEW n \in Inner(p)
         PROVE  /\ number[p[n].left] = number[n] + 1
                /\ number[p[n].right] = number[n] + 1 + size[p[n].left]
    <2>1. /\ p[n].left \in D /\ p[n].right \in D /\ p[n].left # p[n].right
          /\ p[n].left # root /\ p[n].right # root
          /\ Parent(p, p[n].left) = n /\ Parent(p, p[n].right) = n
      BY DEF Family
    <2>2. past(p[n].left) = 0 /\ past(p[n].right) = size[p[n].left]
      BY <2>1
    <2>3. PICK a \in Nat : a = number[n]
      BY <1>1, <1>11
    <2> HIDE DEF past
    <2>4. number[p[n].left] = a + 1 + 0
      BY <1>10, <2>1, <2>2, <2>3
    <2>5. number[p[n].right] = a + 1 + size[p[n].left]
      BY <1>10, <2>1, <2>2, <2>3
    <2> QED BY <2>3, <2>4, <2>5
  <1> QED BY <1>3, <1>6, <1>10, <1>11, <1>12 DEF Preorder, size, number

----------------------------------------------------------------------------
(* The way from the root to a node.                                        *)

\* With every node its parent.
Upward(p, root, S) == \A n \in S : n # root => Parent(p, n) \in S

\* A node, its parent, and so on to the root.
Line(p, root, a) ==
  {u \in DOMAIN p : \A S \in SUBSET DOMAIN p : Upward(p, root, S) /\ a \in S => u \in S}

\* It is what any such set has, it is one itself, and each node on it above the
\* first has a child on it.
LEMMA LineFacts ==
  ASSUME NEW p, NEW root, Family(p, root), NEW a \in DOMAIN p
  PROVE  /\ Line(p, root, a) \subseteq DOMAIN p
         /\ a \in Line(p, root, a) /\ root \in Line(p, root, a)
         /\ \A S \in SUBSET DOMAIN p :
              Upward(p, root, S) /\ a \in S => Line(p, root, a) \subseteq S
         /\ \A u \in Line(p, root, a) : u # a =>
              u \in Inner(p) /\ \E c \in {p[u].left, p[u].right} : c \in Line(p, root, a)
  <1> DEFINE D == DOMAIN p
             A == Line(p, root, a)
             S == {a} \cup {u \in A : \E c \in A : c # root /\ Parent(p, c) = u}
  <1>1. /\ \A n \in D : n # root =>
             Parent(p, n) \in Inner(p) /\ ChildOf(p, n, Parent(p, n))
        /\ \A n \in D : n # root => Parent(p, n) \in D /\ n < Parent(p, n)
        /\ Len(p) \in Nat /\ D = 1 .. Len(p) /\ root \in D
    BY DEF Family, Inner
  <1>2. /\ A \subseteq D /\ a \in A
        /\ \A R \in SUBSET D : Upward(p, root, R) /\ a \in R => A \subseteq R
    BY DEF Line
  <1>3. Upward(p, root, A)
    <2> SUFFICES ASSUME NEW n \in A, n # root PROVE Parent(p, n) \in A
      BY DEF Upward
    <2>1. Parent(p, n) \in D
      BY <1>1, <1>2
    <2>2. ASSUME NEW R \in SUBSET D, Upward(p, root, R), a \in R PROVE Parent(p, n) \in R
      <3>1. n \in R
        BY <2>2, <1>2
      <3> QED BY <3>1, <2>2 DEF Upward
    <2> QED BY <2>1, <2>2 DEF Line
  <1> HIDE DEF A
  <1>4. Upward(p, root, S) /\ a \in S /\ S \in SUBSET D
    <2>1. ASSUME NEW n \in S, n # root PROVE Parent(p, n) \in S
      <3>1. n \in A
        BY <1>2
      <3>2. Parent(p, n) \in A
        BY <3>1, <1>3, <2>1 DEF Upward
      <3> QED BY <3>1, <3>2, <2>1
    <2>2. S \in SUBSET D /\ a \in S
      BY <1>2
    <2> HIDE DEF S
    <2> QED BY <2>1, <2>2 DEF Upward
  <1>5. A \subseteq S
    <2> HIDE DEF S
    <2> QED BY <1>2, <1>4
  <1>6. ASSUME NEW u \in A, u # a
        PROVE  u \in Inner(p) /\ \E c \in {p[u].left, p[u].right} : c \in A
    <2>1. PICK c \in A : c # root /\ Parent(p, c) = u
      BY <1>5, <1>6
    <2>2. u \in Inner(p) /\ ChildOf(p, c, u)
      BY <2>1, <1>1, <1>2
    <2> QED BY <2>1, <2>2 DEF ChildOf
  <1>7. root \in A
    <2> SUFFICES ASSUME root \notin A PROVE FALSE
      OBVIOUS
    <2> DEFINE N == Len(p)
               R == {N - n : n \in A}
    <2>1. R \subseteq Nat /\ R # {}
      BY <1>1, <1>2
    <2>2. PICK m \in R : \A n \in R : m <= n
      <3> HIDE DEF R
      <3> QED BY <2>1, Least
    <2>3. PICK n \in A : m = N - n
      OBVIOUS
    <2>4. n # root
      OBVIOUS
    <2>5. PICK u \in A : n < u /\ u \in D
      BY <2>4, <1>1, <1>2, <1>3 DEF Upward
    <2>6. m <= N - u
      BY <2>2, <2>5
    <2>7. n \in D
      BY <1>2
    <2> QED BY <2>3, <2>5, <2>6, <2>7, <1>1
  <1> QED BY <1>2, <1>6, <1>7 DEF A

\* The numbers of what is below a node.
Below(size, number, n, i) == number[n] <= i /\ i < number[n] + size[n]

\* A node has its number among those below each node on its line.
LEMMA LineIsBelow ==
  ASSUME NEW p, NEW root, Family(p, root), NEW size, NEW number,
         Preorder(p, root, size, number), NEW a \in DOMAIN p
  PROVE  \A u \in Line(p, root, a) :
           Below(size, number, u, number[a]) /\ (u # a => number[u] < number[a])
  <1> DEFINE D == DOMAIN p
             S == {u \in D : /\ Below(size, number, u, number[a])
                             /\ u # a => number[u] < number[a]}
  <1>1. \A n \in D : size[n] \in Nat \ {0} /\ number[n] \in Nat
    BY DEF Preorder
  <1>2. a \in S
    BY <1>1 DEF Below
  <1>3. ASSUME NEW n \in S, n # root PROVE Parent(p, n) \in S
    <2> DEFINE u == Parent(p, n)
    <2>1. u \in Inner(p) /\ u \in D /\ ChildOf(p, n, u) /\ p[u].left \in D /\ p[u].right \in D
      BY <1>3 DEF Family, Inner
    <2> HIDE DEF u
    <2>2. PICK x \in Nat, y \in Nat, z \in Nat, w \in Nat :
             x = number[u] /\ y = size[p[u].left] /\ z = size[p[u].right] /\ w = number[a]
      BY <1>1, <2>1
    <2>3. /\ size[u] = 1 + y + z /\ number[p[u].left] = x + 1
          /\ number[p[u].right] = x + 1 + y
      BY <2>1, <2>2 DEF Preorder
    <2>4. number[n] <= w /\ w < number[n] + size[n]
      BY <2>2 DEF Below
    <2>5. x < w /\ w < x + size[u]
      <3>1. CASE n = p[u].left
        BY <3>1, <2>2, <2>3, <2>4
      <3>2. CASE n = p[u].right
        BY <3>2, <2>2, <2>3, <2>4
      <3> QED BY <3>1, <3>2, <2>1 DEF ChildOf
    <2>6. Below(size, number, u, number[a]) /\ number[u] < number[a]
      BY <2>2, <2>5 DEF Below
    <2> QED BY <2>1, <2>6 DEF u
  <1>4. Upward(p, root, S) /\ S \in SUBSET D
    <2>1. S \in SUBSET D
      OBVIOUS
    <2> HIDE DEF S
    <2> QED BY <1>3, <2>1 DEF Upward
  <1>5. Line(p, root, a) \subseteq S
    <2> HIDE DEF S
    <2> QED BY <1>2, <1>4, LineFacts
  <1> QED BY <1>5

\* And no others: the numbers below two children are apart.
LEMMA BelowIsLine ==
  ASSUME NEW p, NEW root, Family(p, root), NEW size, NEW number,
         Preorder(p, root, size, number), NEW a \in DOMAIN p
  PROVE  \A u \in DOMAIN p : Below(size, number, u, number[a]) => u \in Line(p, root, a)
  <1> DEFINE D == DOMAIN p
             A == Line(p, root, a)
             T == {u \in D : Below(size, number, u, number[a]) => u \in A}
  <1>1. (\A n \in D : size[n] \in Nat \ {0} /\ number[n] \in Nat) /\ root \in D
    BY DEF Preorder, Family
  <1>2. root \in T
    BY <1>1, LineFacts
  <1>3. ASSUME NEW n \in D, n # root, Parent(p, n) \in T PROVE n \in T
    <2> SUFFICES ASSUME Below(size, number, n, number[a]) PROVE n \in A
      BY DEF T
    <2> DEFINE u == Parent(p, n)
    <2>1. u \in Inner(p) /\ u \in D /\ ChildOf(p, n, u) /\ p[u].left \in D /\ p[u].right \in D
      BY <1>3 DEF Family, Inner
    <2>2. u \in T
      BY <1>3
    <2> HIDE DEF u
    <2>3. PICK x \in Nat, y \in Nat, z \in Nat, w \in Nat :
             x = number[u] /\ y = size[p[u].left] /\ z = size[p[u].right] /\ w = number[a]
      BY <1>1, <2>1
    <2>4. /\ size[u] = 1 + y + z /\ number[p[u].left] = x + 1
          /\ number[p[u].right] = x + 1 + y
      BY <2>1, <2>3 DEF Preorder
    <2>5. number[n] <= w /\ w < number[n] + size[n]
      BY <2>3 DEF Below
    <2>6. x < w /\ w < x + size[u]
      <3>1. CASE n = p[u].left
        BY <3>1, <2>3, <2>4, <2>5
      <3>2. CASE n = p[u].right
        BY <3>2, <2>3, <2>4, <2>5
      <3> QED BY <3>1, <3>2, <2>1 DEF ChildOf
    <2>7. u \in A /\ u # a
      <3>1. Below(size, number, u, number[a])
        BY <2>3, <2>6 DEF Below
      <3>2. u # a
        BY <2>3, <2>6
      <3> QED BY <3>1, <3>2, <2>2
    <2>8. PICK c \in {p[u].left, p[u].right} : c \in A
      BY <2>7, LineFacts
    <2>9. number[c] <= w /\ w < number[c] + size[c]
      BY <2>8, <2>3, LineIsBelow DEF Below
    <2>10. c = n
      <3>1. CASE c = p[u].left /\ n = p[u].right
        BY <3>1, <2>3, <2>4, <2>5, <2>9
      <3>2. CASE c = p[u].right /\ n = p[u].left
        BY <3>2, <2>3, <2>4, <2>5, <2>9
      <3> QED BY <3>1, <3>2, <2>1 DEF ChildOf
    <2> QED BY <2>8, <2>10
  <1> HIDE DEF T
  <1>4. \A n \in D : n \in T
    BY <1>2, <1>3, DownInduction
  <1> QED BY <1>4 DEF T

\* So pad_tree_* gives each node a number of its own, below the number of nodes.
LEMMA NumbersAreNodes ==
  ASSUME NEW p, NEW root, Family(p, root), NEW size, NEW number,
         Preorder(p, root, size, number)
  PROVE  /\ \A a, b \in DOMAIN p : number[a] = number[b] => a = b
         /\ \A a \in DOMAIN p : number[a] \in 0 .. Len(p) - 1
  <1> DEFINE D == DOMAIN p
  <1>1. /\ \A n \in D : size[n] \in Nat \ {0} /\ number[n] \in Nat
        /\ number \in [D -> Nat] /\ number[root] = 0
        /\ root \in D /\ Len(p) \in Nat /\ D = 1 .. Len(p)
    BY DEF Preorder, Family
  <1>2. ASSUME NEW a \in D, NEW b \in D, number[a] = number[b] PROVE a = b
    <2>1. Below(size, number, b, number[a])
      BY <1>1, <1>2 DEF Below
    <2>2. b \in Line(p, root, a)
      BY <2>1, BelowIsLine
    <2>3. b # a => number[b] < number[a]
      BY <2>2, LineIsBelow
    <2> QED BY <2>3, <1>1, <1>2
  <1> DEFINE T == {n \in D : \A i \in Nat : Below(size, number, n, i) =>
                                 \E a \in D : number[a] = i}
             r == [n \in D |-> n]
  <1>3. ASSUME NEW n \in D, \A m \in D : r[m] < r[n] => m \in T PROVE n \in T
    <2> SUFFICES ASSUME NEW i \in Nat, Below(size, number, n, i)
                 PROVE  \E a \in D : number[a] = i
      OBVIOUS
    <2>1. number[n] <= i /\ i < number[n] + size[n]
      BY DEF Below
    <2>2. CASE i = number[n]
      BY <2>2
    <2>3. CASE i # number[n] /\ n \notin Inner(p)
      <3>1. size[n] = 1
        BY <2>3 DEF Preorder
      <3> QED BY <3>1, <2>1, <2>3, <1>1
    <2>4. CASE i # number[n] /\ n \in Inner(p)
      <3>1. /\ p[n].left \in D /\ p[n].right \in D /\ p[n].left < n /\ p[n].right < n
        BY <2>4 DEF Family
      <3>2. p[n].left \in T /\ p[n].right \in T
        BY <3>1, <1>3
      <3>3. PICK x \in Nat, y \in Nat, z \in Nat :
               x = number[n] /\ y = size[p[n].left] /\ z = size[p[n].right]
        BY <1>1, <3>1
      <3>4. /\ size[n] = 1 + y + z /\ number[p[n].left] = x + 1
            /\ number[p[n].right] = x + 1 + y
        BY <2>4, <3>3 DEF Preorder
      <3>5. CASE i < x + 1 + y
        <4>1. Below(size, number, p[n].left, i)
          BY <3>3, <3>4, <3>5, <2>1, <2>4 DEF Below
        <4> QED BY <4>1, <3>2
      <3>6. CASE ~(i < x + 1 + y)
        <4>1. Below(size, number, p[n].right, i)
          BY <3>3, <3>4, <3>6, <2>1, <2>4 DEF Below
        <4> QED BY <4>1, <3>2
      <3> QED BY <3>5, <3>6
    <2> QED BY <2>2, <2>3, <2>4
  <1>4. root \in T
    <2>1. \A n \in D : r[n] \in Nat
      BY <1>1
    <2> HIDE DEF r, T, D
    <2>2. \A n \in D : n \in T
      BY <1>3, <2>1, RankInduction
    <2> QED BY <2>2, <1>1
  <1> DEFINE M == size[root]
             I == 0 .. M - 1
             R == {a \in D : number[a] \in I}
             g == [a \in R |-> number[a]]
  <1>5. M <= Len(p)
    <2>1. IsFiniteSet(D) /\ Cardinality(D) = Len(p)
      <3>1. Cardinality(1 .. Len(p)) = Len(p) /\ IsFiniteSet(1 .. Len(p))
        <4>1. 1 \in Int /\ Len(p) \in Int /\ ~(1 > Len(p)) /\ Len(p) - 1 + 1 = Len(p)
          BY <1>1
        <4> QED BY <4>1, FS_Interval
      <3> QED BY <3>1, <1>1
    <2>2. IsFiniteSet(R) /\ Cardinality(R) <= Len(p) /\ Cardinality(R) \in Nat
      <3>1. R \in SUBSET D
        OBVIOUS
      <3> HIDE DEF R, D
      <3> QED BY <2>1, <3>1, FS_Subset, FS_CardinalityType
    <2>3. g \in Surjection(R, I)
      <3>1. g \in [R -> I]
        OBVIOUS
      <3>2. ASSUME NEW i \in I PROVE \E a \in R : g[a] = i
        <4>1. i \in Nat /\ Below(size, number, root, i)
          BY <1>1 DEF Below
        <4>2. PICK a \in D : number[a] = i
          BY <4>1, <1>4
        <4> QED BY <4>2
      <3> HIDE DEF g, R, I
      <3> QED BY <3>1, <3>2 DEF Surjection
    <2>4. Cardinality(I) <= Cardinality(R)
      <3> HIDE DEF g, R, I
      <3> QED BY <2>2, <2>3, FS_Surjection
    <2>5. M \in Nat /\ Cardinality(I) = M
      <3>1. M \in Nat /\ M # 0
        BY <1>1
      <3> HIDE DEF M
      <3>2. Cardinality(0 .. M - 1) = M
        <4>1. 0 \in Int /\ M - 1 \in Int /\ ~(0 > M - 1) /\ (M - 1) - 0 + 1 = M
          BY <3>1
        <4>2. Cardinality(0 .. M - 1) = (M - 1) - 0 + 1
          BY <4>1, FS_Interval
        <4> QED BY <4>1, <4>2
      <3> QED BY <3>1, <3>2
    <2> HIDE DEF M, I, R
    <2> QED BY <2>2, <2>4, <2>5, <1>1
  <1>6. ASSUME NEW a \in D PROVE number[a] \in 0 .. Len(p) - 1
    <2>1. Below(size, number, root, number[a])
      BY LineFacts, LineIsBelow
    <2> QED BY <2>1, <1>1, <1>5 DEF Below
  <1> QED BY <1>2, <1>6

\* The tree read is the tree written, under the numbers it was given.
Rebuilt(b, p, number) ==
  \A v \in DOMAIN p :
    /\ b.t[number[v]] = p[v].t
    /\ IsLeaf(p[v]) => b.C[number[v]] = p[v].c
    /\ v \in Inner(p) =>
         b.L[number[v]] = number[p[v].left] /\ b.R[number[v]] = number[p[v].right]

\* pad_tree_* and unpad_tree_* keep the tree, in each of the three widths.
LEMMA TreeSurvives ==
  ASSUME NEW p, NEW root, Tree(p, root), Len(p) <= Wide
  PROVE  Rebuilt(UnpadTree(PadTree(p, root, Len(p)), Len(p)), p, Number(p, root))
  <1> DEFINE D == DOMAIN p
             N == Len(p)
             number == Number(p, root)
             at(i) == p[CHOOSE n \in D : number[n] = i]
             stored(n) == IF n = 0 THEN 0 ELSE number[n] % Width(N)
             b == PadTree(p, root, N)
  <1>1. Family(p, root) /\ N \in Nat /\ D = 1 .. N /\ root \in D
    BY TreeFamily DEF Family
  <1>2. Preorder(p, root, Size(p), number)
    BY <1>1, NumberedInPreorder
  <1>3. b = [L |-> [i \in 0 .. N - 1 |-> stored(at(i).left)],
             R |-> [i \in 0 .. N - 1 |-> stored(at(i).right)],
             C |-> [i \in 0 .. N - 1 |-> at(i).c], t |-> [i \in 0 .. N - 1 |-> at(i).t]]
    BY Zenon DEF PadTree, Number, Size
  <1> HIDE DEF number
  <1>4. /\ \A u, v \in D : number[u] = number[v] => u = v
        /\ \A v \in D : number[v] \in 0 .. N - 1
        /\ number[root] = 0
    <2>1. /\ \A u, v \in D : number[u] = number[v] => u = v
          /\ \A v \in D : number[v] \in 0 .. N - 1
      BY <1>1, <1>2, NumbersAreNodes
    <2>2. number[root] = 0
      BY <1>2 DEF Preorder
    <2> QED BY <2>1, <2>2
  <1>5. \A v \in D : at(number[v]) = p[v]
    BY <1>4
  <1>6. \A v \in D : v # 0 /\ stored(v) = number[v]
    <2> SUFFICES ASSUME NEW v \in D PROVE v # 0 /\ number[v] % Width(N) = number[v]
      OBVIOUS
    <2>1. N <= Width(N) /\ Width(N) \in Nat
      BY <1>1, WidthAssumption DEF Width
    <2>2. PICK w \in Nat, x \in Nat : w = Width(N) /\ x = number[v] /\ x < w
      BY <2>1, <1>1, <1>4
    <2>3. x % w = x
      BY <2>2
    <2> QED BY <2>2, <2>3, <1>1
  <1> HIDE DEF at, stored
  <1>7. Rebuilt(b, p, number)
    <2> SUFFICES ASSUME NEW v \in D
                 PROVE  /\ b.t[number[v]] = p[v].t
                        /\ IsLeaf(p[v]) => b.C[number[v]] = p[v].c
                        /\ v \in Inner(p) =>
                             /\ b.L[number[v]] = number[p[v].left]
                             /\ b.R[number[v]] = number[p[v].right]
      BY DEF Rebuilt
    <2>1. number[v] \in 0 .. N - 1 /\ at(number[v]) = p[v]
      BY <1>4, <1>5
    <2>2. /\ b.t[number[v]] = p[v].t /\ b.C[number[v]] = p[v].c
          /\ b.L[number[v]] = stored(p[v].left) /\ b.R[number[v]] = stored(p[v].right)
      <3> HIDE DEF b
      <3> QED BY <1>3, <2>1
    <2>3. v \in Inner(p) => p[v].left \in D /\ p[v].right \in D
      BY <1>1 DEF Family
    <2> HIDE DEF b
    <2> QED BY <2>2, <2>3, <1>6
  <1>8. CASE N <= Narrow
    BY <1>7, <1>8 DEF UnpadTree, number
  <1>9. CASE ~(N <= Narrow)
    <2> DEFINE c == [b EXCEPT !.C[0] = 0, !.t[0] = 0]
    <2>1. UnpadTree(b, N) = c
      <3> HIDE DEF b
      <3> QED BY <1>9 DEF UnpadTree
    <2>2. /\ c.L = b.L /\ c.R = b.R
          /\ \A i \in 0 .. N - 1 : i # 0 => c.C[i] = b.C[i] /\ c.t[i] = b.t[i]
          /\ c.t[0] = 0
      <3>1. 0 \in 0 .. N - 1
        BY <1>1
      <3> HIDE DEF b
      <3> QED BY <1>3, <3>1
    <2>3. root \in Inner(p)
      <3>1. N > 1
        BY <1>1, <1>9, WidthAssumption
      <3>2. PICK n \in D : n # root
        <4>1. 1 \in D /\ 2 \in D /\ 1 # 2
          BY <1>1, <3>1
        <4> QED BY <4>1
      <3> QED BY <1>1, <3>2, LineFacts
    <2>4. p[root].t = 0 /\ ~IsLeaf(p[root])
      <3>1. p[root] \in Node
        BY <1>1 DEF Tree
      <3> QED BY <3>1, <2>3 DEF Inner, IsLeaf, Node
    <2> HIDE DEF b, c
    <2>5. Rebuilt(c, p, number)
      <3> SUFFICES ASSUME NEW v \in D
                   PROVE  /\ c.t[number[v]] = p[v].t
                          /\ IsLeaf(p[v]) => c.C[number[v]] = p[v].c
                          /\ v \in Inner(p) =>
                               /\ c.L[number[v]] = number[p[v].left]
                               /\ c.R[number[v]] = number[p[v].right]
        BY DEF Rebuilt
      <3>1. CASE v = root
        BY <3>1, <2>2, <2>4, <1>4, <1>7 DEF Rebuilt
      <3>2. CASE v # root
        <4>1. number[v] # 0 /\ number[v] \in 0 .. N - 1
          BY <3>2, <1>1, <1>4
        <4> QED BY <4>1, <2>2, <1>7 DEF Rebuilt
      <3> QED BY <3>1, <3>2
    <2> QED BY <2>1, <2>5 DEF b, number
  <1> QED BY <1>8, <1>9

----------------------------------------------------------------------------
(* The code as a way down.                                                 *)

\* What build_code has on the way to each node, as in CodeOfLeaf.
Path(p, root) ==
  LET path[n \in DOMAIN p] ==
        IF n = root THEN <<>>
        ELSE LET up == Parent(p, n)
             IN  Append(path[up], IF p[up].left = n THEN 0 ELSE 1)
  IN  path

\* The path to a node leads to its children with one bit more.
Paths(p, root, path) ==
  /\ path \in [DOMAIN p -> Seq({0, 1})] /\ path[root] = <<>>
  /\ \A n \in Inner(p) :
       path[p[n].left] = Append(path[n], 0) /\ path[p[n].right] = Append(path[n], 1)

\* What CodeOfLeaf computes satisfies that.
LEMMA PathsGoDown ==
  ASSUME NEW p, NEW root, Family(p, root)
  PROVE  Paths(p, root, Path(p, root))
  <1> DEFINE D == DOMAIN p
             V == Seq({0, 1})
             path == Path(p, root)
             bit(n) == IF p[Parent(p, n)].left = n THEN 0 ELSE 1
             Eq(h) == h = [n \in D |-> IF n = root THEN <<>>
                             ELSE LET up == Parent(p, n)
                                  IN  Append(h[up], IF p[up].left = n THEN 0 ELSE 1)]
  <1>1. /\ root \in D /\ Inner(p) \subseteq D
        /\ \A n \in D : n # root => Parent(p, n) \in D
    BY DEF Family, Inner
  <1>2. \A n \in D : bit(n) \in {0, 1}
    OBVIOUS
  <1>3. <<>> \in V /\ \A w \in V : \A x \in {0, 1} : Append(w, x) \in V
    OBVIOUS
  <1>4. \E h : Eq(h)
    <2> DEFINE step == [n \in D |-> [w \in V |-> Append(w, bit(n))]]
    <2>1. Steps(p, root, V, step)
      <3> HIDE DEF bit, V
      <3> QED BY <1>2, <1>3 DEF Steps
    <2>2. PICK h \in [D -> V] : Down(p, root, <<>>, step, h)
      <3> HIDE DEF step, V
      <3> QED BY <2>1, <1>3, DownExists
    <2>3. ASSUME NEW n \in D
          PROVE  h[n] = IF n = root THEN <<>> ELSE Append(h[Parent(p, n)], bit(n))
      <3> HIDE DEF bit, V
      <3> QED BY <2>2, <1>1 DEF Down
    <2>4. Eq(h)
      <3>1. h = [n \in D |-> h[n]]
        BY <2>2
      <3> QED BY <3>1, <2>3
    <2> QED BY <2>4
  <1>5. Eq(path)
    <2>1. path = CHOOSE h : Eq(h)
      BY Zenon DEF Path
    <2> HIDE DEF path, Eq
    <2> QED BY <1>4, <2>1
  <1> HIDE DEF path
  <1>6. /\ DOMAIN path = D /\ path[root] = <<>>
        /\ \A n \in D : n # root => path[n] = Append(path[Parent(p, n)], bit(n))
    BY <1>1, <1>5
  <1>7. path \in [D -> V]
    <2> DEFINE U == {n \in D : path[n] \in V}
    <2>1. root \in U
      BY <1>1, <1>3, <1>6
    <2>2. ASSUME NEW n \in D, n # root, Parent(p, n) \in U PROVE n \in U
      <3> HIDE DEF bit, V
      <3> QED BY <2>2, <1>2, <1>3, <1>6
    <2> HIDE DEF U
    <2>3. \A n \in D : n \in U
      BY <2>1, <2>2, DownInduction
    <2>4. path = [n \in D |-> path[n]]
      BY <1>5
    <2> HIDE DEF V
    <2> QED BY <2>3, <2>4 DEF U
  <1>8. ASSUME NEW n \in Inner(p)
        PROVE  path[p[n].left] = Append(path[n], 0) /\ path[p[n].right] = Append(path[n], 1)
    <2>1. /\ p[n].left \in D /\ p[n].right \in D /\ p[n].left # p[n].right
          /\ p[n].left # root /\ p[n].right # root
          /\ Parent(p, p[n].left) = n /\ Parent(p, p[n].right) = n
      BY DEF Family
    <2>2. bit(p[n].left) = 0 /\ bit(p[n].right) = 1
      BY <2>1
    <2> HIDE DEF bit
    <2> QED BY <2>1, <2>2, <1>6
  <1> QED BY <1>6, <1>7, <1>8 DEF Paths, path

\* Where a bit of a node's path leads from a node on the way to it.
OnTheWay(p, root, path, x, v) ==
  /\ v \in Inner(p) /\ Len(path[v]) \in Nat /\ Len(path[v]) < Len(path[x])
  /\ LET bit == path[x][Len(path[v]) + 1]
         c   == IF bit = 1 THEN p[v].right ELSE p[v].left
     IN  c \in Line(p, root, x) /\ Len(path[c]) = Len(path[v]) + 1

\* Each bit of the path to x leads from a node on the way to x to the next one.
LEMMA PathLeads ==
  ASSUME NEW p, NEW root, Family(p, root), NEW path, Paths(p, root, path), NEW x \in DOMAIN p
  PROVE  /\ \A v \in Line(p, root, x) : v # x => OnTheWay(p, root, path, x, v)
         /\ \A v \in Line(p, root, x) : Len(path[v]) <= Len(path[x])
  <1> DEFINE D == DOMAIN p
             A == Line(p, root, x)
             Starts(a, b) == Len(a) <= Len(b) /\ \A i \in 1 .. Len(a) : a[i] = b[i]
             S == {v \in D : Starts(path[v], path[x])}
  <1>1. /\ \A n \in D : path[n] \in Seq({0, 1}) /\ Len(path[n]) \in Nat
        /\ A \subseteq D
    BY LineFacts DEF Paths
  <1>2. x \in S
    BY <1>1
  <1>3. ASSUME NEW n \in S, n # root PROVE Parent(p, n) \in S
    <2> DEFINE u == Parent(p, n)
    <2>1. u \in Inner(p) /\ u \in D /\ ChildOf(p, n, u)
      BY <1>3 DEF Family, Inner
    <2> HIDE DEF u
    <2>2. path[n] = Append(path[u], 0) \/ path[n] = Append(path[u], 1)
      BY <2>1 DEF ChildOf, Paths
    <2>3. Len(path[n]) = Len(path[u]) + 1 /\ \A i \in 1 .. Len(path[u]) : path[n][i] = path[u][i]
      BY <2>1, <2>2, <1>1
    <2>4. Starts(path[n], path[x])
      OBVIOUS
    <2>5. Starts(path[u], path[x])
      BY <2>1, <2>3, <2>4, <1>1
    <2> QED BY <2>1, <2>5 DEF u
  <1>4. Upward(p, root, S) /\ S \in SUBSET D
    <2>1. S \in SUBSET D
      OBVIOUS
    <2> HIDE DEF S
    <2> QED BY <1>3, <2>1 DEF Upward
  <1>5. A \subseteq S
    <2> HIDE DEF S
    <2> QED BY <1>2, <1>4, LineFacts
  <1>6. ASSUME NEW v \in A, v # x PROVE OnTheWay(p, root, path, x, v)
    <2>1. PICK c \in {p[v].left, p[v].right} : v \in Inner(p) /\ c \in A
      BY <1>6, LineFacts
    <2> DEFINE bit == IF c = p[v].left THEN 0 ELSE 1
               l == Len(path[v])
    <2>2. path[c] = Append(path[v], bit)
      BY <2>1 DEF Paths
    <2>3. l \in Nat /\ Len(path[c]) = l + 1 /\ path[c][l + 1] = bit
      <3> HIDE DEF bit
      <3> QED BY <2>2, <1>1
    <2>4. Starts(path[c], path[x])
      BY <2>1, <1>5
    <2> HIDE DEF l
    <2>5. path[x][l + 1] = bit /\ l < Len(path[x])
      <3> HIDE DEF bit
      <3>1. l + 1 \in 1 .. Len(path[c])
        BY <2>3
      <3>2. Len(path[x]) \in Nat
        BY <1>1
      <3> QED BY <3>1, <3>2, <2>3, <2>4
    <2>6. c = IF bit = 1 THEN p[v].right ELSE p[v].left
      BY <2>1
    <2> HIDE DEF bit, A
    <2> QED BY <2>1, <2>3, <2>5, <2>6 DEF OnTheWay, l, A
  <1>7. \A v \in A : Len(path[v]) <= Len(path[x])
    BY <1>5
  <1> QED BY <1>6, <1>7

----------------------------------------------------------------------------
(* The tree the heap leaves.                                               *)

\* The first d nodes are the leaves, the others have two children.
Kinds(p, d) ==
  \A n \in DOMAIN p :
    /\ IsLeaf(p[n]) <=> n <= d
    /\ n <= d => p[n].left = 0 /\ p[n].right = 0
    /\ n > d => p[n].left \in 1 .. n - 1 /\ p[n].right \in 1 .. n - 1

\* With one node in the queue, and one inner node less than there are leaves, it
\* is a tree: the inner nodes have as many places for children as there are nodes
\* that need one, so none is used twice.
LEMMA QueueLeavesTree ==
  ASSUME NEW p, Pool(p), NEW q \in Seq(DOMAIN p), Len(q) = 1,
         \A n \in DOMAIN p : Placed(p, q, n),
         NEW d \in Nat, Kinds(p, d), Len(p) + 1 = 2 * d
  PROVE  Tree(p, q[1])
  <1> DEFINE N == Len(p)
             D == DOMAIN p
             root == q[1]
             I == d + 1 .. N
             Slots == {0, 1} \X I
             child(x) == IF x[1] = 0 THEN p[x[2]].left ELSE p[x[2]].right
             Img == {child(x) : x \in Slots}
             R == D \ {root}
             f == [x \in Slots |-> child(x)]
  <1>1. N \in Nat /\ D = 1 .. N /\ root \in D /\ p \in Seq(Node)
    BY DEF Pool
  <1>2. d >= 1 /\ N = (2 * d) - 1 /\ N >= 1 /\ d <= N
    BY <1>1
  <1>3. ASSUME NEW n \in D, NEW m \in D, ChildOf(p, n, m)
        PROVE  m \in I /\ \E i \in {0, 1} : child(<<i, m>>) = n
    <2>1. m > d
      <3>1. n # 0
        BY <1>1
      <3> QED BY <3>1, <1>1, <1>3 DEF Kinds, ChildOf
    <2>2. child(<<0, m>>) = p[m].left /\ child(<<1, m>>) = p[m].right
      OBVIOUS
    <2>3. child(<<0, m>>) = n \/ child(<<1, m>>) = n
      BY <2>2, <1>3 DEF ChildOf
    <2> HIDE DEF child
    <2> QED BY <2>1, <2>3, <1>1
  <1>4. R \subseteq Img
    <2> SUFFICES ASSUME NEW n \in D, n # root PROVE n \in Img
      OBVIOUS
    <2>1. ~Among(q, 1, Len(q), n)
      BY DEF Among
    <2>2. PICK m \in D : ChildOf(p, n, m)
      BY <2>1 DEF Placed
    <2>3. m \in I /\ \E i \in {0, 1} : child(<<i, m>>) = n
      BY <1>3, <2>2
    <2> HIDE DEF child, I
    <2> QED BY <2>3
  <1>5. IsFiniteSet(Slots) /\ Cardinality(Slots) = N - 1
    <2>1. IsFiniteSet(I) /\ Cardinality(I) = d - 1
      <3>1. d + 1 \in Int /\ N \in Int
        BY <1>1
      <3>2. IsFiniteSet(I) /\ Cardinality(I) = IF d + 1 > N THEN 0 ELSE N - (d + 1) + 1
        BY <3>1, FS_Interval
      <3>3. (IF d + 1 > N THEN 0 ELSE N - (d + 1) + 1) = d - 1
        BY <1>1, <1>2
      <3> HIDE DEF I
      <3> QED BY <3>2, <3>3
    <2>2. IsFiniteSet({0, 1}) /\ Cardinality({0, 1}) = 2
      <3>1. IsFiniteSet(0 .. 1) /\ Cardinality(0 .. 1) = 1 - 0 + 1
        <4>1. 0 \in Int /\ 1 \in Int /\ ~(0 > 1)
          OBVIOUS
        <4> QED BY <4>1, FS_Interval
      <3>2. 0 .. 1 = {0, 1} /\ 1 - 0 + 1 = 2
        OBVIOUS
      <3> QED BY <3>1, <3>2
    <2>3. IsFiniteSet(Slots) /\ Cardinality(Slots) = 2 * (d - 1)
      <3> HIDE DEF I
      <3> QED BY <2>1, <2>2, FS_Product
    <2>4. 2 * (d - 1) = N - 1
      BY <1>2
    <2> HIDE DEF Slots
    <2> QED BY <2>3, <2>4
  <1>6. IsFiniteSet(R) /\ Cardinality(R) = N - 1
    <2>1. IsFiniteSet(D) /\ Cardinality(D) = N
      <3>1. 1 \in Int /\ N \in Int /\ ~(1 > N) /\ N - 1 + 1 = N
        BY <1>1, <1>2
      <3> HIDE DEF N
      <3> QED BY <3>1, <1>1, FS_Interval
    <2> HIDE DEF D, root
    <2>2. IsFiniteSet(R) /\ Cardinality(R) = Cardinality(D) - 1
      BY <2>1, <1>1, FS_RemoveElement
    <2> HIDE DEF R, N
    <2> QED BY <2>1, <2>2
  <1>7. f \in Surjection(Slots, Img)
    <2>1. f \in [Slots -> Img] /\ \A y \in Img : \E x \in Slots : f[x] = y
      <3> HIDE DEF Slots, child
      <3> QED OBVIOUS
    <2> HIDE DEF f, Img, Slots
    <2> QED BY <2>1 DEF Surjection
  <1>8. /\ IsFiniteSet(Img) /\ Cardinality(Img) <= Cardinality(Slots)
        /\ Cardinality(Img) = Cardinality(Slots) <=> f \in Injection(Slots, Img)
    <2> HIDE DEF f, Img, Slots
    <2> QED BY <1>5, <1>7, FS_Surjection
  <1>9. R = Img /\ f \in Injection(Slots, Img)
    <2>1. Cardinality(R) <= Cardinality(Img) /\ (Cardinality(Img) = Cardinality(R) => Img = R)
      <3> HIDE DEF R, Img
      <3> QED BY <1>4, <1>8, FS_Subset
    <2>2. Cardinality(Img) \in Nat
      <3> HIDE DEF Img
      <3> QED BY <1>8, FS_CardinalityType
    <2>3. Cardinality(Img) = N - 1
      <3> HIDE DEF R, Img, Slots, N, f
      <3> QED BY <2>1, <2>2, <1>1, <1>5, <1>6, <1>8
    <2> HIDE DEF R, Img, Slots, N, f
    <2> QED BY <2>1, <2>3, <1>5, <1>6, <1>8
  <1>10. \A x, y \in Slots : child(x) = child(y) => x = y
    <2>1. \A x, y \in Slots : f[x] = f[y] => x = y
      <3> HIDE DEF f, Img, Slots
      <3> QED BY <1>9 DEF Injection, IsInjective
    <2> HIDE DEF Slots, child
    <2> QED BY <2>1
  <1>11. \A i \in {0, 1} : \A m \in I : <<i, m>> \in Slots
    OBVIOUS
  <1>12. \A i, j \in {0, 1} : \A m, l \in I :
            child(<<i, m>>) = child(<<j, l>>) => i = j /\ m = l
    <2> SUFFICES ASSUME NEW i \in {0, 1}, NEW j \in {0, 1}, NEW m \in I, NEW l \in I,
                        child(<<i, m>>) = child(<<j, l>>)
                 PROVE  i = j /\ m = l
      OBVIOUS
    <2>1. <<i, m>> = <<j, l>>
      <3> HIDE DEF Slots, child, I
      <3> QED BY <1>10, <1>11
    <2> QED BY <2>1
  <1>13. ASSUME NEW n \in D, NEW m \in D, NEW l \in D, ChildOf(p, n, m), ChildOf(p, n, l)
         PROVE  m = l
    <2>1. PICK i \in {0, 1} : m \in I /\ child(<<i, m>>) = n
      BY <1>3, <1>13
    <2>2. PICK j \in {0, 1} : l \in I /\ child(<<j, l>>) = n
      BY <1>3, <1>13
    <2> HIDE DEF child, I
    <2> QED BY <2>1, <2>2, <1>12
  <1>14. ASSUME NEW m \in D PROVE ~ChildOf(p, root, m)
    <2> SUFFICES ASSUME ChildOf(p, root, m) PROVE FALSE
      OBVIOUS
    <2>1. PICK i \in {0, 1} : m \in I /\ child(<<i, m>>) = root
      BY <1>1, <1>3, <1>14
    <2>2. root \in Img
      <3> HIDE DEF child, I, root
      <3> QED BY <2>1, <1>11
    <2> QED BY <2>2, <1>9
  <1>15. ASSUME NEW n \in D, ~IsLeaf(p[n])
         PROVE  /\ p[n].left \in 1 .. n - 1 /\ p[n].right \in 1 .. n - 1
                /\ p[n].left # p[n].right
    <2>1. n > d /\ n \in I
      BY <1>1, <1>15 DEF Kinds
    <2>2. p[n].left \in 1 .. n - 1 /\ p[n].right \in 1 .. n - 1
      BY <2>1 DEF Kinds
    <2>3. child(<<0, n>>) = p[n].left /\ child(<<1, n>>) = p[n].right
      OBVIOUS
    <2> HIDE DEF child, I
    <2> QED BY <2>1, <2>2, <2>3, <1>12
  <1>16. \A n \in D : n # root => \E m \in D : ChildOf(p, n, m)
    <2> SUFFICES ASSUME NEW n \in D, n # root PROVE \E m \in D : ChildOf(p, n, m)
      OBVIOUS
    <2>1. ~Among(q, 1, Len(q), n)
      BY DEF Among
    <2> QED BY <2>1 DEF Placed
  <1>17. \A n \in D : IsLeaf(p[n]) => p[n].left = 0 /\ p[n].right = 0
    BY DEF Kinds
  <1> HIDE DEF root
  <1> QED BY <1>1, <1>13, <1>14, <1>15, <1>16, <1>17 DEF Tree, root

----------------------------------------------------------------------------
(* Reading the codes back.                                                 *)

\* The leaf whose path is the code of c.
LeafFor(p, c) == CHOOSE n \in DOMAIN p : IsLeaf(p[n]) /\ p[n].c = c

\* A tree that fits the encoding, and the codes c read off it for what is in a.
Coding(p, root, a, c) ==
  /\ Tree(p, root) /\ Len(p) <= Wide /\ a \in Seq(Nat)
  /\ \A k \in 1 .. Len(a) :
       /\ LeafFor(p, a[k]) \in DOMAIN p /\ LeafOf(p, a[k], LeafFor(p, a[k]))
       /\ c[a[k]] = Path(p, root)[LeafFor(p, a[k])]

\* A decoder that has read the codes of k symbols and part of the next one.
ReadTo(p, root, a, c, k, v, d) ==
  /\ v \in Line(p, root, LeafFor(p, a[k + 1])) /\ (v = root \/ v \in Inner(p))
  /\ d.i = Len(Joined(a, c, k)) + Len(Path(p, root)[v])
  /\ d.n = Number(p, root)[v] /\ d.out = SubSeq(a, 1, k)
Reading(p, root, a, c, d) ==
  \E k \in 0 .. Len(a) - 1 : \E v \in DOMAIN p : ReadTo(p, root, a, c, k, v, d)

\* A decoder that has read them all.
HasRead(a, c, d) == d.n = 0 /\ d.out = a /\ d.i \in 0 .. Len(Joined(a, c, Len(a)))

\* What was joined first stays, and the next code is behind it.
Grows(a, c, L) ==
  /\ \A k \in 0 .. L :
       /\ Len(Joined(a, c, k)) \in Nat /\ Len(Joined(a, c, k)) <= Len(Joined(a, c, L))
       /\ \A i \in 1 .. Len(Joined(a, c, k)) : Joined(a, c, L)[i] = Joined(a, c, k)[i]
  /\ \A k \in 0 .. L - 1 :
       /\ Len(Joined(a, c, k + 1)) = Len(Joined(a, c, k)) + Len(c[a[k + 1]])
       /\ \A i \in 1 .. Len(c[a[k + 1]]) :
            Joined(a, c, k + 1)[Len(Joined(a, c, k)) + i] = c[a[k + 1]][i]

\* That is so for any codes of the symbols.
LEMMA JoinedGrows ==
  ASSUME NEW a, NEW L \in Nat, NEW c, \A k \in 1 .. L : c[a[k]] \in Seq({0, 1})
  PROVE  Grows(a, c, L)
  <1> DEFINE J(k) == Joined(a, c, k)
             V == Seq({0, 1})
  <1>1. /\ \A n \in 0 .. L : J(n) \in V
        /\ \A n \in 1 .. L : J(n) = J(n - 1) \o c[a[n]]
    BY JoinedAppends
  <1>2. \A n \in 0 .. L - 1 : J(n + 1) = J(n) \o c[a[n + 1]] /\ c[a[n + 1]] \in V
    <2> SUFFICES ASSUME NEW n \in 0 .. L - 1
                 PROVE  J(n + 1) = J(n) \o c[a[n + 1]] /\ c[a[n + 1]] \in V
      OBVIOUS
    <2>1. PICK m \in 1 .. L : m = n + 1 /\ m - 1 = n
      OBVIOUS
    <2> HIDE DEF J, V
    <2> QED BY <2>1, <1>1 DEF V
  <1> HIDE DEF J
  <1>3. ASSUME NEW k \in 0 .. L - 1
        PROVE  /\ Len(J(k)) \in Nat /\ Len(c[a[k + 1]]) \in Nat
               /\ Len(J(k + 1)) = Len(J(k)) + Len(c[a[k + 1]])
               /\ \A i \in 1 .. Len(c[a[k + 1]]) : J(k + 1)[Len(J(k)) + i] = c[a[k + 1]][i]
               /\ \A i \in 1 .. Len(J(k)) : J(k + 1)[i] = J(k)[i]
    <2>1. PICK x \in V, y \in V, z \in V :
            x = J(k) /\ y = c[a[k + 1]] /\ z = J(k + 1) /\ z = x \o y
      <3>1. k \in 0 .. L /\ k + 1 \in 0 .. L
        OBVIOUS
      <3> HIDE DEF V
      <3> QED BY <3>1, <1>1, <1>2
    <2>2. /\ Len(x) \in Nat /\ Len(y) \in Nat /\ Len(z) = Len(x) + Len(y)
          /\ \A i \in 1 .. Len(y) : z[Len(x) + i] = y[i]
          /\ \A i \in 1 .. Len(x) : z[i] = x[i]
      BY <2>1
    <2> HIDE DEF V
    <2> QED BY <2>1, <2>2
  <1> DEFINE Kept(k) == /\ Len(J(k)) \in Nat /\ Len(J(k)) <= Len(J(L))
                        /\ \A i \in 1 .. Len(J(k)) : J(L)[i] = J(k)[i]
             S == {n \in Nat : n <= L => Kept(L - n)}
  <1>4. 0 \in S
    <2>1. L - 0 = L /\ Len(J(L)) \in Nat
      BY <1>1
    <2> QED BY <2>1
  <1>5. ASSUME NEW n \in Nat, n \in S PROVE n + 1 \in S
    <2> SUFFICES ASSUME n + 1 <= L PROVE Kept(L - (n + 1))
      OBVIOUS
    <2>1. PICK k \in 0 .. L - 1 : k = L - (n + 1) /\ k + 1 = L - n
      OBVIOUS
    <2>2. Kept(k + 1)
      BY <1>5, <2>1
    <2>3. Kept(k)
      <3>1. /\ Len(J(k)) \in Nat /\ Len(J(k)) <= Len(J(k + 1))
            /\ \A i \in 1 .. Len(J(k)) : J(k + 1)[i] = J(k)[i] /\ i \in 1 .. Len(J(k + 1))
        BY <1>3
      <3>2. Len(J(L)) \in Nat
        BY <1>1
      <3> QED BY <3>1, <3>2, <2>2
    <2> QED BY <2>1, <2>3
  <1>6. ASSUME NEW k \in 0 .. L PROVE Kept(k)
    <2>1. \A n \in Nat : n \in S
      <3> HIDE DEF S
      <3> QED BY <1>4, <1>5, SetInduction
    <2>2. PICK n \in Nat : n = L - k /\ L - n = k /\ n <= L
      OBVIOUS
    <2>3. n \in S
      BY <2>1
    <2> QED BY <2>2, <2>3
  <1> QED BY <1>3, <1>6 DEF J, Grows

\* What codes on a tree are.
LEMMA CodingFacts ==
  ASSUME NEW p, NEW root, NEW a, NEW c, Coding(p, root, a, c)
  PROVE  /\ Family(p, root) /\ Preorder(p, root, Size(p), Number(p, root))
         /\ Paths(p, root, Path(p, root))
         /\ Len(a) \in Nat /\ \A k \in 1 .. Len(a) : c[a[k]] \in Seq({0, 1})
         /\ Rebuilt(UnpadTree(PadTree(p, root, Len(p)), Len(p)), p, Number(p, root))
  <1>1. Family(p, root) /\ Preorder(p, root, Size(p), Number(p, root))
        /\ Paths(p, root, Path(p, root))
        /\ Rebuilt(UnpadTree(PadTree(p, root, Len(p)), Len(p)), p, Number(p, root))
    BY TreeFamily, NumberedInPreorder, PathsGoDown, TreeSurvives DEF Coding
  <1>2. Len(a) \in Nat
    BY DEF Coding
  <1>3. \A k \in 1 .. Len(a) : c[a[k]] \in Seq({0, 1})
    BY <1>1 DEF Coding, Paths
  <1> QED BY <1>1, <1>2, <1>3

\* Before a symbol the decoder is at the root.
LEMMA AtTheRoot ==
  ASSUME NEW p, NEW root, NEW a, NEW c, Coding(p, root, a, c), NEW k \in 0 .. Len(a) - 1,
         NEW d, d.i = Len(Joined(a, c, k)), d.n = 0, d.out = SubSeq(a, 1, k)
  PROVE  Reading(p, root, a, c, d)
  <1>1. Family(p, root) /\ Number(p, root)[root] = 0 /\ Path(p, root)[root] = <<>>
        /\ root \in DOMAIN p
    <2>1. /\ Family(p, root) /\ Preorder(p, root, Size(p), Number(p, root))
          /\ Paths(p, root, Path(p, root))
      BY CodingFacts
    <2>2. Family(p, root) => root \in DOMAIN p
      BY DEF Family
    <2>3. Preorder(p, root, Size(p), Number(p, root)) => Number(p, root)[root] = 0
      BY DEF Preorder
    <2>4. Paths(p, root, Path(p, root)) => Path(p, root)[root] = <<>>
      BY DEF Paths
    <2> QED BY <2>1, <2>2, <2>3, <2>4
  <1>2. k + 1 \in 1 .. Len(a) /\ k \in 0 .. Len(a)
    BY CodingFacts
  <1>3. root \in Line(p, root, LeafFor(p, a[k + 1]))
    BY <1>1, <1>2, LineFacts DEF Coding
  <1>4. Len(Joined(a, c, k)) \in Nat
    <2>1. Grows(a, c, Len(a))
      BY CodingFacts, JoinedGrows
    <2> QED BY <2>1, <1>2 DEF Grows
  <1>5. d.i = Len(Joined(a, c, k)) + Len(Path(p, root)[root])
    BY <1>1, <1>4
  <1> QED BY <1>1, <1>3, <1>5 DEF Reading, ReadTo

\* Where it goes: the bit it reads is one of the code of the next symbol, and leads
\* one node down towards the leaf.
Leads(p, root, a, c, ones, k, v, d) ==
  LET path == Path(p, root)
      x    == LeafFor(p, a[k + 1])
      u    == IF d.i \in ones THEN p[v].right ELSE p[v].left
  IN  /\ u \in DOMAIN p /\ u \in Line(p, root, x) /\ (IsLeaf(p[u]) => u = x)
      /\ d.i + 1 = Len(Joined(a, c, k)) + Len(path[u])
      /\ Len(Joined(a, c, k + 1)) = Len(Joined(a, c, k)) + Len(path[x])
      /\ IsLeaf(p[x]) /\ p[x].c = a[k + 1]

\* It does, wherever in the codes the decoder is.
LEMMA BitLeads ==
  ASSUME NEW p, NEW root, NEW a, NEW c, Coding(p, root, a, c), NEW ones,
         Holds(ones, Joined(a, c, Len(a))),
         NEW k \in 0 .. Len(a) - 1, NEW v \in Inner(p), NEW d, ReadTo(p, root, a, c, k, v, d)
  PROVE  Leads(p, root, a, c, ones, k, v, d)
  <1> DEFINE path == Path(p, root)
             x == LeafFor(p, a[k + 1])
             J(n) == Joined(a, c, n)
             L == Len(a)
             l == Len(path[v])
             at == Len(J(k))
  <1>1. /\ Family(p, root) /\ Paths(p, root, path) /\ L \in Nat
        /\ \A n \in 1 .. L : c[a[n]] \in Seq({0, 1})
    BY CodingFacts
  <1>2. k + 1 \in 1 .. L /\ k + 1 \in 0 .. L /\ k \in 0 .. L
    BY <1>1
  <1>3. x \in DOMAIN p /\ IsLeaf(p[x]) /\ p[x].c = a[k + 1] /\ c[a[k + 1]] = path[x]
    BY <1>2 DEF Coding, LeafOf
  <1>4. v \in Line(p, root, x) /\ d.i = at + l
    BY DEF ReadTo
  <1>5. v # x
    BY <1>3 DEF Inner
  <1> HIDE DEF path, x, J, L
  <1>6. OnTheWay(p, root, path, x, v)
    BY <1>1, <1>3, <1>4, <1>5, PathLeads
  <1> DEFINE bit == path[x][l + 1]
             w == IF bit = 1 THEN p[v].right ELSE p[v].left
  <1>7. l \in Nat /\ l < Len(path[x]) /\ w \in Line(p, root, x) /\ Len(path[w]) = l + 1
    BY <1>6 DEF OnTheWay
  <1>8. /\ at \in Nat /\ Len(J(k + 1)) \in Nat /\ Len(J(k + 1)) <= Len(J(L))
        /\ Len(J(L)) \in Nat
        /\ \A i \in 1 .. Len(J(k + 1)) : J(L)[i] = J(k + 1)[i]
        /\ Len(J(k + 1)) = at + Len(path[x])
        /\ \A i \in 1 .. Len(path[x]) : J(k + 1)[at + i] = path[x][i]
    <2>1. /\ \A n \in 0 .. L : /\ Len(J(n)) \in Nat /\ Len(J(n)) <= Len(J(L))
                               /\ \A i \in 1 .. Len(J(n)) : J(L)[i] = J(n)[i]
          /\ \A n \in 0 .. L - 1 :
               /\ Len(J(n + 1)) = Len(J(n)) + Len(c[a[n + 1]])
               /\ \A i \in 1 .. Len(c[a[n + 1]]) : J(n + 1)[Len(J(n)) + i] = c[a[n + 1]][i]
      <3>1. Grows(a, c, L)
        BY <1>1, JoinedGrows
      <3> QED BY <3>1 DEF Grows, J
    <2>2. k \in 0 .. L - 1 /\ L \in 0 .. L
      BY <1>1 DEF L
    <2>3. Len(J(k + 1)) = at + Len(path[x])
      BY <2>1, <2>2, <1>3
    <2>4. \A i \in 1 .. Len(path[x]) : J(k + 1)[at + i] = path[x][i]
      BY <2>1, <2>2, <1>3
    <2> QED BY <2>1, <2>2, <2>3, <2>4, <1>2
  <1> HIDE DEF l, at, bit, w
  <1>9. bit = 1 <=> d.i \in ones
    <2>1. Len(path[x]) \in Nat
      BY <1>1, <1>3 DEF Paths
    <2>2. PICK i \in 1 .. Len(path[x]) : i = l + 1
      BY <2>1, <1>7
    <2>3. PICK b \in 1 .. Len(J(L)) : b = at + i /\ b \in 1 .. Len(J(k + 1))
      <3>1. at + i \in 1 .. Len(J(k + 1)) /\ at + i \in 1 .. Len(J(L))
        <4> HIDE DEF J
        <4>1. PICK f \in Nat, g \in Nat : f = Len(J(k + 1)) /\ g = Len(J(L)) /\ f <= g
          BY <1>8
        <4>2. f = at + Len(path[x])
          BY <4>1, <1>8
        <4> QED BY <4>1, <4>2, <2>1, <2>2, <1>8
      <3> QED BY <3>1
    <2>4. J(L)[b] = bit
      <3>1. J(L)[b] = J(k + 1)[b]
        BY <2>3, <1>8
      <3>2. J(k + 1)[b] = path[x][i]
        BY <2>3, <1>8
      <3> QED BY <3>1, <3>2, <2>2 DEF bit
    <2>5. b - 1 = at + l
      BY <2>2, <2>3, <1>7, <1>8
    <2>6. J(L)[b] = 1 <=> b - 1 \in ones
      BY <2>3 DEF Holds, J, L
    <2> QED BY <2>4, <2>5, <2>6, <1>4
  <1>10. w = IF d.i \in ones THEN p[v].right ELSE p[v].left
    BY <1>9 DEF w
  <1>11. w \in DOMAIN p /\ (IsLeaf(p[w]) => w = x)
    <2>1. w # x => w \in Inner(p)
      BY <1>1, <1>3, <1>7, LineFacts
    <2>2. w \in DOMAIN p
      BY <1>1, <1>3, <1>7, LineFacts
    <2> QED BY <2>1, <2>2 DEF Inner
  <1>12. d.i + 1 = at + Len(path[w])
    BY <1>4, <1>7, <1>8
  <1> QED BY <1>3, <1>7, <1>8, <1>10, <1>11, <1>12 DEF path, x, J, at, Leads

\* One turn of decode()'s loop.
NextBit(ones, t, d) ==
  LET n    == IF d.i \in ones THEN t.R[d.n] ELSE t.L[d.n]
      leaf == t.t[n] = 1
      out  == IF leaf THEN Append(d.out, t.C[n]) ELSE d.out
  IN  [i |-> d.i + 1, n |-> IF leaf THEN 0 ELSE n, out |-> out]

\* A prefix of a sequence of codes, and the prefix one longer.
LEMMA PrefixGrows ==
  ASSUME NEW a \in Seq(Nat), NEW k \in 0 .. Len(a) - 1
  PROVE  /\ Len(SubSeq(a, 1, k)) = k
         /\ SubSeq(a, 1, k + 1) = Append(SubSeq(a, 1, k), a[k + 1])
         /\ Len(SubSeq(a, 1, k + 1)) = k + 1
PROOF
  <1>1. k \in Nat /\ k + 1 \in 1 .. Len(a)
    OBVIOUS
  <1>2. /\ SubSeq(a, 1, k) \in Seq(Nat) /\ Len(SubSeq(a, 1, k)) = k
        /\ \A i \in 1 .. k : SubSeq(a, 1, k)[i] = a[i]
    BY <1>1
  <1>3. /\ SubSeq(a, 1, k + 1) \in Seq(Nat) /\ Len(SubSeq(a, 1, k + 1)) = k + 1
        /\ \A i \in 1 .. k + 1 : SubSeq(a, 1, k + 1)[i] = a[i]
    BY <1>1
  <1>4. SubSeq(a, 1, k + 1) = Append(SubSeq(a, 1, k), a[k + 1])
    BY <1>1, <1>2, <1>3
  <1> QED BY <1>2, <1>3, <1>4

\* The whole of a sequence as its own prefix.
LEMMA WholePrefix ==
  ASSUME NEW a \in Seq(Nat)
  PROVE  SubSeq(a, 1, Len(a)) = a
PROOF
  <1>1. Len(SubSeq(a, 1, Len(a))) = Len(a) /\ SubSeq(a, 1, Len(a)) \in Seq(Nat)
    OBVIOUS
  <1>2. \A i \in 1 .. Len(a) : SubSeq(a, 1, Len(a))[i] = a[i]
    OBVIOUS
  <1> QED BY <1>1, <1>2

\* It reads on, and after the last bit it has read all and is at the root.
LEMMA NextBitReads ==
  ASSUME NEW p, NEW root, NEW a, NEW c, Coding(p, root, a, c), NEW ones,
         Holds(ones, Joined(a, c, Len(a))),
         NEW t, Rebuilt(t, p, Number(p, root)), t.t[0] = 0,
         NEW d, Reading(p, root, a, c, d)
  PROVE  LET e == NextBit(ones, t, d)
         IN  IF Len(e.out) = Len(a) THEN HasRead(a, c, e) ELSE Reading(p, root, a, c, e)
  <1> DEFINE path == Path(p, root)
             number == Number(p, root)
             J(n) == Joined(a, c, n)
             L == Len(a)
             e == NextBit(ones, t, d)
             x(k) == LeafFor(p, a[k + 1])
  <1>1. PICK k \in 0 .. L - 1, v \in DOMAIN p : ReadTo(p, root, a, c, k, v, d)
    BY DEF Reading
  <1>2. /\ Family(p, root) /\ Preorder(p, root, Size(p), number) /\ L \in Nat
        /\ a \in Seq(Nat)
        /\ \A n \in 1 .. L : c[a[n]] \in Seq({0, 1})
    BY CodingFacts DEF Coding
  <1>3. number[root] = 0 /\ root \in DOMAIN p
    <2>1. Family(p, root) => root \in DOMAIN p
      BY DEF Family
    <2>2. Preorder(p, root, Size(p), number) => number[root] = 0
      BY DEF Preorder
    <2> QED BY <2>1, <2>2, <1>2
  <1>4. v \in Inner(p)
    <2>1. t.t[0] = p[root].t
      BY <1>3 DEF Rebuilt
    <2>2. root \in Inner(p)
      BY <2>1, <1>3 DEF Inner, IsLeaf
    <2> QED BY <2>2, <1>1 DEF ReadTo
  <1> DEFINE u == IF d.i \in ones THEN p[v].right ELSE p[v].left
  <1>5. /\ u \in DOMAIN p /\ u \in Line(p, root, x(k)) /\ (IsLeaf(p[u]) => u = x(k))
        /\ d.i + 1 = Len(J(k)) + Len(path[u])
        /\ Len(J(k + 1)) = Len(J(k)) + Len(path[x(k)])
        /\ p[x(k)].c = a[k + 1]
    <2>1. Leads(p, root, a, c, ones, k, v, d)
      BY <1>1, <1>4, BitLeads
    <2> QED BY <2>1 DEF Leads
  <1>6. d.n = number[v] /\ d.out = SubSeq(a, 1, k)
    BY <1>1 DEF ReadTo
  <1> DEFINE n == IF d.i \in ones THEN t.R[d.n] ELSE t.L[d.n]
  <1>7. n = number[u]
    <2>1. t.L[number[v]] = number[p[v].left] /\ t.R[number[v]] = number[p[v].right]
      BY <1>1, <1>4 DEF Rebuilt
    <2> HIDE DEF number
    <2> QED BY <2>1, <1>6
  <1>8. e = [i |-> d.i + 1, n |-> IF t.t[n] = 1 THEN 0 ELSE n,
             out |-> IF t.t[n] = 1 THEN Append(d.out, t.C[n]) ELSE d.out]
    BY DEF NextBit
  <1> HIDE DEF e, n, u, x
  <1>9. t.t[n] = p[u].t /\ (IsLeaf(p[u]) => t.C[n] = p[u].c)
    BY <1>5, <1>7 DEF Rebuilt
  <1>10. /\ Len(SubSeq(a, 1, k)) = k /\ k \in Nat /\ k < L
         /\ SubSeq(a, 1, k + 1) = Append(SubSeq(a, 1, k), a[k + 1])
         /\ Len(SubSeq(a, 1, k + 1)) = k + 1
         /\ SubSeq(a, 1, L) = a
    <2>1. k \in 0 .. Len(a) - 1 /\ Len(a) \in Nat
      BY <1>2 DEF L
    <2>2. /\ Len(SubSeq(a, 1, k)) = k
          /\ SubSeq(a, 1, k + 1) = Append(SubSeq(a, 1, k), a[k + 1])
          /\ Len(SubSeq(a, 1, k + 1)) = k + 1
      BY <2>1, <1>2, PrefixGrows
    <2>3. SubSeq(a, 1, L) = a
      BY <1>2, WholePrefix DEF L
    <2>4. k \in Nat /\ k < L
      BY <2>1 DEF L
    <2> QED BY <2>2, <2>3, <2>4
  <1> HIDE DEF J, L, path, number
  <1>11. CASE IsLeaf(p[u])
    <2>1. e.i = Len(J(k + 1)) /\ e.n = 0 /\ e.out = SubSeq(a, 1, k + 1)
      <3>1. t.t[n] = 1 /\ t.C[n] = a[k + 1]
        BY <1>5, <1>9, <1>11 DEF IsLeaf
      <3>2. e.i = d.i + 1 /\ e.n = 0 /\ e.out = Append(SubSeq(a, 1, k), a[k + 1])
        BY <3>1, <1>6, <1>8
      <3> QED BY <3>2, <1>5, <1>10, <1>11
    <2>2. CASE k + 1 = L
      <3>1. e.out = a /\ e.i = Len(J(L))
        BY <2>1, <2>2, <1>10
      <3>2. Len(J(L)) \in Nat
        <4>1. L \in 0 .. L
          BY <1>2
        <4>2. Grows(a, c, L)
          BY <1>2, JoinedGrows DEF L
        <4> QED BY <4>1, <4>2 DEF Grows, J
      <3>3. HasRead(a, c, e)
        BY <3>1, <3>2, <2>1 DEF HasRead, J, L
      <3>4. Len(e.out) = L
        BY <3>1 DEF L
      <3> QED BY <3>3, <3>4 DEF e, L
    <2>3. CASE k + 1 # L
      <3>1. PICK m \in 0 .. L - 1 : m = k + 1
        BY <2>3, <1>2, <1>10
      <3>2. Reading(p, root, a, c, e)
        BY <2>1, <3>1, AtTheRoot DEF J, L
      <3>3. Len(e.out) # L
        BY <2>1, <2>3, <1>10
      <3> QED BY <3>2, <3>3 DEF e, L
    <2> QED BY <2>2, <2>3
  <1>12. CASE ~IsLeaf(p[u])
    <2>1. t.t[n] # 1
      BY <1>9, <1>12 DEF IsLeaf
    <2>2. e.i = d.i + 1 /\ e.n = number[u] /\ e.out = SubSeq(a, 1, k)
      BY <2>1, <1>6, <1>7, <1>8
    <2>3. u \in Inner(p)
      BY <1>5, <1>12 DEF Inner
    <2>4. ReadTo(p, root, a, c, k, u, e)
      BY <2>2, <2>3, <1>5 DEF ReadTo, J, path, number, x
    <2>5. Reading(p, root, a, c, e)
      BY <2>4, <1>1, <1>5 DEF Reading, L
    <2>6. Len(e.out) # L
      BY <2>2, <1>10
    <2> QED BY <2>5, <2>6 DEF e, L
  <1> QED BY <1>11, <1>12

AllAre(out, n, x) == out = [i \in 1 .. n |-> x]

\* In a tree of one leaf there is nothing to read: every symbol is that leaf's.
LEMMA ConstantReads ==
  ASSUME NEW p, NEW root, NEW a, NEW c, Coding(p, root, a, c),
         NEW t, Rebuilt(t, p, Number(p, root)), t.t[0] = 1,
         NEW d, Reading(p, root, a, c, d),
         NEW e, e.i = d.i, e.n = d.n, AllAre(e.out, Len(a), t.C[0])
  PROVE  HasRead(a, c, e)
  <1> DEFINE number == Number(p, root)
             L == Len(a)
             J(n) == Joined(a, c, n)
  <1>1. /\ Family(p, root) /\ Preorder(p, root, Size(p), number)
        /\ Paths(p, root, Path(p, root)) /\ L \in Nat
        /\ a \in Seq(Nat) /\ \A n \in 1 .. L : c[a[n]] \in Seq({0, 1})
    BY CodingFacts DEF Coding
  <1>2. number[root] = 0 /\ root \in DOMAIN p /\ Path(p, root)[root] = <<>>
    <2>1. Family(p, root) => root \in DOMAIN p
      BY DEF Family
    <2>2. Preorder(p, root, Size(p), number) => number[root] = 0
      BY DEF Preorder
    <2>3. Paths(p, root, Path(p, root)) => Path(p, root)[root] = <<>>
      BY DEF Paths
    <2> QED BY <2>1, <2>2, <2>3, <1>1
  <1>3. IsLeaf(p[root]) /\ t.C[0] = p[root].c
    <2>1. t.t[0] = p[root].t
      BY <1>2 DEF Rebuilt
    <2>2. IsLeaf(p[root])
      BY <2>1 DEF IsLeaf
    <2> QED BY <2>2, <1>2 DEF Rebuilt
  <1>4. \A n \in DOMAIN p : n = root
    <2> SUFFICES ASSUME NEW n \in DOMAIN p, n # root PROVE FALSE
      OBVIOUS
    <2>1. root \in Inner(p)
      BY <1>1, LineFacts
    <2> QED BY <2>1, <1>3 DEF Inner
  <1>5. \A i \in 1 .. L : a[i] = t.C[0]
    BY <1>3, <1>4 DEF Coding, LeafOf
  <1>6. a = [i \in 1 .. L |-> t.C[0]]
    <2>1. a = [i \in 1 .. L |-> a[i]]
      BY <1>1
    <2> HIDE DEF L
    <2> QED BY <2>1, <1>5
  <1>7. PICK k \in 0 .. L - 1, v \in DOMAIN p : ReadTo(p, root, a, c, k, v, d)
    BY DEF Reading
  <1>8. d.n = 0 /\ d.i = Len(J(k)) + 0
    <2>1. v = root
      BY <1>4
    <2>2. d.n = number[root] /\ d.i = Len(J(k)) + Len(Path(p, root)[root])
      BY <2>1, <1>7 DEF ReadTo
    <2>3. Len(<<>>) = 0
      OBVIOUS
    <2> QED BY <2>2, <2>3, <1>2
  <1>9. Len(J(k)) \in Nat /\ Len(J(L)) \in Nat /\ Len(J(k)) <= Len(J(L))
    <2>1. k \in 0 .. L /\ L \in 0 .. L
      BY <1>1
    <2>2. Grows(a, c, L)
      BY <1>1, JoinedGrows
    <2> HIDE DEF L
    <2> QED BY <2>1, <2>2 DEF Grows
  <1>10. d.i \in 0 .. Len(J(L))
    BY <1>8, <1>9
  <1> QED BY <1>6, <1>8, <1>10 DEF HasRead, AllAre

----------------------------------------------------------------------------
(* The invariant of the whole way: how many nodes there are, what kind they *)
(* are, and from the codes on what is written and what is read.             *)

Made(p) == {p[n].c : n \in DOMAIN p}
Distinct == Cardinality(Symbols)

GrowthInv ==
  /\ phase = "leaves" =>
       /\ IsFiniteSet(Made(pool)) /\ Len(pool) = Cardinality(Made(pool))
       /\ Len(qq) = Len(pool) /\ Kinds(pool, Len(pool))
  /\ phase = "merge" =>
       /\ Distinct \in Nat /\ Distinct <= Len(pool)
       /\ Len(pool) + Len(qq) = 2 * Distinct /\ Kinds(pool, Distinct)

\* After the tree: the nodes are as many as the codes tell WriteTree.
TreeInv ==
  phase \in {"code", "encode", "rebuild", "decode", "done"} =>
    /\ Coding(pool, Root, s, code) /\ DOMAIN code = Symbols
    /\ Len(pool) = 2 * Distinct - 1

WrittenInv ==
  /\ phase \in {"encode", "rebuild", "decode", "done"} =>
       /\ segment.nodeCount = Len(pool) /\ segment.bytes = PadTree(pool, Root, Len(pool))
  /\ phase \in {"rebuild", "decode", "done"} =>
       /\ packer.outSize = Bytes(Len(Joined(s, code, Len(s))))
       /\ Holds(packer.ones, Joined(s, code, Len(s)))

ReadInv ==
  /\ phase \in {"leaves", "merge", "code", "encode", "rebuild", "decode", "done"}
  /\ DOMAIN decoder = {"i", "n", "out"}
  /\ phase \notin {"decode", "done"} =>
       decoder.i = 0 /\ decoder.n = 0 /\ decoder.out = <<>>
  /\ phase = "decode" =>
       /\ tree = UnpadTree(PadTree(pool, Root, Len(pool)), Len(pool))
       /\ Reading(pool, Root, s, code, decoder)
  /\ phase = "done" => HasRead(s, code, decoder)

WholeInv == CoderInv /\ GrowthInv /\ TreeInv /\ WrittenInv /\ ReadInv

\* An insertion makes the queue longer by one.
LEMMA InsertLengthens ==
  ASSUME NEW S, NEW q \in Seq(S), NEW f, NEW n \in S
  PROVE  Len(qinsert(q, f, n)) = Len(q) + 1
  <1>1. qinsert(q, f, n) \in [1 .. Len(q) + 1 -> S] /\ Len(q) + 1 \in Nat
    BY InsertKeeps
  <1> DEFINE m == Len(q) + 1
             g == qinsert(q, f, n)
  <1> HIDE DEF m, g
  <1>2. g \in [1 .. m -> S] /\ m \in Nat
    BY <1>1 DEF m, g
  <1>3. Len(g) = m
    BY <1>2, SeqOfLength
  <1> QED BY <1>3 DEF m, g

\* Two removals make it shorter by two.
LEMMA RemovalsShorten ==
  ASSUME NEW S, NEW q \in Seq(S), Len(q) > 1, NEW f
  PROVE  Len(qremove(qremove(q, f), f)) = Len(q) - 2
  <1> DEFINE q1 == qremove(q, f)
             q2 == qremove(q1, f)
             L == Len(q)
  <1>1. L \in Nat
    OBVIOUS
  <1>2. q1 \in [1 .. L - 1 -> S]
    BY RemoveKeeps
  <1> HIDE DEF q1
  <1>3. q1 \in Seq(S) /\ Len(q1) = L - 1 /\ L - 1 >= 1
    <2>1. L - 1 \in Nat /\ L - 1 >= 1
      BY <1>1
    <2> HIDE DEF L
    <2> QED BY <1>2, <2>1, SeqOfLength
  <1>4. CASE L - 1 = 1
    <2>1. q2 = <<>>
      BY <1>4, <1>3, Zenon DEF qremove
    <2> QED BY <2>1, <1>4, <1>1 DEF q1
  <1>5. CASE L - 1 > 1
    <2>1. q2 \in [1 .. Len(q1) - 1 -> S]
      BY <1>5, <1>3, RemoveKeeps
    <2>2. Len(q1) - 1 \in Nat /\ Len(q1) - 1 = L - 2
      BY <1>1, <1>3, <1>5
    <2> DEFINE m == Len(q1) - 1
    <2> HIDE DEF q2, m
    <2>3. Len(q2) = m
      BY <2>1, <2>2, SeqOfLength DEF m
    <2>4. Len(q2) = L - 2
      BY <2>2, <2>3 DEF m
    <2> QED BY <2>4 DEF q2, q1
  <1> QED BY <1>1, <1>3, <1>4, <1>5

\* A sequence of elements of a set is one of a larger set.
LEMMA SeqOfMore ==
  ASSUME NEW S, NEW T, S \subseteq T, NEW q \in Seq(S)
  PROVE  q \in Seq(T)
  <1>1. Len(q) \in Nat /\ q \in [1 .. Len(q) -> S]
    OBVIOUS
  <1>2. q \in [1 .. Len(q) -> T]
    BY <1>1
  <1> QED BY <1>1, <1>2, SeqOfLength

\* One node more, of the kind that comes next.
LEMMA KindsGrow ==
  ASSUME NEW p \in Seq(Node), NEW d \in Nat, Kinds(p, d), NEW node \in Node, NEW e \in Nat,
         \/ e = d /\ d <= Len(p) /\ ~IsLeaf(node) /\ node.left \in 1 .. Len(p)
                  /\ node.right \in 1 .. Len(p)
         \/ e = d + 1 /\ d = Len(p) /\ IsLeaf(node) /\ node.left = 0 /\ node.right = 0
  PROVE  Kinds(Append(p, node), e)
  <1> DEFINE L == Len(p)
             new == Append(p, node)
  <1>1. L \in Nat /\ DOMAIN p = 1 .. L /\ DOMAIN new = 1 .. L + 1
        /\ new[L + 1] = node /\ \A n \in 1 .. L : new[n] = p[n]
    OBVIOUS
  <1>0. e = d \/ (e = d + 1 /\ d = L)
    OBVIOUS
  <1> HIDE DEF new, L
  <1>2. ASSUME NEW n \in 1 .. L + 1
        PROVE  /\ IsLeaf(new[n]) <=> n <= e
               /\ n <= e => new[n].left = 0 /\ new[n].right = 0
               /\ n > e => new[n].left \in 1 .. n - 1 /\ new[n].right \in 1 .. n - 1
    <2>1. CASE n = L + 1
      <3>1. new[n] = node /\ L = n - 1
        BY <2>1, <1>1
      <3> QED BY <3>1, <1>0, <1>1
    <2>2. CASE n # L + 1
      <3>1. n \in 1 .. L /\ n \in DOMAIN p /\ new[n] = p[n]
        BY <2>2, <1>1
      <3>2. n <= e <=> n <= d
        BY <3>1, <1>0, <1>1
      <3>3. n > e <=> n > d
        BY <3>1, <1>0, <1>1
      <3> QED BY <3>1, <3>2, <3>3 DEF Kinds
    <2> QED BY <2>1, <2>2
  <1> QED BY <1>1, <1>2 DEF Kinds, new

\* Each new leaf is that of another symbol.
LEMMA LeafGrowth == WholeInv /\ InsertLeaf => GrowthInv'
  <1> SUFFICES ASSUME WholeInv, InsertLeaf PROVE GrowthInv'
    OBVIOUS
  <1>1. /\ phase = "leaves" /\ s \in Arrays /\ s' = s
        /\ Pool(pool) /\ qq \in Seq(DOMAIN pool)
        /\ IsFiniteSet(Made(pool)) /\ Len(pool) = Cardinality(Made(pool))
        /\ Len(qq) = Len(pool) /\ Kinds(pool, Len(pool))
    BY DEF WholeInv, GrowthInv, CoderInv, HeapInv, InsertLeaf
  <1> DEFINE node(c) == LeafNode(c, freq(c))
             new(c) == Append(pool, node(c))
  <1>2. PICK c \in Symbols :
          /\ c \notin Made(pool)
          /\ pool' = new(c)
          /\ qq' = qinsert(qq, [n \in DOMAIN new(c) |-> new(c)[n].freq], Len(new(c)))
          /\ phase' = IF Made(pool) \cup {c} = Symbols THEN "merge" ELSE phase
    BY Zenon DEF InsertLeaf, Made
  <1>3. /\ node(c) \in Node /\ node(c).left = 0 /\ node(c).right = 0
        /\ IsLeaf(node(c)) /\ node(c).c = c
    <2>1. freq(c) \in Nat
      BY <1>1, FreqIsNat
    <2>2. c \in Nat
      BY <1>1, ArraysAssumption DEF Symbols
    <2> QED BY <2>1, <2>2 DEF Node, LeafNode, IsLeaf
  <1> DEFINE L == Len(pool)
  <1>4. /\ L \in Nat /\ DOMAIN pool = 1 .. L /\ pool \in Seq(Node)
        /\ Len(pool') = L + 1 /\ DOMAIN pool' = 1 .. L + 1
        /\ pool'[L + 1] = node(c) /\ \A n \in 1 .. L : pool'[n] = pool[n]
    <2>1. pool \in Seq(Node)
      BY <1>1 DEF Pool
    <2> HIDE DEF node
    <2> QED BY <2>1, <1>2, <1>3
  <1>5. Made(pool') = Made(pool) \cup {c}
    <2> HIDE DEF node, new, L
    <2>1. ASSUME NEW n \in DOMAIN pool' PROVE pool'[n].c \in Made(pool) \cup {c}
      <3>1. CASE n = L + 1
        BY <3>1, <1>3, <1>4
      <3>2. CASE n # L + 1
        <4>1. n \in 1 .. L
          BY <3>2, <1>4
        <4> QED BY <4>1, <1>4 DEF Made
      <3> QED BY <3>1, <3>2
    <2>2. ASSUME NEW n \in DOMAIN pool PROVE pool[n].c \in Made(pool')
      <3>1. n \in DOMAIN pool' /\ pool'[n] = pool[n]
        BY <1>4
      <3> QED BY <3>1 DEF Made
    <2>3. c \in Made(pool')
      <3>1. L + 1 \in DOMAIN pool'
        BY <1>4
      <3> QED BY <3>1, <1>3, <1>4 DEF Made
    <2> QED BY <2>1, <2>2, <2>3 DEF Made
  <1>6. IsFiniteSet(Made(pool')) /\ Cardinality(Made(pool')) = L + 1
    <2> HIDE DEF new, node
    <2> QED BY <1>1, <1>2, <1>5, FS_AddElement
  <1>7. Len(qq') = L + 1
    <2> DEFINE f == [n \in DOMAIN new(c) |-> new(c)[n].freq]
               D == 1 .. L + 1
    <2>1. qq' = qinsert(qq, f, L + 1)
      BY <1>2, <1>4
    <2>2. qq \in Seq(D) /\ L + 1 \in D
      <3>1. qq \in Seq(1 .. L) /\ 1 .. L \subseteq D
        BY <1>1, <1>4
      <3>2. qq \in Seq(D)
        <4> HIDE DEF D, L
        <4> QED BY <3>1, SeqOfMore
      <3> QED BY <3>2, <1>4
    <2> HIDE DEF f, D
    <2> QED BY <2>1, <2>2, <1>1, InsertLengthens
  <1>8. Kinds(pool', L + 1)
    <2> HIDE DEF node
    <2> QED BY <1>1, <1>2, <1>3, <1>4, KindsGrow
  <1>9. Symbols' = Symbols
    BY <1>1 DEF Symbols
  <1> HIDE DEF new, node, L
  <1>10. CASE phase' = "merge"
    <2>1. Made(pool') = Symbols
      <3>1. phase' # phase
        BY <1>1, <1>10
      <3> QED BY <3>1, <1>2, <1>5
    <2>2. Distinct' = L + 1
      BY <2>1, <1>6, <1>9 DEF Distinct
    <2>3. (L + 1) + (L + 1) = 2 * (L + 1) /\ L + 1 \in Nat
      BY <1>4
    <2> QED BY <2>2, <2>3, <1>4, <1>7, <1>8, <1>10 DEF GrowthInv
  <1>11. CASE phase' # "merge"
    BY <1>4, <1>6, <1>7, <1>8, <1>11 DEF GrowthInv
  <1> QED BY <1>10, <1>11

\* Each merge makes one node more, and the queue shorter by one.
LEMMA MergeGrowth == WholeInv /\ Merge => GrowthInv'
  <1> SUFFICES ASSUME WholeInv, Merge PROVE GrowthInv'
    OBVIOUS
  <1>1. /\ phase = "merge" /\ phase' = phase /\ s' = s /\ Len(qq) > 1
        /\ Pool(pool) /\ qq \in Seq(DOMAIN pool)
        /\ Distinct \in Nat /\ Distinct <= Len(pool)
        /\ Len(pool) + Len(qq) = 2 * Distinct /\ Kinds(pool, Distinct)
    BY DEF WholeInv, GrowthInv, CoderInv, HeapInv, Merge
  <1> DEFINE q1 == qremove(qq, Freq)
             q2 == qremove(q1, Freq)
             L == Len(pool)
             d == Distinct
  <1>2. PICK node \in {InnerNode(Head(qq), Head(q1)), InnerNode(Head(q1), Head(qq))} :
          /\ pool' = Append(pool, node)
          /\ \E f : qq' = qinsert(q2, f, L + 1)
    BY Zenon DEF Merge
  <1>3. /\ Head(qq) \in DOMAIN pool /\ Head(q1) \in DOMAIN pool /\ q2 \in Seq(DOMAIN pool)
    BY <1>1, RemoveTwo
  <1>4. Len(q2) = Len(qq) - 2 /\ Len(qq) \in Nat
    BY <1>1, RemovalsShorten
  <1> HIDE DEF q2, q1, d
  <1>5. L \in Nat /\ DOMAIN pool = 1 .. L /\ pool \in Seq(Node) /\ d \in Nat
    BY <1>1 DEF Pool, d
  <1>6. /\ node \in Node /\ node.left \in 1 .. L /\ node.right \in 1 .. L /\ ~IsLeaf(node)
    <2>1. ASSUME NEW a \in 1 .. L, NEW b \in 1 .. L
          PROVE  /\ InnerNode(a, b) \in Node /\ InnerNode(a, b).left = a
                 /\ InnerNode(a, b).right = b /\ ~IsLeaf(InnerNode(a, b))
      <3>1. PICK x \in Nat, y \in Nat : x = pool[a].freq /\ y = pool[b].freq
        <4>1. pool[a] \in Node /\ pool[b] \in Node
          BY <1>5
        <4>2. \A m \in Node : m.freq \in Nat
          BY DEF Node
        <4> QED BY <4>1, <4>2
      <3>2. InnerNode(a, b) = [freq |-> x + y, c |-> 0, t |-> 0, left |-> a, right |-> b]
        BY <3>1 DEF InnerNode
      <3>3. x + y \in Nat /\ a \in Nat /\ b \in Nat
        BY <3>1, <1>5
      <3> QED BY <3>2, <3>3 DEF Node, IsLeaf
    <2> HIDE DEF L
    <2> QED BY <2>1, <1>2, <1>3, <1>5
  <1>7. Len(pool') = L + 1
    BY <1>2, <1>5, <1>6
  <1>8. Len(qq') = Len(qq) - 1
    <2> DEFINE D == 1 .. L + 1
    <2>1. q2 \in Seq(D) /\ L + 1 \in D
      <3>1. q2 \in Seq(1 .. L) /\ 1 .. L \subseteq D
        BY <1>3, <1>5
      <3>2. q2 \in Seq(D)
        <4> HIDE DEF D, L
        <4> QED BY <3>1, SeqOfMore
      <3> QED BY <3>2, <1>5
    <2>2. PICK f : qq' = qinsert(q2, f, L + 1)
      BY <1>2
    <2>3. Len(qq') = Len(q2) + 1
      <3> HIDE DEF D
      <3> QED BY <2>1, <2>2, InsertLengthens
    <2> QED BY <2>3, <1>4
  <1>9. Kinds(pool', d)
    <2>1. d <= L /\ Kinds(pool, d)
      BY <1>1 DEF d
    <2> QED BY <2>1, <1>2, <1>5, <1>6, KindsGrow
  <1>10. Distinct' = d
    BY <1>1 DEF Distinct, Symbols, d
  <1>11. Len(pool') + Len(qq') = 2 * d /\ d <= Len(pool')
    <2>1. Len(pool) + Len(qq) = 2 * d /\ d <= Len(pool)
      BY <1>1 DEF d
    <2>2. PICK e \in Nat : e = 2 * d
      BY <1>5
    <2> QED BY <2>1, <2>2, <1>4, <1>5, <1>7, <1>8
  <1> HIDE DEF L
  <1> QED BY <1>1, <1>5, <1>9, <1>10, <1>11 DEF GrowthInv

\* What a step that leaves the tree and the codes alone keeps.
LEMMA TreeStays ==
  ASSUME TreeInv, pool' = pool, qq' = qq, s' = s, code' = code,
         phase \in {"code", "encode", "rebuild", "decode", "done"}
  PROVE  TreeInv'
  BY DEF TreeInv, Distinct, Symbols, Root

\* Before the first leaf.
LEMMA InitWhole == CoderInit => WholeInv
  <1> SUFFICES ASSUME CoderInit PROVE WholeInv
    OBVIOUS
  <1>1. /\ phase = "leaves" /\ pool = <<>> /\ qq = <<>>
        /\ decoder = [i |-> 0, n |-> 0, out |-> <<>>]
    BY DEF CoderInit
  <1>2. GrowthInv
    <2>1. Made(pool) = {} /\ Len(pool) = 0 /\ Len(qq) = 0 /\ DOMAIN pool = {}
      BY <1>1 DEF Made
    <2>2. IsFiniteSet({}) /\ Cardinality({}) = 0
      BY FS_EmptySet
    <2> QED BY <1>1, <2>1, <2>2 DEF GrowthInv, Kinds
  <1> QED BY <1>1, <1>2, InitCoder DEF WholeInv, TreeInv, WrittenInv, ReadInv

\* build_code finds a tree, and reads the codes off it.
LEMMA TreeIsCoded ==
  ASSUME WholeInv, phase = "merge", Len(qq) = 1
  PROVE  /\ Coding(pool, Root, s, CodeOfLeaf) /\ DOMAIN CodeOfLeaf = Symbols
         /\ Len(pool) = 2 * Distinct - 1
  <1>1. /\ s \in Arrays /\ Pool(pool) /\ qq \in Seq(DOMAIN pool)
        /\ \A n \in DOMAIN pool : Placed(pool, qq, n)
        /\ \A c \in Symbols : \E n \in DOMAIN pool : LeafOf(pool, c, n)
        /\ Distinct \in Nat /\ Len(pool) + Len(qq) = 2 * Distinct /\ Kinds(pool, Distinct)
    BY DEF WholeInv, GrowthInv, CoderInv, HeapInv
  <1> DEFINE d == Distinct
  <1>2. Len(pool) \in Nat
    BY <1>1 DEF Pool
  <1> HIDE DEF d
  <1>3. d \in Nat /\ Len(pool) + 1 = 2 * d /\ Kinds(pool, d)
    BY <1>1 DEF d
  <1>4. Tree(pool, Root)
    BY <1>1, <1>3, QueueLeavesTree DEF Root
  <1>5. Len(pool) = 2 * d - 1
    BY <1>2, <1>3
  <1>6. 2 * d - 1 <= Wide
    BY <1>1, NodesAssumption DEF d, Distinct, Symbols
  <1>7. CodeOfLeaf = [c \in Symbols |-> Path(pool, Root)[LeafFor(pool, c)]]
    BY Zenon DEF CodeOfLeaf, Path, LeafFor
  <1>8. \A c \in Symbols : LeafFor(pool, c) \in DOMAIN pool /\ LeafOf(pool, c, LeafFor(pool, c))
    <2> SUFFICES ASSUME NEW c \in Symbols
                 PROVE  LeafFor(pool, c) \in DOMAIN pool /\ LeafOf(pool, c, LeafFor(pool, c))
      OBVIOUS
    <2>1. \E n \in DOMAIN pool : IsLeaf(pool[n]) /\ pool[n].c = c
      BY <1>1 DEF LeafOf
    <2> QED BY <2>1, Zenon DEF LeafFor, LeafOf
  <1>9. s \in Seq(Nat) /\ \A k \in 1 .. Len(s) : s[k] \in Symbols
    BY <1>1, ArraysAssumption DEF Symbols
  <1>10. Coding(pool, Root, s, CodeOfLeaf)
    <2>1. Len(pool) <= Wide
      BY <1>5, <1>6
    <2>2. \A k \in 1 .. Len(s) :
            CodeOfLeaf[s[k]] = Path(pool, Root)[LeafFor(pool, s[k])]
      BY <1>7, <1>9
    <2> QED BY <2>1, <2>2, <1>4, <1>8, <1>9 DEF Coding
  <1> QED BY <1>5, <1>7, <1>10 DEF d

\* What some bits take in bytes holds them.
LEMMA BytesHold ==
  ASSUME NEW n \in Nat
  PROVE  Bytes(n) \in Nat /\ n <= ByteBits * Bytes(n)
  <1>1. PICK q \in Nat, r \in 0 .. ByteBits - 1 : n = ByteBits * q + r
    BY InBytes
  <1> DEFINE B == ByteBits
             f == B * q
  <1>2. B \in Nat \ {0} /\ f \in Nat /\ B * (q + 1) = f + B
    <2>1. B \in Nat \ {0}
      BY PackerAssumption
    <2>2. \A x, y \in Nat : x * (y + 1) = x * y + x /\ x * y \in Nat
      OBVIOUS
    <2> QED BY <2>1, <2>2
  <1>3. Bytes(n) = IF r = 0 THEN q ELSE q + 1
    BY <1>1, BytesFacts
  <1>4. n = f + r /\ r \in 0 .. B - 1
    BY <1>1
  <1>5. CASE r = 0
    BY <1>2, <1>3, <1>4, <1>5
  <1>6. CASE r # 0
    <2>1. Bytes(n) = q + 1 /\ B * Bytes(n) = f + B
      BY <1>2, <1>3, <1>6
    <2> HIDE DEF f, B
    <2>2. n <= f + B
      BY <1>2, <1>4
    <2> QED BY <2>1, <2>2 DEF B
  <1> QED BY <1>5, <1>6

\* What is written behind the bytes in use leaves the codes in them as they are.
LEMMA CloseKeeps == WholeInv /\ CloseSegment => WrittenInv'
  <1> SUFFICES ASSUME WholeInv, CloseSegment PROVE WrittenInv'
    OBVIOUS
  <1>1. /\ phase = "encode" /\ encoded = Len(s) /\ phase' = "rebuild"
        /\ s' = s /\ pool' = pool /\ qq' = qq /\ code' = code /\ segment' = segment
        /\ s \in Arrays /\ CodeInv /\ Packs(packer, Joined(s, code, Len(s)))
        /\ segment.nodeCount = Len(pool) /\ segment.bytes = PadTree(pool, Root, Len(pool))
    BY DEF CloseSegment, WholeInv, CoderInv, PackInv, WrittenInv
  <1> DEFINE J == Joined(s, code, Len(s))
             end == ByteBits * packer.outSize
  <1>2. PICK next \in {{}, end .. MemoryBits - 1} :
          packer' = [packer EXCEPT !.ones = {b \in packer.ones : b < end} \cup next]
    BY DEF CloseSegment, InUse
  <1>3. J \in Seq({0, 1}) /\ Len(J) \in Nat
    <2>1. Len(s) \in 0 .. Len(s)
      BY <1>1, CodesJoined
    <2> QED BY <2>1, <1>1, CodesJoined
  <1>4. /\ DOMAIN packer = {"p", "lackBits", "ones", "outSize"}
        /\ packer.outSize = Bytes(Len(J)) /\ Holds(packer.ones, J)
    BY <1>1 DEF Packs
  <1>5. end \in Nat /\ Len(J) <= end
    <2>1. Bytes(Len(J)) \in Nat /\ Len(J) <= ByteBits * Bytes(Len(J))
      BY <1>3, BytesHold
    <2>2. \A x, y \in Nat : x * y \in Nat
      OBVIOUS
    <2>3. ByteBits \in Nat
      BY PackerAssumption
    <2> HIDE DEF J
    <2> QED BY <2>1, <2>2, <2>3, <1>4
  <1> HIDE DEF J, end
  <1>6. packer'.outSize = packer.outSize /\ packer'.ones = {b \in packer.ones : b < end} \cup next
    BY <1>2, <1>4
  <1>7. ASSUME NEW b \in 1 .. Len(J) PROVE b - 1 \in packer.ones <=> b - 1 \in packer'.ones
    <2>1. b - 1 \in Int /\ b - 1 < end
      BY <1>3, <1>5
    <2>2. b - 1 \notin next
      <3>1. CASE next = {}
        BY <3>1
      <3>2. CASE next = end .. MemoryBits - 1
        BY <3>2, <2>1, <1>5, MemoryAssumption
      <3> QED BY <3>1, <3>2, <1>2
    <2> QED BY <2>1, <2>2, <1>6
  <1>8. Holds(packer'.ones, J)
    BY <1>4, <1>7 DEF Holds
  <1> QED BY <1>1, <1>4, <1>6, <1>8 DEF WrittenInv, J, Root

\* The decoder's turn.
LEMMA DecodeKeeps == WholeInv /\ (DecodeConstant \/ DecodeBit) => ReadInv'
  <1> SUFFICES ASSUME WholeInv, DecodeConstant \/ DecodeBit PROVE ReadInv'
    OBVIOUS
  <1>1. /\ phase = "decode" /\ s' = s /\ pool' = pool /\ qq' = qq /\ code' = code
        /\ packer' = packer /\ tree' = tree
    BY DEF DecodeConstant, DecodeBit
  <1>2. /\ Coding(pool, Root, s, code)
        /\ tree = UnpadTree(PadTree(pool, Root, Len(pool)), Len(pool))
        /\ Reading(pool, Root, s, code, decoder)
        /\ Holds(packer.ones, Joined(s, code, Len(s)))
    BY <1>1 DEF WholeInv, TreeInv, ReadInv, WrittenInv
  <1>3. Rebuilt(tree, pool, Number(pool, Root))
    BY <1>2, CodingFacts
  <1>4. CASE DecodeConstant
    <2>1. /\ tree.t[0] = 1 /\ phase' = "done"
          /\ decoder' = [decoder EXCEPT !.out = [i \in 1 .. Len(s) |-> tree.C[0]]]
      BY <1>4 DEF DecodeConstant
    <2>2. DOMAIN decoder = {"i", "n", "out"}
      BY DEF WholeInv, ReadInv
    <2>3. /\ decoder'.i = decoder.i /\ decoder'.n = decoder.n
          /\ decoder'.out = [i \in 1 .. Len(s) |-> tree.C[0]]
          /\ DOMAIN decoder' = {"i", "n", "out"}
      BY <2>1, <2>2
    <2>4. HasRead(s, code, decoder')
      <3>1. AllAre(decoder'.out, Len(s), tree.C[0])
        BY <2>3 DEF AllAre
      <3> QED BY <3>1, <2>1, <2>3, <1>2, <1>3, ConstantReads
    <2> QED BY <2>1, <2>3, <2>4, <1>1 DEF ReadInv
  <1>5. CASE DecodeBit
    <2>1. /\ tree.t[0] = 0 /\ decoder' = NextBit(packer.ones, tree, decoder)
          /\ phase' = IF Len(NextBit(packer.ones, tree, decoder).out) = Len(s)
                      THEN "done" ELSE phase
      <3>1. tree.t[0] = 0
        BY <1>5 DEF DecodeBit
      <3>2. decoder' = NextBit(packer.ones, tree, decoder)
        BY <1>5, Zenon DEF DecodeBit, NextBit
      <3>3. phase' = IF Len(decoder'.out) = Len(s) THEN "done" ELSE phase
        BY <1>5 DEF DecodeBit
      <3> QED BY <3>1, <3>2, <3>3
    <2> DEFINE e == NextBit(packer.ones, tree, decoder)
    <2>5. DOMAIN e = {"i", "n", "out"}
      BY DEF NextBit
    <2> HIDE DEF e
    <2>2. IF Len(e.out) = Len(s) THEN HasRead(s, code, e) ELSE Reading(pool, Root, s, code, e)
      BY <2>1, <1>2, <1>3, NextBitReads DEF e
    <2>3. CASE Len(e.out) = Len(s)
      BY <2>1, <2>2, <2>3, <2>5, <1>1 DEF ReadInv, e
    <2>4. CASE Len(e.out) # Len(s)
      BY <2>1, <2>2, <2>4, <2>5, <1>1, <1>2 DEF ReadInv, Root, e
    <2> QED BY <2>3, <2>4
  <1> QED BY <1>4, <1>5

\* Every step keeps the invariant.
LEMMA StepKeepsWhole == WholeInv /\ OneWord /\ [CoderNext]_coding => WholeInv'
  <1> SUFFICES ASSUME WholeInv, OneWord, [CoderNext]_coding PROVE WholeInv'
    OBVIOUS
  <1>1. CoderInv'
    BY StepKeepsCoder DEF WholeInv
  <1>2. CASE InsertLeaf
    <2>1. /\ phase = "leaves" /\ phase' \in {"leaves", "merge"} /\ decoder' = decoder
      BY <1>2 DEF InsertLeaf
    <2>2. ReadInv'
      BY <2>1 DEF WholeInv, ReadInv
    <2>3. GrowthInv'
      BY <1>2, LeafGrowth
    <2> QED BY <2>1, <2>2, <2>3, <1>1 DEF WholeInv, TreeInv, WrittenInv
  <1>3. CASE Merge
    <2>1. /\ phase = "merge" /\ phase' = phase /\ decoder' = decoder
      BY <1>3 DEF Merge
    <2>2. ReadInv'
      BY <2>1 DEF WholeInv, ReadInv
    <2>3. GrowthInv'
      BY <1>3, MergeGrowth
    <2> QED BY <2>1, <2>2, <2>3, <1>1 DEF WholeInv, TreeInv, WrittenInv
  <1>4. CASE BuildCode
    <2>1. /\ phase = "merge" /\ Len(qq) = 1 /\ phase' = "code" /\ code' = CodeOfLeaf
          /\ s' = s /\ pool' = pool /\ qq' = qq /\ decoder' = decoder
      BY <1>4 DEF BuildCode
    <2>2. /\ Coding(pool, Root, s, CodeOfLeaf) /\ DOMAIN CodeOfLeaf = Symbols
          /\ Len(pool) = 2 * Distinct - 1
      BY <2>1, TreeIsCoded
    <2>3. TreeInv'
      BY <2>1, <2>2 DEF TreeInv, Root, Distinct, Symbols
    <2>4. ReadInv'
      BY <2>1 DEF WholeInv, ReadInv
    <2> QED BY <2>1, <2>3, <2>4, <1>1 DEF WholeInv, GrowthInv, WrittenInv
  <1>5. CASE WriteTree
    <2>1. /\ phase = "code" /\ phase' = "encode" /\ code' = code
          /\ s' = s /\ pool' = pool /\ qq' = qq /\ decoder' = decoder
          /\ segment' = [nodeCount |-> 2 * Cardinality(DOMAIN code) - 1,
               bytes |-> PadTree(pool, Root, 2 * Cardinality(DOMAIN code) - 1)]
      BY <1>5 DEF WriteTree
    <2>2. 2 * Cardinality(DOMAIN code) - 1 = Len(pool)
      BY <2>1 DEF WholeInv, TreeInv, Distinct
    <2>3. TreeInv'
      BY <2>1, TreeStays DEF WholeInv
    <2>4. ReadInv'
      BY <2>1 DEF WholeInv, ReadInv
    <2>5. WrittenInv'
      BY <2>1, <2>2 DEF WrittenInv, Root
    <2> QED BY <2>1, <2>3, <2>4, <2>5, <1>1 DEF WholeInv, GrowthInv
  <1>6. CASE EncodeSymbol
    <2>1. /\ phase = "encode" /\ phase' = phase /\ code' = code /\ segment' = segment
          /\ s' = s /\ pool' = pool /\ qq' = qq /\ decoder' = decoder
      BY <1>6 DEF EncodeSymbol
    <2>2. TreeInv'
      BY <2>1, TreeStays DEF WholeInv
    <2>3. ReadInv'
      BY <2>1 DEF WholeInv, ReadInv
    <2>4. WrittenInv'
      BY <2>1 DEF WholeInv, WrittenInv, Root
    <2> QED BY <2>1, <2>2, <2>3, <2>4, <1>1 DEF WholeInv, GrowthInv
  <1>7. CASE CloseSegment
    <2>1. /\ phase = "encode" /\ phase' = "rebuild" /\ code' = code
          /\ s' = s /\ pool' = pool /\ qq' = qq /\ decoder' = decoder
      BY <1>7 DEF CloseSegment
    <2>2. TreeInv'
      BY <2>1, TreeStays DEF WholeInv
    <2>3. ReadInv'
      BY <2>1 DEF WholeInv, ReadInv
    <2>4. WrittenInv'
      BY <1>7, CloseKeeps
    <2> QED BY <2>1, <2>2, <2>3, <2>4, <1>1 DEF WholeInv, GrowthInv
  <1>8. CASE ReadTree
    <2>1. /\ phase = "rebuild" /\ phase' = "decode" /\ code' = code /\ segment' = segment
          /\ s' = s /\ pool' = pool /\ qq' = qq /\ decoder' = decoder /\ packer' = packer
          /\ tree' = UnpadTree(segment.bytes, segment.nodeCount)
      BY <1>8 DEF ReadTree
    <2>2. TreeInv'
      BY <2>1, TreeStays DEF WholeInv
    <2>3. WrittenInv'
      BY <2>1 DEF WholeInv, WrittenInv, Root
    <2>4. /\ tree' = UnpadTree(PadTree(pool, Root, Len(pool)), Len(pool))
          /\ Coding(pool, Root, s, code) /\ s \in Arrays
          /\ DOMAIN decoder = {"i", "n", "out"}
          /\ decoder.i = 0 /\ decoder.n = 0 /\ decoder.out = <<>>
      BY <2>1 DEF WholeInv, WrittenInv, TreeInv, ReadInv, CoderInv
    <2>5. Reading(pool, Root, s, code, decoder)
      <3>1. Len(s) \in Nat /\ Len(s) # 0 /\ 0 \in 0 .. Len(s) - 1 /\ SubSeq(s, 1, 0) = <<>>
        BY <2>4, ArraysAssumption
      <3>2. Len(Joined(s, code, 0)) = 0
        <4>1. \A k \in 1 .. Len(s) : code[s[k]] \in Seq({0, 1})
          BY <2>4, CodingFacts
        <4>2. Joined(s, code, 0) = <<>>
          BY <3>1, <4>1, JoinedAppends
        <4> QED BY <4>2
      <3> QED BY <3>1, <3>2, <2>4, AtTheRoot
    <2>6. ReadInv'
      BY <2>1, <2>4, <2>5 DEF ReadInv, Root
    <2> QED BY <2>1, <2>2, <2>3, <2>6, <1>1 DEF WholeInv, GrowthInv
  <1>9. CASE DecodeConstant \/ DecodeBit
    <2>1. /\ phase = "decode" /\ phase' \in {"decode", "done"} /\ code' = code
          /\ segment' = segment /\ packer' = packer
          /\ s' = s /\ pool' = pool /\ qq' = qq
      <3>1. phase' \in {phase, "done"}
        BY <1>9 DEF DecodeConstant, DecodeBit
      <3> QED BY <3>1, <1>9 DEF DecodeConstant, DecodeBit
    <2>2. TreeInv'
      BY <2>1, TreeStays DEF WholeInv
    <2>3. WrittenInv'
      BY <2>1 DEF WholeInv, WrittenInv, Root
    <2>4. ReadInv'
      BY <1>9, DecodeKeeps
    <2> QED BY <2>1, <2>2, <2>3, <2>4, <1>1 DEF WholeInv, GrowthInv
  <1>10. CASE UNCHANGED coding
    <2>1. GrowthInv' /\ TreeInv' /\ WrittenInv' /\ ReadInv'
      BY <1>10 DEF coding, WholeInv, GrowthInv, TreeInv, WrittenInv, ReadInv, Root, Distinct,
                   Symbols, Made
    <2> QED BY <2>1, <1>1 DEF WholeInv
  <1>11. Coded => UNCHANGED coding
    BY DEF Coded
  <1> QED BY <1>2, <1>3, <1>4, <1>5, <1>6, <1>7, <1>8, <1>9, <1>10, <1>11
          DEF CoderNext, Encode, Decode

\* The invariant of the specification.
LEMMA WholeInvariance == CoderSpec /\ []OneWord => []WholeInv
  <1>1. WholeInv /\ OneWord /\ [CoderNext]_coding => WholeInv'
    BY StepKeepsWhole
  <1> QED BY <1>1, InitWhole, PTL DEF CoderSpec

\* The decoder reads only bits of the codes, which are inside the bytes that encode()
\* says it used, and is at the root when it has as many symbols as it was asked for.
THEOREM ReadsStayInside == CoderSpec /\ []OneWord => []ReadsInsideSegment
  <1>1. WholeInv => ReadsInsideSegment
    <2> SUFFICES ASSUME WholeInv PROVE ReadsInsideSegment
      OBVIOUS
    <2> DEFINE J == Joined(s, code, Len(s))
    <2>1. CASE phase \in {"decode", "done"}
      <3>1. /\ Coding(pool, Root, s, code) /\ packer.outSize = Bytes(Len(J))
        BY <2>1 DEF WholeInv, TreeInv, WrittenInv
      <3>2. Grows(s, code, Len(s)) /\ Len(s) \in Nat
        BY <3>1, CodingFacts, JoinedGrows
      <3>3. Len(J) \in Nat /\ Len(J) <= ByteBits * packer.outSize
        <4>1. Len(s) \in 0 .. Len(s)
          BY <3>2
        <4>2. Len(J) \in Nat
          BY <3>2, <4>1 DEF Grows
        <4> HIDE DEF J
        <4> QED BY <3>1, <4>2, BytesHold
      <3>4. decoder.i \in 0 .. Len(J)
        <4>1. CASE phase = "decode"
          <5>1. PICK k \in 0 .. Len(s) - 1, v \in DOMAIN pool :
                  ReadTo(pool, Root, s, code, k, v, decoder)
            BY <4>1 DEF WholeInv, ReadInv, Reading
          <5> DEFINE path == Path(pool, Root)
                     x == LeafFor(pool, s[k + 1])
          <5>2. k + 1 \in 1 .. Len(s) /\ k + 1 \in 0 .. Len(s) /\ k \in 0 .. Len(s)
            BY <3>2
          <5>3. v \in Line(pool, Root, x) /\ x \in DOMAIN pool /\ code[s[k + 1]] = path[x]
            BY <3>1, <5>1, <5>2 DEF ReadTo, Coding
          <5>4. Family(pool, Root) /\ Paths(pool, Root, path)
            BY <3>1, CodingFacts
          <5>5. Len(path[v]) <= Len(path[x]) /\ Len(path[v]) \in Nat /\ Len(path[x]) \in Nat
            <6>1. Len(path[v]) <= Len(path[x])
              BY <5>3, <5>4, PathLeads
            <6> QED BY <6>1, <5>3, <5>4 DEF Paths
          <5>6. decoder.i = Len(Joined(s, code, k)) + Len(path[v])
            BY <5>1 DEF ReadTo
          <5>7. /\ Len(Joined(s, code, k)) \in Nat /\ Len(Joined(s, code, k + 1)) <= Len(J)
                /\ Len(Joined(s, code, k + 1)) = Len(Joined(s, code, k)) + Len(path[x])
            BY <3>2, <5>2, <5>3 DEF Grows
          <5> HIDE DEF J, path, x
          <5> QED BY <3>3, <5>5, <5>6, <5>7
        <4>2. CASE phase = "done"
          BY <4>2 DEF WholeInv, ReadInv, HasRead
        <4> QED BY <4>1, <4>2, <2>1
      <3>5. decoder.i <= ByteBits * packer.outSize
        <4>1. PICK j \in Nat : j = Len(J)
          BY <3>3
        <4>2. packer.outSize \in Nat
          BY <3>1, <3>3, BytesHold
        <4>3. PICK m \in Nat : m = ByteBits * packer.outSize
          <5>1. \A x, y \in Nat : x * y \in Nat
            OBVIOUS
          <5> QED BY <5>1, <4>2, PackerAssumption
        <4> HIDE DEF J
        <4> QED BY <4>1, <4>3, <3>3, <3>4
      <3>6. phase = "done" => decoder.n = 0
        BY DEF WholeInv, ReadInv, HasRead
      <3> QED BY <3>5, <3>6 DEF ReadsInsideSegment, InUse
    <2>2. CASE phase \notin {"decode", "done"}
      <3>1. decoder.i = 0 /\ phase # "done"
        BY <2>2 DEF WholeInv, ReadInv
      <3>2. packer.outSize \in Nat
        <4>1. CASE phase \in {"leaves", "merge", "code"}
          <5>1. packer.outSize = Bytes(Len(<<>>)) /\ Len(<<>>) = 0
            BY <4>1 DEF WholeInv, CoderInv, PackInv, Packs
          <5> QED BY <5>1, BytesHold
        <4>2. CASE phase = "encode"
          <5>1. /\ packer.outSize = Bytes(Len(Joined(s, code, encoded)))
                /\ encoded \in 0 .. Len(s) /\ s \in Arrays /\ CodeInv
            BY <4>2 DEF WholeInv, CoderInv, PackInv, Packs
          <5>2. Len(Joined(s, code, encoded)) \in Nat
            BY <5>1, CodesJoined
          <5> QED BY <5>1, <5>2, BytesHold
        <4>3. CASE phase = "rebuild"
          <5>1. /\ packer.outSize = Bytes(Len(J)) /\ Coding(pool, Root, s, code)
            BY <4>3 DEF WholeInv, TreeInv, WrittenInv
          <5>2. Grows(s, code, Len(s)) /\ Len(s) \in Nat
            BY <5>1, CodingFacts, JoinedGrows
          <5>3. Len(J) \in Nat
            <6>1. Len(s) \in 0 .. Len(s)
              BY <5>2
            <6> QED BY <5>2, <6>1 DEF Grows
          <5> QED BY <5>1, <5>3, BytesHold
        <4> QED BY <4>1, <4>2, <4>3, <2>2 DEF WholeInv, ReadInv
      <3>3. 0 <= ByteBits * packer.outSize
        <4>1. \A x, y \in Nat : 0 <= x * y
          OBVIOUS
        <4> QED BY <4>1, <3>2, PackerAssumption
      <3> QED BY <3>1, <3>3 DEF ReadsInsideSegment, InUse
    <2> QED BY <2>1, <2>2
  <1> QED BY <1>1, WholeInvariance, PTL

\* What is decoded is what was encoded.
THEOREM DecodesTheArray == CoderSpec /\ []OneWord => [](phase = "done" => decoder.out = s)
  <1>1. WholeInv => (phase = "done" => decoder.out = s)
    BY DEF WholeInv, ReadInv, HasRead
  <1> QED BY <1>1, WholeInvariance, PTL

----------------------------------------------------------------------------
(* Sums over finite sets.                                                  *)

\* The sum of f over a set, as the library has it.
Total(f, X) == SumFunctionOnSet(f, X)

\* The element a fold over a set takes first, and the sums over all subsets.
First(t) == CHOOSE e \in t : TRUE
Sums(g, f, D) ==
  g = [t \in SUBSET D |-> IF t = {} THEN 0 ELSE f[First(t)] + g[t \ {First(t)}]]

\* Subsets of a finite set, and what is left of one without one of its elements.
LEMMA SubsetFacts ==
  ASSUME NEW D, IsFiniteSet(D), NEW t \in SUBSET D
  PROVE  /\ IsFiniteSet(t) /\ Cardinality(t) \in Nat /\ Cardinality(t) <= Cardinality(D)
         /\ t # {} => First(t) \in t
         /\ \A e \in t : /\ t \ {e} \in SUBSET D
                         /\ Cardinality(t \ {e}) \in Nat
                         /\ Cardinality(t \ {e}) = Cardinality(t) - 1
  <1>1. IsFiniteSet(t) /\ Cardinality(t) \in Nat /\ Cardinality(t) <= Cardinality(D)
    BY FS_Subset, FS_CardinalityType
  <1>2. t # {} => First(t) \in t
    BY DEF First
  <1>3. ASSUME NEW e \in t
        PROVE  /\ t \ {e} \in SUBSET D /\ Cardinality(t \ {e}) \in Nat
               /\ Cardinality(t \ {e}) = Cardinality(t) - 1
    <2>1. t \ {e} \in SUBSET D
      OBVIOUS
    <2>2. Cardinality(t \ {e}) \in Nat
      BY <2>1, FS_Subset, FS_CardinalityType
    <2> QED BY <1>1, <2>1, <2>2, FS_RemoveElement
  <1> QED BY <1>1, <1>2, <1>3

\* What is true of the empty set, and of a set if it is without one of its elements,
\* is true of every finite set.
LEMMA SubsetInduction ==
  ASSUME NEW D, IsFiniteSet(D), NEW S, {} \in S,
         \A t \in SUBSET D : \A e \in t : t \ {e} \in S => t \in S
  PROVE  D \in S
  <1> DEFINE P == SUBSET D
             r == [t \in P |-> Cardinality(t)]
  <1>1. \A t \in P : r[t] \in Nat
    BY SubsetFacts
  <1>2. ASSUME NEW t \in P, \A u \in P : r[u] < r[t] => u \in S
        PROVE  t \in S
    <2>1. CASE t # {}
      <3>1. PICK e \in t : TRUE
        BY <2>1
      <3>2. t \ {e} \in P /\ r[t \ {e}] < r[t]
        <4>1. /\ t \ {e} \in SUBSET D /\ Cardinality(t \ {e}) = Cardinality(t) - 1
              /\ Cardinality(t) \in Nat
          BY SubsetFacts
        <4> QED BY <4>1
      <3>3. t \ {e} \in S
        <4> HIDE DEF r, P
        <4> QED BY <3>2, <1>2
      <3> QED BY <3>3
    <2> QED BY <2>1
  <1> HIDE DEF r, P
  <1>3. \A t \in P : t \in S
    BY <1>1, <1>2, RankInduction
  <1> QED BY <1>3 DEF P

\* There are such sums, and they are natural numbers where the summands are.
LEMMA SumsExist ==
  ASSUME NEW f, NEW D, IsFiniteSet(D), \A e \in D : f[e] \in Nat
  PROVE  \E g \in [SUBSET D -> Nat] : Sums(g, f, D)
  <1> DEFINE P == SUBSET D
             r == [t \in P |-> Cardinality(t)]
             N == Cardinality(D) + 1
             Stop == {{}}
             base == [t \in P |-> 0]
             next == [t \in P |-> t \ {First(t)}]
             step == [t \in P |-> [w \in Nat |-> f[First(t)] + w]]
  <1>1. Descends(P, Nat, r, N, Stop, base, next, step)
    <2>1. N \in Nat /\ \A t \in P : r[t] \in Nat /\ r[t] < N
      <3>1. \A t \in P : Cardinality(t) \in Nat /\ Cardinality(t) <= Cardinality(D)
        BY SubsetFacts
      <3>2. Cardinality(D) \in Nat
        BY FS_CardinalityType
      <3> QED BY <3>1, <3>2
    <2>2. ASSUME NEW t \in P, t \notin Stop
          PROVE  next[t] \in P /\ r[next[t]] < r[t] /\ \A w \in Nat : step[t][w] \in Nat
      <3>1. First(t) \in t /\ f[First(t)] \in Nat
        BY <2>2, SubsetFacts
      <3>2. /\ t \ {First(t)} \in P /\ Cardinality(t \ {First(t)}) = Cardinality(t) - 1
            /\ Cardinality(t) \in Nat
        BY <3>1, SubsetFacts
      <3> QED BY <3>1, <3>2
    <2> HIDE DEF P, r, N, next, step, Stop
    <2> QED BY <2>1, <2>2 DEF Descends
  <1>2. PICK g \in [P -> Nat] : Solves(g, P, Stop, base, next, step)
    <2> HIDE DEF P, r, N, Stop, base, next, step
    <2> QED BY <1>1, RecursionExists
  <1>3. ASSUME NEW t \in P
        PROVE  g[t] = IF t = {} THEN 0 ELSE f[First(t)] + g[t \ {First(t)}]
    <2>1. t \ {First(t)} \in P
      OBVIOUS
    <2>2. g[t \ {First(t)}] \in Nat
      <3> HIDE DEF P
      <3> QED BY <2>1
    <2> QED BY <1>2, <2>1, <2>2 DEF Solves
  <1>4. g = [t \in P |-> g[t]]
    <2> HIDE DEF P
    <2> QED OBVIOUS
  <1>5. Sums(g, f, D)
    BY <1>3, <1>4 DEF Sums
  <1> QED BY <1>5

\* Over a subset the sums are the same, of whichever larger set they are.
LEMMA SumsAgree ==
  ASSUME NEW f, NEW E, IsFiniteSet(E), NEW D \in SUBSET E,
         NEW g, Sums(g, f, D), NEW h, Sums(h, f, E)
  PROVE  g[D] = h[D]
  <1> DEFINE P == SUBSET D
             r == [t \in P |-> Cardinality(t)]
             T == {t \in SUBSET D : g[t] = h[t]}
  <1>1. IsFiniteSet(D)
    BY FS_Subset
  <1>2. \A t \in SUBSET D : /\ g[t] = IF t = {} THEN 0 ELSE f[First(t)] + g[t \ {First(t)}]
                            /\ h[t] = IF t = {} THEN 0 ELSE f[First(t)] + h[t \ {First(t)}]
    BY DEF Sums
  <1>3. \A t \in P : r[t] \in Nat
    BY <1>1, SubsetFacts
  <1>4. ASSUME NEW t \in P, \A u \in P : r[u] < r[t] => u \in T
        PROVE  t \in T
    <2>1. CASE t = {}
      BY <1>2, <2>1
    <2>2. CASE t # {}
      <3>1. /\ t \ {First(t)} \in P /\ Cardinality(t \ {First(t)}) = Cardinality(t) - 1
            /\ Cardinality(t) \in Nat
        BY <1>1, <2>2, SubsetFacts
      <3>2. r[t \ {First(t)}] < r[t]
        BY <3>1
      <3>3. t \ {First(t)} \in T
        <4> HIDE DEF r, T, P
        <4> QED BY <3>1, <3>2, <1>4
      <3> QED BY <1>2, <2>2, <3>3
    <2> QED BY <2>1, <2>2
  <1> HIDE DEF r, T, P
  <1>5. \A t \in P : t \in T
    BY <1>3, <1>4, RankInduction
  <1> QED BY <1>5 DEF T, P

\* The library's sum is one of them.
LEMMA TotalIs ==
  ASSUME NEW f, NEW D, IsFiniteSet(D), \A e \in D : f[e] \in Nat,
         NEW E \in SUBSET D, NEW g, Sums(g, f, D)
  PROVE  Total(f, E) = g[E]
  <1> DEFINE h == CHOOSE h : Sums(h, f, E)
  <1>1. IsFiniteSet(E)
    BY FS_Subset
  <1>2. Sums(h, f, E)
    BY <1>1, SumsExist
  <1>3. Total(f, E) = h[E]
    BY Zenon DEF Total, SumFunctionOnSet, FoldFunctionOnSet, MapThenFoldSet, Sums, First
  <1> HIDE DEF h
  <1> QED BY <1>2, <1>3, SumsAgree

\* Any element may be taken first.
TakesAny(g, f, D) == \A t \in SUBSET D : \A e \in t : g[t] = f[e] + g[t \ {e}]

\* Sums over subsets do not depend on the order in which elements are taken.
LEMMA SumsAny ==
  ASSUME NEW f, NEW D, IsFiniteSet(D), \A e \in D : f[e] \in Nat,
         NEW g \in [SUBSET D -> Nat], Sums(g, f, D)
  PROVE  TakesAny(g, f, D)
  <1> DEFINE P == SUBSET D
             r == [t \in P |-> Cardinality(t)]
             T == {t \in P : \A e \in t : g[t] = f[e] + g[t \ {e}]}
  <1>1. \A t \in P : t # {} => First(t) \in t /\ g[t] = f[First(t)] + g[t \ {First(t)}]
    BY SubsetFacts DEF Sums
  <1>2. ASSUME NEW t \in P, \A u \in P : r[u] < r[t] => u \in T
        PROVE  t \in T
    <2> SUFFICES ASSUME NEW e \in t PROVE g[t] = f[e] + g[t \ {e}]
      OBVIOUS
    <2> DEFINE c == First(t)
    <2>1. c \in t /\ g[t] = f[c] + g[t \ {c}]
      BY <1>1
    <2> HIDE DEF c
    <2>2. CASE e # c
      <3>1. ASSUME NEW d \in t PROVE t \ {d} \in T
        <4>1. t \ {d} \in P /\ Cardinality(t \ {d}) = Cardinality(t) - 1
              /\ Cardinality(t) \in Nat
          BY SubsetFacts
        <4>2. r[t \ {d}] < r[t]
          BY <4>1
        <4> HIDE DEF r, T, P
        <4> QED BY <4>1, <4>2, <1>2
      <3>2. g[t \ {c}] = f[e] + g[(t \ {c}) \ {e}]
        BY <3>1, <2>1, <2>2
      <3>3. g[t \ {e}] = f[c] + g[(t \ {e}) \ {c}]
        BY <3>1, <2>1, <2>2
      <3>4. (t \ {c}) \ {e} = (t \ {e}) \ {c} /\ (t \ {e}) \ {c} \in SUBSET D
        OBVIOUS
      <3> DEFINE w == g[(t \ {e}) \ {c}]
      <3>5. w \in Nat /\ f[e] \in Nat /\ f[c] \in Nat
        BY <3>4, <2>1
      <3>6. g[t] = f[c] + (f[e] + w) /\ g[t \ {e}] = f[c] + w
        BY <3>2, <3>3, <3>4, <2>1
      <3> HIDE DEF w
      <3> QED BY <3>5, <3>6
    <2> QED BY <2>1, <2>2
  <1>3. \A t \in P : r[t] \in Nat
    BY SubsetFacts
  <1> HIDE DEF r, T, P
  <1>4. \A t \in P : t \in T
    BY <1>2, <1>3, RankInduction
  <1> QED BY <1>4 DEF T, P, TakesAny

\* A sum of natural numbers is one, and is any of them and the sum of the others.
LEMMA TotalFacts ==
  ASSUME NEW f, NEW D, IsFiniteSet(D), \A e \in D : f[e] \in Nat
  PROVE  /\ Total(f, D) \in Nat
         /\ D = {} => Total(f, D) = 0
         /\ \A e \in D : /\ Total(f, D \ {e}) \in Nat
                         /\ Total(f, D) = f[e] + Total(f, D \ {e})
  <1>1. PICK g \in [SUBSET D -> Nat] : Sums(g, f, D)
    BY SumsExist
  <1>2. \A t \in SUBSET D : Total(f, t) = g[t]
    BY <1>1, TotalIs
  <1>3. TakesAny(g, f, D)
    BY <1>1, SumsAny
  <1>4. g[{}] = 0
    BY <1>1 DEF Sums
  <1> QED BY <1>2, <1>3, <1>4 DEF TakesAny

\* Nothing adds up to 0.
LEMMA TotalOfNone ==
  ASSUME NEW f
  PROVE  Total(f, {}) = 0
  <1>1. IsFiniteSet({}) /\ \A e \in {} : f[e] \in Nat
    BY FS_EmptySet
  <1> DEFINE D == {}
  <1>2. IsFiniteSet(D) /\ (\A e \in D : f[e] \in Nat) /\ D = {}
    BY <1>1
  <1> HIDE DEF D
  <1>3. Total(f, D) = 0
    BY <1>2, TotalFacts
  <1> QED BY <1>3 DEF D

\* Without two of its elements.
LEMMA TotalOfTwo ==
  ASSUME NEW f, NEW D, IsFiniteSet(D), \A e \in D : f[e] \in Nat,
         NEW x \in D, NEW y \in D, x # y
  PROVE  /\ Total(f, D \ {x, y}) \in Nat
         /\ Total(f, D) = f[x] + f[y] + Total(f, D \ {x, y})
  <1>1. Total(f, D) = f[x] + Total(f, D \ {x})
    BY TotalFacts
  <1>2. IsFiniteSet(D \ {x})
    BY FS_Subset
  <1>3. /\ Total(f, D \ {x}) = f[y] + Total(f, (D \ {x}) \ {y})
        /\ Total(f, (D \ {x}) \ {y}) \in Nat
    BY <1>2, TotalFacts
  <1>4. (D \ {x}) \ {y} = D \ {x, y}
    OBVIOUS
  <1>5. f[x] \in Nat /\ f[y] \in Nat
    OBVIOUS
  <1> DEFINE z == Total(f, D \ {x, y})
  <1>6. Total(f, D \ {x}) = f[y] + z /\ z \in Nat
    BY <1>3, <1>4
  <1> HIDE DEF z
  <1>7. Total(f, D) = f[x] + f[y] + z
    BY <1>1, <1>5, <1>6
  <1> QED BY <1>6, <1>7 DEF z

\* The sum depends on the summands only.
LEMMA TotalAgrees ==
  ASSUME NEW f, NEW g, NEW D, IsFiniteSet(D), \A e \in D : f[e] = g[e] /\ f[e] \in Nat
  PROVE  Total(f, D) = Total(g, D)
  <1> DEFINE S == {t \in SUBSET D : Total(f, t) = Total(g, t)}
  <1>1. {} \in S
    BY TotalOfNone
  <1>2. ASSUME NEW t \in SUBSET D, NEW e \in t, t \ {e} \in S PROVE t \in S
    <2>1. IsFiniteSet(t) /\ (\A x \in t : f[x] \in Nat) /\ (\A x \in t : g[x] \in Nat)
      BY FS_Subset
    <2>2. /\ Total(f, t) = f[e] + Total(f, t \ {e}) /\ Total(g, t) = g[e] + Total(g, t \ {e})
      BY <2>1, TotalFacts
    <2> QED BY <2>2, <1>2
  <1> HIDE DEF S
  <1>3. D \in S
    BY <1>1, <1>2, SubsetInduction
  <1> QED BY <1>3 DEF S

\* A sum of doubles is the double of the sum.
LEMMA TotalDoubles ==
  ASSUME NEW f, NEW g, NEW D, IsFiniteSet(D), \A e \in D : g[e] \in Nat /\ f[e] = 2 * g[e]
  PROVE  Total(f, D) = 2 * Total(g, D)
  <1> DEFINE S == {t \in SUBSET D : Total(f, t) = 2 * Total(g, t)}
  <1>1. {} \in S
    BY TotalOfNone
  <1>2. ASSUME NEW t \in SUBSET D, NEW e \in t, t \ {e} \in S PROVE t \in S
    <2>1. IsFiniteSet(t) /\ (\A x \in t : f[x] \in Nat) /\ (\A x \in t : g[x] \in Nat)
      BY FS_Subset
    <2>2. /\ Total(f, t) = f[e] + Total(f, t \ {e}) /\ Total(g, t) = g[e] + Total(g, t \ {e})
          /\ Total(g, t \ {e}) \in Nat
      BY <2>1, TotalFacts
    <2>3. Total(f, t \ {e}) = 2 * Total(g, t \ {e}) /\ g[e] \in Nat /\ f[e] = 2 * g[e]
      BY <1>2
    <2> QED BY <2>2, <2>3
  <1> HIDE DEF S
  <1>3. D \in S
    BY <1>1, <1>2, SubsetInduction
  <1> QED BY <1>3 DEF S

\* What a finite set is mapped to is finite.
Image(h, D) == {h[x] : x \in D}

\* A finite set is mapped to a finite set that is no larger.
LEMMA ImageIsFinite ==
  ASSUME NEW h, NEW D, IsFiniteSet(D)
  PROVE  IsFiniteSet(Image(h, D)) /\ Cardinality(Image(h, D)) <= Cardinality(D)
  <1> DEFINE T == Image(h, D)
             g == [x \in D |-> h[x]]
  <1>1. g \in [D -> T] /\ \A y \in T : \E x \in D : g[x] = y
    BY DEF Image
  <1> HIDE DEF g, T
  <1>2. g \in Surjection(D, T)
    BY <1>1 DEF Surjection
  <1>3. IsFiniteSet(T) /\ Cardinality(T) <= Cardinality(D)
    BY <1>2, FS_Surjection
  <1> QED BY <1>3 DEF T

\* The sum over the images, if no two are the same.
LEMMA TotalOfImages ==
  ASSUME NEW f, NEW g, NEW h, NEW D, IsFiniteSet(D),
         \A x \in D : f[h[x]] \in Nat /\ g[x] = f[h[x]],
         \A x, y \in D : h[x] = h[y] => x = y
  PROVE  Total(f, Image(h, D)) = Total(g, D)
  <1> DEFINE S == {t \in SUBSET D : Total(f, Image(h, t)) = Total(g, t)}
  <1>1. {} \in S
    <2>1. Image(h, {}) = {}
      BY DEF Image
    <2> QED BY <2>1, TotalOfNone
  <1>2. ASSUME NEW t \in SUBSET D, NEW e \in t, t \ {e} \in S PROVE t \in S
    <2>1. IsFiniteSet(t) /\ \A x \in t : g[x] \in Nat
      BY FS_Subset
    <2>2. Total(g, t) = g[e] + Total(g, t \ {e})
      BY <2>1, TotalFacts
    <2>3. IsFiniteSet(Image(h, t)) /\ \A y \in Image(h, t) : f[y] \in Nat
      <3>1. IsFiniteSet(Image(h, t))
        BY <2>1, ImageIsFinite
      <3> QED BY <3>1 DEF Image
    <2>4. Total(f, Image(h, t)) = f[h[e]] + Total(f, Image(h, t) \ {h[e]})
      <3>1. h[e] \in Image(h, t)
        BY DEF Image
      <3> QED BY <3>1, <2>3, TotalFacts
    <2>5. Image(h, t) \ {h[e]} = Image(h, t \ {e})
      BY DEF Image
    <2>6. Total(f, Image(h, t \ {e})) = Total(g, t \ {e}) /\ g[e] = f[h[e]]
      BY <1>2
    <2> QED BY <2>2, <2>4, <2>5, <2>6
  <1> HIDE DEF S
  <1>3. D \in S
    BY <1>1, <1>2, SubsetInduction
  <1> QED BY <1>3 DEF S

----------------------------------------------------------------------------
(* Code lengths.                                                           *)

\* The powers of two.
Doubling(P, N) ==
  /\ N \in Nat /\ P \in [0 .. N -> Nat \ {0}] /\ P[0] = 1
  /\ \A n \in 1 .. N : P[n] = 2 * P[n - 1]

\* Lengths up to D with Kraft's equality, multiplied by the D-th power of two.
Kraft(P, lens, X, D) ==
  /\ lens \in [X -> 0 .. D]
  /\ Total([x \in X |-> P[D - lens[x]]], X) = P[D]

\* The bits that codes of these lengths take.
Bits(w, X, lens) == Total([x \in X |-> w[x] * lens[x]], X)

\* The summands are natural numbers.
LEMMA KraftSummands ==
  ASSUME NEW P, NEW N, Doubling(P, N), NEW D \in 0 .. N, NEW X, NEW lens \in [X -> 0 .. D]
  PROVE  \A x \in X : /\ lens[x] \in 0 .. D /\ D - lens[x] \in 0 .. N
                      /\ [y \in X |-> P[D - lens[y]]][x] = P[D - lens[x]]
                      /\ P[D - lens[x]] \in Nat \ {0}
  <1> SUFFICES ASSUME NEW x \in X
               PROVE  /\ lens[x] \in 0 .. D /\ D - lens[x] \in 0 .. N
                      /\ P[D - lens[x]] \in Nat \ {0}
    OBVIOUS
  <1>1. N \in Nat /\ D \in Nat /\ D <= N /\ lens[x] \in 0 .. D
    BY DEF Doubling
  <1>2. D - lens[x] \in 0 .. N
    BY <1>1
  <1> QED BY <1>1, <1>2 DEF Doubling

\* So is what each element adds to the bits.
LEMMA BitSummands ==
  ASSUME NEW w, NEW X, \A x \in X : w[x] \in Nat, NEW lens, \A x \in X : lens[x] \in Nat
  PROVE  \A x \in X : /\ [y \in X |-> w[y] * lens[y]][x] = w[x] * lens[x]
                      /\ w[x] * lens[x] \in Nat
  <1>1. \A m, n \in Nat : m * n \in Nat
    OBVIOUS
  <1> QED BY <1>1

\* Where no length is D, the equality holds one power below.
LEMMA KraftHalves ==
  ASSUME NEW P, NEW N, Doubling(P, N), NEW D \in 1 .. N, NEW X, IsFiniteSet(X),
         NEW lens \in [X -> 0 .. D], \A x \in X : lens[x] # D
  PROVE  /\ lens \in [X -> 0 .. D - 1]
         /\ Total([x \in X |-> P[D - lens[x]]], X)
              = 2 * Total([x \in X |-> P[D - 1 - lens[x]]], X)
         /\ Total([x \in X |-> P[D - 1 - lens[x]]], X) \in Nat
         /\ P[D] = 2 * P[D - 1] /\ P[D - 1] \in Nat
  <1>1. N \in Nat /\ D \in 0 .. N /\ D - 1 \in 0 .. N /\ D \in Nat /\ D - 1 \in Nat
    BY DEF Doubling
  <1>2. \A x \in X : lens[x] \in 0 .. D - 1
    BY <1>1
  <1>3. lens \in [X -> 0 .. D - 1]
    BY <1>2
  <1> DEFINE f == [x \in X |-> P[D - lens[x]]]
             g == [x \in X |-> P[D - 1 - lens[x]]]
  <1>4. \A x \in X : g[x] \in Nat /\ g[x] = P[D - 1 - lens[x]]
    BY <1>1, <1>3, KraftSummands
  <1>5. \A x \in X : f[x] = 2 * g[x]
    <2> SUFFICES ASSUME NEW x \in X PROVE P[D - lens[x]] = 2 * P[D - 1 - lens[x]]
      OBVIOUS
    <2>1. D - lens[x] \in 1 .. N /\ (D - lens[x]) - 1 = D - 1 - lens[x]
      BY <1>1, <1>2
    <2> QED BY <2>1 DEF Doubling
  <1> HIDE DEF f, g
  <1>6. Total(f, X) = 2 * Total(g, X) /\ Total(g, X) \in Nat
    BY <1>4, <1>5, TotalDoubles, TotalFacts
  <1>7. P[D] = 2 * P[D - 1] /\ P[D - 1] \in Nat
    BY <1>1 DEF Doubling
  <1> QED BY <1>3, <1>6, <1>7 DEF f, g

\* With two elements or more, some length is the largest that counts.
LEMMA LongestExists ==
  ASSUME NEW P, NEW N, Doubling(P, N), NEW D \in 0 .. N, NEW X, IsFiniteSet(X),
         NEW lens, Kraft(P, lens, X, D), NEW x \in X, NEW y \in X, x # y
  PROVE  \E E \in 1 .. D : Kraft(P, lens, X, E) /\ \E u \in X : lens[u] = E
  <1> DEFINE T == {E \in 0 .. D : Kraft(P, lens, X, E)}
  <1>0. N \in Nat /\ D \in Nat /\ D <= N
    BY DEF Doubling
  <1>1. T \subseteq Nat /\ T # {}
    <2>1. D \in T
      BY <1>0
    <2> QED BY <2>1, <1>0
  <1>2. PICK E \in T : \A n \in T : E <= n
    <2> HIDE DEF T
    <2> QED BY <1>1, Least
  <1>3. /\ E \in Nat /\ E <= N /\ E \in 0 .. N /\ E \in 0 .. D
        /\ lens \in [X -> 0 .. E] /\ Kraft(P, lens, X, E)
    BY <1>0 DEF Kraft
  <1> DEFINE f == [z \in X |-> P[E - lens[z]]]
  <1>4. Total(f, X) = P[E] /\ \A z \in X : f[z] \in Nat /\ f[z] = P[E - lens[z]]
    BY <1>3, KraftSummands DEF Kraft
  <1>5. E # 0
    <2> SUFFICES ASSUME E = 0 PROVE FALSE
      OBVIOUS
    <2>1. lens[x] = 0 /\ lens[y] = 0
      BY <1>3
    <2>2. f[x] = 1 /\ f[y] = 1
      BY <1>4, <2>1 DEF Doubling
    <2>3. P[E] = 1
      BY DEF Doubling
    <2> HIDE DEF f
    <2>4. /\ Total(f, X) = f[x] + f[y] + Total(f, X \ {x, y})
          /\ Total(f, X \ {x, y}) \in Nat
      BY <1>4, TotalOfTwo
    <2> QED BY <2>2, <2>3, <2>4, <1>4
  <1>6. E \in 1 .. N /\ E \in 1 .. D /\ E - 1 \in 0 .. D
    BY <1>0, <1>3, <1>5
  <1>7. ASSUME \A u \in X : lens[u] # E PROVE FALSE
    <2>1. /\ lens \in [X -> 0 .. E - 1]
          /\ Total(f, X) = 2 * Total([z \in X |-> P[E - 1 - lens[z]]], X)
          /\ Total([z \in X |-> P[E - 1 - lens[z]]], X) \in Nat
          /\ P[E] = 2 * P[E - 1] /\ P[E - 1] \in Nat
      BY <1>3, <1>6, <1>7, KraftHalves
    <2>2. Total([z \in X |-> P[E - 1 - lens[z]]], X) = P[E - 1]
      BY <2>1, <1>4
    <2>3. E - 1 \in T
      BY <2>1, <2>2, <1>6 DEF Kraft
    <2>4. E <= E - 1
      <3> HIDE DEF T
      <3> QED BY <1>2, <2>3
    <2> QED BY <2>4, <1>3
  <1> QED BY <1>3, <1>6, <1>7

\* Nothing of the largest length is alone: the rest adds up to an even number.
LEMMA SiblingExists ==
  ASSUME NEW P, NEW N, Doubling(P, N), NEW D \in 1 .. N, NEW X, IsFiniteSet(X),
         NEW lens, Kraft(P, lens, X, D), NEW u \in X, lens[u] = D
  PROVE  \E v \in X : v # u /\ lens[v] = D
  <1> SUFFICES ASSUME \A v \in X : v # u => lens[v] # D PROVE FALSE
    OBVIOUS
  <1> DEFINE f == [z \in X |-> P[D - lens[z]]]
             R == X \ {u}
             rest == [z \in R |-> lens[z]]
             g == [z \in R |-> P[D - rest[z]]]
  <1>1. lens \in [X -> 0 .. D] /\ N \in Nat /\ D \in 0 .. N /\ D \in Nat
    BY DEF Kraft, Doubling
  <1>2. Total(f, X) = P[D] /\ \A z \in X : f[z] \in Nat /\ f[z] = P[D - lens[z]]
    BY <1>1, KraftSummands DEF Kraft
  <1>3. f[u] = 1
    <2>1. D - lens[u] = 0
      BY <1>1
    <2> QED BY <1>2, <2>1 DEF Doubling
  <1>4. Total(f, X) = 1 + Total(f, R) /\ Total(f, R) \in Nat
    <2> HIDE DEF f
    <2> QED BY <1>2, <1>3, TotalFacts
  <1>5. IsFiniteSet(R) /\ \A z \in R : f[z] = g[z] /\ f[z] \in Nat
    BY <1>2, FS_Subset
  <1>6. Total(f, R) = Total(g, R)
    <2> HIDE DEF f, g, R
    <2> QED BY <1>5, TotalAgrees
  <1>7. rest \in [R -> 0 .. D] /\ \A z \in R : rest[z] # D
    BY <1>1
  <1>8. /\ Total(g, R) = 2 * Total([z \in R |-> P[D - 1 - rest[z]]], R)
        /\ Total([z \in R |-> P[D - 1 - rest[z]]], R) \in Nat
        /\ P[D] = 2 * P[D - 1] /\ P[D - 1] \in Nat
    <2> HIDE DEF rest, R
    <2> QED BY <1>5, <1>7, KraftHalves
  <1> DEFINE k == Total([z \in R |-> P[D - 1 - rest[z]]], R)
             l == P[D - 1]
  <1>9. 2 * l = 1 + 2 * k /\ k \in Nat /\ l \in Nat
    BY <1>2, <1>4, <1>6, <1>8
  <1> HIDE DEF k, l
  <1> QED BY <1>9

\* Exchanging two lengths keeps the equality, and costs nothing if the longer goes
\* to the lighter.
LEMMA Exchanged ==
  ASSUME NEW P, NEW N, Doubling(P, N), NEW D \in 0 .. N, NEW X, IsFiniteSet(X),
         NEW w, \A z \in X : w[z] \in Nat,
         NEW lens, Kraft(P, lens, X, D), NEW x \in X, NEW y \in X, x # y,
         lens[x] <= lens[y], w[x] <= w[y]
  PROVE  LET l == [lens EXCEPT ![x] = lens[y], ![y] = lens[x]]
         IN  Kraft(P, l, X, D) /\ Bits(w, X, l) <= Bits(w, X, lens)
  <1> DEFINE l == [lens EXCEPT ![x] = lens[y], ![y] = lens[x]]
             R == X \ {x, y}
             f == [z \in X |-> P[D - lens[z]]]
             g == [z \in X |-> P[D - l[z]]]
             a == [z \in X |-> w[z] * lens[z]]
             b == [z \in X |-> w[z] * l[z]]
  <1>1. lens \in [X -> 0 .. D] /\ D \in Nat
    BY DEF Kraft, Doubling
  <1>2. /\ l \in [X -> 0 .. D] /\ l[x] = lens[y] /\ l[y] = lens[x]
        /\ \A z \in R : l[z] = lens[z]
    BY <1>1
  <1> HIDE DEF l
  <1>3. \A z \in X : /\ f[z] \in Nat /\ f[z] = P[D - lens[z]]
                     /\ g[z] \in Nat /\ g[z] = P[D - l[z]]
    BY <1>1, <1>2, KraftSummands
  <1>4. \A z \in X : lens[z] \in Nat /\ l[z] \in Nat
    BY <1>1, <1>2
  <1>5. \A z \in X : /\ a[z] \in Nat /\ a[z] = w[z] * lens[z]
                     /\ b[z] \in Nat /\ b[z] = w[z] * l[z]
    BY <1>4, BitSummands
  <1>6. IsFiniteSet(R) /\ R \subseteq X
    BY FS_Subset
  <1> HIDE DEF f, g, a, b, R
  <1>7. Total(g, X) = Total(f, X)
    <2>1. /\ Total(f, X) = f[x] + f[y] + Total(f, R) /\ Total(f, R) \in Nat
          /\ Total(g, X) = g[x] + g[y] + Total(g, R)
      <3>1. \A z \in X : f[z] \in Nat
        BY <1>3
      <3>2. \A z \in X : g[z] \in Nat
        BY <1>3
      <3>3. /\ Total(f, X \ {x, y}) \in Nat
            /\ Total(f, X) = f[x] + f[y] + Total(f, X \ {x, y})
        BY <3>1, TotalOfTwo
      <3>4. Total(g, X) = g[x] + g[y] + Total(g, X \ {x, y})
        BY <3>2, TotalOfTwo
      <3> QED BY <3>3, <3>4 DEF R
    <2>2. Total(g, R) = Total(f, R)
      <3>1. \A z \in R : g[z] = f[z] /\ g[z] \in Nat
        BY <1>2, <1>3, <1>6
      <3> QED BY <3>1, <1>6, TotalAgrees
    <2>3. g[x] = f[y] /\ g[y] = f[x] /\ f[x] \in Nat /\ f[y] \in Nat
      BY <1>2, <1>3
    <2> QED BY <2>1, <2>2, <2>3
  <1>8. Total(b, X) <= Total(a, X)
    <2>1. /\ Total(a, X) = a[x] + a[y] + Total(a, R) /\ Total(a, R) \in Nat
          /\ Total(b, X) = b[x] + b[y] + Total(b, R)
      <3>1. \A z \in X : a[z] \in Nat
        BY <1>5
      <3>2. \A z \in X : b[z] \in Nat
        BY <1>5
      <3>3. /\ Total(a, X \ {x, y}) \in Nat
            /\ Total(a, X) = a[x] + a[y] + Total(a, X \ {x, y})
        BY <3>1, TotalOfTwo
      <3>4. Total(b, X) = b[x] + b[y] + Total(b, X \ {x, y})
        BY <3>2, TotalOfTwo
      <3> QED BY <3>3, <3>4 DEF R
    <2>2. Total(b, R) = Total(a, R)
      <3>1. \A z \in R : b[z] = a[z] /\ b[z] \in Nat
        BY <1>2, <1>5, <1>6
      <3> QED BY <3>1, <1>6, TotalAgrees
    <2>3. b[x] + b[y] <= a[x] + a[y]
      <3>1. /\ b[x] = w[x] * lens[y] /\ b[y] = w[y] * lens[x]
            /\ a[x] = w[x] * lens[x] /\ a[y] = w[y] * lens[y]
        BY <1>2, <1>5
      <3>2. PICK p \in Nat, q \in Nat : w[y] = w[x] + p /\ lens[y] = lens[x] + q
        <4>1. w[y] - w[x] \in Nat /\ lens[y] - lens[x] \in Nat
          BY <1>4
        <4>2. w[y] = w[x] + (w[y] - w[x]) /\ lens[y] = lens[x] + (lens[y] - lens[x])
          BY <1>4
        <4> QED BY <4>1, <4>2
      <3>3. \A m, n, c, d \in Nat :
              m * (n + d) + (m + c) * n <= m * n + (m + c) * (n + d)
        <4> SUFFICES ASSUME NEW m \in Nat, NEW n \in Nat, NEW c \in Nat, NEW d \in Nat
                     PROVE  m * (n + d) + (m + c) * n <= m * n + (m + c) * (n + d)
          OBVIOUS
        <4>1. /\ m * (n + d) = m * n + m * d /\ (m + c) * n = m * n + c * n
              /\ (m + c) * (n + d) = m * n + m * d + c * n + c * d
          OBVIOUS
        <4>2. m * n \in Nat /\ m * d \in Nat /\ c * n \in Nat /\ c * d \in Nat
          OBVIOUS
        <4> DEFINE mn == m * n
                   md == m * d
                   cn == c * n
                   cd == c * d
        <4> HIDE DEF mn, md, cn, cd
        <4>3. mn + md + (mn + cn) <= mn + (mn + md + cn + cd)
          BY <4>2 DEF mn, md, cn, cd
        <4> QED BY <4>1, <4>3 DEF mn, md, cn, cd
      <3>4. PICK m \in Nat, n \in Nat : m = w[x] /\ n = lens[x]
        BY <1>4
      <3>5. /\ b[x] = m * (n + q) /\ b[y] = (m + p) * n
            /\ a[x] = m * n /\ a[y] = (m + p) * (n + q)
        BY <3>1, <3>2, <3>4
      <3>6. m * (n + q) + (m + p) * n <= m * n + (m + p) * (n + q)
        BY <3>3
      <3> QED BY <3>5, <3>6
    <2>4. a[x] \in Nat /\ a[y] \in Nat /\ b[x] \in Nat /\ b[y] \in Nat
      BY <1>5
    <2> QED BY <2>1, <2>2, <2>3, <2>4
  <1>9. Kraft(P, l, X, D)
    BY <1>2, <1>7 DEF Kraft, f, g
  <1>10. Bits(w, X, l) <= Bits(w, X, lens)
    BY <1>8 DEF Bits, a, b
  <1> QED BY <1>9, <1>10 DEF l

\* The two lightest may be given the largest length.
LEMMA LightestDeepest ==
  ASSUME NEW P, NEW N, Doubling(P, N), NEW D \in 0 .. N, NEW X, IsFiniteSet(X),
         NEW w, \A z \in X : w[z] \in Nat,
         NEW lens, Kraft(P, lens, X, D), NEW a \in X, NEW b \in X, a # b,
         \A z \in X \ {a, b} : w[a] <= w[z] /\ w[b] <= w[z]
  PROVE  \E E \in 1 .. D : \E l :
           /\ Kraft(P, l, X, E) /\ l[a] = E /\ l[b] = E
           /\ Bits(w, X, l) <= Bits(w, X, lens)
  <1>1. PICK E \in 1 .. D : Kraft(P, lens, X, E) /\ \E u \in X : lens[u] = E
    BY LongestExists
  <1>2. E \in 1 .. N /\ E \in 0 .. N /\ N \in Nat /\ E \in Nat
    BY DEF Doubling
  <1>3. ASSUME NEW l, Kraft(P, l, X, E)
        PROVE  /\ \A z \in X : l[z] \in Nat /\ l[z] <= E
               /\ Bits(w, X, l) \in Nat
    <2>1. l \in [X -> 0 .. E]
      BY <1>3 DEF Kraft
    <2>2. \A z \in X : l[z] \in Nat /\ l[z] <= E
      BY <2>1, <1>2
    <2>3. Bits(w, X, l) \in Nat
      <3> DEFINE c == [z \in X |-> w[z] * l[z]]
      <3>1. \A z \in X : c[z] \in Nat
        BY <2>2, BitSummands
      <3> HIDE DEF c
      <3>2. Total(c, X) \in Nat
        BY <3>1, TotalFacts
      <3> QED BY <3>2 DEF Bits, c
    <2> QED BY <2>2, <2>3
  <1>4. PICK l : Kraft(P, l, X, E) /\ l[a] = E /\ Bits(w, X, l) <= Bits(w, X, lens)
    <2>1. CASE lens[a] = E
      <3>1. Bits(w, X, lens) <= Bits(w, X, lens)
        BY <1>1, <1>3
      <3> QED BY <1>1, <2>1, <3>1
    <2>2. CASE lens[a] # E
      <3>1. PICK y \in X : lens[y] = E /\ y # b
        <4>1. PICK u \in X : lens[u] = E
          BY <1>1
        <4>2. PICK v \in X : v # u /\ lens[v] = E
          BY <1>1, <1>2, <4>1, SiblingExists
        <4> QED BY <4>1, <4>2
      <3>2. y # a /\ w[a] <= w[y] /\ lens[a] <= lens[y]
        BY <2>2, <3>1, <1>1, <1>3
      <3> DEFINE m == [lens EXCEPT ![a] = lens[y], ![y] = lens[a]]
      <3>3. Kraft(P, m, X, E) /\ Bits(w, X, m) <= Bits(w, X, lens)
        BY <1>1, <1>2, <3>2, Exchanged
      <3>4. m[a] = E
        BY <1>1, <3>1, <3>2 DEF Kraft
      <3> QED BY <3>3, <3>4
    <2> QED BY <2>1, <2>2
  <1>5. CASE l[b] = E
    BY <1>4, <1>5
  <1>6. CASE l[b] # E
    <2>1. PICK z \in X : z # a /\ l[z] = E
      BY <1>2, <1>4, SiblingExists
    <2>2. z # b /\ w[b] <= w[z] /\ l[b] <= l[z]
      BY <1>6, <2>1, <1>4, <1>3
    <2> DEFINE m == [l EXCEPT ![b] = l[z], ![z] = l[b]]
    <2>3. Kraft(P, m, X, E) /\ Bits(w, X, m) <= Bits(w, X, l)
      BY <1>2, <1>4, <2>2, Exchanged
    <2>4. m[b] = E /\ m[a] = E
      BY <1>4, <2>1, <2>2 DEF Kraft
    <2>5. Bits(w, X, m) <= Bits(w, X, lens)
      <3>1. Bits(w, X, m) \in Nat /\ Bits(w, X, l) \in Nat /\ Bits(w, X, lens) \in Nat
        <4> HIDE DEF m
        <4> QED BY <1>1, <1>3, <1>4, <2>3
      <3> QED BY <3>1, <2>3, <1>4
    <2> QED BY <2>3, <2>4, <2>5
  <1> QED BY <1>5, <1>6

\* Two nodes become one, which weighs as much as both.
Joins(w, v, X, Y, a, b, n) ==
  /\ IsFiniteSet(X) /\ a \in X /\ b \in X /\ a # b /\ n \notin X
  /\ Y = (X \ {a, b}) \cup {n}
  /\ \A z \in X : w[z] \in Nat /\ v[z] = w[z]
  /\ v[n] = w[a] + w[b]

\* What is summed up is the same for the other nodes.
Alike(f, g, X, a, b, n) ==
  /\ \A z \in X : f[z] \in Nat
  /\ \A z \in X \ {a, b} : g[z] = f[z]
  /\ g[n] \in Nat

\* What that does to a sum over the nodes.
SumsJoin(f, g, X, Y, a, b, n) ==
  LET R == X \ {a, b}
  IN  /\ IsFiniteSet(Y) /\ Total(f, R) \in Nat
      /\ Total(f, X) = f[a] + f[b] + Total(f, R)
      /\ Total(g, Y) = g[n] + Total(f, R)

\* Sums over the nodes before and after two of them are joined.
LEMMA JoinedSums ==
  ASSUME NEW w, NEW v, NEW X, NEW Y, NEW a, NEW b, NEW n, Joins(w, v, X, Y, a, b, n),
         NEW f, NEW g, Alike(f, g, X, a, b, n)
  PROVE  SumsJoin(f, g, X, Y, a, b, n)
  <1> DEFINE R == X \ {a, b}
  <1>0. /\ IsFiniteSet(X) /\ a \in X /\ b \in X /\ a # b
        /\ \A z \in X : f[z] \in Nat
    BY DEF Joins, Alike
  <1>1. IsFiniteSet(R) /\ IsFiniteSet(Y) /\ n \in Y /\ Y \ {n} = R
    <2>1. IsFiniteSet(R)
      BY FS_Subset DEF Joins
    <2> QED BY <2>1, FS_AddElement DEF Joins
  <1>2. \A z \in R : g[z] = f[z] /\ g[z] \in Nat
    BY DEF Alike
  <1>3. Total(g, R) = Total(f, R)
    <2> HIDE DEF R
    <2> QED BY <1>1, <1>2, TotalAgrees
  <1>4. \A z \in Y : g[z] \in Nat
    BY <1>2, <1>1 DEF Alike
  <1>5. Total(g, Y) = g[n] + Total(g, R)
    BY <1>1, <1>4, TotalFacts
  <1>6. Total(f, X) = f[a] + f[b] + Total(f, R) /\ Total(f, R) \in Nat
    BY <1>0, TotalOfTwo
  <1> QED BY <1>1, <1>3, <1>5, <1>6 DEF SumsJoin

\* Two nodes of the largest length become one of the length above.
LEMMA KraftJoins ==
  ASSUME NEW P, NEW N, Doubling(P, N), NEW E \in 1 .. N,
         NEW w, NEW v, NEW X, NEW Y, NEW a, NEW b, NEW n, Joins(w, v, X, Y, a, b, n),
         NEW l, Kraft(P, l, X, E), l[a] = E, l[b] = E
  PROVE  \E m : Kraft(P, m, Y, E) /\ Bits(w, X, l) = Bits(v, Y, m) + v[n]
                /\ Bits(v, Y, m) \in Nat
  <1> DEFINE m == [z \in Y |-> IF z = n THEN E - 1 ELSE l[z]]
             f == [z \in X |-> P[E - l[z]]]
             g == [z \in Y |-> P[E - m[z]]]
             c == [z \in X |-> w[z] * l[z]]
             d == [z \in Y |-> v[z] * m[z]]
             R == X \ {a, b}
  <1>1. /\ IsFiniteSet(X) /\ a \in X /\ b \in X /\ n \notin X /\ Y = R \cup {n} /\ n \in Y
        /\ \A z \in X : w[z] \in Nat /\ v[z] = w[z]
        /\ v[n] = w[a] + w[b]
    BY DEF Joins
  <1>2. /\ l \in [X -> 0 .. E] /\ E \in Nat /\ E - 1 \in Nat /\ E \in 0 .. N /\ N \in Nat
    BY DEF Kraft, Doubling
  <1>3. /\ m \in [Y -> 0 .. E] /\ m[n] = E - 1 /\ \A z \in R : m[z] = l[z] /\ z \in Y /\ z \in X
    <2>1. E - 1 \in 0 .. E
      BY <1>2
    <2> QED BY <2>1, <1>1, <1>2
  <1> HIDE DEF m, R
  <1>4. /\ \A z \in X : f[z] \in Nat /\ f[z] = P[E - l[z]]
        /\ \A z \in Y : g[z] \in Nat /\ g[z] = P[E - m[z]]
    BY <1>2, <1>3, KraftSummands
  <1>5. /\ \A z \in Y : m[z] \in Nat
        /\ \A z \in X : l[z] \in Nat
        /\ \A z \in Y : v[z] \in Nat
    <2>1. \A z \in Y : v[z] \in Nat
      BY <1>1, <1>3
    <2> QED BY <2>1, <1>2, <1>3
  <1>6. /\ \A z \in X : c[z] \in Nat /\ c[z] = w[z] * l[z]
        /\ \A z \in Y : d[z] \in Nat /\ d[z] = v[z] * m[z]
    BY <1>1, <1>5, BitSummands
  <1>7. \A z \in R : g[z] = f[z] /\ d[z] = c[z]
    <2> SUFFICES ASSUME NEW z \in R PROVE g[z] = f[z] /\ d[z] = c[z]
      OBVIOUS
    <2>1. z \in X /\ z \in Y /\ m[z] = l[z] /\ v[z] = w[z]
      BY <1>1, <1>3
    <2> HIDE DEF f, g, c, d
    <2> QED BY <2>1, <1>4, <1>6
  <1> HIDE DEF f, g, c, d
  <1>8. Kraft(P, m, Y, E)
    <2>1. f[a] = 1 /\ f[b] = 1 /\ g[n] = 2
      <3>1. E - l[a] = 0 /\ E - l[b] = 0 /\ E - m[n] = 1
        BY <1>2, <1>3
      <3>2. P[0] = 1 /\ P[1] = 2
        <4>1. 1 \in 1 .. N /\ 1 - 1 = 0
          BY <1>2
        <4>2. P[1] = 2 * P[1 - 1] /\ P[0] = 1
          BY <4>1 DEF Doubling
        <4> QED BY <4>1, <4>2
      <3> QED BY <3>1, <3>2, <1>1, <1>4
    <2>2. /\ Total(f, R) \in Nat /\ Total(f, X) = f[a] + f[b] + Total(f, R)
          /\ Total(g, Y) = g[n] + Total(f, R)
      <3>1. Alike(f, g, X, a, b, n)
        BY <1>1, <1>4, <1>7 DEF R, Alike
      <3>2. SumsJoin(f, g, X, Y, a, b, n)
        BY <3>1, JoinedSums
      <3> QED BY <3>2 DEF SumsJoin, R
    <2>3. Total(g, Y) = Total(f, X)
      BY <2>1, <2>2
    <2> QED BY <2>3, <1>3 DEF Kraft, f, g
  <1>9. Total(c, X) = Total(d, Y) + v[n] /\ Total(d, Y) \in Nat
    <2>1. /\ IsFiniteSet(Y) /\ Total(c, R) \in Nat /\ Total(c, X) = c[a] + c[b] + Total(c, R)
          /\ Total(d, Y) = d[n] + Total(c, R)
      <3>1. Alike(c, d, X, a, b, n)
        BY <1>1, <1>6, <1>7 DEF R, Alike
      <3>2. SumsJoin(c, d, X, Y, a, b, n)
        BY <3>1, JoinedSums
      <3> QED BY <3>2 DEF SumsJoin, R
    <2>2. c[a] + c[b] = d[n] + v[n] /\ d[n] \in Nat /\ v[n] \in Nat
      <3>1. PICK x \in Nat, y \in Nat : x = w[a] /\ y = w[b]
        BY <1>1
      <3>2. PICK e \in Nat : E = e + 1 /\ E - 1 = e
        BY <1>2
      <3>3. x * (e + 1) + y * (e + 1) = (x + y) * e + (x + y)
        <4>1. /\ x * (e + 1) = x * e + x /\ y * (e + 1) = y * e + y
              /\ (x + y) * e = x * e + y * e
          BY <3>1, <3>2
        <4>2. x * e \in Nat /\ y * e \in Nat
          BY <3>1, <3>2
        <4> DEFINE p == x * e
                   q == y * e
        <4> HIDE DEF p, q
        <4>3. p + x + (q + y) = p + q + (x + y)
          BY <4>2 DEF p, q
        <4> QED BY <4>1, <4>3 DEF p, q
      <3>4. c[a] = x * (e + 1) /\ c[b] = y * (e + 1) /\ d[n] = (x + y) * e /\ v[n] = x + y
        BY <3>1, <3>2, <1>1, <1>3, <1>6
      <3>5. d[n] \in Nat /\ v[n] \in Nat
        BY <1>1, <1>5, <1>6
      <3> QED BY <3>3, <3>4, <3>5
    <2>3. c[a] \in Nat /\ c[b] \in Nat
      BY <1>1, <1>6
    <2> QED BY <2>1, <2>2, <2>3
  <1>10. Bits(w, X, l) = Bits(v, Y, m) + v[n] /\ Bits(v, Y, m) \in Nat
    BY <1>9 DEF Bits, c, d
  <1> QED BY <1>8, <1>10

\* The codes of the leaves L take as many bits as any lengths on the nodes X, and M.
Bound(w, L, X, M) ==
  \A N : \A P : Doubling(P, N) =>
    \A lens : Kraft(P, lens, L, N) =>
      \E D \in 0 .. N : \E l : /\ Kraft(P, l, X, D)
                               /\ Bits(w, X, l) \in Nat /\ Bits(w, L, lens) \in Nat
                               /\ Bits(w, X, l) + M <= Bits(w, L, lens)

\* The weights of leaves do not change.
LEMMA BitsAgree ==
  ASSUME NEW w, NEW v, NEW X, IsFiniteSet(X), \A z \in X : w[z] \in Nat /\ v[z] = w[z],
         NEW lens, \A z \in X : lens[z] \in Nat
  PROVE  Bits(v, X, lens) = Bits(w, X, lens) /\ Bits(w, X, lens) \in Nat
  <1> DEFINE c == [z \in X |-> w[z] * lens[z]]
             d == [z \in X |-> v[z] * lens[z]]
  <1>1. \A z \in X : d[z] = c[z] /\ d[z] \in Nat /\ c[z] \in Nat
    BY BitSummands
  <1> HIDE DEF c, d
  <1>2. Total(d, X) = Total(c, X) /\ Total(c, X) \in Nat
    BY <1>1, TotalAgrees, TotalFacts
  <1> QED BY <1>2 DEF Bits, c, d

\* Merging the two lightest nodes keeps the bound.
LEMMA BoundJoins ==
  ASSUME NEW w, NEW v, NEW X, NEW Y, NEW a, NEW b, NEW n, Joins(w, v, X, Y, a, b, n),
         \A z \in X \ {a, b} : w[a] <= w[z] /\ w[b] <= w[z],
         NEW L, IsFiniteSet(L), \A z \in L : w[z] \in Nat /\ v[z] = w[z],
         NEW M \in Nat, Bound(w, L, X, M)
  PROVE  M + v[n] \in Nat /\ Bound(v, L, Y, M + v[n])
  <1>1. /\ v[n] \in Nat /\ IsFiniteSet(X) /\ a \in X /\ b \in X /\ a # b
        /\ \A z \in X : w[z] \in Nat
    BY DEF Joins
  <1>2. ASSUME NEW N, NEW P, Doubling(P, N), NEW lens, Kraft(P, lens, L, N)
        PROVE  \E D \in 0 .. N : \E l :
                 /\ Kraft(P, l, Y, D)
                 /\ Bits(v, Y, l) \in Nat /\ Bits(v, L, lens) \in Nat
                 /\ Bits(v, Y, l) + (M + v[n]) <= Bits(v, L, lens)
    <2>0. PICK D \in 0 .. N :
            \E k : /\ Kraft(P, k, X, D)
                   /\ Bits(w, X, k) \in Nat /\ Bits(w, L, lens) \in Nat
                   /\ Bits(w, X, k) + M <= Bits(w, L, lens)
      BY <1>2 DEF Bound
    <2>1. PICK k : /\ Kraft(P, k, X, D)
                   /\ Bits(w, X, k) \in Nat /\ Bits(w, L, lens) \in Nat
                   /\ Bits(w, X, k) + M <= Bits(w, L, lens)
      BY <2>0
    <2> DEFINE Deep(E, l) == /\ Kraft(P, l, X, E) /\ l[a] = E /\ l[b] = E
                             /\ Bits(w, X, l) <= Bits(w, X, k)
    <2>7. PICK E \in 1 .. D : \E l : Deep(E, l)
      BY <1>1, <1>2, <2>1, LightestDeepest
    <2>2. PICK l : Deep(E, l)
      BY <2>7
    <2>3. E \in 1 .. N /\ E \in 0 .. N /\ N \in Nat
      BY <1>2 DEF Doubling
    <2>4. PICK m : Kraft(P, m, Y, E) /\ Bits(w, X, l) = Bits(v, Y, m) + v[n]
                   /\ Bits(v, Y, m) \in Nat
      BY <1>2, <2>2, <2>3, KraftJoins
    <2>5. Bits(v, L, lens) = Bits(w, L, lens)
      <3>1. lens \in [L -> 0 .. N]
        BY <1>2 DEF Kraft
      <3>2. \A z \in L : lens[z] \in Nat
        BY <3>1, <2>3
      <3> QED BY <3>2, BitsAgree
    <2>6. Bits(v, Y, m) + (M + v[n]) <= Bits(v, L, lens)
      BY <2>1, <2>2, <2>4, <2>5, <1>1
    <2> QED BY <2>1, <2>3, <2>4, <2>5, <2>6
  <1> QED BY <1>1, <1>2 DEF Bound

\* Distances from the root, wherever it is.
Depths(p, depth) ==
  /\ depth \in [DOMAIN p -> Nat]
  /\ \A n \in Inner(p) : depth[p[n].left] = depth[n] + 1 /\ depth[p[n].right] = depth[n] + 1

\* At their distances the leaves L take as many bits as the nodes X, and M.
Pays(p, w, L, X, M) ==
  \A depth : Depths(p, depth) => Bits(w, L, depth) = Bits(w, X, depth) + M

\* Merging two nodes adds the weight of the new one.
LEMMA PaysJoins ==
  ASSUME NEW w, NEW v, NEW X, NEW Y, NEW a, NEW b, NEW n, Joins(w, v, X, Y, a, b, n),
         NEW L, IsFiniteSet(L), \A z \in L : w[z] \in Nat /\ v[z] = w[z],
         NEW M \in Nat, NEW old, NEW new,
         \A z \in L \cup X : old[z] \in Nat /\ new[z] = old[z],
         new[n] \in Nat, old[a] = new[n] + 1, old[b] = new[n] + 1,
         Bits(w, L, old) = Bits(w, X, old) + M
  PROVE  Bits(v, L, new) = Bits(v, Y, new) + (M + v[n])
  <1> DEFINE c == [z \in X |-> w[z] * old[z]]
             d == [z \in Y |-> v[z] * new[z]]
             R == X \ {a, b}
  <1>1. /\ IsFiniteSet(X) /\ a \in X /\ b \in X /\ n \notin X /\ Y = R \cup {n} /\ n \in Y
        /\ \A z \in X : w[z] \in Nat /\ v[z] = w[z]
        /\ v[n] = w[a] + w[b] /\ v[n] \in Nat
    BY DEF Joins
  <1>2. /\ \A z \in X : c[z] \in Nat /\ c[z] = w[z] * old[z]
        /\ \A z \in Y : d[z] \in Nat /\ d[z] = v[z] * new[z]
    <2>1. \A z \in Y : v[z] \in Nat /\ new[z] \in Nat
      BY <1>1
    <2> QED BY <2>1, <1>1, BitSummands
  <1>3. \A z \in R : d[z] = c[z]
    <2>1. \A z \in R : z \in X /\ z \in Y /\ new[z] = old[z] /\ v[z] = w[z]
      BY <1>1
    <2> HIDE DEF c, d, R
    <2> QED BY <2>1, <1>2
  <1> HIDE DEF c, d
  <1>4. SumsJoin(c, d, X, Y, a, b, n)
    <2>1. Alike(c, d, X, a, b, n)
      BY <1>1, <1>2, <1>3 DEF Alike
    <2> QED BY <2>1, JoinedSums
  <1>5. /\ Total(c, R) \in Nat /\ Total(c, X) = c[a] + c[b] + Total(c, R)
        /\ Total(d, Y) = d[n] + Total(c, R)
    BY <1>4 DEF SumsJoin
  <1>6. c[a] + c[b] = d[n] + v[n] /\ d[n] \in Nat /\ c[a] \in Nat /\ c[b] \in Nat
    <2>1. PICK x \in Nat, y \in Nat, e \in Nat : x = w[a] /\ y = w[b] /\ e = new[n]
      BY <1>1
    <2>2. c[a] = x * (e + 1) /\ c[b] = y * (e + 1) /\ d[n] = (x + y) * e /\ v[n] = x + y
      BY <2>1, <1>1, <1>2
    <2>3. x * (e + 1) + y * (e + 1) = (x + y) * e + (x + y)
      <3>1. /\ x * (e + 1) = x * e + x /\ y * (e + 1) = y * e + y
            /\ (x + y) * e = x * e + y * e
        OBVIOUS
      <3>2. x * e \in Nat /\ y * e \in Nat
        OBVIOUS
      <3> DEFINE p == x * e
                 q == y * e
      <3> HIDE DEF p, q
      <3>3. p + x + (q + y) = p + q + (x + y)
        BY <3>2 DEF p, q
      <3> QED BY <3>1, <3>3 DEF p, q
    <2> QED BY <2>2, <2>3, <1>1, <1>2
  <1>7. Bits(w, X, old) = Bits(v, Y, new) + v[n] /\ Bits(v, Y, new) \in Nat
    <2>1. Total(d, Y) \in Nat /\ Total(c, X) = Total(d, Y) + v[n]
      BY <1>1, <1>5, <1>6
    <2> QED BY <2>1 DEF Bits, c, d
  <1>8. Bits(v, L, new) = Bits(w, L, old)
    <2> DEFINE f == [z \in L |-> w[z] * old[z]]
               g == [z \in L |-> v[z] * new[z]]
    <2>1. \A z \in L : f[z] = g[z] /\ f[z] \in Nat
      <3>1. \A z \in L : old[z] \in Nat /\ w[z] \in Nat /\ v[z] = w[z] /\ new[z] = old[z]
        OBVIOUS
      <3>2. \A z \in L : f[z] = w[z] * old[z] /\ f[z] \in Nat
        BY <3>1, BitSummands
      <3> QED BY <3>1, <3>2
    <2> HIDE DEF f, g
    <2>2. Total(f, L) = Total(g, L)
      BY <2>1, TotalAgrees
    <2> QED BY <2>2 DEF Bits, f, g
  <1> QED BY <1>1, <1>7, <1>8

----------------------------------------------------------------------------
(* The order of the queue.                                                 *)

\* No node is lighter than the one above it.
Ordered(q, f) == \A i \in 2 .. Len(q) : f[q[i \div 2]] <= f[q[i]]

\* The first node of such a queue is one of the lightest.
LEMMA HeadIsLightest ==
  ASSUME NEW S, NEW q \in Seq(S), NEW f, \A e \in S : f[e] \in Nat, Ordered(q, f)
  PROVE  \A i \in 1 .. Len(q) : f[q[1]] <= f[q[i]]
  <1> DEFINE D == 1 .. Len(q)
             r == [i \in D |-> i]
             T == {i \in D : f[q[1]] <= f[q[i]]}
  <1>1. Len(q) \in Nat /\ \A i \in D : f[q[i]] \in Nat
    OBVIOUS
  <1>2. ASSUME NEW i \in D, \A j \in D : r[j] < r[i] => j \in T PROVE i \in T
    <2>1. CASE i = 1
      BY <2>1, <1>1
    <2>2. CASE i # 1
      <3>1. i \in 2 .. Len(q) /\ i \div 2 \in D /\ i \div 2 < i /\ 1 \in D
        BY <2>2, <1>1
      <3>2. i \div 2 \in T
        <4>1. r[i \div 2] < r[i]
          BY <3>1
        <4> HIDE DEF r, T, D
        <4> QED BY <1>2, <3>1, <4>1
      <3>3. f[q[i \div 2]] <= f[q[i]]
        BY <3>1 DEF Ordered
      <3>4. f[q[1]] <= f[q[i \div 2]]
        BY <3>2
      <3> HIDE DEF D
      <3>5. f[q[1]] \in Nat /\ f[q[i]] \in Nat /\ f[q[i \div 2]] \in Nat
        BY <1>1, <3>1
      <3>6. f[q[1]] <= f[q[i]]
        BY <3>3, <3>4, <3>5
      <3> QED BY <3>6
    <2> QED BY <2>1, <2>2
  <1>3. \A i \in D : r[i] \in Nat
    OBVIOUS
  <1> HIDE DEF T, D, r
  <1>4. \A i \in D : i \in T
    BY <1>2, <1>3, RankInduction
  <1> QED BY <1>4 DEF T, D

\* An insertion leaves the queue in order.
LEMMA InsertOrders ==
  ASSUME NEW S, NEW q \in Seq(S), NEW f, NEW n \in S, \A e \in S : f[e] \in Nat,
         Ordered(q, f)
  PROVE  Ordered(qinsert(q, f, n), f)
  <1> DEFINE L == Len(q)
             D == 1 .. L + 1
             V == [D -> S]
             r == [i \in D |-> i - 1]
             Lighter(v, i) == \A j \in 1 .. L : j <= i => f[v[j]] <= f[q[j]]
             InOrder(v, i) == \A j \in 2 .. i : f[v[j \div 2]] <= f[v[j]]
  <1>1. /\ L \in Nat /\ q \in [1 .. L -> S]
        /\ \A i \in 1 .. L : f[q[i]] \in Nat
    OBVIOUS
  <1>2. /\ Append(q, n) \in V /\ Append(q, n)[L + 1] = n
        /\ \A i \in 1 .. L : Append(q, n)[i] = q[i]
    <2>1. Append(q, n) \in Seq(S) /\ Len(Append(q, n)) = L + 1
      OBVIOUS
    <2>2. Append(q, n) \in [1 .. Len(Append(q, n)) -> S]
      BY <2>1, LenProperties
    <2>3. Append(q, n)[L + 1] = n /\ \A i \in 1 .. L : Append(q, n)[i] = q[i]
      OBVIOUS
    <2> QED BY <2>1, <2>2, <2>3
  <1>3. PICK hole : qinsert(q, f, n) = hole[L + 1] /\ Holes(hole, q, f, n)
    BY InsertUnfolds
  <1>4. \A i \in 2 .. L : f[q[i \div 2]] <= f[q[i]]
    BY DEF Ordered
  <1> HIDE DEF L
  <1>5. \A i \in D : i # 1 => i \div 2 \in 1 .. L /\ i \div 2 \in D /\ i \div 2 < i
    BY <1>1
  <1>6. \A i \in D : hole[i] = IF i = 1 \/ f[q[i \div 2]] <= f[n]
                               THEN [Append(q, n) EXCEPT ![i] = n]
                               ELSE [hole[i \div 2] EXCEPT ![i] = q[i \div 2]]
    BY <1>3 DEF Holes, L
  <1> DEFINE T == {i \in D : (i = L + 1 \/ f[n] < f[q[i]]) =>
                     /\ hole[i] \in V
                     /\ \A j \in 1 .. L : j > i => hole[i][j] = q[j]
                     /\ Lighter(hole[i], i) /\ InOrder(hole[i], i)}
  <1>7. ASSUME NEW i \in D, \A j \in D : r[j] < r[i] => j \in T PROVE i \in T
    <2> SUFFICES ASSUME i = L + 1 \/ f[n] < f[q[i]]
                 PROVE  /\ hole[i] \in V
                        /\ \A j \in 1 .. L : j > i => hole[i][j] = q[j]
                        /\ Lighter(hole[i], i) /\ InOrder(hole[i], i)
      OBVIOUS
    <2> DEFINE u == i \div 2
               v == hole[i]
    <2>0. /\ i \in Nat /\ i >= 1
          /\ \A j \in 1 .. L : j <= i => j = i \/ (j < i /\ j # i)
          /\ i \in 1 .. L \/ i = L + 1
          /\ f[n] \in Nat
      BY <1>1
    <2>1. CASE i = 1 \/ f[q[u]] <= f[n]
      <3>1. v = [Append(q, n) EXCEPT ![i] = n]
        BY <1>6, <2>1
      <3>2. /\ v \in V /\ v[i] = n
            /\ \A j \in 1 .. L : j # i => v[j] = q[j]
        <4>1. \A j \in 1 .. L : j \in DOMAIN Append(q, n)
          BY <1>1, <1>2
        <4>2. \A j \in 1 .. L : j # i => v[j] = Append(q, n)[j]
          BY <3>1, <4>1
        <4> HIDE DEF v
        <4> QED BY <1>2, <3>1, <4>2
      <3> HIDE DEF v, V
      <3>3. \A j \in 1 .. L : j > i => v[j] = q[j]
        BY <3>2, <2>0
      <3>4. ASSUME NEW j \in 1 .. L, j <= i PROVE f[v[j]] <= f[q[j]]
        <4>1. CASE j = i
          <5>1. i # L + 1
            BY <4>1, <1>1
          <5> QED BY <4>1, <5>1, <3>2, <2>0, <1>1
        <4>2. CASE j # i
          BY <4>2, <3>2, <1>1
        <4> QED BY <4>1, <4>2
      <3>5. ASSUME NEW j \in 2 .. i PROVE f[v[j \div 2]] <= f[v[j]]
        <4>1. CASE j = i
          <5>1. i # 1 /\ u \in 1 .. L /\ u # i /\ j \div 2 = u
            BY <4>1, <1>5, <2>0
          <5> HIDE DEF u
          <5> QED BY <4>1, <5>1, <3>2, <2>1
        <4>2. CASE j # i
          <5>1. j \in 2 .. L /\ j \in 1 .. L
            BY <4>2, <1>1
          <5>2. j \div 2 \in 1 .. L /\ j \div 2 # i
            BY <5>1, <1>1, <4>2, <2>0
          <5> QED BY <5>1, <5>2, <4>2, <3>2, <1>4
        <4> QED BY <4>1, <4>2
      <3> QED BY <3>2, <3>3, <3>4, <3>5 DEF v
    <2>2. CASE ~(i = 1 \/ f[q[u]] <= f[n])
      <3>1. v = [hole[u] EXCEPT ![i] = q[u]] /\ u \in 1 .. L /\ u \in D /\ u < i
        BY <1>5, <1>6, <2>2
      <3>2. f[q[u]] \in Nat /\ f[n] < f[q[u]]
        BY <3>1, <2>0, <2>2, <1>1
      <3> DEFINE x == hole[u]
      <3>3. /\ x \in V
            /\ \A j \in 1 .. L : j > u => x[j] = q[j]
            /\ Lighter(x, u) /\ InOrder(x, u)
        <4>1. r[u] < r[i]
          BY <3>1
        <4>2. u \in T
          <5> HIDE DEF T, r, D, u
          <5> QED BY <1>7, <3>1, <4>1
        <4> QED BY <3>2, <4>2
      <3>4. u \in Nat /\ u >= 1 /\ i # 1 /\ u = i \div 2
        BY <3>1, <2>2
      <3> HIDE DEF u, v, x
      <3>5. /\ v \in V /\ v[i] = q[u] /\ \A j \in D : j # i => v[j] = x[j]
        <4>1. v = [x EXCEPT ![i] = q[u]]
          BY <3>1 DEF x
        <4>2. q[u] \in S
          BY <3>1, <1>1
        <4> QED BY <4>1, <4>2, <3>3
      <3>6. \A j \in 1 .. L : j \in D
        BY <1>1
      <3>7. ASSUME NEW j \in 1 .. L, j > i PROVE v[j] = q[j]
        <4>1. j > u /\ j # i
          BY <3>7, <3>1, <3>4, <2>0
        <4> QED BY <4>1, <3>3, <3>5, <3>6
      <3>8. ASSUME NEW j \in 1 .. L, j # i PROVE f[v[j]] <= f[q[j]]
        <4>1. v[j] = x[j]
          BY <3>5, <3>6, <3>8
        <4>2. CASE j <= u
          BY <4>1, <4>2, <3>3
        <4>3. CASE j > u
          <5>1. f[q[j]] \in Nat /\ x[j] = q[j]
            BY <4>3, <3>3, <1>1
          <5> QED BY <4>1, <5>1
        <4> QED BY <4>2, <4>3, <3>4
      <3>9. ASSUME NEW j \in 1 .. L, j <= i PROVE f[v[j]] <= f[q[j]]
        <4>1. CASE j = i
          <5>1. j \in 2 .. L /\ j \div 2 = u
            BY <4>1, <3>4, <1>1
          <5>2. f[q[u]] <= f[q[j]]
            BY <5>1, <1>4
          <5> QED BY <4>1, <5>2, <3>5
        <4> QED BY <4>1, <3>8
      <3>10. ASSUME NEW j \in 2 .. i PROVE f[v[j \div 2]] <= f[v[j]]
        <4>1. CASE j = i
          <5>1. j \div 2 = u /\ u \in 1 .. L /\ u # i
            BY <4>1, <3>1, <3>4
          <5> QED BY <4>1, <5>1, <3>5, <3>8
        <4>2. CASE j # i /\ j <= u
          <5>1. j \in 2 .. u /\ j \in D /\ j \div 2 \in D /\ j \div 2 # i
            BY <4>2, <3>1, <3>4, <1>1
          <5> QED BY <5>1, <4>2, <3>3, <3>5
        <4>3. CASE j # i /\ j > u
          <5>1. /\ j \in 2 .. L /\ j \in 1 .. L /\ j \in D
                /\ j \div 2 \in 1 .. L /\ j \div 2 # i
            BY <4>3, <3>4, <2>0, <1>1
          <5>2. v[j] = q[j]
            BY <5>1, <4>3, <3>3, <3>5
          <5>3. f[v[j \div 2]] <= f[q[j \div 2]] /\ f[q[j \div 2]] <= f[q[j]]
            BY <5>1, <3>8, <1>4
          <5>4. f[v[j \div 2]] \in Nat /\ f[q[j \div 2]] \in Nat /\ f[q[j]] \in Nat
            <6>1. v[j \div 2] \in S
              BY <5>1, <3>5, <3>6
            <6> QED BY <6>1, <5>1, <1>1
          <5> QED BY <5>2, <5>3, <5>4
        <4> QED BY <4>1, <4>2, <4>3, <3>4
      <3> QED BY <3>5, <3>7, <3>9, <3>10 DEF v
    <2> QED BY <2>1, <2>2
  <1>8. L + 1 \in T
    <2>1. (\A i \in D : r[i] \in Nat) /\ L + 1 \in D
      BY <1>1
    <2> HIDE DEF T, D, r, V, Lighter, InOrder
    <2>2. \A i \in D : (\A j \in D : r[j] < r[i] => j \in T) => i \in T
      BY <1>7
    <2>3. \A i \in D : i \in T
      BY ONLY <2>1, <2>2, RankInduction
    <2> QED BY <2>1, <2>3
  <1>9. Len(qinsert(q, f, n)) = L + 1
    BY InsertLengthens DEF L
  <1>10. InOrder(hole[L + 1], L + 1)
    BY <1>8
  <1> QED BY <1>3, <1>9, <1>10 DEF Ordered

\* A removal leaves the queue in order.
LEMMA RemoveOrders ==
  ASSUME NEW S, NEW q \in Seq(S), NEW f, \A e \in S : f[e] \in Nat, Len(q) > 1,
         Ordered(q, f)
  PROVE  Ordered(qremove(q, f), f)
  <1> DEFINE R == Len(q) - 1
             D == 1 .. R
             V == [D -> S]
             last == q[R + 1]
             r == [i \in D |-> R - i]
  <1>1. /\ R \in Nat \ {0} /\ Len(q) = R + 1 /\ q \in [1 .. R + 1 -> S] /\ last \in S
        /\ \A i \in 2 .. R + 1 : f[q[i \div 2]] <= f[q[i]]
    <2>1. Len(q) \in Nat /\ q \in [1 .. Len(q) -> S]
      BY LenProperties
    <2>2. R + 1 = Len(q) /\ R \in Nat \ {0} /\ Len(q) \in 1 .. Len(q)
      BY <2>1
    <2> QED BY <2>1, <2>2 DEF Ordered
  <1>2. PICK sink, lighter : \E rest \in [1 .. Len(q) - 1 -> S] :
          qremove(q, f) = sink[1] /\ Sinks(sink, rest, lighter, q, f)
    BY RemoveUnfolds
  <1>3. PICK rest \in V : qremove(q, f) = sink[1] /\ Sinks(sink, rest, lighter, q, f)
    BY <1>2
  <1> DEFINE Ends(i) == 2 * i > R \/ f[last] <= f[rest[lighter[i]]]
             Heavier(v) == \A j \in 2 .. R : f[rest[j]] <= f[v[j]]
             InOrder(v, i) == \A j \in 2 .. R : j \div 2 >= i => f[v[j \div 2]] <= f[v[j]]
  <1>4. /\ rest[1] = last /\ \A i \in 2 .. R : rest[i] = q[i]
        /\ \A i \in D : lighter[i] = IF 2 * i + 1 <= R /\ f[rest[2 * i + 1]] < f[rest[2 * i]]
                                     THEN 2 * i + 1 ELSE 2 * i
        /\ \A i \in D : sink[i] = IF Ends(i) THEN [rest EXCEPT ![i] = last]
                                  ELSE [sink[lighter[i]] EXCEPT ![i] = rest[lighter[i]]]
    BY <1>3 DEF Sinks
  <1> HIDE DEF R, last
  <1>5. /\ \A i \in D : f[rest[i]] \in Nat
        /\ \A j \in 2 .. R : j \in D /\ j \div 2 \in D /\ j \div 2 < j
        /\ f[last] \in Nat
    <2>1. \A i \in D : rest[i] \in S
      OBVIOUS
    <2>2. \A j \in 2 .. R : j \in D /\ j \div 2 \in D /\ j \div 2 < j
      BY <1>1
    <2> QED BY <2>1, <2>2, <1>1
  <1>6. ASSUME NEW j \in 2 .. R, j \div 2 >= 2 PROVE f[rest[j \div 2]] <= f[rest[j]]
    <2>1. j \div 2 \in 2 .. R /\ j \in 2 .. R + 1
      BY <1>1, <1>6
    <2>2. f[q[j \div 2]] <= f[q[j]]
      BY <1>1, <2>1
    <2> QED BY <2>1, <2>2, <1>4
  \* Below a place are two others at most, and the lighter of them is one.
  <1>7. ASSUME NEW i \in D, NEW j \in 2 .. R, j \div 2 = i
        PROVE  /\ 2 * i <= R /\ lighter[i] \in 2 .. R /\ lighter[i] \div 2 = i
               /\ f[rest[lighter[i]]] <= f[rest[j]]
    <2>1. (j = 2 * i \/ j = 2 * i + 1) /\ i \in Nat
      <3>1. \A m, k \in Nat : k \div 2 = m => k = 2 * m \/ k = 2 * m + 1
        OBVIOUS
      <3>2. i \in Nat /\ j \in Nat
        BY <1>1
      <3> HIDE DEF D
      <3> QED BY <3>1, <3>2, <1>7
    <2>2. 2 * i <= R /\ 2 * i \in 2 .. R /\ (2 * i) \div 2 = i
      BY <2>1, <1>1
    <2>3. 2 * i + 1 <= R => 2 * i + 1 \in 2 .. R /\ (2 * i + 1) \div 2 = i
      BY <2>1, <1>1
    <2>4. lighter[i] = IF 2 * i + 1 <= R /\ f[rest[2 * i + 1]] < f[rest[2 * i]]
                       THEN 2 * i + 1 ELSE 2 * i
      BY <1>4
    <2>5. lighter[i] \in 2 .. R /\ lighter[i] \div 2 = i
      BY <2>2, <2>3, <2>4
    <2>6. f[rest[lighter[i]]] <= f[rest[j]]
      <3>1. f[rest[2 * i]] \in Nat
        BY <2>2, <1>5
      <3>2. CASE 2 * i + 1 <= R
        <4>1. f[rest[2 * i + 1]] \in Nat
          BY <3>2, <2>3, <1>5
        <4>2. CASE f[rest[2 * i + 1]] < f[rest[2 * i]]
          <5>1. lighter[i] = 2 * i + 1
            BY <3>2, <4>2, <2>4
          <5>2. CASE j = 2 * i
            BY <5>1, <5>2, <4>1, <4>2, <3>1
          <5>3. CASE j = 2 * i + 1
            BY <5>1, <5>3, <4>1
          <5> QED BY <5>2, <5>3, <2>1
        <4>3. CASE ~(f[rest[2 * i + 1]] < f[rest[2 * i]])
          <5>1. lighter[i] = 2 * i
            BY <4>3, <2>4
          <5>2. CASE j = 2 * i
            BY <5>1, <5>2, <3>1
          <5>3. CASE j = 2 * i + 1
            BY <5>1, <5>3, <4>1, <4>3, <3>1
          <5> QED BY <5>2, <5>3, <2>1
        <4> QED BY <4>2, <4>3
      <3>3. CASE ~(2 * i + 1 <= R)
        <4>1. lighter[i] = 2 * i
          BY <3>3, <2>4
        <4>2. j = 2 * i
          BY <3>3, <2>1, <1>1
        <4> QED BY <4>1, <4>2, <3>1
      <3> QED BY <3>2, <3>3
    <2> QED BY <2>2, <2>5, <2>6
  <1> DEFINE T == {i \in D : (i = 1 \/ f[rest[i]] < f[last]) =>
                     /\ sink[i] \in V
                     /\ \A j \in D : j < i => sink[i][j] = rest[j]
                     /\ Heavier(sink[i]) /\ InOrder(sink[i], i)}
  <1>8. ASSUME NEW i \in D, \A j \in D : r[j] < r[i] => j \in T PROVE i \in T
    <2> SUFFICES ASSUME i = 1 \/ f[rest[i]] < f[last]
                 PROVE  /\ sink[i] \in V
                        /\ \A j \in D : j < i => sink[i][j] = rest[j]
                        /\ Heavier(sink[i]) /\ InOrder(sink[i], i)
      OBVIOUS
    <2> DEFINE v == sink[i]
    <2>0. i \in Nat /\ i >= 1 /\ i <= R
      BY <1>1
    <2>1. CASE Ends(i)
      <3>1. v = [rest EXCEPT ![i] = last]
        BY <1>4, <2>1
      <3>2. v \in V /\ v[i] = last /\ \A j \in D : j # i => v[j] = rest[j]
        BY <1>1, <3>1
      <3> HIDE DEF v, V
      <3>3. ASSUME NEW j \in D, j < i PROVE v[j] = rest[j]
        <4>1. j # i
          BY <3>3, <2>0
        <4> QED BY <4>1, <3>2
      <3>4. ASSUME NEW j \in 2 .. R PROVE f[rest[j]] <= f[v[j]]
        <4>1. CASE j = i
          <5>1. i # 1
            BY <4>1
          <5> QED BY <4>1, <5>1, <3>2, <1>5
        <4>2. CASE j # i
          BY <4>2, <3>2, <1>5
        <4> QED BY <4>1, <4>2
      <3>5. ASSUME NEW j \in 2 .. R, j \div 2 >= i PROVE f[v[j \div 2]] <= f[v[j]]
        <4>0. j \in D /\ j \div 2 \in D /\ j # i
          BY <1>5, <3>5, <2>0
        <4>1. CASE j \div 2 = i
          <5>1. 2 * i <= R /\ f[rest[lighter[i]]] <= f[rest[j]] /\ lighter[i] \in 2 .. R
            BY <4>1, <1>7
          <5>2. f[last] <= f[rest[lighter[i]]]
            BY <2>1, <5>1, <2>0, <1>1
          <5>3. f[rest[lighter[i]]] \in Nat /\ f[rest[j]] \in Nat /\ f[last] \in Nat
            BY <5>1, <4>0, <1>5
          <5>4. f[last] <= f[rest[j]]
            BY <5>1, <5>2, <5>3
          <5> QED BY <5>4, <4>0, <4>1, <3>2
        <4>2. CASE j \div 2 # i
          <5>1. j \div 2 >= 2
            BY <4>0, <4>2, <3>5, <2>0
          <5> QED BY <5>1, <4>0, <4>2, <3>2, <1>6
        <4> QED BY <4>1, <4>2
      <3> QED BY <3>2, <3>3, <3>4, <3>5 DEF v
    <2>2. CASE ~Ends(i)
      <3> DEFINE u == lighter[i]
                 x == sink[u]
      <3>1. /\ v = [x EXCEPT ![i] = rest[u]] /\ 2 * i <= R
            /\ f[rest[u]] < f[last]
            /\ u \in 2 .. R /\ u \div 2 = i /\ u \in D /\ u > i
        <4>1. 2 * i <= R
          BY <2>2, <2>0, <1>1
        <4>2. 2 * i \in 2 .. R /\ (2 * i) \div 2 = i
          BY <4>1, <2>0, <1>1
        <4>3. u \in 2 .. R /\ u \div 2 = i
          BY <4>2, <1>7
        <4>4. f[rest[u]] < f[last]
          <5>1. f[rest[u]] \in Nat
            BY <4>3, <1>5
          <5> HIDE DEF u
          <5> QED BY <5>1, <1>5, <2>2 DEF u
        <4>5. v = [x EXCEPT ![i] = rest[u]]
          BY <1>4, <2>2
        <4>6. u \in D /\ u > i
          BY <4>3, <1>5, <2>0
        <4> QED BY <4>1, <4>3, <4>4, <4>5, <4>6
      <3>2. /\ x \in V /\ \A j \in D : j < u => x[j] = rest[j]
            /\ Heavier(x) /\ InOrder(x, u)
        <4>1. r[u] < r[i]
          BY <3>1, <2>0, <1>1
        <4>2. u \in T
          <5> HIDE DEF T, r, D, u
          <5> QED BY <1>8, <3>1, <4>1
        <4> QED BY <3>1, <4>2
      <3> HIDE DEF u, v, x
      <3>3. v \in V /\ v[i] = rest[u] /\ \A j \in D : j # i => v[j] = x[j]
        BY <3>1, <3>2
      <3>4. ASSUME NEW j \in D, j < i PROVE v[j] = rest[j]
        <4>1. j # i /\ j < u
          BY <3>4, <3>1, <2>0
        <4> QED BY <4>1, <3>2, <3>3
      <3>5. ASSUME NEW j \in 2 .. R PROVE f[rest[j]] <= f[v[j]]
        <4>1. CASE j = i
          <5>1. u \div 2 >= 2
            BY <4>1, <3>1
          <5>2. f[rest[i]] <= f[rest[u]]
            BY <5>1, <3>1, <1>6
          <5> QED BY <4>1, <5>2, <3>3
        <4>2. CASE j # i
          <5>1. v[j] = x[j]
            BY <4>2, <3>3, <1>5
          <5> QED BY <5>1, <3>2
        <4> QED BY <4>1, <4>2
      <3>6. ASSUME NEW j \in 2 .. R, j \div 2 >= i PROVE f[v[j \div 2]] <= f[v[j]]
        <4>0. j \in D /\ j \div 2 \in D /\ j # i /\ j \in Nat /\ j \div 2 \in Nat
          BY <1>5, <3>6, <2>0
        <4>1. v[j] = x[j] /\ f[rest[j]] <= f[x[j]] /\ f[rest[j]] \in Nat /\ f[x[j]] \in Nat
          <5>1. x[j] \in S
            BY <4>0, <3>2
          <5> QED BY <5>1, <4>0, <3>2, <3>3, <1>5
        <4>2. CASE j \div 2 = i
          <5>1. f[rest[u]] <= f[rest[j]] /\ f[rest[u]] \in Nat
            BY <4>2, <3>1, <1>5, <1>7 DEF u
          <5>2. v[j \div 2] = rest[u]
            BY <4>2, <3>3
          <5> QED BY <5>1, <5>2, <4>1
        <4>3. CASE j \div 2 # i /\ j \div 2 < u
          <5>1. j \div 2 >= 2
            BY <4>0, <4>3, <3>6, <2>0
          <5>2. f[rest[j \div 2]] <= f[rest[j]] /\ f[rest[j \div 2]] \in Nat
            BY <5>1, <4>0, <1>5, <1>6
          <5>3. v[j \div 2] = rest[j \div 2]
            BY <4>0, <4>3, <3>2, <3>3
          <5> QED BY <5>2, <5>3, <4>1
        <4>4. CASE j \div 2 # i /\ j \div 2 >= u
          <5>1. f[x[j \div 2]] <= f[x[j]]
            BY <4>4, <3>2
          <5>2. v[j \div 2] = x[j \div 2]
            BY <4>0, <4>4, <3>3
          <5> QED BY <5>1, <5>2, <4>1
        <4> QED BY <4>2, <4>3, <4>4, <4>0, <3>1
      <3> QED BY <3>3, <3>4, <3>5, <3>6 DEF v
    <2> QED BY <2>1, <2>2
  <1>9. 1 \in T
    <2>1. (\A i \in D : r[i] \in Nat) /\ 1 \in D
      BY <1>1
    <2> HIDE DEF T, D, r
    <2>2. \A i \in D : (\A j \in D : r[j] < r[i] => j \in T) => i \in T
      BY <1>8
    <2>3. \A i \in D : i \in T
      BY ONLY <2>1, <2>2, RankInduction
    <2> QED BY <2>1, <2>3
  <1>10. sink[1] \in V /\ InOrder(sink[1], 1)
    BY <1>9
  <1>11. Len(sink[1]) = R
    <2> HIDE DEF V, InOrder
    <2>1. sink[1] \in [1 .. R -> S] /\ R \in Nat
      BY <1>1, <1>10 DEF V
    <2> QED BY <2>1, SeqOfLength
  <1>12. ASSUME NEW j \in 2 .. R PROVE f[sink[1][j \div 2]] <= f[sink[1][j]]
    <2>1. j \div 2 >= 1
      BY <1>1
    <2> QED BY <2>1, <1>10
  <1> QED BY <1>3, <1>11, <1>12 DEF Ordered

----------------------------------------------------------------------------
(* The queue as a set.                                                      *)

\* The nodes in the queue, and that none is there twice.
Queued(q) == {q[i] : i \in 1 .. Len(q)}
Once(q) == Cardinality(Queued(q)) = Len(q)

\* There are no more of them than places.
LEMMA QueuedFacts ==
  ASSUME NEW S, NEW q \in Seq(S)
  PROVE  /\ Len(q) \in Nat /\ IsFiniteSet(Queued(q)) /\ Cardinality(Queued(q)) \in Nat
         /\ Cardinality(Queued(q)) <= Len(q)
         /\ Queued(q) \subseteq S /\ q \in Seq(Queued(q))
  <1> DEFINE D == 1 .. Len(q)
             T == Queued(q)
  <1>1. Len(q) \in Nat /\ q \in [D -> S]
    OBVIOUS
  <1>2. IsFiniteSet(D) /\ Cardinality(D) = Len(q)
    BY <1>1, FS_Interval
  <1>3. T = Image(q, D)
    BY DEF Image, Queued
  <1>4. IsFiniteSet(T) /\ Cardinality(T) <= Len(q)
    BY <1>2, <1>3, ImageIsFinite
  <1>5. Cardinality(T) \in Nat
    BY <1>4, FS_CardinalityType
  <1>6. T \subseteq S /\ q \in [D -> T]
    BY <1>1 DEF Queued
  <1>7. q \in Seq(T)
    <2> HIDE DEF T
    <2> QED BY <1>1, <1>6, SeqOfLength
  <1> QED BY <1>1, <1>4, <1>5, <1>6, <1>7

\* An insertion adds the node.
LEMMA InsertAdds ==
  ASSUME NEW S, NEW q \in Seq(S), NEW f, NEW n \in S, n \notin Queued(q), Once(q)
  PROVE  /\ Queued(qinsert(q, f, n)) = Queued(q) \cup {n}
         /\ Once(qinsert(q, f, n))
  <1> DEFINE T == Queued(q) \cup {n}
             qn == qinsert(q, f, n)
             L == Len(q)
  <1>1. /\ L \in Nat /\ IsFiniteSet(Queued(q)) /\ Cardinality(Queued(q)) = L
        /\ q \in Seq(Queued(q)) /\ q \in [1 .. L -> Queued(q)]
    BY QueuedFacts DEF Once
  <1>2. q \in Seq(T) /\ n \in T
    BY <1>1, SeqOfMore
  <1>3. /\ qn \in [1 .. L + 1 -> T] /\ Among(qn, 1, L + 1, n)
        /\ \A i \in 1 .. L : Among(qn, 1, L + 1, q[i])
    <2> HIDE DEF T
    <2> QED BY <1>2, InsertKeeps
  <1>4. Len(qn) = L + 1
    <2> HIDE DEF T
    <2> QED BY <1>2, InsertLengthens
  <1> HIDE DEF qn
  <1>5. Queued(qn) = T
    BY <1>3, <1>4 DEF Queued, Among
  <1>6. Cardinality(T) = L + 1
    BY <1>1, FS_AddElement
  <1> QED BY <1>4, <1>5, <1>6 DEF Once, qn

\* A removal takes the first node.
LEMMA RemoveTakes ==
  ASSUME NEW S, NEW q \in Seq(S), NEW f, Len(q) >= 1, Once(q)
  PROVE  /\ qremove(q, f) \in Seq(S) /\ Len(qremove(q, f)) = Len(q) - 1
         /\ q[1] \in Queued(q) /\ q[1] = Head(q)
         /\ Queued(qremove(q, f)) = Queued(q) \ {q[1]} /\ Once(qremove(q, f))
  <1> DEFINE T == Queued(q)
             q1 == qremove(q, f)
             L == Len(q)
  <1>1. /\ L \in Nat /\ IsFiniteSet(T) /\ Cardinality(T) = L /\ T \subseteq S
        /\ q \in Seq(T) /\ q \in [1 .. L -> T]
    BY QueuedFacts DEF Once
  <1>2. q[1] \in T /\ q[1] = Head(q)
    BY <1>1
  <1>3. CASE L = 1
    <2>1. q1 = <<>>
      BY <1>3, Zenon DEF qremove
    <2>2. T = {q[1]}
      BY <1>3 DEF Queued
    <2>3. q1 \in Seq(S) /\ Len(q1) = 0 /\ Queued(q1) = {}
      BY <2>1 DEF Queued
    <2>4. Once(q1)
      BY <2>3, FS_EmptySet DEF Once
    <2> QED BY <2>2, <2>3, <2>4, <1>2, <1>3
  <1>4. CASE L # 1
    <2>1. L - 1 \in Nat /\ L > 1
      BY <1>1, <1>4
    <2>2. /\ q1 \in [1 .. L - 1 -> T]
          /\ \A i \in 2 .. L : Among(q1, 1, L - 1, q[i])
      <3> HIDE DEF T
      <3> QED BY <1>1, <2>1, RemoveKeeps
    <2> DEFINE m == L - 1
    <2>3. q1 \in Seq(T) /\ Len(q1) = m
      <3> HIDE DEF T, q1, m
      <3>1. m \in Nat /\ q1 \in [1 .. m -> T]
        BY <2>1, <2>2 DEF m
      <3> QED BY <3>1, SeqOfLength
    <2> HIDE DEF q1
    <2>4. \A e \in T : e # q[1] => e \in Queued(q1)
      <3> SUFFICES ASSUME NEW i \in 1 .. L, q[i] # q[1] PROVE q[i] \in Queued(q1)
        BY DEF Queued
      <3>1. i \in 2 .. L
        BY <1>1
      <3> QED BY <3>1, <2>2, <2>3 DEF Queued, Among
    <2>5. Queued(q1) \subseteq T /\ Cardinality(Queued(q1)) <= m
      BY <2>3, QueuedFacts
    <2>6. q[1] \notin Queued(q1)
      <3>1. q[1] \in Queued(q1) => Queued(q1) = T
        BY <2>4, <2>5
      <3>2. ~(L <= m)
        BY <1>1
      <3> QED BY <3>1, <3>2, <2>5, <1>1
    <2>7. Queued(q1) = T \ {q[1]}
      BY <2>4, <2>5, <2>6
    <2>8. Cardinality(T \ {q[1]}) = m
      BY <1>1, <1>2, FS_RemoveElement
    <2>9. q1 \in Seq(S)
      BY <1>1, <2>3, SeqOfMore
    <2> HIDE DEF T
    <2>10. Once(q1)
      BY <2>3, <2>7, <2>8 DEF Once
    <2> QED BY <1>2, <2>3, <2>7, <2>9, <2>10 DEF q1, T
  <1> QED BY <1>3, <1>4

\* The two nodes removed, a and b, are the lightest.
Takes(q, f, a, b, q2) ==
  /\ a \in Queued(q) /\ b \in Queued(q) /\ a # b
  /\ \A z \in Queued(q) \ {a, b} : f[a] <= f[z] /\ f[b] <= f[z]
  /\ Queued(q2) = Queued(q) \ {a, b} /\ Once(q2) /\ Ordered(q2, f)

\* The two removals of a merge take two of the lightest nodes.
LEMMA TwoLightest ==
  ASSUME NEW S, NEW q \in Seq(S), NEW f, \A e \in S : f[e] \in Nat, Len(q) > 1,
         Ordered(q, f), Once(q)
  PROVE  LET q1 == qremove(q, f)
         IN  Takes(q, f, Head(q), Head(q1), qremove(q1, f))
  <1> DEFINE q1 == qremove(q, f)
             q2 == qremove(q1, f)
             a == q[1]
             b == q1[1]
  <1>1. /\ q1 \in Seq(S) /\ Len(q1) = Len(q) - 1 /\ a \in Queued(q) /\ a = Head(q)
        /\ Queued(q1) = Queued(q) \ {a} /\ Once(q1) /\ Len(q) \in Nat
    BY RemoveTakes
  <1>2. Ordered(q1, f)
    BY RemoveOrders
  <1> HIDE DEF q1
  <1>3. Len(q1) \in Nat /\ Len(q1) >= 1
    BY <1>1
  <1>4. /\ q2 \in Seq(S) /\ Len(q2) = Len(q1) - 1 /\ b \in Queued(q1) /\ b = Head(q1)
        /\ Queued(q2) = Queued(q1) \ {b} /\ Once(q2)
    BY <1>1, <1>3, RemoveTakes
  <1>5. Ordered(q2, f)
    <2>1. CASE Len(q1) > 1
      BY <2>1, <1>1, <1>2, RemoveOrders
    <2>2. CASE ~(Len(q1) > 1)
      <3>1. Len(q2) = 0
        BY <2>2, <1>3, <1>4
      <3> QED BY <3>1 DEF Ordered
    <2> QED BY <2>1, <2>2
  <1> HIDE DEF q2
  <1>6. \A z \in Queued(q) : f[a] <= f[z]
    BY HeadIsLightest DEF Queued
  <1>7. \A z \in Queued(q1) : f[b] <= f[z]
    BY <1>1, <1>2, HeadIsLightest DEF Queued
  <1>8. Takes(q, f, a, b, q2)
    <2>1. b # a /\ b \in Queued(q) /\ Queued(q2) = Queued(q) \ {a, b}
      BY <1>1, <1>4
    <2>2. \A z \in Queued(q) \ {a, b} : f[a] <= f[z] /\ f[b] <= f[z]
      BY <1>1, <1>6, <1>7
    <2> HIDE DEF a, b
    <2> QED BY <1>1, <1>4, <1>5, <2>1, <2>2 DEF Takes
  <1> QED BY <1>1, <1>4, <1>8 DEF q1, q2

\* The order depends on the weights of the nodes in the queue only.
LEMMA OrderAgrees ==
  ASSUME NEW S, NEW q \in Seq(S), NEW f, NEW g, \A e \in S : g[e] = f[e], Ordered(q, f)
  PROVE  Ordered(q, g)
  <1>1. ASSUME NEW i \in 2 .. Len(q) PROVE g[q[i \div 2]] <= g[q[i]]
    <2>1. i \in 1 .. Len(q) /\ i \div 2 \in 1 .. Len(q)
      OBVIOUS
    <2>2. q[i] \in S /\ q[i \div 2] \in S
      BY <2>1
    <2> QED BY <2>2 DEF Ordered
  <1> QED BY <1>1 DEF Ordered

----------------------------------------------------------------------------
(* The invariant of the tree as it grows: it can still become a best one.   *)

\* The leaves made so far and the weights of the nodes.
Leaves(p) == {n \in DOMAIN p : IsLeaf(p[n])}
Weights(p) == [n \in DOMAIN p |-> p[n].freq]

\* Where X is the queue: no prefix code is shorter than one in which X is still to be
\* ordered, and the tree as it is takes M bits more than that.
Best(p, X, M) ==
  /\ M \in Nat
  /\ Bound(Weights(p), Leaves(p), X, M)
  /\ Pays(p, Weights(p), Leaves(p), X, M)

\* What the pool says of these.
LEMMA WeightFacts ==
  ASSUME NEW p \in Seq(Node)
  PROVE  /\ Len(p) \in Nat /\ DOMAIN p = 1 .. Len(p) /\ IsFiniteSet(DOMAIN p)
         /\ Leaves(p) \subseteq DOMAIN p /\ IsFiniteSet(Leaves(p))
         /\ \A n \in DOMAIN p : Weights(p)[n] = p[n].freq /\ Weights(p)[n] \in Nat
  <1>1. Len(p) \in Nat /\ DOMAIN p = 1 .. Len(p) /\ \A n \in DOMAIN p : p[n] \in Node
    OBVIOUS
  <1>2. IsFiniteSet(DOMAIN p)
    BY <1>1, FS_Interval
  <1>3. Leaves(p) \subseteq DOMAIN p
    BY DEF Leaves
  <1>4. \A m \in Node : m.freq \in Nat
    BY DEF Node
  <1> QED BY <1>1, <1>2, <1>3, <1>4, FS_Subset DEF Weights

\* While there are only leaves, the queue is what is to be ordered.
LEMMA BestAtFirst ==
  ASSUME NEW p \in Seq(Node), Leaves(p) = DOMAIN p
  PROVE  Best(p, DOMAIN p, 0)
  <1> DEFINE w == Weights(p)
             X == DOMAIN p
  <1>1. IsFiniteSet(X) /\ \A z \in X : w[z] \in Nat
    BY WeightFacts
  <1> HIDE DEF w, X
  <1>2. ASSUME NEW lens, \A z \in X : lens[z] \in Nat
        PROVE  Bits(w, X, lens) \in Nat
    BY <1>1, <1>2, BitsAgree
  <1>3. Bound(w, X, X, 0)
    <2> SUFFICES ASSUME NEW N, NEW P, Doubling(P, N), NEW lens, Kraft(P, lens, X, N)
                 PROVE  \E D \in 0 .. N : \E l :
                          /\ Kraft(P, l, X, D)
                          /\ Bits(w, X, l) \in Nat /\ Bits(w, X, lens) \in Nat
                          /\ Bits(w, X, l) + 0 <= Bits(w, X, lens)
      BY DEF Bound
    <2>1. N \in Nat /\ N \in 0 .. N
      BY DEF Doubling
    <2>2. \A z \in X : lens[z] \in Nat
      BY <2>1 DEF Kraft
    <2>3. Bits(w, X, lens) \in Nat
      BY <1>2, <2>2
    <2>4. Bits(w, X, lens) + 0 <= Bits(w, X, lens)
      BY <2>3
    <2> QED BY <2>1, <2>3, <2>4
  <1>4. Pays(p, w, X, X, 0)
    <2> SUFFICES ASSUME NEW depth, Depths(p, depth)
                 PROVE  Bits(w, X, depth) = Bits(w, X, depth) + 0
      BY DEF Pays
    <2>1. \A z \in X : depth[z] \in Nat
      BY DEF Depths, X
    <2>2. Bits(w, X, depth) \in Nat
      BY <1>2, <2>1
    <2> QED BY <2>2
  <1> QED BY <1>3, <1>4 DEF Best, w, X

\* The node that is made of a and b.
Parents(p, node, a, b) ==
  /\ node \in Node /\ ~IsLeaf(node) /\ {node.left, node.right} = {a, b}
  /\ node.freq = p[a].freq + p[b].freq

\* Merging the two lightest nodes.
LEMMA BestJoins ==
  ASSUME NEW p \in Seq(Node), \A m \in Inner(p) : p[m].left \in DOMAIN p /\ p[m].right \in DOMAIN p,
         NEW X \in SUBSET DOMAIN p, NEW a \in X, NEW b \in X, a # b,
         \A z \in X \ {a, b} : p[a].freq <= p[z].freq /\ p[b].freq <= p[z].freq,
         NEW node, Parents(p, node, a, b), NEW M, Best(p, X, M)
  PROVE  Best(Append(p, node), (X \ {a, b}) \cup {Len(p) + 1}, M + node.freq)
  <1> DEFINE n == Len(p) + 1
             new == Append(p, node)
             Y == (X \ {a, b}) \cup {n}
             w == Weights(p)
             v == Weights(new)
             L == Leaves(p)
  <1>1. /\ Len(p) \in Nat /\ DOMAIN p = 1 .. Len(p) /\ n \notin DOMAIN p
        /\ IsFiniteSet(DOMAIN p) /\ L \subseteq DOMAIN p /\ IsFiniteSet(L)
        /\ \A z \in DOMAIN p : w[z] = p[z].freq /\ w[z] \in Nat
    <2> HIDE DEF w, L
    <2>1. /\ Len(p) \in Nat /\ DOMAIN p = 1 .. Len(p)
          /\ IsFiniteSet(DOMAIN p) /\ L \subseteq DOMAIN p /\ IsFiniteSet(L)
          /\ \A z \in DOMAIN p : w[z] = p[z].freq /\ w[z] \in Nat
      BY WeightFacts DEF w, L
    <2> QED BY <2>1
  <1>2. node \in Node /\ ~IsLeaf(node) /\ node.freq = p[a].freq + p[b].freq
    BY DEF Parents
  <1>3. /\ new \in Seq(Node) /\ DOMAIN new = DOMAIN p \cup {n} /\ new[n] = node
        /\ \A z \in DOMAIN p : new[z] = p[z]
    <2>1. new \in Seq(Node) /\ Len(new) = n
      BY <1>2
    <2>2. DOMAIN new = 1 .. n /\ 1 .. n = (1 .. Len(p)) \cup {n}
      BY <1>1, <2>1
    <2> QED BY <1>1, <1>2, <2>1, <2>2
  <1>4. /\ \A z \in DOMAIN p : v[z] = w[z]
        /\ v[n] = w[a] + w[b] /\ v[n] = node.freq
    <2> HIDE DEF new, w, n
    <2>1. \A z \in DOMAIN new : v[z] = new[z].freq
      BY <1>3, WeightFacts
    <2> HIDE DEF v
    <2> QED BY <2>1, <1>1, <1>2, <1>3
  <1>5. Leaves(new) = L
    <2> HIDE DEF new, n
    <2> QED BY <1>1, <1>2, <1>3 DEF Leaves, L
  <1>6. Inner(new) = Inner(p) \cup {n}
    <2> HIDE DEF new, n
    <2> QED BY <1>1, <1>2, <1>3 DEF Inner
  <1> HIDE DEF w, v, L, new, n
  <1>7. Joins(w, v, X, Y, a, b, n)
    <2>1. IsFiniteSet(X) /\ n \notin X
      BY <1>1, FS_Subset
    <2>2. \A z \in X : w[z] \in Nat /\ v[z] = w[z]
      BY <1>1, <1>4
    <2> QED BY <2>1, <2>2, <1>4 DEF Joins
  <1> HIDE DEF Y
  <1>8. \A z \in L : w[z] \in Nat /\ v[z] = w[z]
    BY <1>1, <1>4
  <1>9. M \in Nat /\ Bound(w, L, X, M) /\ Pays(p, w, L, X, M)
    BY DEF Best, w, L
  <1>10. M + v[n] \in Nat /\ Bound(v, L, Y, M + v[n])
    <2>1. \A z \in X \ {a, b} : w[a] <= w[z] /\ w[b] <= w[z]
      BY <1>1
    <2> QED BY <2>1, <1>1, <1>7, <1>8, <1>9, BoundJoins
  <1>11. ASSUME NEW depth, Depths(new, depth)
         PROVE  Bits(v, L, depth) = Bits(v, Y, depth) + (M + v[n])
    <2> DEFINE old == [z \in DOMAIN p |-> depth[z]]
    <2>1. depth \in [DOMAIN p \cup {n} -> Nat]
      BY <1>11, <1>3 DEF Depths
    <2>2. \A z \in DOMAIN p : old[z] \in Nat /\ depth[z] = old[z]
      BY <2>1
    <2>3. \A m \in Inner(p) : /\ depth[p[m].left] = depth[m] + 1
                              /\ depth[p[m].right] = depth[m] + 1
      <3>1. \A m \in Inner(p) : m \in Inner(new) /\ new[m] = p[m]
        BY <1>3, <1>6 DEF Inner
      <3> QED BY <3>1, <1>11 DEF Depths
    <2>4. Depths(p, old)
      <3>1. old \in [DOMAIN p -> Nat]
        BY <2>1
      <3>2. \A m \in Inner(p) : m \in DOMAIN p
        BY DEF Inner
      <3> QED BY <2>2, <2>3, <3>1, <3>2 DEF Depths
    <2>5. Bits(w, L, old) = Bits(w, X, old) + M
      BY <1>9, <2>4 DEF Pays
    <2>6. old[a] = depth[n] + 1 /\ old[b] = depth[n] + 1 /\ depth[n] \in Nat
      <3>1. n \in Inner(new)
        BY <1>6
      <3>2. depth[node.left] = depth[n] + 1 /\ depth[node.right] = depth[n] + 1
        BY <3>1, <1>3, <1>11 DEF Depths
      <3>3. {node.left, node.right} = {a, b}
        BY DEF Parents
      <3>4. depth[a] = depth[n] + 1 /\ depth[b] = depth[n] + 1
        BY <3>2, <3>3
      <3> QED BY <3>4, <2>1, <2>2
    <2> HIDE DEF old
    <2>7. \A z \in L \cup X : old[z] \in Nat /\ depth[z] = old[z]
      BY <2>2, <1>1
    <2> QED BY <1>1, <1>7, <1>8, <1>9, <2>5, <2>6, <2>7, PaysJoins
  <1>12. Pays(new, v, L, Y, M + v[n])
    BY <1>11 DEF Pays
  <1>13. Best(new, Y, M + v[n])
    <2>1. Weights(new) = v /\ Leaves(new) = L
      BY <1>5 DEF v
    <2> QED BY <2>1, <1>10, <1>12 DEF Best
  <1> QED BY <1>4, <1>13 DEF Y, new, n

Children(p, m) == {p[m].left, p[m].right}

----------------------------------------------------------------------------
(* What the codes of a tree weigh: no short array has a long one.           *)

\* How the nodes weigh on one another: an inner node as much as its children do, the
\* nodes X that are left, the queue, as much as all leaves. What is merged later is not
\* lighter: no node in X is lighter than the child of another, nor is a node lighter
\* than the children of its sibling.
Uncles(p, X) ==
  /\ \A n \in DOMAIN p : p[n].freq >= 1
  /\ \A m \in Inner(p) : p[m].freq = p[p[m].left].freq + p[p[m].right].freq
  /\ \A m \in Inner(p) : \A c \in Children(p, m) : \A z \in X : p[c].freq <= p[z].freq
  /\ \A m \in Inner(p) : \A x, y \in Children(p, m) :
       x # y /\ x \in Inner(p) => \A c \in Children(p, x) : p[c].freq <= p[y].freq
  /\ Total(Weights(p), X) = Total(Weights(p), Leaves(p))

\* While there are only leaves there is nothing to compare.
LEMMA UnclesAtFirst ==
  ASSUME NEW p \in Seq(Node), Leaves(p) = DOMAIN p, \A n \in DOMAIN p : p[n].freq >= 1
  PROVE  Uncles(p, DOMAIN p)
  <1>1. Inner(p) = {}
    BY DEF Inner, Leaves
  <1> QED BY <1>1 DEF Uncles

\* Merging the two lightest nodes.
LEMMA UnclesJoin ==
  ASSUME NEW p \in Seq(Node), \A m \in Inner(p) : p[m].left \in DOMAIN p /\ p[m].right \in DOMAIN p,
         NEW X \in SUBSET DOMAIN p, NEW a \in X, NEW b \in X, a # b,
         \A z \in X \ {a, b} : p[a].freq <= p[z].freq /\ p[b].freq <= p[z].freq,
         NEW node, Parents(p, node, a, b), Uncles(p, X)
  PROVE  Uncles(Append(p, node), (X \ {a, b}) \cup {Len(p) + 1})
  <1> DEFINE n == Len(p) + 1
             new == Append(p, node)
             Y == (X \ {a, b}) \cup {n}
  <1>1. /\ Len(p) \in Nat /\ DOMAIN p = 1 .. Len(p) /\ n \notin DOMAIN p
        /\ IsFiniteSet(DOMAIN p)
        /\ \A z \in DOMAIN p : p[z].freq \in Nat
    <2>1. \A z \in DOMAIN p : p[z].freq \in Nat
      BY WeightFacts
    <2> QED BY <2>1, WeightFacts
  <1>2. node \in Node /\ ~IsLeaf(node) /\ node.freq = p[a].freq + p[b].freq
        /\ {node.left, node.right} = {a, b}
    BY DEF Parents
  <1>3. /\ new \in Seq(Node) /\ DOMAIN new = DOMAIN p \cup {n} /\ new[n] = node
        /\ \A z \in DOMAIN p : new[z] = p[z]
    <2>1. new \in Seq(Node) /\ Len(new) = n
      BY <1>2
    <2>2. DOMAIN new = 1 .. n /\ 1 .. n = (1 .. Len(p)) \cup {n}
      BY <1>1, <2>1
    <2> QED BY <1>1, <1>2, <2>1, <2>2
  <1> HIDE DEF new, n
  <1>4. Leaves(new) = Leaves(p) /\ Leaves(p) \subseteq DOMAIN p /\ IsFiniteSet(Leaves(p))
    <2>1. Leaves(p) \subseteq DOMAIN p /\ IsFiniteSet(Leaves(p))
      BY WeightFacts
    <2> QED BY <2>1, <1>1, <1>2, <1>3 DEF Leaves
  <1>5. Inner(new) = Inner(p) \cup {n}
    BY <1>1, <1>2, <1>3 DEF Inner
  <1>6. /\ \A z \in DOMAIN p : p[z].freq \in Nat /\ p[z].freq >= 1 /\ new[z].freq = p[z].freq
        /\ a \in DOMAIN p /\ b \in DOMAIN p
        /\ \A z \in X : z \in DOMAIN p
        /\ new[n].freq = p[a].freq + p[b].freq
        /\ new[n].freq >= p[a].freq /\ new[n].freq >= p[b].freq /\ new[n].freq >= 1
        /\ new[n].freq \in Nat
    <2>1. \A z \in DOMAIN p : p[z].freq \in Nat /\ p[z].freq >= 1 /\ new[z].freq = p[z].freq
      BY <1>1, <1>3 DEF Uncles
    <2>2. p[a].freq \in Nat /\ p[b].freq \in Nat /\ p[a].freq >= 1
      BY <2>1
    <2>3. new[n].freq = p[a].freq + p[b].freq
      BY <1>2, <1>3
    <2> QED BY <2>1, <2>2, <2>3
  <1>7. /\ \A m \in Inner(p) : /\ m \in DOMAIN p /\ Children(new, m) = Children(p, m)
                               /\ Children(p, m) \subseteq DOMAIN p
        /\ Children(new, n) = {a, b}
    BY <1>2, <1>3 DEF Inner, Children
  <1>8. \A z \in DOMAIN new : new[z].freq >= 1
    BY <1>3, <1>6
  <1>9. ASSUME NEW m \in Inner(new)
        PROVE  new[m].freq = new[new[m].left].freq + new[new[m].right].freq
    <2>1. CASE m = n
      <3>1. \/ node.left = a /\ node.right = b
            \/ node.left = b /\ node.right = a
        BY <1>2
      <3> QED BY <3>1, <2>1, <1>3, <1>6
    <2>2. CASE m \in Inner(p)
      <3>1. p[m].freq = p[p[m].left].freq + p[p[m].right].freq
        BY <2>2 DEF Uncles
      <3> QED BY <3>1, <2>2, <1>3, <1>6, <1>7
    <2> QED BY <2>1, <2>2, <1>5
  <1>10. ASSUME NEW m \in Inner(new), NEW c \in Children(new, m), NEW z \in Y
         PROVE  new[c].freq <= new[z].freq
    <2>1. CASE m = n
      <3>1. c \in {a, b}
        BY <2>1, <1>7
      <3>2. CASE z = n
        BY <3>1, <3>2, <1>6
      <3>3. CASE z # n
        <4>1. z \in X \ {a, b}
          BY <3>3
        <4> QED BY <3>1, <4>1, <1>6
      <3> QED BY <3>2, <3>3
    <2>2. CASE m \in Inner(p)
      <3>1. c \in Children(p, m) /\ c \in DOMAIN p /\ new[c].freq = p[c].freq
        BY <2>2, <1>6, <1>7
      <3>2. \A y \in X : p[c].freq <= p[y].freq
        BY <2>2, <3>1 DEF Uncles
      <3>3. CASE z = n
        <4>1. p[c].freq <= p[a].freq /\ p[a].freq <= new[n].freq
          BY <3>2, <1>6
        <4>2. p[c].freq \in Nat /\ p[a].freq \in Nat /\ new[n].freq \in Nat
          BY <3>1, <1>6
        <4> QED BY <3>1, <3>3, <4>1, <4>2
      <3>4. CASE z # n
        <4>1. z \in X /\ new[z].freq = p[z].freq
          BY <3>4, <1>6
        <4> QED BY <3>1, <3>2, <4>1
      <3> QED BY <3>3, <3>4
    <2> QED BY <2>1, <2>2, <1>5
  <1>11. ASSUME NEW m \in Inner(new), NEW x \in Children(new, m), NEW y \in Children(new, m),
                x # y, x \in Inner(new), NEW c \in Children(new, x)
         PROVE  new[c].freq <= new[y].freq
    <2>1. CASE m = n
      <3>1. x \in X /\ y \in X /\ x \in DOMAIN p /\ x # n
        BY <2>1, <1>1, <1>6, <1>7
      <3>2. x \in Inner(p) /\ c \in Children(p, x) /\ c \in DOMAIN p
        BY <3>1, <1>5, <1>7, <1>11
      <3>3. p[c].freq <= p[y].freq
        BY <3>1, <3>2 DEF Uncles
      <3> QED BY <3>1, <3>2, <3>3, <1>6
    <2>2. CASE m \in Inner(p)
      <3>1. x \in Children(p, m) /\ y \in Children(p, m) /\ x \in DOMAIN p /\ y \in DOMAIN p
        BY <2>2, <1>7
      <3>2. x \in Inner(p) /\ c \in Children(p, x) /\ c \in DOMAIN p
        BY <3>1, <1>1, <1>5, <1>7, <1>11
      <3>3. p[c].freq <= p[y].freq
        BY <2>2, <3>1, <3>2, <1>11 DEF Uncles
      <3> QED BY <3>1, <3>2, <3>3, <1>6
    <2> QED BY <2>1, <2>2, <1>5
  <1>12. Total(Weights(new), Y) = Total(Weights(new), Leaves(new))
    <2> DEFINE w == Weights(p)
               v == Weights(new)
               L == Leaves(p)
    <2>1. /\ \A z \in DOMAIN p : w[z] = p[z].freq /\ v[z] = w[z] /\ w[z] \in Nat
          /\ v[n] = w[a] + w[b] /\ v[n] \in Nat
      <3>1. \A z \in DOMAIN p : w[z] = p[z].freq
        BY WeightFacts
      <3>2. \A z \in DOMAIN new : v[z] = new[z].freq
        BY <1>3, WeightFacts
      <3> HIDE DEF w, v
      <3> QED BY <3>1, <3>2, <1>3, <1>6
    <2> HIDE DEF w, v, L
    <2>2. IsFiniteSet(X) /\ n \notin X
      BY <1>1, FS_Subset
    <2>3. Joins(w, v, X, Y, a, b, n)
      BY <2>1, <2>2 DEF Joins
    <2>4. Alike(w, v, X, a, b, n)
      BY <2>1 DEF Alike
    <2>5. SumsJoin(w, v, X, Y, a, b, n)
      BY <2>3, <2>4, JoinedSums
    <2>6. Total(v, Y) = Total(w, X)
      <3>1. /\ Total(w, X) = w[a] + w[b] + Total(w, X \ {a, b})
            /\ Total(v, Y) = v[n] + Total(w, X \ {a, b})
        BY <2>5 DEF SumsJoin
      <3> QED BY <3>1, <2>1
    <2>7. Total(v, L) = Total(w, L)
      <3>1. IsFiniteSet(L) /\ \A z \in L : v[z] = w[z] /\ v[z] \in Nat
        BY <1>4, <2>1 DEF L
      <3> QED BY <3>1, TotalAgrees
    <2>8. Total(w, X) = Total(w, L)
      BY DEF Uncles, w, L
    <2> QED BY <2>6, <2>7, <2>8, <1>4 DEF v, L
  <1> HIDE DEF Y
  <1>13. Uncles(new, Y)
    BY <1>8, <1>9, <1>10, <1>11, <1>12 DEF Uncles
  <1> QED BY <1>13 DEF Y, new, n

\* The numbers that the weights of the nodes on a way down are at least.
Fibonacci(F, N) ==
  /\ N \in Nat /\ N >= 1 /\ F \in [0 .. N -> Nat] /\ F[0] = 1 /\ F[1] = 2
  /\ \A n \in 2 .. N : F[n] = F[n - 1] + F[n - 2]

\* A leaf that lies far down makes every node above it heavy.
LEMMA LineIsHeavy ==
  ASSUME NEW p \in Seq(Node), NEW root, Family(p, root), NEW path, Paths(p, root, path),
         NEW X, Uncles(p, X), NEW x \in DOMAIN p, NEW F, NEW N, Fibonacci(F, N)
  PROVE  \A v \in Line(p, root, x) : \A j \in 0 .. N :
           Len(path[v]) + j <= Len(path[x]) => F[j] <= p[v].freq
  <1> DEFINE A == Line(p, root, x)
             r == [v \in A |-> v]
             T == {v \in A : \A j \in 0 .. N : Len(path[v]) + j <= Len(path[x])
                                                 => F[j] <= p[v].freq}
  <1>1. /\ A \subseteq DOMAIN p /\ DOMAIN p = 1 .. Len(p)
        /\ \A v \in DOMAIN p : p[v].freq \in Nat /\ p[v].freq >= 1 /\ Len(path[v]) \in Nat
    <2>1. A \subseteq DOMAIN p
      BY LineFacts
    <2>2. \A v \in DOMAIN p : p[v].freq \in Nat
      BY WeightFacts
    <2>3. \A v \in DOMAIN p : p[v].freq >= 1
      BY DEF Uncles
    <2>4. \A v \in DOMAIN p : path[v] \in Seq({0, 1})
      BY DEF Paths
    <2> QED BY <2>1, <2>2, <2>3, <2>4
  <1>2. /\ N \in Nat /\ F[0] = 1 /\ F[1] = 2 /\ \A j \in 0 .. N : F[j] \in Nat
        /\ \A n \in 2 .. N : F[n] = F[n - 1] + F[n - 2]
    BY DEF Fibonacci
  \* A node on the way, its child on the way and the other one.
  <1>3. ASSUME NEW v \in A, v # x
        PROVE  \E c, y \in Children(p, v) :
                 /\ c # y /\ c \in A /\ c < v /\ c \in DOMAIN p /\ y \in DOMAIN p
                 /\ Len(path[c]) = Len(path[v]) + 1
                 /\ p[v].freq = p[c].freq + p[y].freq /\ v \in Inner(p)
    <2>1. OnTheWay(p, root, path, x, v)
      BY <1>3, PathLeads
    <2>2. PICK c \in Children(p, v) : c \in A /\ Len(path[c]) = Len(path[v]) + 1
      BY <2>1 DEF OnTheWay, Children
    <2>3. v \in Inner(p)
      BY <2>1 DEF OnTheWay
    <2>4. /\ p[v].left < v /\ p[v].right < v /\ p[v].left # p[v].right
          /\ p[v].left \in DOMAIN p /\ p[v].right \in DOMAIN p
      BY <2>3 DEF Family
    <2>5. p[v].freq = p[p[v].left].freq + p[p[v].right].freq
      BY <2>3 DEF Uncles
    <2>6. v \in Nat /\ p[p[v].left].freq \in Nat /\ p[p[v].right].freq \in Nat
      BY <1>1, <2>4
    <2>7. CASE c = p[v].left
      <3>1. p[v].right \in Children(p, v) /\ c < v
        BY <2>4, <2>6, <2>7 DEF Children
      <3> QED BY <3>1, <2>2, <2>3, <2>4, <2>5, <2>7
    <2>8. CASE c = p[v].right
      <3>1. p[v].left \in Children(p, v) /\ c < v
        BY <2>4, <2>6, <2>8 DEF Children
      <3>2. p[v].freq = p[c].freq + p[p[v].left].freq
        BY <2>5, <2>6, <2>8
      <3> QED BY <3>1, <3>2, <2>2, <2>3, <2>4, <2>8
    <2> QED BY <2>2, <2>7, <2>8 DEF Children
  <1>4. ASSUME NEW v \in A, \A u \in A : r[u] < r[v] => u \in T PROVE v \in T
    <2> SUFFICES ASSUME NEW j \in 0 .. N, Len(path[v]) + j <= Len(path[x])
                 PROVE  F[j] <= p[v].freq
      OBVIOUS
    <2>0. /\ v \in DOMAIN p /\ p[v].freq \in Nat /\ p[v].freq >= 1 /\ Len(path[v]) \in Nat
          /\ Len(path[x]) \in Nat /\ j \in Nat
      BY <1>1
    <2>1. CASE j = 0
      BY <2>0, <2>1, <1>2
    <2>2. CASE j # 0
      <3>1. v # x
        BY <2>0, <2>2
      <3>2. PICK c, y \in Children(p, v) :
              /\ c # y /\ c \in A /\ c < v /\ c \in DOMAIN p /\ y \in DOMAIN p
              /\ Len(path[c]) = Len(path[v]) + 1
              /\ p[v].freq = p[c].freq + p[y].freq /\ v \in Inner(p)
        BY <3>1, <1>3
      <3>3. /\ p[c].freq \in Nat /\ p[c].freq >= 1 /\ Len(path[c]) \in Nat
            /\ p[y].freq \in Nat /\ p[y].freq >= 1
        BY <3>2, <1>1
      <3>4. CASE j = 1
        BY <3>2, <3>3, <3>4, <1>2
      <3>5. CASE j # 1
        <4>0. j \in 2 .. N /\ j - 1 \in 0 .. N /\ j - 2 \in 0 .. N
          BY <2>0, <2>2, <3>5, <1>2
        <4>1. c # x
          BY <2>0, <3>2, <4>0
        <4>2. PICK z, t \in Children(p, c) :
                /\ z # t /\ z \in A /\ z < c /\ z \in DOMAIN p
                /\ Len(path[z]) = Len(path[c]) + 1 /\ c \in Inner(p)
          BY <3>2, <4>1, <1>3
        <4>3. c \in T /\ z \in T
          <5>1. c < v /\ z < v
            BY <3>2, <4>2, <1>1
          <5>2. r[c] < r[v] /\ r[z] < r[v]
            BY <5>1, <3>2, <4>2
          <5> HIDE DEF T, r, A
          <5> QED BY <5>2, <3>2, <4>2, <1>4
        <4>4. F[j - 1] <= p[c].freq
          <5>1. Len(path[c]) + (j - 1) <= Len(path[x])
            BY <2>0, <3>2
          <5> QED BY <5>1, <4>0, <4>3
        <4>5. F[j - 2] <= p[z].freq
          <5>1. Len(path[z]) + (j - 2) <= Len(path[x])
            <6>1. Len(path[z]) = Len(path[v]) + 2
              BY <2>0, <3>2, <4>2
            <6>2. Len(path[v]) + 2 + (j - 2) = Len(path[v]) + j
              BY <2>0
            <6> QED BY <6>1, <6>2
          <5> QED BY <5>1, <4>0, <4>3
        <4>6. p[z].freq <= p[y].freq /\ p[z].freq \in Nat
          BY <3>2, <4>2, <1>1 DEF Uncles
        <4>7. F[j] = F[j - 1] + F[j - 2] /\ F[j - 1] \in Nat /\ F[j - 2] \in Nat
          BY <4>0, <1>2
        <4>8. F[j] <= p[c].freq + p[y].freq
          <5>1. PICK g \in Nat, h \in Nat, k \in Nat, l \in Nat, m \in Nat :
                  /\ g = F[j - 1] /\ h = F[j - 2] /\ k = p[c].freq /\ l = p[y].freq
                  /\ m = p[z].freq
            BY <3>3, <4>6, <4>7
          <5>2. F[j] = g + h /\ g <= k /\ h <= m /\ m <= l
            BY <5>1, <4>4, <4>5, <4>6, <4>7
          <5>3. g + h <= k + l
            BY <5>2
          <5> QED BY <5>1, <5>2, <5>3
        <4> QED BY <3>2, <4>8
      <3> QED BY <3>4, <3>5
    <2> QED BY <2>1, <2>2
  <1>5. \A v \in A : r[v] \in Nat
    BY <1>1
  <1>6. \A v \in A : v \in T
    <2> HIDE DEF T, r, A
    <2>1. \A v \in A : (\A u \in A : r[u] < r[v] => u \in T) => v \in T
      BY <1>4
    <2> QED BY ONLY <1>5, <2>1, RankInduction
  <1> QED BY <1>6

\* A sum of ones counts.
\* Ones add up to how many there are.
LEMMA TotalOfOnes ==
  ASSUME NEW f, NEW D, IsFiniteSet(D), \A e \in D : f[e] = 1
  PROVE  Total(f, D) = Cardinality(D)
  <1> DEFINE T == {t \in SUBSET D : Total(f, t) = Cardinality(t)}
  <1>1. {} \in T
    BY TotalOfNone, FS_EmptySet
  <1>2. ASSUME NEW t \in SUBSET D, NEW e \in t, t \ {e} \in T PROVE t \in T
    <2>1. IsFiniteSet(t) /\ (\A y \in t : f[y] \in Nat) /\ f[e] = 1
      BY FS_Subset
    <2>2. Total(f, t) = f[e] + Total(f, t \ {e})
      BY <2>1, TotalFacts
    <2>3. Cardinality(t) \in Nat /\ Cardinality(t \ {e}) = Cardinality(t) - 1
      BY SubsetFacts
    <2> QED BY <1>2, <2>1, <2>2, <2>3
  <1>3. D \in T
    <2> HIDE DEF T
    <2> QED BY <1>1, <1>2, SubsetInduction
  <1> QED BY <1>3

\* Each leaf is that of another symbol, and weighs as much as the symbol is frequent.
OfSymbols(p) ==
  /\ \A n \in Leaves(p) : p[n].c \in Symbols /\ p[n].freq = freq(p[n].c)
  /\ \A n, m \in Leaves(p) : p[n].c = p[m].c => n = m

LightInv ==
  /\ phase \in {"leaves", "merge"} =>
       /\ Once(qq) /\ Ordered(qq, Weights(pool))
       /\ OfSymbols(pool) /\ \E M : Best(pool, Queued(qq), M)
       /\ Uncles(pool, Queued(qq))
  /\ phase = "leaves" => Queued(qq) = DOMAIN pool

\* A new node is put into the queue.
LEMMA NodeQueued ==
  ASSUME NEW p \in Seq(Node), NEW node \in Node, NEW q \in Seq(DOMAIN p),
         Once(q), Ordered(q, Weights(p))
  PROVE  LET new == Append(p, node)
             qn  == qinsert(q, Weights(new), Len(p) + 1)
         IN  /\ DOMAIN new = DOMAIN p \cup {Len(p) + 1} /\ Len(p) + 1 \notin DOMAIN p
             /\ new \in Seq(Node) /\ new[Len(p) + 1] = node
             /\ \A n \in DOMAIN p : new[n] = p[n]
             /\ Queued(qn) = Queued(q) \cup {Len(p) + 1}
             /\ Once(qn) /\ Ordered(qn, Weights(new))
  <1> DEFINE n == Len(p) + 1
             new == Append(p, node)
             v == Weights(new)
             qn == qinsert(q, v, n)
             S == DOMAIN p \cup {n}
  <1>1. Len(p) \in Nat /\ DOMAIN p = 1 .. Len(p) /\ n \notin DOMAIN p
    OBVIOUS
  <1>2. /\ new \in Seq(Node) /\ DOMAIN new = S /\ new[n] = node
        /\ \A z \in DOMAIN p : new[z] = p[z]
    <2>1. new \in Seq(Node) /\ Len(new) = n
      OBVIOUS
    <2>2. DOMAIN new = 1 .. n /\ 1 .. n = (1 .. Len(p)) \cup {n}
      BY <1>1, <2>1
    <2>3. new[n] = node /\ \A z \in DOMAIN p : new[z] = p[z]
      BY <1>1
    <2> QED BY <1>1, <2>1, <2>2, <2>3
  <1> HIDE DEF new, n
  <1>3. \A z \in S : v[z] \in Nat /\ v[z] = new[z].freq
    BY <1>2, WeightFacts
  <1>4. \A z \in DOMAIN p : v[z] = Weights(p)[z]
    <2>1. \A z \in DOMAIN p : Weights(p)[z] = p[z].freq
      BY WeightFacts
    <2> HIDE DEF v
    <2> QED BY <2>1, <1>2, <1>3
  <1> HIDE DEF v
  <1>5. Ordered(q, v)
    BY <1>4, OrderAgrees
  <1>6. q \in Seq(S) /\ n \in S /\ n \notin Queued(q)
    BY <1>1, SeqOfMore, QueuedFacts
  <1> HIDE DEF S
  <1>7. Queued(qn) = Queued(q) \cup {n} /\ Once(qn)
    BY <1>6, InsertAdds
  <1>8. Ordered(qn, v)
    BY <1>3, <1>5, <1>6, InsertOrders
  <1> QED BY <1>1, <1>2, <1>7, <1>8 DEF qn, v, new, n, S

\* Before the first leaf there is nothing to order.
LEMMA InitLight == CoderInit => LightInv
  <1> SUFFICES ASSUME CoderInit PROVE LightInv
    OBVIOUS
  <1>1. phase = "leaves" /\ pool = <<>> /\ qq = <<>>
    BY DEF CoderInit
  <1>2. /\ pool \in Seq(Node) /\ DOMAIN pool = {} /\ Leaves(pool) = {} /\ Queued(qq) = {}
        /\ Len(qq) = 0
    BY <1>1 DEF Leaves, Queued
  <1>3. Once(qq)
    BY <1>2, FS_EmptySet DEF Once
  <1>4. Ordered(qq, Weights(pool))
    BY <1>2 DEF Ordered
  <1>5. Best(pool, Queued(qq), 0)
    BY <1>2, BestAtFirst
  <1>6. Uncles(pool, Queued(qq))
    BY <1>2, UnclesAtFirst
  <1> QED BY <1>1, <1>2, <1>3, <1>4, <1>5, <1>6 DEF LightInv, OfSymbols

\* A symbol of the array is somewhere in it.
LEMMA SymbolOccurs == \A c \in Symbols : s \in Arrays => freq(c) >= 1
  <1> SUFFICES ASSUME NEW c \in Symbols, s \in Arrays PROVE freq(c) >= 1
    OBVIOUS
  <1> DEFINE S == {k \in DOMAIN s : s[k] = c}
  <1>1. S # {} /\ S \subseteq DOMAIN s
    BY DEF Symbols
  <1>2. s \in Seq(Nat) /\ IsFiniteSet(DOMAIN s)
    <2>1. s \in Seq(Nat)
      BY ArraysAssumption
    <2>2. Len(s) \in Nat /\ DOMAIN s = 1 .. Len(s)
      BY <2>1
    <2> QED BY <2>1, <2>2, FS_Interval
  <1>3. Cardinality(S) \in Nat /\ Cardinality(S) # 0
    <2> HIDE DEF S
    <2>1. IsFiniteSet(S)
      BY <1>1, <1>2, FS_Subset
    <2> QED BY <2>1, <1>1, FS_CardinalityType, FS_EmptySet
  <1>4. freq(c) = Cardinality(S)
    BY DEF freq
  <1> QED BY <1>3, <1>4

\* The leaves are all in the queue.
LEMMA InsertLeafLight == WholeInv /\ LightInv /\ InsertLeaf => LightInv'
  <1> SUFFICES ASSUME WholeInv, LightInv, InsertLeaf PROVE LightInv'
    OBVIOUS
  <1>1. /\ phase = "leaves" /\ s \in Arrays /\ s' = s
        /\ pool \in Seq(Node) /\ qq \in Seq(DOMAIN pool)
        /\ \A n \in DOMAIN pool : IsLeaf(pool[n])
    BY DEF WholeInv, CoderInv, HeapInv, InsertLeaf, Pool
  <1>2. /\ Once(qq) /\ Ordered(qq, Weights(pool)) /\ OfSymbols(pool)
        /\ Queued(qq) = DOMAIN pool /\ Uncles(pool, DOMAIN pool)
    BY <1>1 DEF LightInv
  <1> DEFINE node(c) == LeafNode(c, freq(c))
             new(c) == Append(pool, node(c))
             n == Len(pool) + 1
  <1>3. PICK c \in Symbols :
          /\ c \notin Made(pool)
          /\ pool' = new(c)
          /\ qq' = qinsert(qq, [m \in DOMAIN new(c) |-> new(c)[m].freq], Len(new(c)))
    BY Zenon DEF InsertLeaf, Made
  <1>4. node(c) \in Node /\ IsLeaf(node(c)) /\ node(c).c = c /\ node(c).freq = freq(c)
    <2>1. freq(c) \in Nat
      BY <1>1, FreqIsNat
    <2>2. c \in Nat
      BY <1>1, ArraysAssumption DEF Symbols
    <2> QED BY <2>1, <2>2 DEF Node, LeafNode, IsLeaf
  <1>5. Len(new(c)) = n
    <2> HIDE DEF node
    <2> QED BY <1>1, <1>4
  <1>6. qq' = qinsert(qq, Weights(new(c)), n)
    BY <1>3, <1>5 DEF Weights
  <1>7. /\ DOMAIN pool' = DOMAIN pool \cup {n} /\ n \notin DOMAIN pool
        /\ pool' \in Seq(Node) /\ pool'[n] = node(c)
        /\ \A z \in DOMAIN pool : pool'[z] = pool[z]
        /\ Queued(qq') = Queued(qq) \cup {n}
        /\ Once(qq') /\ Ordered(qq', Weights(pool'))
    <2> HIDE DEF node, new
    <2>1. LET x == Append(pool, node(c))
              qn == qinsert(qq, Weights(x), Len(pool) + 1)
          IN  /\ DOMAIN x = DOMAIN pool \cup {Len(pool) + 1} /\ Len(pool) + 1 \notin DOMAIN pool
              /\ x \in Seq(Node) /\ x[Len(pool) + 1] = node(c)
              /\ \A z \in DOMAIN pool : x[z] = pool[z]
              /\ Queued(qn) = Queued(qq) \cup {Len(pool) + 1}
              /\ Once(qn) /\ Ordered(qn, Weights(x))
      BY <1>1, <1>2, <1>4, NodeQueued
    <2> QED BY <2>1, <1>3, <1>6 DEF new
  <1> HIDE DEF node, n, new
  <1>8. Queued(qq') = DOMAIN pool'
    BY <1>2, <1>7
  <1>9. \A z \in DOMAIN pool' : IsLeaf(pool'[z])
    BY <1>1, <1>4, <1>7
  <1>10. Leaves(pool') = DOMAIN pool'
    BY <1>9 DEF Leaves
  <1>11. Best(pool', Queued(qq'), 0)
    BY <1>7, <1>8, <1>10, BestAtFirst
  <1>12. OfSymbols(pool)'
    <2>1. Symbols' = Symbols /\ \A d : freq(d)' = freq(d)
      BY <1>1 DEF Symbols, freq
    <2>2. ASSUME NEW z \in DOMAIN pool'
          PROVE  /\ pool'[z].c \in Symbols /\ pool'[z].freq = freq(pool'[z].c)
                 /\ \A y \in DOMAIN pool' : pool'[z].c = pool'[y].c => z = y
      <3>1. \A y \in DOMAIN pool : /\ pool[y].c \in Symbols /\ pool[y].freq = freq(pool[y].c)
                                   /\ pool[y].c # c
                                   /\ \A x \in DOMAIN pool : pool[x].c = pool[y].c => x = y
        BY <1>1, <1>2, <1>3 DEF OfSymbols, Leaves, Made
      <3>2. CASE z = n
        BY <3>1, <3>2, <1>3, <1>4, <1>7
      <3>3. CASE z \in DOMAIN pool
        BY <3>1, <3>3, <1>3, <1>4, <1>7
      <3> QED BY <3>2, <3>3, <1>7
    <2> QED BY <2>1, <2>2, <1>10 DEF OfSymbols
  <1>13. Uncles(pool', Queued(qq'))
    <2>1. \A z \in DOMAIN pool : pool[z].freq >= 1
      BY <1>2 DEF Uncles
    <2>2. freq(c) >= 1
      BY <1>1, SymbolOccurs
    <2>3. \A z \in DOMAIN pool' : pool'[z].freq >= 1
      BY <2>1, <2>2, <1>4, <1>7
    <2> QED BY <2>3, <1>7, <1>8, <1>10, UnclesAtFirst
  <1> QED BY <1>7, <1>8, <1>11, <1>12, <1>13 DEF LightInv

\* The two lightest nodes of the queue become one.
LEMMA MergeLight == WholeInv /\ LightInv /\ Merge => LightInv'
  <1> SUFFICES ASSUME WholeInv, LightInv, Merge PROVE LightInv'
    OBVIOUS
  <1>1. /\ phase = "merge" /\ phase' = phase /\ s' = s /\ Len(qq) > 1
        /\ pool \in Seq(Node) /\ qq \in Seq(DOMAIN pool)
        /\ Distinct \in Nat /\ Kinds(pool, Distinct)
    BY DEF WholeInv, GrowthInv, CoderInv, HeapInv, Merge, Pool
  <1>2. /\ Once(qq) /\ Ordered(qq, Weights(pool)) /\ OfSymbols(pool)
        /\ \E M : Best(pool, Queued(qq), M) /\ Uncles(pool, Queued(qq))
    BY <1>1 DEF LightInv
  <1>3. PICK M : Best(pool, Queued(qq), M)
    BY <1>2
  <1> DEFINE w == Weights(pool)
             q1 == qremove(qq, w)
             q2 == qremove(q1, w)
             a == Head(qq)
             b == Head(q1)
             n == Len(pool) + 1
             X == Queued(qq)
  <1>4. Freq = w
    BY DEF Freq, Weights
  <1>5. PICK node \in {InnerNode(a, b), InnerNode(b, a)} :
          /\ pool' = Append(pool, node)
          /\ qq' = qinsert(q2, [z \in 1 .. Len(pool) + 1 |->
                                  IF z \in DOMAIN pool THEN pool[z].freq ELSE node.freq], n)
    BY <1>4, Zenon DEF Merge
  <1>6. \A z \in DOMAIN pool : w[z] = pool[z].freq /\ w[z] \in Nat
    BY <1>1, WeightFacts
  <1>7. Takes(qq, w, a, b, q2)
    <2> HIDE DEF w
    <2> QED BY <1>1, <1>2, <1>6, TwoLightest DEF w
  <1>8. q2 \in Seq(DOMAIN pool)
    BY <1>1, RemoveTwo
  <1>9. X \subseteq DOMAIN pool
    BY <1>1, QueuedFacts
  <1> HIDE DEF q2, q1, w, X, a, b
  <1>10. /\ a \in X /\ b \in X /\ a # b /\ a \in DOMAIN pool /\ b \in DOMAIN pool
         /\ \A z \in X \ {a, b} : w[a] <= w[z] /\ w[b] <= w[z]
         /\ Queued(q2) = X \ {a, b} /\ Once(q2) /\ Ordered(q2, w)
    BY <1>7, <1>9 DEF Takes, X
  <1>11. Parents(pool, node, a, b)
    <2>1. PICK x \in Nat, y \in Nat : x = pool[a].freq /\ y = pool[b].freq
      BY <1>6, <1>10
    <2>2. a \in Nat /\ b \in Nat
      BY <1>1, <1>10
    <2>3. /\ InnerNode(a, b) = [freq |-> x + y, c |-> 0, t |-> 0, left |-> a, right |-> b]
          /\ InnerNode(b, a) = [freq |-> y + x, c |-> 0, t |-> 0, left |-> b, right |-> a]
      BY <2>1 DEF InnerNode
    <2>4. x + y \in Nat /\ y + x = x + y
      OBVIOUS
    <2>5. CASE node = InnerNode(a, b)
      BY <2>1, <2>2, <2>3, <2>4, <2>5 DEF Parents, Node, IsLeaf
    <2>6. CASE node = InnerNode(b, a)
      BY <2>1, <2>2, <2>3, <2>4, <2>6 DEF Parents, Node, IsLeaf
    <2> QED BY <2>5, <2>6, <1>5
  <1>12. node \in Node /\ ~IsLeaf(node)
    BY <1>11 DEF Parents
  <1> DEFINE new == Append(pool, node)
  <1>13. /\ Len(pool) \in Nat /\ DOMAIN pool = 1 .. Len(pool) /\ DOMAIN new = 1 .. n
         /\ new[n] = node /\ \A z \in DOMAIN pool : new[z] = pool[z]
    BY <1>1, <1>12
  <1>14. qq' = qinsert(q2, Weights(new), n)
    <2>1. [z \in 1 .. Len(pool) + 1 |->
             IF z \in DOMAIN pool THEN pool[z].freq ELSE node.freq] = Weights(new)
      <3> SUFFICES ASSUME NEW z \in 1 .. n
                   PROVE  (IF z \in DOMAIN pool THEN pool[z].freq ELSE node.freq)
                            = new[z].freq
        BY <1>13 DEF Weights
      <3>1. z \in DOMAIN pool \/ (z = n /\ z \notin DOMAIN pool)
        BY <1>13
      <3> QED BY <3>1, <1>13
    <2> QED BY <2>1, <1>5
  <1> HIDE DEF new
  <1>15. /\ DOMAIN new = DOMAIN pool \cup {n} /\ n \notin DOMAIN pool
         /\ Queued(qq') = (X \ {a, b}) \cup {n}
         /\ Once(qq') /\ Ordered(qq', Weights(new))
    <2>1. LET x == Append(pool, node)
              qn == qinsert(q2, Weights(x), Len(pool) + 1)
          IN  /\ DOMAIN x = DOMAIN pool \cup {Len(pool) + 1} /\ Len(pool) + 1 \notin DOMAIN pool
              /\ Queued(qn) = Queued(q2) \cup {Len(pool) + 1}
              /\ Once(qn) /\ Ordered(qn, Weights(x))
      BY <1>1, <1>8, <1>10, <1>12, NodeQueued DEF w
    <2> QED BY <2>1, <1>10, <1>14 DEF new
  <1>16. /\ Best(new, (X \ {a, b}) \cup {n}, M + node.freq)
         /\ Uncles(new, (X \ {a, b}) \cup {n})
    <2>1. \A m \in Inner(pool) : pool[m].left \in DOMAIN pool /\ pool[m].right \in DOMAIN pool
      <3> SUFFICES ASSUME NEW m \in DOMAIN pool, ~IsLeaf(pool[m])
                   PROVE  pool[m].left \in DOMAIN pool /\ pool[m].right \in DOMAIN pool
        BY DEF Inner
      <3> DEFINE d == Distinct
      <3> HIDE DEF d
      <3>1. m > d /\ d \in Nat
        BY <1>1, <1>13 DEF Kinds, d
      <3>2. pool[m].left \in 1 .. m - 1 /\ pool[m].right \in 1 .. m - 1
        BY <3>1, <1>1 DEF Kinds, d
      <3> QED BY <3>2, <1>13
    <2>2. \A z \in X \ {a, b} : pool[a].freq <= pool[z].freq /\ pool[b].freq <= pool[z].freq
      BY <1>6, <1>9, <1>10
    <2>3. Best(pool, X, M)
      BY <1>3 DEF X
    <2>4. Uncles(pool, X)
      BY <1>2 DEF X
    <2>5. Best(new, (X \ {a, b}) \cup {n}, M + node.freq)
      BY <2>1, <2>2, <2>3, <1>1, <1>9, <1>10, <1>11, BestJoins DEF new
    <2>6. Uncles(new, (X \ {a, b}) \cup {n})
      BY <2>1, <2>2, <2>4, <1>1, <1>9, <1>10, <1>11, UnclesJoin DEF new
    <2> QED BY <2>5, <2>6
  <1>17. OfSymbols(pool)'
    <2>1. Symbols' = Symbols /\ \A d : freq(d)' = freq(d)
      BY <1>1 DEF Symbols, freq
    <2>2. Leaves(new) = Leaves(pool) /\ \A z \in Leaves(pool) : new[z] = pool[z]
      BY <1>12, <1>13, <1>15 DEF Leaves
    <2>3. pool' = new
      BY <1>5 DEF new
    <2> QED BY <2>1, <2>2, <2>3, <1>2 DEF OfSymbols
  <1>18. pool' = new
    BY <1>5 DEF new
  <1> QED BY <1>1, <1>15, <1>16, <1>17, <1>18 DEF LightInv

----------------------------------------------------------------------------
(* The tree is a best one.                                                  *)

\* Counting the elements one by one or for each value they have is the same.
LEMMA TotalByValue ==
  ASSUME NEW I, IsFiniteSet(I), NEW C, IsFiniteSet(C), NEW a \in [I -> C],
         NEW lens \in [C -> Nat]
  PROVE  Total([i \in I |-> lens[a[i]]], I)
           = Total([c \in C |-> Cardinality({i \in I : a[i] = c}) * lens[c]], C)
  <1> DEFINE f == [i \in I |-> lens[a[i]]]
             At(t, c) == {i \in t : a[i] = c}
             g(t) == [c \in C |-> Cardinality(At(t, c)) * lens[c]]
             T == {t \in SUBSET I : Total(f, t) = Total(g(t), C)}
  <1>1. \A i \in I : f[i] \in Nat /\ f[i] = lens[a[i]]
    OBVIOUS
  <1>2. ASSUME NEW t \in SUBSET I
        PROVE  \A c \in C : Cardinality(At(t, c)) \in Nat /\ g(t)[c] \in Nat
                            /\ g(t)[c] = Cardinality(At(t, c)) * lens[c]
    <2>1. \A m, n \in Nat : m * n \in Nat
      OBVIOUS
    <2>2. \A c \in C : IsFiniteSet(At(t, c))
      BY FS_Subset
    <2>3. \A c \in C : Cardinality(At(t, c)) \in Nat
      BY <2>2, FS_CardinalityType
    <2> HIDE DEF At
    <2> QED BY <2>1, <2>3
  <1>3. {} \in T
    <2> DEFINE h == g({})
    <2>1. \A c \in C : h[c] = 0
      <3> SUFFICES ASSUME NEW c \in C PROVE Cardinality(At({}, c)) * lens[c] = 0
        OBVIOUS
      <3>1. At({}, c) = {} /\ Cardinality({}) = 0
        BY FS_EmptySet
      <3>2. lens[c] \in Nat
        OBVIOUS
      <3> HIDE DEF At
      <3>3. Cardinality(At({}, c)) = 0
        BY <3>1
      <3> QED BY <3>2, <3>3
    <2> HIDE DEF h
    <2>2. {} \in {t \in SUBSET C : Total(h, t) = 0}
      BY TotalOfNone
    <2>3. \A t \in SUBSET C : \A e \in t :
            t \ {e} \in {u \in SUBSET C : Total(h, u) = 0}
              => t \in {u \in SUBSET C : Total(h, u) = 0}
      <3> SUFFICES ASSUME NEW t \in SUBSET C, NEW e \in t, Total(h, t \ {e}) = 0
                   PROVE  Total(h, t) = 0
        OBVIOUS
      <3>1. IsFiniteSet(t) /\ \A c \in t : h[c] \in Nat
        BY <2>1, FS_Subset
      <3>2. Total(h, t) = h[e] + Total(h, t \ {e})
        BY <3>1, TotalFacts
      <3> QED BY <3>2, <2>1
    <2>4. Total(h, C) = 0
      <3> DEFINE Z == {u \in SUBSET C : Total(h, u) = 0}
      <3>1. {} \in Z /\ \A t \in SUBSET C : \A e \in t : t \ {e} \in Z => t \in Z
        BY <2>2, <2>3
      <3>2. C \in Z
        <4> HIDE DEF Z
        <4> QED BY <3>1, SubsetInduction
      <3> QED BY <3>2
    <2> QED BY <2>4, TotalOfNone DEF h
  <1>4. ASSUME NEW t \in SUBSET I, NEW e \in t, t \ {e} \in T PROVE t \in T
    <2> DEFINE u == t \ {e}
               x == a[e]
    <2>1. u \in SUBSET I /\ x \in C /\ e \in I /\ IsFiniteSet(t) /\ IsFiniteSet(u)
      BY FS_Subset
    <2>2. Total(f, t) = f[e] + Total(f, u) /\ Total(f, u) \in Nat
      <3> HIDE DEF f
      <3> QED BY <1>1, <2>1, TotalFacts
    <2>3. Total(f, u) = Total(g(u), C)
      BY <1>4
    <2>4. \A c \in C : c # x => At(t, c) = At(u, c)
      OBVIOUS
    <2>5. Cardinality(At(t, x)) = Cardinality(At(u, x)) + 1
      <3>1. At(t, x) = At(u, x) \cup {e} /\ e \notin At(u, x) /\ IsFiniteSet(At(u, x))
        BY <2>1, FS_Subset
      <3> HIDE DEF At, u, x
      <3> QED BY <3>1, FS_AddElement
    <2>6. /\ \A c \in C : Cardinality(At(t, c)) \in Nat /\ g(t)[c] \in Nat
                          /\ g(t)[c] = Cardinality(At(t, c)) * lens[c]
          /\ \A c \in C : Cardinality(At(u, c)) \in Nat /\ g(u)[c] \in Nat
                          /\ g(u)[c] = Cardinality(At(u, c)) * lens[c]
      <3> HIDE DEF g, At, u
      <3> QED BY <1>2, <2>1
    <2> DEFINE gt == g(t)
               gu == g(u)
    <2>7. \A c \in C \ {x} : gt[c] = gu[c]
      <3> HIDE DEF At, u, x
      <3> QED BY <2>4, <2>6
    <2>8. gt[x] = gu[x] + f[e]
      <3>1. PICK m \in Nat, n \in Nat : m = Cardinality(At(u, x)) /\ n = lens[x]
        BY <2>1, <2>6
      <3>2. f[e] = n
        BY <2>1, <3>1
      <3>3. (m + 1) * n = m * n + n
        OBVIOUS
      <3> HIDE DEF At, u, x, f
      <3>4. gt[x] = (m + 1) * n /\ gu[x] = m * n
        BY <2>1, <2>5, <2>6, <3>1
      <3> QED BY <3>2, <3>3, <3>4
    <2>9. /\ Total(gt, C) = gt[x] + Total(gt, C \ {x})
          /\ Total(gu, C) = gu[x] + Total(gu, C \ {x})
          /\ Total(gu, C \ {x}) \in Nat /\ gu[x] \in Nat
          /\ Total(gt, C \ {x}) = Total(gu, C \ {x})
      <3>1. \A c \in C : gt[c] \in Nat /\ gu[c] \in Nat
        BY <2>6
      <3> HIDE DEF gt, gu, x
      <3>2. IsFiniteSet(C \ {x})
        BY FS_Subset
      <3>3. /\ Total(gt, C) = gt[x] + Total(gt, C \ {x})
            /\ Total(gu, C) = gu[x] + Total(gu, C \ {x})
            /\ Total(gu, C \ {x}) \in Nat
        <4>1. (\A c \in C : gt[c] \in Nat) /\ (\A c \in C : gu[c] \in Nat)
          BY <3>1
        <4>2. x \in C /\ IsFiniteSet(C)
          BY <2>1
        <4>3. Total(gt, C) = gt[x] + Total(gt, C \ {x})
          BY ONLY <4>1, <4>2, TotalFacts
        <4>4. Total(gu, C) = gu[x] + Total(gu, C \ {x}) /\ Total(gu, C \ {x}) \in Nat
          BY ONLY <4>1, <4>2, TotalFacts
        <4> QED BY <4>3, <4>4
      <3>4. \A c \in C \ {x} : gt[c] = gu[c] /\ gt[c] \in Nat
        BY <2>7, <3>1
      <3>5. Total(gt, C \ {x}) = Total(gu, C \ {x})
        BY <3>2, <3>4, TotalAgrees
      <3> QED BY <2>1, <3>1, <3>3, <3>5
    <2>10. f[e] \in Nat
      BY <1>1, <2>1
    <2> HIDE DEF f, u, x
    <2>11. Total(f, t) = Total(gt, C)
      <3> HIDE DEF gt, g
      <3>1. Total(f, u) = Total(gu, C)
        BY <2>3
      <3> HIDE DEF gu
      <3> QED BY <3>1, <2>2, <2>8, <2>9, <2>10
    <2> QED BY <2>11
  <1>5. I \in T
    <2> HIDE DEF T
    <2> QED BY <1>3, <1>4, SubsetInduction
  <1> QED BY <1>5

\* The powers of two, as OptimalCode has them.
Power(d) == LET power[n \in 0 .. d] == IF n = 0 THEN 1 ELSE 2 * power[n - 1]
            IN  power

\* They are the powers of two.
LEMMA PowersDouble ==
  ASSUME NEW d \in Nat
  PROVE  Doubling(Power(d), d)
  <1> DEFINE D == 0 .. d
             V == Nat \ {0}
             Eq(h) == h = [n \in D |-> IF n = 0 THEN 1 ELSE 2 * h[n - 1]]
             r == [i \in D |-> i]
             Stop == {0}
             base == [i \in D |-> 1]
             next == [i \in D |-> i - 1]
             step == [i \in D |-> [v \in V |-> 2 * v]]
  <1>1. Descends(D, V, r, d + 1, Stop, base, next, step)
    <2>1. d + 1 \in Nat /\ \A i \in D : r[i] \in Nat /\ r[i] < d + 1
      OBVIOUS
    <2>2. \A i \in D : i \in Stop => base[i] \in V
      OBVIOUS
    <2>3. ASSUME NEW i \in D, i \notin Stop
          PROVE  next[i] \in D /\ r[next[i]] < r[i] /\ \A v \in V : step[i][v] \in V
      BY <2>3
    <2> HIDE DEF D, V, r, Stop, base, next, step
    <2> QED BY <2>1, <2>2, <2>3 DEF Descends
  <1>2. PICK g \in [D -> V] : Solves(g, D, Stop, base, next, step)
    <2> HIDE DEF D, V, r, Stop, base, next, step
    <2> QED BY <1>1, RecursionExists
  <1>3. Eq(g)
    <2>1. ASSUME NEW n \in D PROVE g[n] = IF n = 0 THEN 1 ELSE 2 * g[n - 1]
      <3>1. g[n] = IF n \in Stop THEN base[n] ELSE step[n][g[next[n]]]
        BY <1>2 DEF Solves
      <3>2. CASE n = 0
        BY <3>1, <3>2
      <3>3. CASE n # 0
        <4>1. n - 1 \in D /\ g[n - 1] \in V
          BY <3>3
        <4> QED BY <3>1, <3>3, <4>1
      <3> QED BY <3>2, <3>3
    <2>2. DOMAIN g = D /\ g = [n \in D |-> g[n]]
      OBVIOUS
    <2> QED BY <2>1, <2>2
  <1>4. Eq(Power(d))
    <2> DEFINE power == CHOOSE h : Eq(h)
    <2>1. Eq(power)
      BY <1>3, Zenon
    <2>2. Power(d) = power
      BY Zenon DEF Power
    <2> HIDE DEF power
    <2> QED BY <2>1, <2>2
  <1> DEFINE P == Power(d)
             W == {i \in D : P[i] \in V}
  <1>5. \A i \in D : P[i] = IF i = 0 THEN 1 ELSE 2 * P[i - 1]
    BY <1>4
  <1> HIDE DEF P
  <1>6. ASSUME NEW i \in D, \A j \in D : r[j] < r[i] => j \in W PROVE i \in W
    <2>1. CASE i = 0
      BY <2>1, <1>5
    <2>2. CASE i # 0
      <3>1. i - 1 \in D /\ r[i - 1] < r[i]
        BY <2>2
      <3>2. P[i - 1] \in V
        BY <3>1, <1>6
      <3> QED BY <3>2, <2>2, <1>5
    <2> QED BY <2>1, <2>2
  <1>7. \A i \in D : r[i] \in Nat
    OBVIOUS
  <1>8. \A i \in D : P[i] \in V
    <2> HIDE DEF D, r, W
    <2>1. \A i \in D : (\A j \in D : r[j] < r[i] => j \in W) => i \in W
      BY <1>6
    <2>2. \A i \in D : i \in W
      BY ONLY <1>7, <2>1, RankInduction
    <2> QED BY <2>2 DEF W
  <1>9. P \in [0 .. d -> Nat \ {0}]
    <2>1. P = [n \in D |-> IF n = 0 THEN 1 ELSE 2 * P[n - 1]]
      BY <1>4 DEF P
    <2>2. DOMAIN P = D /\ P = [n \in D |-> P[n]]
      BY <2>1
    <2> QED BY <2>2, <1>8
  <1>10. P[0] = 1 /\ \A n \in 1 .. d : P[n] = 2 * P[n - 1]
    BY <1>5
  <1> QED BY <1>9, <1>10 DEF Doubling, P

\* The leaves and the symbols are the same.
LeafPerSymbol(p) ==
  OfSymbols(p) /\ \A c \in Symbols : \E n \in Leaves(p) : p[n].c = c

\* What is in the array and where.
LEMMA SymbolFacts ==
  ASSUME s \in Arrays
  PROVE  /\ Len(s) \in Nat /\ DOMAIN s = 1 .. Len(s) /\ IsFiniteSet(DOMAIN s)
         /\ s \in [DOMAIN s -> Symbols] /\ IsFiniteSet(Symbols)
         /\ Cardinality(Symbols) \in Nat
         /\ \A c \in Symbols : freq(c) \in Nat
  <1>1. s \in Seq(Nat)
    BY ArraysAssumption
  <1>2. Len(s) \in Nat /\ DOMAIN s = 1 .. Len(s) /\ s \in [1 .. Len(s) -> Nat]
    BY <1>1
  <1>3. IsFiniteSet(DOMAIN s)
    BY <1>2, FS_Interval
  <1>4. s \in [DOMAIN s -> Symbols]
    BY <1>2 DEF Symbols
  <1>5. IsFiniteSet(Symbols)
    <2>1. Symbols = Image(s, DOMAIN s)
      BY DEF Symbols, Image
    <2> QED BY <2>1, <1>3, ImageIsFinite
  <1>6. \A c \in Symbols : freq(c) \in Nat
    BY FreqIsNat
  <1> QED BY <1>2, <1>3, <1>4, <1>5, <1>6, FS_CardinalityType

\* The cost of codes of some lengths is what the leaves take.
LEMMA CostIsBits ==
  ASSUME s \in Arrays, NEW p \in Seq(Node), LeafPerSymbol(p),
         NEW lens \in [Symbols -> Nat], NEW k, \A n \in Leaves(p) : k[n] = lens[p[n].c]
  PROVE  Cost(lens) = Bits(Weights(p), Leaves(p), k)
  <1> DEFINE L == Leaves(p)
             w == Weights(p)
             f == [c \in Symbols |-> freq(c) * lens[c]]
             g == [n \in L |-> w[n] * k[n]]
             h == [n \in L |-> p[n].c]
             e == [i \in DOMAIN s |-> lens[s[i]]]
  <1>1. /\ IsFiniteSet(DOMAIN s) /\ s \in [DOMAIN s -> Symbols] /\ IsFiniteSet(Symbols)
        /\ \A c \in Symbols : freq(c) \in Nat
    BY SymbolFacts
  <1>2. IsFiniteSet(L) /\ L \subseteq DOMAIN p /\ \A n \in L : w[n] = p[n].freq
    BY WeightFacts
  <1>3. /\ \A n \in L : p[n].c \in Symbols /\ p[n].freq = freq(p[n].c)
        /\ \A n, m \in L : p[n].c = p[m].c => n = m
        /\ \A c \in Symbols : \E n \in L : p[n].c = c
    BY DEF LeafPerSymbol, OfSymbols
  <1> HIDE DEF L, w
  <1>4. Cost(lens) = Total(e, DOMAIN s)
    <2>1. DOMAIN e = DOMAIN s
      OBVIOUS
    <2>2. Cost(lens) = SumFunction(e)
      BY Zenon DEF Cost
    <2>3. SumFunction(e) = Total(e, DOMAIN e)
      BY Zenon DEF SumFunction, Total
    <2> HIDE DEF e
    <2> QED BY <2>1, <2>2, <2>3
  <1>5. Total(e, DOMAIN s) = Total(f, Symbols)
    <2>1. Total([i \in DOMAIN s |-> lens[s[i]]], DOMAIN s)
            = Total([c \in Symbols |-> Cardinality({i \in DOMAIN s : s[i] = c}) * lens[c]],
                    Symbols)
      BY <1>1, TotalByValue
    <2> QED BY <2>1, Zenon DEF freq
  <1>6. Total(f, Symbols) = Total(g, L)
    <2>1. Image(h, L) = Symbols
      BY <1>3 DEF Image
    <2>2. \A n \in L : f[h[n]] \in Nat /\ g[n] = f[h[n]]
      <3> SUFFICES ASSUME NEW n \in L PROVE f[h[n]] \in Nat /\ g[n] = f[h[n]]
        OBVIOUS
      <3>1. p[n].c \in Symbols /\ h[n] = p[n].c
        BY <1>3
      <3>2. f[p[n].c] = freq(p[n].c) * lens[p[n].c] /\ f[p[n].c] \in Nat
        <4>1. \A x, y \in Nat : x * y \in Nat
          OBVIOUS
        <4> QED BY <3>1, <4>1, <1>1
      <3>3. g[n] = freq(p[n].c) * lens[p[n].c]
        <4>1. w[n] = freq(p[n].c) /\ k[n] = lens[p[n].c]
          BY <1>2, <1>3 DEF L
        <4>2. g[n] = w[n] * k[n]
          OBVIOUS
        <4> QED BY <4>1, <4>2
      <3> HIDE DEF f, g, h
      <3> QED BY <3>1, <3>2, <3>3
    <2>3. \A n, m \in L : h[n] = h[m] => n = m
      BY <1>3
    <2> HIDE DEF f, g, h
    <2>4. Total(f, Image(h, L)) = Total(g, L)
      BY <1>2, <2>2, <2>3, TotalOfImages
    <2> QED BY <2>1, <2>4
  <1> HIDE DEF f, e
  <1>7. Total(g, L) = Bits(w, L, k)
    BY DEF Bits
  <1> QED BY <1>4, <1>5, <1>6, <1>7 DEF L, w

\* The same of Kraft's equality.
LEMMA KraftOfLeaves ==
  ASSUME s \in Arrays, NEW p \in Seq(Node), LeafPerSymbol(p),
         NEW P, NEW d, Doubling(P, d), NEW lens \in [Symbols -> 0 .. d],
         SumFunction([c \in Symbols |-> P[d - lens[c]]]) = P[d]
  PROVE  Kraft(P, [n \in Leaves(p) |-> lens[p[n].c]], Leaves(p), d)
  <1> DEFINE L == Leaves(p)
             k == [n \in L |-> lens[p[n].c]]
             f == [c \in Symbols |-> P[d - lens[c]]]
             g == [n \in L |-> P[d - k[n]]]
             h == [n \in L |-> p[n].c]
  <1>1. IsFiniteSet(Symbols) /\ IsFiniteSet(L)
    BY SymbolFacts, WeightFacts
  <1>2. /\ \A n \in L : p[n].c \in Symbols
        /\ \A n, m \in L : p[n].c = p[m].c => n = m
        /\ \A c \in Symbols : \E n \in L : p[n].c = c
    BY DEF LeafPerSymbol, OfSymbols
  <1> HIDE DEF L
  <1>3. d \in Nat /\ d \in 0 .. d
    BY DEF Doubling
  <1>4. \A c \in Symbols : f[c] = P[d - lens[c]] /\ f[c] \in Nat
    BY <1>3, KraftSummands
  <1>5. k \in [L -> 0 .. d]
    BY <1>2
  <1>6. Total(f, Symbols) = P[d]
    <2>1. DOMAIN f = Symbols
      OBVIOUS
    <2>2. SumFunction(f) = Total(f, DOMAIN f)
      BY Zenon DEF SumFunction, Total
    <2> QED BY <2>1, <2>2
  <1>7. Total(f, Symbols) = Total(g, L)
    <2>1. Image(h, L) = Symbols
      BY <1>2 DEF Image
    <2>2. \A n \in L : f[h[n]] \in Nat /\ g[n] = f[h[n]]
      <3> SUFFICES ASSUME NEW n \in L PROVE f[h[n]] \in Nat /\ g[n] = f[h[n]]
        OBVIOUS
      <3>1. p[n].c \in Symbols /\ h[n] = p[n].c
        BY <1>2
      <3>2. g[n] = P[d - lens[p[n].c]]
        OBVIOUS
      <3> HIDE DEF f, g, h
      <3> QED BY <3>1, <3>2, <1>4
    <2>3. \A n, m \in L : h[n] = h[m] => n = m
      BY <1>2
    <2> HIDE DEF f, g, h
    <2>4. Total(f, Image(h, L)) = Total(g, L)
      BY <1>1, <2>2, <2>3, TotalOfImages
    <2> QED BY <2>1, <2>4
  <1>8. Total(g, L) = P[d]
    BY <1>6, <1>7
  <1> QED BY <1>5, <1>8 DEF Kraft, L

\* The codes read off the tree take no more bits than any others.
LEMMA CodesAreBest ==
  ASSUME WholeInv, LightInv, phase = "merge", Len(qq) = 1,
         NEW d, d = Cardinality(Symbols), NEW lens \in [Symbols -> 0 .. d],
         SumFunction([c \in Symbols |-> Power(d)[d - lens[c]]]) = Power(d)[d]
  PROVE  Cost([c \in Symbols |-> Len(CodeOfLeaf[c])]) <= Cost(lens)
  <1> DEFINE L == Leaves(pool)
             w == Weights(pool)
             path == Path(pool, Root)
             depth == [n \in DOMAIN pool |-> Len(path[n])]
             coded == [c \in Symbols |-> Len(CodeOfLeaf[c])]
             k == [n \in L |-> lens[pool[n].c]]
  <1>1. /\ s \in Arrays /\ pool \in Seq(Node) /\ qq \in Seq(DOMAIN pool) /\ OfSymbols(pool)
        /\ \A c \in Symbols : \E n \in DOMAIN pool : LeafOf(pool, c, n)
    BY DEF WholeInv, CoderInv, HeapInv, Pool, LightInv
  <1>2. PICK M : Best(pool, Queued(qq), M)
    BY DEF LightInv
  <1>3. Queued(qq) = {Root} /\ Root \in DOMAIN pool
    <2>1. 1 .. Len(qq) = {1} /\ qq[1] \in DOMAIN pool
      <3>1. 1 .. 1 = {1}
        OBVIOUS
      <3>2. qq \in [1 .. Len(qq) -> DOMAIN pool]
        BY <1>1, LenProperties
      <3> QED BY <3>1, <3>2
    <2>2. Queued(qq) = {qq[1]}
      BY <2>1 DEF Queued
    <2> QED BY <2>1, <2>2 DEF Root
  <1>4. Best(pool, {Root}, M)
    BY <1>2, <1>3
  <1>5. LeafPerSymbol(pool)
    BY <1>1 DEF LeafPerSymbol, Leaves, LeafOf
  <1>6. d \in Nat /\ Doubling(Power(d), d)
    BY <1>1, SymbolFacts, PowersDouble
  <1>7. Coding(pool, Root, s, CodeOfLeaf)
    BY TreeIsCoded
  <1>8. Paths(pool, Root, path)
    BY <1>7, CodingFacts
  <1>9. Depths(pool, depth) /\ depth[Root] = 0
    <2>1. /\ path \in [DOMAIN pool -> Seq({0, 1})] /\ path[Root] = <<>>
          /\ \A n \in Inner(pool) : /\ path[pool[n].left] = Append(path[n], 0)
                                    /\ path[pool[n].right] = Append(path[n], 1)
      BY <1>8 DEF Paths
    <2>2. Family(pool, Root)
      BY <1>7, CodingFacts
    <2>3. \A n \in Inner(pool) : /\ n \in DOMAIN pool
                                 /\ pool[n].left \in DOMAIN pool /\ pool[n].right \in DOMAIN pool
      BY <2>2 DEF Family, Inner
    <2> HIDE DEF path
    <2>4. \A n \in DOMAIN pool : path[n] \in Seq({0, 1}) /\ Len(path[n]) \in Nat
      BY <2>1
    <2>5. depth \in [DOMAIN pool -> Nat]
      BY <2>4
    <2>6. ASSUME NEW n \in Inner(pool)
          PROVE  depth[pool[n].left] = depth[n] + 1 /\ depth[pool[n].right] = depth[n] + 1
      <3>1. /\ Len(Append(path[n], 0)) = Len(path[n]) + 1
            /\ Len(Append(path[n], 1)) = Len(path[n]) + 1
        BY <2>3, <2>4
      <3> QED BY <3>1, <2>1, <2>3
    <2>7. depth[Root] = 0
      BY <2>1, <1>3
    <2> QED BY <2>5, <2>6, <2>7 DEF Depths
  <1>10. /\ IsFiniteSet(L) /\ L \subseteq DOMAIN pool
         /\ \A n \in DOMAIN pool : w[n] \in Nat
    BY <1>1, WeightFacts
  <1> HIDE DEF w, L
  <1>11. Bits(w, {Root}, depth) = 0
    <2> DEFINE g == [z \in {Root} |-> w[z] * depth[z]]
    <2>1. g[Root] = 0
      BY <1>3, <1>9, <1>10
    <2> HIDE DEF g
    <2>2. IsFiniteSet({Root}) /\ Root \in {Root} /\ {Root} \ {Root} = {}
      BY FS_Singleton
    <2>3. \A e \in {Root} : g[e] \in Nat
      BY <2>1
    <2>4. Total(g, {Root}) = g[Root] + Total(g, {Root} \ {Root})
      BY <2>2, <2>3, TotalFacts
    <2>5. Total(g, {Root} \ {Root}) = 0
      <3>1. Total(g, {}) = 0
        BY TotalOfNone
      <3> QED BY ONLY <3>1, <2>2, Zenon
    <2>6. Total(g, {Root}) = 0
      BY <2>1, <2>2, <2>4, <2>5
    <2> QED BY <2>6 DEF Bits, g
  <1>12. M \in Nat /\ Bits(w, L, depth) = M
    <2>1. M \in Nat /\ Bits(w, L, depth) = Bits(w, {Root}, depth) + M
      BY <1>4, <1>9 DEF Best, Pays, w, L
    <2> QED BY <2>1, <1>11
  <1>13. Kraft(Power(d), k, L, d)
    BY <1>1, <1>5, <1>6, KraftOfLeaves DEF L
  <1>14. M <= Bits(w, L, k)
    <2>1. Bound(w, L, {Root}, M)
      BY <1>4 DEF Best, w, L
    <2> HIDE DEF k
    <2> DEFINE Fits(l) == /\ Bits(w, {Root}, l) \in Nat /\ Bits(w, L, k) \in Nat
                          /\ Bits(w, {Root}, l) + M <= Bits(w, L, k)
    <2>2. PICK D \in 0 .. d : \E l : Fits(l)
      BY <2>1, <1>6, <1>13 DEF Bound
    <2>3. PICK l : Fits(l)
      BY <2>2
    <2> QED BY <2>3, <1>12
  <1>15. Cost(lens) = Bits(w, L, k)
    <2>1. lens \in [Symbols -> Nat]
      BY <1>6
    <2>2. \A n \in Leaves(pool) : k[n] = lens[pool[n].c]
      BY DEF L
    <2> HIDE DEF k
    <2> QED BY <2>1, <2>2, <1>1, <1>5, CostIsBits DEF w, L
  <1>16. Cost(coded) = Bits(w, L, depth)
    <2>1. ASSUME NEW n \in Leaves(pool)
          PROVE  pool[n].c \in Symbols /\ CodeOfLeaf[pool[n].c] = path[n] /\ n \in DOMAIN pool
      <3> DEFINE c == pool[n].c
      <3>1. c \in Symbols /\ n \in DOMAIN pool /\ IsLeaf(pool[n])
        BY <1>1 DEF OfSymbols, Leaves
      <3>2. PICK i \in 1 .. Len(s) : s[i] = c
        BY <3>1, <1>1, SymbolFacts DEF Symbols
      <3>3. /\ LeafFor(pool, c) \in DOMAIN pool /\ LeafOf(pool, c, LeafFor(pool, c))
            /\ CodeOfLeaf[c] = path[LeafFor(pool, c)]
        BY <1>7, <3>2 DEF Coding
      <3>4. LeafFor(pool, c) = n
        BY <3>1, <3>3, <1>1 DEF OfSymbols, Leaves, LeafOf
      <3> QED BY <3>1, <3>3, <3>4
    <2>2. \A n \in Leaves(pool) : depth[n] = coded[pool[n].c]
      <3> HIDE DEF path
      <3> QED BY <2>1
    <2>3. coded \in [Symbols -> Nat]
      <3> SUFFICES ASSUME NEW c \in Symbols PROVE Len(CodeOfLeaf[c]) \in Nat
        OBVIOUS
      <3>1. PICK n \in Leaves(pool) : pool[n].c = c
        BY <1>5 DEF LeafPerSymbol
      <3>2. CodeOfLeaf[c] \in Seq({0, 1})
        BY <2>1, <3>1, <1>8 DEF Paths
      <3> QED BY <3>2
    <2> HIDE DEF depth, coded
    <2> QED BY <2>2, <2>3, <1>1, <1>5, CostIsBits DEF w, L
  <1> QED BY <1>12, <1>14, <1>15, <1>16

\* What OptimalCode says of an array and the codes of its symbols.
BestOf(a, c) ==
  LET S == {a[i] : i \in DOMAIN a}
      d == Cardinality(S)
      cost(lens) == SumFunction([k \in DOMAIN a |-> lens[a[k]]])
  IN  d > 1 =>
        \A lens \in [S -> 1 .. d - 1] :
          SumFunction([x \in S |-> Power(d)[d - lens[x]]]) = Power(d)[d]
            => cost([x \in S |-> Len(c[x])]) <= cost(lens)

\* What is found when the codes are made.
LEMMA BuildsBest == WholeInv /\ LightInv /\ BuildCode => OptimalCode'
  <1> SUFFICES ASSUME WholeInv, LightInv, BuildCode PROVE OptimalCode'
    OBVIOUS
  <1>1. phase = "merge" /\ Len(qq) = 1 /\ s' = s /\ code' = CodeOfLeaf
    BY DEF BuildCode
  <1> DEFINE d == Cardinality(Symbols)
  <1>3. d \in Nat
    BY SymbolFacts DEF WholeInv, CoderInv
  <1>4. ASSUME d > 1, NEW lens \in [Symbols -> 1 .. d - 1],
               SumFunction([c \in Symbols |-> Power(d)[d - lens[c]]]) = Power(d)[d]
        PROVE  Cost([c \in Symbols |-> Len(CodeOfLeaf[c])]) <= Cost(lens)
    <2>1. lens \in [Symbols -> 0 .. d]
      BY <1>3
    <2> QED BY <2>1, <1>1, <1>4, CodesAreBest
  <1>5. BestOf(s, CodeOfLeaf)
    BY <1>4, Zenon DEF BestOf, Cost, Symbols
  <1>6. BestOf(s', code')
    BY <1>1, <1>5
  <1> QED BY <1>6, Zenon DEF OptimalCode, BestOf, Power, Cost, Symbols

\* Until the codes are made there are the queue and the tree that grows.
Growing == phase \in {"leaves", "merge"} => WholeInv /\ LightInv

\* They do, whatever the codes are: none is written before.
LEMMA GrowingHolds == CoderSpec => []Growing
  <1>1. CoderInit => Growing
    BY InitWhole, InitLight DEF Growing
  <1>2. Growing /\ [CoderNext]_coding => Growing'
    <2> SUFFICES ASSUME Growing, [CoderNext]_coding, phase' \in {"leaves", "merge"}
                 PROVE  WholeInv' /\ LightInv'
      BY DEF Growing
    <2>1. CASE InsertLeaf \/ Merge
      <3>1. phase \in {"leaves", "merge"}
        BY <2>1 DEF InsertLeaf, Merge
      <3>2. WholeInv /\ LightInv
        BY <3>1 DEF Growing
      <3>3. WholeInv'
        BY <3>1, <3>2, StepKeepsWhole DEF OneWord
      <3>4. LightInv'
        BY <3>2, <2>1, InsertLeafLight, MergeLight
      <3> QED BY <3>3, <3>4
    <2>2. CASE BuildCode \/ WriteTree \/ EncodeSymbol \/ CloseSegment \/ ReadTree
               \/ DecodeConstant \/ DecodeBit
      <3>1. phase' \in {"code", "encode", "rebuild", "decode", "done"}
        BY <2>2 DEF BuildCode, WriteTree, EncodeSymbol, CloseSegment, ReadTree,
                    DecodeConstant, DecodeBit
      <3> QED BY <3>1
    <2>3. CASE UNCHANGED coding
      <3>1. s' = s /\ phase' = phase /\ pool' = pool /\ qq' = qq
        BY <2>3 DEF coding
      <3>2. WholeInv /\ LightInv
        BY <3>1 DEF Growing
      <3>3. WholeInv'
        BY <3>1, <3>2, StepKeepsWhole DEF OneWord
      <3>4. LightInv'
        <4>1. Symbols' = Symbols /\ \A c : freq(c)' = freq(c)
          BY <3>1 DEF Symbols, freq
        <4> QED BY <3>1, <3>2, <4>1 DEF LightInv, OfSymbols
      <3> QED BY <3>3, <3>4
    <2> QED BY <2>1, <2>2, <2>3 DEF CoderNext, Encode, Decode, Coded
  <1> QED BY <1>1, <1>2, PTL DEF CoderSpec

\* Built of the two lightest nodes each time, the tree gives a shortest code: no
\* lengths that satisfy Kraft's equality cost less on the array.
THEOREM CodeIsOptimal == CoderSpec => []OptimalCode
  <1>1. CoderInit => OptimalCode
    BY DEF CoderInit, OptimalCode
  <1>2. Growing /\ OptimalCode /\ [CoderNext]_coding => OptimalCode'
    <2> SUFFICES ASSUME Growing, OptimalCode, [CoderNext]_coding PROVE OptimalCode'
      OBVIOUS
    <2>1. CASE BuildCode
      <3>1. phase = "merge"
        BY <2>1 DEF BuildCode
      <3> QED BY <3>1, <2>1, BuildsBest DEF Growing
    <2>2. CASE InsertLeaf \/ Merge \/ WriteTree \/ EncodeSymbol \/ CloseSegment \/ ReadTree
               \/ DecodeConstant \/ DecodeBit
      <3>1. phase' \in {"leaves", "merge", "encode", "rebuild", "decode", "done"}
        BY <2>2 DEF InsertLeaf, Merge, WriteTree, EncodeSymbol, CloseSegment, ReadTree,
                    DecodeConstant, DecodeBit
      <3> QED BY <3>1 DEF OptimalCode
    <2>3. CASE UNCHANGED coding
      <3>1. s' = s /\ phase' = phase /\ code' = code
        BY <2>3 DEF coding
      <3> SUFFICES ASSUME phase' = "code" PROVE OptimalCode'
        BY DEF OptimalCode
      <3>2. BestOf(s, code)
        BY <3>1, Zenon DEF OptimalCode, BestOf, Power, Cost, Symbols
      <3>3. BestOf(s', code')
        BY <3>1, <3>2
      <3> QED BY <3>3, Zenon DEF OptimalCode, BestOf, Power, Cost, Symbols
    <2> QED BY <2>1, <2>2, <2>3 DEF CoderNext, Encode, Decode, Coded
  <1> QED BY <1>1, <1>2, GrowingHolds, PTL DEF CoderSpec

----------------------------------------------------------------------------
(* Codes fit in a word.                                                     *)

\* Every element of the array is in the weight of one leaf.
LEMMA LeavesWeighAll ==
  ASSUME s \in Arrays, NEW p \in Seq(Node), LeafPerSymbol(p)
  PROVE  Total(Weights(p), Leaves(p)) = Len(s)
  <1> DEFINE L == Leaves(p)
             w == Weights(p)
             ones == [c \in Symbols |-> 1]
             k == [n \in L |-> 1]
             e == [i \in DOMAIN s |-> ones[s[i]]]
             g == [n \in L |-> w[n] * k[n]]
  <1>1. /\ Len(s) \in Nat /\ DOMAIN s = 1 .. Len(s) /\ IsFiniteSet(DOMAIN s)
        /\ s \in [DOMAIN s -> Symbols]
    BY SymbolFacts
  <1>2. /\ IsFiniteSet(L) /\ L \subseteq DOMAIN p
        /\ \A n \in DOMAIN p : w[n] = p[n].freq /\ w[n] \in Nat
    BY WeightFacts
  <1>3. Cost(ones) = Len(s)
    <2>1. \A i \in DOMAIN s : e[i] = 1
      BY <1>1
    <2>2. DOMAIN e = DOMAIN s
      OBVIOUS
    <2>3. Cost(ones) = SumFunction(e)
      BY Zenon DEF Cost
    <2>4. SumFunction(e) = Total(e, DOMAIN e)
      BY Zenon DEF SumFunction, Total
    <2> HIDE DEF e, ones
    <2>5. Total(e, DOMAIN s) = Cardinality(DOMAIN s)
      BY <2>1, <1>1, TotalOfOnes
    <2>6. Cardinality(DOMAIN s) = Len(s)
      <3>1. PICK m \in Nat : m = Len(s)
        BY <1>1
      <3>2. Cardinality(1 .. m) = m
        BY FS_Interval
      <3> QED BY <3>1, <3>2, <1>1
    <2> QED BY <2>2, <2>3, <2>4, <2>5, <2>6
  <1>4. Cost(ones) = Bits(w, L, k)
    <2>1. ones \in [Symbols -> Nat]
      OBVIOUS
    <2>2. \A n \in L : k[n] = ones[p[n].c]
      BY DEF LeafPerSymbol, OfSymbols
    <2> HIDE DEF ones, k
    <2> QED BY <2>1, <2>2, CostIsBits
  <1>5. Bits(w, L, k) = Total(w, L)
    <2>1. ASSUME NEW n \in L PROVE g[n] = w[n] /\ g[n] \in Nat
      BY <1>2
    <2>2. Bits(w, L, k) = Total(g, L)
      BY DEF Bits
    <2> HIDE DEF g, w, L, k
    <2> QED BY <2>1, <2>2, <1>2, TotalAgrees
  <1> QED BY <1>3, <1>4, <1>5

\* No array has as many elements as a code of more than a word takes.
ShortArrays == \E F : /\ Fibonacci(F, WordBits + 1)
                /\ \A a \in Arrays : Len(a) < F[WordBits + 1]

\* The codes are then no longer than a word.
LEMMA CodesFitWord ==
  ASSUME ShortArrays, WholeInv, LightInv, phase = "merge", Len(qq) = 1
  PROVE  \A c \in Symbols : Len(CodeOfLeaf[c]) <= WordBits
  <1> DEFINE N == WordBits + 1
             path == Path(pool, Root)
  <1> SUFFICES ASSUME NEW c \in Symbols PROVE Len(CodeOfLeaf[c]) <= WordBits
    OBVIOUS
  <1>1. /\ s \in Arrays /\ pool \in Seq(Node) /\ qq \in Seq(DOMAIN pool) /\ OfSymbols(pool)
        /\ Uncles(pool, Queued(qq))
        /\ \A d \in Symbols : \E n \in DOMAIN pool : LeafOf(pool, d, n)
    BY DEF WholeInv, CoderInv, HeapInv, Pool, LightInv
  <1>2. Queued(qq) = {Root} /\ Root \in DOMAIN pool
    <2>1. 1 .. Len(qq) = {1} /\ qq[1] \in DOMAIN pool
      <3>1. 1 .. 1 = {1}
        OBVIOUS
      <3>2. qq \in [1 .. Len(qq) -> DOMAIN pool]
        BY <1>1, LenProperties
      <3> QED BY <3>1, <3>2
    <2>2. Queued(qq) = {qq[1]}
      BY <2>1 DEF Queued
    <2> QED BY <2>1, <2>2 DEF Root
  <1>3. LeafPerSymbol(pool)
    BY <1>1 DEF LeafPerSymbol, Leaves, LeafOf
  <1>4. WordBits \in Nat /\ Len(s) \in Nat
    <2>1. \A x, y \in Nat : x * y \in Nat
      OBVIOUS
    <2> QED BY <2>1, <1>1, PackerAssumption, SymbolFacts DEF WordBits
  \* The root is all that is left, so it weighs as much as the array has elements.
  <1>5. pool[Root].freq = Len(s)
    <2>1. Total(Weights(pool), {Root}) = Len(s)
      BY <1>1, <1>2, <1>3, LeavesWeighAll DEF Uncles
    <2>2. Weights(pool)[Root] = pool[Root].freq /\ Weights(pool)[Root] \in Nat
      BY <1>1, <1>2, WeightFacts
    <2> DEFINE w == Weights(pool)
    <2> HIDE DEF w
    <2>3. IsFiniteSet({Root}) /\ Root \in {Root} /\ {Root} \ {Root} = {}
      BY FS_Singleton
    <2>4. \A e \in {Root} : w[e] \in Nat
      BY <2>2 DEF w
    <2>5. Total(w, {Root}) = w[Root] + Total(w, {Root} \ {Root})
      BY <2>3, <2>4, TotalFacts
    <2>6. Total(w, {Root} \ {Root}) = 0
      <3>1. Total(w, {}) = 0
        BY TotalOfNone
      <3> QED BY ONLY <3>1, <2>3, Zenon
    <2> QED BY <2>1, <2>2, <2>5, <2>6 DEF w
  <1>6. PICK F : Fibonacci(F, N) /\ Len(s) < F[N]
    BY <1>1 DEF ShortArrays
  <1>7. Coding(pool, Root, s, CodeOfLeaf)
    BY TreeIsCoded
  <1>8. /\ Family(pool, Root) /\ Paths(pool, Root, path)
    BY <1>7, CodingFacts
  <1>9. PICK x \in DOMAIN pool : CodeOfLeaf[c] = path[x]
    <2>1. PICK i \in 1 .. Len(s) : s[i] = c
      BY <1>1, SymbolFacts DEF Symbols
    <2> QED BY <2>1, <1>7 DEF Coding
  <1>10. path[Root] = <<>> /\ Len(path[Root]) = 0 /\ Len(path[x]) \in Nat
    <2>1. path[Root] = <<>> /\ path[x] \in Seq({0, 1})
      BY <1>8, <1>9 DEF Paths
    <2> HIDE DEF path
    <2> QED BY <2>1
  <1>11. Root \in Line(pool, Root, x)
    BY <1>8, LineFacts
  <1>12. Len(path[Root]) + N <= Len(path[x]) => F[N] <= pool[Root].freq
    <2>1. \A v \in Line(pool, Root, x) : \A j \in 0 .. N :
            Len(path[v]) + j <= Len(path[x]) => F[j] <= pool[v].freq
      BY <1>1, <1>6, <1>8, LineIsHeavy
    <2>2. N \in 0 .. N
      BY <1>4
    <2> HIDE DEF N, path
    <2> QED BY <2>1, <2>2, <1>11
  <1>13. F[N] \in Nat
    <2>1. F \in [0 .. N -> Nat] /\ N \in 0 .. N
      BY <1>4, <1>6 DEF Fibonacci
    <2> HIDE DEF N
    <2> QED BY <2>1
  <1>14. ~(Len(path[Root]) + N <= Len(path[x]))
    <2> HIDE DEF N, path
    <2> QED BY <1>4, <1>5, <1>6, <1>12, <1>13
  <1> HIDE DEF path
  <1> QED BY <1>4, <1>9, <1>10, <1>14

\* A code of more than a word takes a leaf that deep, and the nodes above it weigh as
\* much as the Fibonacci numbers: no array has that many elements.
THEOREM CodesAreShort == ShortArrays /\ CoderSpec => []OneWord
  <1> DEFINE Fit == phase \in {"code", "encode"} =>
                      \A c \in Symbols : Len(code[c]) <= WordBits
             J == ShortArrays /\ Fit
  <1>1. ShortArrays /\ CoderInit => J
    BY DEF CoderInit
  <1>2. Growing /\ J /\ [CoderNext]_coding => J'
    <2> SUFFICES ASSUME Growing, ShortArrays, Fit, [CoderNext]_coding PROVE Fit'
      BY DEF ShortArrays, Fibonacci
    <2>1. CASE BuildCode
      <3>1. phase = "merge" /\ Len(qq) = 1 /\ s' = s /\ code' = CodeOfLeaf
        BY <2>1 DEF BuildCode
      <3>2. Symbols' = Symbols
        BY <3>1 DEF Symbols
      <3>3. \A c \in Symbols : Len(CodeOfLeaf[c]) <= WordBits
        BY <3>1, CodesFitWord DEF Growing
      <3> QED BY <3>1, <3>2, <3>3
    <2>2. CASE WriteTree \/ EncodeSymbol \/ UNCHANGED coding
      <3>1. /\ phase' \in {"code", "encode"} => phase \in {"code", "encode"}
            /\ s' = s /\ code' = code
        BY <2>2 DEF WriteTree, EncodeSymbol, coding
      <3>2. Symbols' = Symbols
        BY <3>1 DEF Symbols
      <3> QED BY <3>1, <3>2
    <2>3. CASE InsertLeaf \/ Merge \/ CloseSegment \/ ReadTree \/ DecodeConstant \/ DecodeBit
      <3>1. phase' \in {"leaves", "merge", "rebuild", "decode", "done"}
        BY <2>3 DEF InsertLeaf, Merge, CloseSegment, ReadTree, DecodeConstant, DecodeBit
      <3> QED BY <3>1
    <2> QED BY <2>1, <2>2, <2>3 DEF CoderNext, Encode, Decode, Coded
  <1>3. J => OneWord
    BY DEF OneWord
  <1> QED BY <1>1, <1>2, <1>3, GrowingHolds, PTL DEF CoderSpec

\* Arrays of fewer elements than that are packed, read and decoded as they were.
THEOREM ShortArraysSurvive ==
  ShortArrays /\ CoderSpec =>
    [](PackedCodes /\ ReadsInsideSegment /\ (phase = "done" => decoder.out = s))
  BY CodesAreShort, CodesArePacked, ReadsStayInside, DecodesTheArray, PTL
=============================================================================
