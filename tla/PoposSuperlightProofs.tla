----------------------- MODULE PoposSuperlightProofs -----------------------
(***************************************************************************)
(* Proofs about Merkle trees and mountain ranges of every size and degree: *)
(* what provers build is what clients check, and peaks commit a prover to  *)
(* its leaves.  Then the superlight client: whatever the other provers     *)
(* answer, the honest ones win the tournament.                             *)
(***************************************************************************)
EXTENDS MCMerkleMountainRange, PoposSuperlight, SequenceTheorems, WellFoundedInduction, TLAPS

-----------------------------------------------------------------------------
(* Induction over the natural numbers, for sets.                           *)

Less == {pair \in Nat \X Nat : pair[1] < pair[2]}

\* The order of the natural numbers has no infinite descent.
LEMMA LessWellFounded == IsWellFoundedOn(Less, Nat)
<1>1. Less = OpToRel(<, Nat)
  BY DEF Less, OpToRel
<1> QED
  BY <1>1, NatLessThanWellFounded

\* A set of numbers that has a number when it has all smaller ones.
LEMMA StrongInduction ==
  ASSUME NEW S, \A m \in Nat : (\A k \in 0 .. m - 1 : k \in S) => m \in S
  PROVE  Nat \subseteq S
<1> DEFINE T == Nat \ S
<1> SUFFICES ASSUME T # {} PROVE FALSE
  OBVIOUS
<1>1. PICK x \in T : \A y \in T : ~ (<<y, x>> \in Less)
  <2> HIDE DEF T
  <2>1. T \subseteq Nat
    BY DEF T
  <2> QED
    BY <2>1, LessWellFounded, WFMin
<1>2. PICK k \in 0 .. x - 1 : k \in T
  BY <1>1
<1>3. <<k, x>> \in Less
  BY <1>1, <1>2 DEF Less
<1> QED
  BY <1>1, <1>2, <1>3

\* Induction, for a set that holds 0 and with each number the next.
LEMMA SetInduction ==
  ASSUME NEW S, 0 \in S, \A k \in Nat : k \in S => k + 1 \in S
  PROVE  Nat \subseteq S
<1>1. ASSUME NEW m \in Nat, \A k \in 0 .. m - 1 : k \in S PROVE m \in S
  <2>1. CASE m = 0
    BY <2>1
  <2>2. CASE m # 0
    <3>1. m - 1 \in Nat /\ m - 1 \in S /\ (m - 1) + 1 = m
      BY <1>1, <2>2
    <3> QED
      BY <3>1
  <2> QED
    BY <2>1, <2>2
<1> QED
  BY <1>1, StrongInduction

-----------------------------------------------------------------------------
(* Powers and logarithms.                                                  *)

Degrees == Nat \ {0, 1}

PowerOf(deg, m) ==
  CHOOSE power : power = [j \in 0 .. m |-> IF j = 0 THEN 1 ELSE deg * power[j - 1]]

\* n ** k is the value of Power's recursive function.
LEMMA PowerIs == \A deg, k : Power(deg, k) = PowerOf(deg, k)[k]
  BY DEF Power, PowerOf

\* The recursive definition of Power has a solution.
LEMMA PowerSolved ==
  ASSUME NEW deg, NEW m \in Nat
  PROVE  PowerOf(deg, m) = [j \in 0 .. m |-> IF j = 0 THEN 1 ELSE deg * PowerOf(deg, m)[j - 1]]
<1> DEFINE Solves(g, k) == g = [j \in 0 .. k |-> IF j = 0 THEN 1 ELSE deg * g[j - 1]]
           S == {k \in Nat : \E g : Solves(g, k)}
<1>1. 0 \in S
  <2> DEFINE g == [j \in 0 .. 0 |-> 1]
  <2>1. Solves(g, 0)
    OBVIOUS
  <2> QED
    BY <2>1
<1>2. ASSUME NEW k \in Nat, k \in S PROVE k + 1 \in S
  <2>1. PICK g : Solves(g, k)
    BY <1>2
  <2> DEFINE h == [j \in 0 .. k + 1 |-> IF j = k + 1 THEN deg * g[k] ELSE g[j]]
             hh == [j \in 0 .. k + 1 |-> IF j = 0 THEN 1 ELSE deg * h[j - 1]]
  <2>2. ASSUME NEW j \in 0 .. k + 1 PROVE h[j] = hh[j]
    <3>1. CASE j = k + 1
      <4>1. j - 1 = k /\ j # 0 /\ k # k + 1 /\ k \in 0 .. k + 1
        BY <3>1
      <4>2. h[j] = deg * g[k] /\ h[k] = g[k] /\ hh[j] = deg * h[j - 1]
        BY <3>1, <4>1
      <4> QED
        BY <4>1, <4>2
    <3>2. CASE j \in 0 .. k
      <4>1. h[j] = g[j] /\ (j # 0 => h[j - 1] = g[j - 1])
        BY <3>2
      <4>2. g[j] = IF j = 0 THEN 1 ELSE deg * g[j - 1]
        BY <2>1, <3>2
      <4> QED
        BY <4>1, <4>2
    <3> QED
      BY <3>1, <3>2
  <2>3. h = hh
    BY <2>2
  <2>4. \E f : Solves(f, k + 1)
    BY <2>3
  <2> HIDE DEF Solves
  <2> QED
    BY <2>4
<1>3. m \in S
  <2> HIDE DEF S
  <2> QED
    BY <1>1, <1>2, SetInduction
<1> QED
  BY <1>3 DEF PowerOf

\* n ** 0
LEMMA PowerZero == \A deg : Power(deg, 0) = 1
<1> SUFFICES ASSUME NEW deg PROVE Power(deg, 0) = 1
  OBVIOUS
<1>1. PowerOf(deg, 0)[0] = 1
  BY PowerSolved
<1> QED
  BY <1>1, PowerIs

\* n ** (k + 1)
LEMMA PowerStep ==
  ASSUME NEW deg, NEW k \in Nat
  PROVE  Power(deg, k + 1) = deg * Power(deg, k)
<1> DEFINE f == PowerOf(deg, k + 1)
           g == PowerOf(deg, k)
           S == {j \in Nat : j <= k => f[j] = g[j]}
<1>1. f = [j \in 0 .. k + 1 |-> IF j = 0 THEN 1 ELSE deg * f[j - 1]]
  BY PowerSolved
<1>2. g = [j \in 0 .. k |-> IF j = 0 THEN 1 ELSE deg * g[j - 1]]
  BY PowerSolved
<1> HIDE DEF f, g
<1>3. 0 \in S
  BY <1>1, <1>2
<1>4. ASSUME NEW j \in Nat, j \in S PROVE j + 1 \in S
  <2> SUFFICES ASSUME j + 1 <= k PROVE f[j + 1] = g[j + 1]
    OBVIOUS
  <2>1. PICK i \in 0 .. k : i = j + 1 /\ i # 0 /\ i - 1 = j
    OBVIOUS
  <2>2. f[i] = deg * f[i - 1] /\ g[i] = deg * g[i - 1]
    BY <1>1, <1>2, <2>1
  <2> QED
    BY <1>4, <2>1, <2>2
<1>5. k \in S
  <2> HIDE DEF S
  <2> QED
    BY <1>3, <1>4, SetInduction
<1>6. PICK i \in 0 .. k + 1 : i = k + 1 /\ i # 0 /\ i - 1 = k
  OBVIOUS
<1>7. f[i] = deg * f[k]
  BY <1>1, <1>6
<1> QED
  BY <1>5, <1>6, <1>7, PowerIs DEF f, g

\* Powers are positive numbers.
LEMMA PowerNat ==
  ASSUME NEW deg \in Degrees, NEW k \in Nat
  PROVE  Power(deg, k) \in Nat \ {0} /\ k < Power(deg, k)
<1> DEFINE S == {j \in Nat : Power(deg, j) \in Nat \ {0} /\ j < Power(deg, j)}
<1>1. 0 \in S
  BY PowerZero
<1>2. ASSUME NEW j \in Nat, j \in S PROVE j + 1 \in S
  <2>1. PICK q \in Nat \ {0} : q = Power(deg, j) /\ j < q
    BY <1>2
  <2>2. deg * q \in Nat /\ 2 * q <= deg * q
    BY SMT DEF Degrees
  <2>3. Power(deg, j + 1) = deg * q
    BY <2>1, PowerStep
  <2> QED
    BY <2>1, <2>2, <2>3
<1>3. k \in S
  <2> HIDE DEF S
  <2> QED
    BY <1>1, <1>2, SetInduction
<1> QED
  BY <1>3

\* Powers grow with the exponent.
LEMMA PowerMonotone ==
  ASSUME NEW deg \in Degrees, NEW j \in Nat, NEW k \in Nat, j <= k
  PROVE  Power(deg, j) <= Power(deg, k)
<1> DEFINE S == {d \in Nat : Power(deg, j) <= Power(deg, j + d)}
<1>1. 0 \in S
  BY PowerNat
<1>2. ASSUME NEW d \in Nat, d \in S PROVE d + 1 \in S
  <2>1. PICK q \in Nat \ {0} : q = Power(deg, j + d)
    BY PowerNat
  <2>2. deg * q \in Nat /\ q <= deg * q
    BY SMT DEF Degrees
  <2>3. Power(deg, (j + d) + 1) = deg * q /\ (j + d) + 1 = j + (d + 1)
    BY <2>1, PowerStep
  <2>4. Power(deg, j) \in Nat
    BY PowerNat
  <2> QED
    BY <1>2, <2>1, <2>2, <2>3, <2>4
<1>3. k - j \in S
  <2> HIDE DEF S
  <2>1. k - j \in Nat
    OBVIOUS
  <2> QED
    BY <1>1, <1>2, <2>1, SetInduction
<1> QED
  BY <1>3

\* A number lies between two powers that follow each other, and only once.
LEMMA Between ==
  ASSUME NEW deg \in Degrees, NEW x \in Nat \ {0}
  PROVE  \E k \in 0 .. x : Power(deg, k) <= x /\ x < Power(deg, k + 1)
<1> SUFFICES ASSUME \A k \in 0 .. x : ~(Power(deg, k) <= x /\ x < Power(deg, k + 1))
             PROVE  FALSE
  OBVIOUS
<1> DEFINE S == {k \in Nat : k <= x => Power(deg, k) <= x}
<1>1. 0 \in S
  BY PowerZero
<1>2. ASSUME NEW k \in Nat, k \in S PROVE k + 1 \in S
  BY <1>2, PowerNat
<1>3. x \in S
  <2> HIDE DEF S
  <2> QED
    BY <1>1, <1>2, SetInduction
<1> QED
  BY <1>3, PowerNat

\* Only one power is the last one below a number.
LEMMA BetweenOnce ==
  ASSUME NEW deg \in Degrees, NEW x \in Nat, NEW j \in Nat, NEW k \in Nat,
         Power(deg, j) <= x, x < Power(deg, j + 1), Power(deg, k) <= x, x < Power(deg, k + 1)
  PROVE  j = k
<1>1. \A a, b \in Nat : a < b => Power(deg, a + 1) <= Power(deg, b)
  <2> SUFFICES ASSUME NEW a \in Nat, NEW b \in Nat, a < b PROVE Power(deg, a + 1) <= Power(deg, b)
    OBVIOUS
  <2>1. a + 1 \in Nat /\ a + 1 <= b
    OBVIOUS
  <2> QED
    BY <2>1, PowerMonotone
<1>2. /\ Power(deg, j) \in Nat /\ Power(deg, j + 1) \in Nat
      /\ Power(deg, k) \in Nat /\ Power(deg, k + 1) \in Nat
  BY PowerNat
<1> QED
  BY <1>1, <1>2

\* logFloor, by its definition.
LEMMA LogFloorIs ==
  ASSUME NEW deg \in Degrees, NEW x \in Nat \ {0}
  PROVE  /\ LogFloor(x, deg) \in 0 .. x
         /\ Power(deg, LogFloor(x, deg)) <= x /\ x < Power(deg, LogFloor(x, deg) + 1)
  BY Between DEF LogFloor

\* logFloor of a power is its exponent.
LEMMA LogFloorPower ==
  ASSUME NEW deg \in Degrees, NEW k \in Nat
  PROVE  LogFloor(Power(deg, k), deg) = k
<1>1. PICK x \in Nat \ {0} : x = Power(deg, k)
  BY PowerNat
<1>2. x < Power(deg, k + 1)
  <2>1. 2 * x <= deg * x /\ x < 2 * x /\ deg * x \in Nat
    BY SMT DEF Degrees
  <2> QED
    BY <1>1, <2>1, PowerStep
<1>3. PICK j \in Nat : j = LogFloor(x, deg) /\ Power(deg, j) <= x /\ x < Power(deg, j + 1)
  BY LogFloorIs
<1>4. j = k
  BY <1>1, <1>2, <1>3, BetweenOnce
<1> QED
  BY <1>1, <1>3, <1>4

-----------------------------------------------------------------------------
(* The sizes of trees.                                                     *)

TreeSize(m, deg) == Power(deg, LogFloor(m, deg))

\* The first tree takes at least one leaf, and no more than there are.
LEMMA TreeSizeIs ==
  ASSUME NEW deg \in Degrees, NEW m \in Nat \ {0}
  PROVE  /\ TreeSize(m, deg) \in 1 .. m /\ m - TreeSize(m, deg) \in 0 .. m - 1
         /\ LogFloor(m, deg) \in Nat
<1>1. LogFloor(m, deg) \in Nat /\ Power(deg, LogFloor(m, deg)) <= m
  BY LogFloorIs
<1>2. TreeSize(m, deg) \in Nat \ {0} /\ TreeSize(m, deg) <= m
  BY <1>1, PowerNat DEF TreeSize
<1> QED
  BY <1>1, <1>2

SizesUpTo(l, deg) ==
  CHOOSE sizes : sizes = [m \in 0 .. l |-> IF m = 0 THEN <<>>
                                           ELSE <<TreeSize(m, deg)>> \o sizes[m - TreeSize(m, deg)]]

\* The sizes are the value of PeakSizes' recursive function.
LEMMA PeakSizesIs == \A l, deg : PeakSizes(l, deg) = SizesUpTo(l, deg)[l]
  BY DEF PeakSizes, SizesUpTo, TreeSize

\* That function solves its equation.
LEMMA SizesSolved ==
  ASSUME NEW deg \in Degrees, NEW l \in Nat
  PROVE  SizesUpTo(l, deg) =
           [m \in 0 .. l |-> IF m = 0 THEN <<>>
                             ELSE <<TreeSize(m, deg)>> \o SizesUpTo(l, deg)[m - TreeSize(m, deg)]]
<1> DEFINE Solves(g, k) ==
             g = [m \in 0 .. k |-> IF m = 0 THEN <<>>
                                   ELSE <<TreeSize(m, deg)>> \o g[m - TreeSize(m, deg)]]
           S == {k \in Nat : \E g : Solves(g, k)}
<1>1. 0 \in S
  <2> DEFINE g == [m \in 0 .. 0 |-> <<>>]
  <2>1. Solves(g, 0)
    OBVIOUS
  <2> QED
    BY <2>1
<1>2. ASSUME NEW k \in Nat, k \in S PROVE k + 1 \in S
  <2>1. PICK g : Solves(g, k)
    BY <1>2
  <2> DEFINE h == [m \in 0 .. k + 1 |-> IF m \in 0 .. k THEN g[m]
                                        ELSE <<TreeSize(m, deg)>> \o g[m - TreeSize(m, deg)]]
             hh == [m \in 0 .. k + 1 |-> IF m = 0 THEN <<>>
                                         ELSE <<TreeSize(m, deg)>> \o h[m - TreeSize(m, deg)]]
  <2>2. ASSUME NEW m \in 0 .. k + 1 PROVE h[m] = hh[m]
    <3>1. CASE m = 0
      <4>1. g[0] = <<>>
        BY <2>1
      <4> QED
        BY <3>1, <4>1
    <3>2. CASE m # 0
      <4>1. PICK r \in 0 .. k : r = m - TreeSize(m, deg)
        BY <3>2, TreeSizeIs
      <4>2. h[r] = g[r]
        OBVIOUS
      <4>3. hh[m] = <<TreeSize(m, deg)>> \o h[r]
        BY <3>2, <4>1
      <4>4. m \in 0 .. k => g[m] = <<TreeSize(m, deg)>> \o g[r]
        BY <2>1, <3>2, <4>1
      <4>5. h[m] = <<TreeSize(m, deg)>> \o g[r]
        BY <4>1, <4>4
      <4> QED
        BY <4>2, <4>3, <4>5
    <3> QED
      BY <3>1, <3>2
  <2>3. h = hh
    BY <2>2
  <2>4. \E f : Solves(f, k + 1)
    BY <2>3
  <2> HIDE DEF Solves
  <2> QED
    BY <2>4
<1>3. l \in S
  <2> HIDE DEF S
  <2> QED
    BY <1>1, <1>2, SetInduction
<1> QED
  BY <1>3 DEF SizesUpTo

\* The sizes for fewer leaves are the same, wherever they are computed.
LEMMA SizesAgree ==
  ASSUME NEW deg \in Degrees, NEW l \in Nat, NEW k \in 0 .. l
  PROVE  SizesUpTo(l, deg)[k] = PeakSizes(k, deg)
<1> DEFINE f == SizesUpTo(l, deg)
           g == SizesUpTo(k, deg)
           S == {m \in Nat : m <= k => f[m] = g[m]}
<1>1. f = [m \in 0 .. l |-> IF m = 0 THEN <<>>
                            ELSE <<TreeSize(m, deg)>> \o f[m - TreeSize(m, deg)]]
  BY SizesSolved
<1>2. g = [m \in 0 .. k |-> IF m = 0 THEN <<>>
                            ELSE <<TreeSize(m, deg)>> \o g[m - TreeSize(m, deg)]]
  BY SizesSolved
<1> HIDE DEF f, g
<1>3. ASSUME NEW m \in Nat, \A j \in 0 .. m - 1 : j \in S PROVE m \in S
  <2> SUFFICES ASSUME m <= k PROVE f[m] = g[m]
    OBVIOUS
  <2>1. CASE m = 0
    BY <1>1, <1>2, <2>1
  <2>2. CASE m # 0
    <3>1. PICK r \in 0 .. m - 1 : r = m - TreeSize(m, deg)
      BY <2>2, TreeSizeIs
    <3>2. m \in 0 .. l /\ m \in 0 .. k
      OBVIOUS
    <3>4. f[m] = <<TreeSize(m, deg)>> \o f[r]
      BY <1>1, <2>2, <3>1, <3>2
    <3>5. g[m] = <<TreeSize(m, deg)>> \o g[r]
      BY <1>2, <2>2, <3>1, <3>2
    <3>3. f[r] = g[r]
      BY <1>3, <3>1
    <3> QED
      BY <3>3, <3>4, <3>5
  <2> QED
    BY <2>1, <2>2
<1>4. k \in S
  <2> HIDE DEF S
  <2> QED
    BY <1>3, StrongInduction
<1> QED
  BY <1>4, PeakSizesIs DEF f, g

\* No leaves, no trees.
LEMMA SizesZero == \A deg \in Degrees : PeakSizes(0, deg) = <<>>
<1> SUFFICES ASSUME NEW deg \in Degrees PROVE PeakSizes(0, deg) = <<>>
  OBVIOUS
<1> DEFINE f == SizesUpTo(0, deg)
<1>2. f = [m \in 0 .. 0 |-> IF m = 0 THEN <<>>
                            ELSE <<TreeSize(m, deg)>> \o f[m - TreeSize(m, deg)]]
  BY SizesSolved
<1>1. f[0] = <<>>
  <2> HIDE DEF f
  <2> QED
    BY <1>2
<1> QED
  BY <1>1, PeakSizesIs

\* The first tree, then those for the leaves that are left.
LEMMA SizesStep ==
  ASSUME NEW deg \in Degrees, NEW l \in Nat \ {0}
  PROVE  PeakSizes(l, deg) = <<TreeSize(l, deg)>> \o PeakSizes(l - TreeSize(l, deg), deg)
<1>1. PICK r \in 0 .. l - 1 : r = l - TreeSize(l, deg)
  BY TreeSizeIs
<1>2. SizesUpTo(l, deg)[l] = <<TreeSize(l, deg)>> \o SizesUpTo(l, deg)[r]
  BY <1>1, SizesSolved
<1>3. r \in 0 .. l
  BY <1>1
<1>4. SizesUpTo(l, deg)[r] = PeakSizes(r, deg)
  BY <1>3, SizesAgree
<1> QED
  BY <1>1, <1>2, <1>4, PeakSizesIs

PowersOf(deg) == {Power(deg, k) : k \in Nat}

\* Every tree is full.
LEMMA SizesArePowers ==
  ASSUME NEW deg \in Degrees, NEW l \in Nat
  PROVE  PeakSizes(l, deg) \in Seq(PowersOf(deg))
<1> DEFINE S == {m \in Nat : PeakSizes(m, deg) \in Seq(PowersOf(deg))}
<1>1. ASSUME NEW m \in Nat, \A k \in 0 .. m - 1 : k \in S PROVE m \in S
  <2>1. CASE m = 0
    BY <2>1, SizesZero, EmptySeq
  <2>2. CASE m # 0
    <3>1. PICK r \in 0 .. m - 1 : r = m - TreeSize(m, deg)
      BY <2>2, TreeSizeIs
    <3>2. TreeSize(m, deg) \in PowersOf(deg)
      BY <2>2, TreeSizeIs DEF TreeSize, PowersOf
    <3>3. PeakSizes(r, deg) \in Seq(PowersOf(deg)) /\ <<TreeSize(m, deg)>> \in Seq(PowersOf(deg))
      BY <1>1, <3>1, <3>2
    <3>4. PeakSizes(m, deg) = <<TreeSize(m, deg)>> \o PeakSizes(r, deg)
      BY <2>2, <3>1, SizesStep
    <3> QED
      BY <3>3, <3>4, ConcatProperties
  <2> QED
    BY <2>1, <2>2
<1>2. l \in S
  <2> HIDE DEF S
  <2> QED
    BY <1>1, StrongInduction
<1> QED
  BY <1>2

\* Powers are positive numbers.
LEMMA PowersAreNat == \A deg \in Degrees : PowersOf(deg) \subseteq Nat \ {0}
  BY PowerNat DEF PowersOf

\* Different numbers of leaves have different sizes of trees.
LEMMA SizesDetermine ==
  ASSUME NEW deg \in Degrees, NEW l \in Nat, NEW m \in Nat, PeakSizes(l, deg) = PeakSizes(m, deg)
  PROVE  l = m
<1> DEFINE S == {j \in Nat : \A k \in Nat : PeakSizes(j, deg) = PeakSizes(k, deg) => j = k}
<1> DEFINE T == PowersOf(deg)
<1>0. \A j \in Nat \ {0} :
        /\ PeakSizes(j, deg) \in Seq(T) /\ PeakSizes(j, deg) # <<>>
        /\ Head(PeakSizes(j, deg)) = TreeSize(j, deg)
        /\ Tail(PeakSizes(j, deg)) = PeakSizes(j - TreeSize(j, deg), deg)
  <2> SUFFICES ASSUME NEW j \in Nat \ {0}
               PROVE  /\ PeakSizes(j, deg) \in Seq(T) /\ PeakSizes(j, deg) # <<>>
                      /\ Head(PeakSizes(j, deg)) = TreeSize(j, deg)
                      /\ Tail(PeakSizes(j, deg)) = PeakSizes(j - TreeSize(j, deg), deg)
    OBVIOUS
  <2>1. PICK r \in Nat : r = j - TreeSize(j, deg)
    BY TreeSizeIs
  <2>2. PeakSizes(j, deg) \in Seq(T) /\ PeakSizes(r, deg) \in Seq(T)
    BY SizesArePowers
  <2>3. PeakSizes(j, deg) = <<TreeSize(j, deg)>> \o PeakSizes(r, deg)
    BY <2>1, SizesStep
  <2>4. TreeSize(j, deg) \in T
    BY TreeSizeIs DEF TreeSize, PowersOf
  <2> HIDE DEF T
  <2>5. /\ <<TreeSize(j, deg)>> \o PeakSizes(r, deg) # <<>>
        /\ Head(<<TreeSize(j, deg)>> \o PeakSizes(r, deg)) = TreeSize(j, deg)
        /\ Tail(<<TreeSize(j, deg)>> \o PeakSizes(r, deg)) = PeakSizes(r, deg)
    BY <2>2, <2>4
  <2> QED
    BY <2>1, <2>2, <2>3, <2>5
<1>1. ASSUME NEW j \in Nat, \A k \in 0 .. j - 1 : k \in S PROVE j \in S
  <2> SUFFICES ASSUME NEW k \in Nat, PeakSizes(j, deg) = PeakSizes(k, deg) PROVE j = k
    OBVIOUS
  <2>1. CASE j = 0 \/ k = 0
    BY <1>0, <2>1, SizesZero
  <2>2. CASE j # 0 /\ k # 0
    <3>1. PICK r \in 0 .. j - 1 : r = j - TreeSize(j, deg)
      BY <2>2, TreeSizeIs
    <3>2. PICK q \in 0 .. k - 1 : q = k - TreeSize(k, deg)
      BY <2>2, TreeSizeIs
    <3>3. TreeSize(j, deg) = TreeSize(k, deg) /\ PeakSizes(r, deg) = PeakSizes(q, deg)
      BY <1>0, <2>2, <3>1, <3>2
    <3>4. r = q
      BY <1>1, <3>1, <3>3
    <3>5. TreeSize(j, deg) \in Nat /\ TreeSize(k, deg) \in Nat
      BY <2>2, TreeSizeIs
    <3> QED
      BY <3>1, <3>2, <3>3, <3>4, <3>5
  <2> QED
    BY <2>1, <2>2
<1>2. l \in S
  <2> HIDE DEF S
  <2> QED
    BY <1>1, StrongInduction
<1> QED
  BY <1>2

-----------------------------------------------------------------------------
(* Siblings: a sequence with an element put in or taken out.               *)

\* The two parts of a sequence around a position.
LEMMA Parts ==
  ASSUME NEW S, NEW s \in Seq(S), NEW i \in 1 .. Len(s) + 1, NEW k \in i .. Len(s) + 1
  PROVE  /\ SubSeq(s, 1, i - 1) \in Seq(S) /\ Len(SubSeq(s, 1, i - 1)) = i - 1
         /\ \A j \in 1 .. i - 1 : SubSeq(s, 1, i - 1)[j] = s[j]
         /\ SubSeq(s, k, Len(s)) \in Seq(S) /\ Len(SubSeq(s, k, Len(s))) = Len(s) + 1 - k
         /\ \A j \in 1 .. Len(s) + 1 - k : SubSeq(s, k, Len(s))[j] = s[k + j - 1]
<1>1. Len(s) \in Nat /\ \A j \in 1 .. Len(s) : s[j] \in S
  BY ElementOfSeq, LenProperties
<1>2. i \in Int /\ i - 1 \in Int /\ k \in Int /\ k <= Len(s) + 1 /\ 1 <= i /\ i <= k
  BY <1>1
<1>3. /\ SubSeq(s, 1, i - 1) \in Seq(S)
      /\ Len(SubSeq(s, 1, i - 1)) = IF 1 <= i - 1 THEN (i - 1) - 1 + 1 ELSE 0
      /\ \A j \in 1 .. (i - 1) - 1 + 1 : SubSeq(s, 1, i - 1)[j] = s[1 + j - 1]
  <2>1. \A j \in 1 .. i - 1 : s[j] \in S
    BY <1>1, <1>2
  <2> QED
    BY <1>2, <2>1, SubSeqProperties
<1>4. /\ SubSeq(s, k, Len(s)) \in Seq(S)
      /\ Len(SubSeq(s, k, Len(s))) = IF k <= Len(s) THEN Len(s) - k + 1 ELSE 0
      /\ \A j \in 1 .. Len(s) - k + 1 : SubSeq(s, k, Len(s))[j] = s[k + j - 1]
  <2>1. \A j \in k .. Len(s) : s[j] \in S
    BY <1>1, <1>2
  <2> QED
    BY <1>1, <1>2, <2>1, SubSeqProperties
<1> QED
  BY <1>1, <1>2, <1>3, <1>4

Joint(x, y) == x \o y

\* Two sequences, one after the other.
LEMMA Joined ==
  ASSUME NEW S, NEW x \in Seq(S), NEW y \in Seq(S), NEW k \in Nat, NEW l \in Nat,
         Len(x) = k, Len(y) = l
  PROVE  /\ Joint(x, y) \in Seq(S) /\ Len(Joint(x, y)) = k + l
         /\ \A j \in 1 .. k : Joint(x, y)[j] = x[j]
         /\ \A j \in 1 .. l : Joint(x, y)[k + j] = y[j]
<1>1. /\ x \o y \in Seq(S) /\ Len(x \o y) = Len(x) + Len(y)
      /\ \A j \in 1 .. Len(x) + Len(y) :
           (x \o y)[j] = IF j <= Len(x) THEN x[j] ELSE y[j - Len(x)]
  BY ConcatProperties
<1>2. ASSUME NEW j \in 1 .. k PROVE (x \o y)[j] = x[j]
  BY <1>1
<1>3. ASSUME NEW j \in 1 .. l PROVE (x \o y)[k + j] = y[j]
  <2>1. k + j \in 1 .. k + l /\ ~(k + j <= k) /\ (k + j) - k = j
    OBVIOUS
  <2> QED
    BY <1>1, <2>1
<1> QED
  BY <1>1, <1>2, <1>3 DEF Joint

\* InsertAt
LEMMA Inserted ==
  ASSUME NEW S, NEW s \in Seq(S), NEW e \in S, NEW i \in 1 .. Len(s) + 1
  PROVE  /\ InsertAt(s, i, e) \in Seq(S) /\ Len(InsertAt(s, i, e)) = Len(s) + 1
         /\ \A j \in 1 .. i - 1 : InsertAt(s, i, e)[j] = s[j]
         /\ InsertAt(s, i, e)[i] = e
         /\ \A j \in i .. Len(s) : InsertAt(s, i, e)[j + 1] = s[j]
<1>1. PICK l \in Nat : l = Len(s)
  BY LenProperties
<1> DEFINE a == SubSeq(s, 1, i - 1)
           b == SubSeq(s, i, Len(s))
           d == <<e>>
           c == Joint(a, d)
           t == Joint(c, b)
<1>2. /\ a \in Seq(S) /\ Len(a) = i - 1 /\ \A j \in 1 .. i - 1 : a[j] = s[j]
      /\ b \in Seq(S) /\ Len(b) = Len(s) + 1 - i
      /\ \A j \in 1 .. Len(s) + 1 - i : b[j] = s[i + j - 1]
  <2>1. i \in i .. Len(s) + 1
    BY <1>1
  <2> QED
    BY <2>1, Parts
<1>3. d \in Seq(S) /\ Len(d) = 1 /\ d[1] = e
  OBVIOUS
<1>4. InsertAt(s, i, e) = t
  BY DEF InsertAt, Joint
<1> HIDE DEF a, b, d
<1>5. i - 1 \in Nat /\ 1 \in Nat /\ (i - 1) + 1 = i /\ l + 1 - i \in Nat /\ i \in Nat
      /\ i + (l + 1 - i) = l + 1
  BY <1>1
<1>6. /\ c \in Seq(S) /\ Len(c) = (i - 1) + 1
      /\ \A j \in 1 .. i - 1 : c[j] = a[j]
      /\ \A j \in 1 .. 1 : c[(i - 1) + j] = d[j]
  <2>1. PICK k \in Nat, m \in Nat : k = i - 1 /\ m = 1
    BY <1>5
  <2>2. a \in Seq(S) /\ d \in Seq(S) /\ Len(a) = k /\ Len(d) = m
    BY <1>2, <1>3, <2>1
  <2>3. /\ Joint(a, d) \in Seq(S) /\ Len(Joint(a, d)) = k + m
        /\ \A j \in 1 .. k : Joint(a, d)[j] = a[j]
        /\ \A j \in 1 .. m : Joint(a, d)[k + j] = d[j]
    BY <2>2, Joined
  <2> QED
    BY <2>1, <2>3
<1> HIDE DEF c
<1>7. Len(c) = i /\ c[i] = e /\ Len(b) = l + 1 - i
  BY <1>1, <1>2, <1>3, <1>5, <1>6
<1>8. /\ t \in Seq(S) /\ Len(t) = i + (l + 1 - i)
      /\ \A j \in 1 .. i : t[j] = c[j]
      /\ \A j \in 1 .. l + 1 - i : t[i + j] = b[j]
  <2>1. PICK k \in Nat : k = l + 1 - i
    BY <1>5
  <2>2. c \in Seq(S) /\ b \in Seq(S) /\ Len(c) = i /\ Len(b) = k /\ i \in Nat
    BY <1>2, <1>5, <1>6, <1>7, <2>1
  <2>3. /\ Joint(c, b) \in Seq(S) /\ Len(Joint(c, b)) = i + k
        /\ \A j \in 1 .. i : Joint(c, b)[j] = c[j]
        /\ \A j \in 1 .. k : Joint(c, b)[i + j] = b[j]
    BY <2>2, Joined
  <2> QED
    BY <2>1, <2>3
<1> HIDE DEF t
<1>9. ASSUME NEW j \in 1 .. i - 1 PROVE t[j] = s[j]
  <2>1. j \in 1 .. i
    BY <1>5
  <2>2. t[j] = c[j] /\ c[j] = a[j] /\ a[j] = s[j]
    BY <1>2, <1>6, <1>8, <2>1
  <2> QED
    BY <2>2
<1>10. t[i] = e
  BY <1>5, <1>7, <1>8
<1>11. ASSUME NEW j \in i .. l PROVE t[j + 1] = s[j]
  <2>1. PICK q \in 1 .. l + 1 - i : i + q = j + 1 /\ i + q - 1 = j
    <3>1. j + 1 - i \in 1 .. l + 1 - i /\ i + (j + 1 - i) = j + 1
      BY <1>5
    <3> QED
      BY <1>5, <3>1
  <2>2. t[i + q] = b[q] /\ b[q] = s[i + q - 1]
    BY <1>1, <1>2, <1>8
  <2> QED
    BY <2>1, <2>2
<1> QED
  BY <1>1, <1>4, <1>5, <1>8, <1>9, <1>10, <1>11

\* RemoveAt
LEMMA Removed ==
  ASSUME NEW S, NEW s \in Seq(S), NEW i \in 1 .. Len(s)
  PROVE  /\ RemoveAt(s, i) \in Seq(S) /\ Len(RemoveAt(s, i)) = Len(s) - 1
         /\ \A j \in 1 .. i - 1 : RemoveAt(s, i)[j] = s[j]
         /\ \A j \in i .. Len(s) - 1 : RemoveAt(s, i)[j] = s[j + 1]
<1>1. PICK l \in Nat : l = Len(s)
  BY LenProperties
<1>2. /\ i \in 1 .. Len(s) + 1 /\ i + 1 \in i .. Len(s) + 1 /\ i \in 1 .. l
      /\ i - 1 \in Nat /\ l - i \in Nat /\ (i - 1) + (l - i) = l - 1 /\ l + 1 - (i + 1) = l - i
  BY <1>1
<1> DEFINE a == SubSeq(s, 1, i - 1)
           b == SubSeq(s, i + 1, Len(s))
           t == Joint(a, b)
<1>3. /\ a \in Seq(S) /\ Len(a) = i - 1 /\ \A j \in 1 .. i - 1 : a[j] = s[j]
      /\ b \in Seq(S) /\ Len(b) = Len(s) + 1 - (i + 1)
      /\ \A j \in 1 .. Len(s) + 1 - (i + 1) : b[j] = s[(i + 1) + j - 1]
  BY <1>2, Parts
<1>4. RemoveAt(s, i) = t
  BY DEF RemoveAt, Joint
<1> HIDE DEF a, b
<1>5. Len(b) = l - i
  BY <1>1, <1>2, <1>3
<1>6. /\ t \in Seq(S) /\ Len(t) = (i - 1) + (l - i)
      /\ \A j \in 1 .. i - 1 : t[j] = a[j]
      /\ \A j \in 1 .. l - i : t[(i - 1) + j] = b[j]
  <2>1. PICK k \in Nat, m \in Nat : k = i - 1 /\ m = l - i
    BY <1>2
  <2>2. a \in Seq(S) /\ b \in Seq(S) /\ Len(a) = k /\ Len(b) = m
    BY <1>3, <1>5, <2>1
  <2>3. /\ Joint(a, b) \in Seq(S) /\ Len(Joint(a, b)) = k + m
        /\ \A j \in 1 .. k : Joint(a, b)[j] = a[j]
        /\ \A j \in 1 .. m : Joint(a, b)[k + j] = b[j]
    BY <2>2, Joined
  <2> QED
    BY <2>1, <2>3
<1> HIDE DEF t
<1>7. ASSUME NEW j \in 1 .. i - 1 PROVE t[j] = s[j]
  BY <1>3, <1>6
<1>8. ASSUME NEW j \in i .. l - 1 PROVE t[j] = s[j + 1]
  <2>1. PICK q \in 1 .. l - i : (i - 1) + q = j /\ (i + 1) + q - 1 = j + 1
    <3>1. j - (i - 1) \in 1 .. l - i /\ (i - 1) + (j - (i - 1)) = j
      BY <1>2
    <3> QED
      BY <1>2, <3>1
  <2>2. t[(i - 1) + q] = b[q] /\ b[q] = s[(i + 1) + q - 1]
    BY <1>1, <1>2, <1>3, <1>6
  <2> QED
    BY <2>1, <2>2
<1> QED
  BY <1>1, <1>2, <1>4, <1>6, <1>7, <1>8

\* What is removed after it was inserted leaves the sequence as it was.
LEMMA RemovedInserted ==
  ASSUME NEW S, NEW s \in Seq(S), NEW e \in S, NEW i \in 1 .. Len(s) + 1
  PROVE  RemoveAt(InsertAt(s, i, e), i) = s
<1>1. PICK l \in Nat : l = Len(s)
  BY LenProperties
<1> DEFINE t == InsertAt(s, i, e)
           u == RemoveAt(t, i)
<1>2. /\ t \in Seq(S) /\ Len(t) = l + 1
      /\ \A j \in 1 .. i - 1 : t[j] = s[j]
      /\ \A j \in i .. l : t[j + 1] = s[j]
  <2>1. /\ InsertAt(s, i, e) \in Seq(S) /\ Len(InsertAt(s, i, e)) = Len(s) + 1
        /\ \A j \in 1 .. i - 1 : InsertAt(s, i, e)[j] = s[j]
        /\ \A j \in i .. Len(s) : InsertAt(s, i, e)[j + 1] = s[j]
    BY Inserted
  <2> QED
    BY <1>1, <2>1
<1> HIDE DEF t
<1>3. i \in 1 .. Len(t) /\ Len(t) - 1 = l
  BY <1>1, <1>2
<1>4. /\ u \in Seq(S) /\ Len(u) = l
      /\ \A j \in 1 .. i - 1 : u[j] = t[j]
      /\ \A j \in i .. l : u[j] = t[j + 1]
  <2>1. /\ RemoveAt(t, i) \in Seq(S) /\ Len(RemoveAt(t, i)) = Len(t) - 1
        /\ \A j \in 1 .. i - 1 : RemoveAt(t, i)[j] = t[j]
        /\ \A j \in i .. Len(t) - 1 : RemoveAt(t, i)[j] = t[j + 1]
    BY <1>2, <1>3, Removed
  <2> QED
    BY <1>3, <2>1
<1> HIDE DEF u
<1>5. ASSUME NEW j \in 1 .. l PROVE u[j] = s[j]
  <2>1. j \in 1 .. i - 1 \/ j \in i .. l
    BY <1>1
  <2> QED
    BY <1>2, <1>4, <2>1
<1>6. u = s
  BY <1>1, <1>4, <1>5, SeqEqual
<1> QED
  BY <1>6 DEF t, u

\* What is inserted where it was removed makes the sequence as it was.
LEMMA InsertedRemoved ==
  ASSUME NEW S, NEW s \in Seq(S), NEW i \in 1 .. Len(s)
  PROVE  InsertAt(RemoveAt(s, i), i, s[i]) = s
<1>1. PICK l \in Nat : l = Len(s)
  BY LenProperties
<1>2. PICK e \in S : e = s[i]
  BY ElementOfSeq
<1> DEFINE t == RemoveAt(s, i)
           u == InsertAt(t, i, e)
<1>3. /\ t \in Seq(S) /\ Len(t) = l - 1
      /\ \A j \in 1 .. i - 1 : t[j] = s[j]
      /\ \A j \in i .. l - 1 : t[j] = s[j + 1]
  BY <1>1, Removed
<1> HIDE DEF t
<1>4. i \in 1 .. Len(t) + 1 /\ Len(t) + 1 = l
  BY <1>1, <1>3
<1>5. /\ u \in Seq(S) /\ Len(u) = Len(t) + 1
      /\ \A j \in 1 .. i - 1 : u[j] = t[j]
      /\ u[i] = e
      /\ \A j \in i .. Len(t) : u[j + 1] = t[j]
  BY <1>3, <1>4, Inserted
<1> HIDE DEF u
<1>6. ASSUME NEW j \in 1 .. l PROVE u[j] = s[j]
  <2>1. CASE j \in 1 .. i - 1
    BY <1>3, <1>5, <2>1
  <2>2. CASE j = i
    BY <1>2, <1>5, <2>2
  <2>3. CASE j \in i + 1 .. l
    <3>1. PICK q \in i .. l - 1 : j = q + 1
      <4>1. j - 1 \in i .. l - 1 /\ j = (j - 1) + 1
        BY <1>1, <2>3
      <4> QED
        BY <4>1
    <3> QED
      BY <1>3, <1>5, <3>1
  <2> QED
    BY <1>1, <2>1, <2>2, <2>3
<1>7. u = s
  BY <1>1, <1>4, <1>5, <1>6, SeqEqual
<1> QED
  BY <1>2, <1>7 DEF t, u

-----------------------------------------------------------------------------
(* Positions on the layers of a tree.                                      *)

\* Quotient and remainder.
LEMMA Quotient ==
  ASSUME NEW a \in Nat, NEW b \in Nat \ {0}
  PROVE  /\ a \div b \in Nat /\ a % b \in 0 .. b - 1
         /\ a = b * (a \div b) + (a % b)
  BY SMT

\* A quotient is known by its bounds.
LEMMA QuotientIs ==
  ASSUME NEW a \in Nat, NEW b \in Nat \ {0}, NEW q \in Nat, NEW r \in 0 .. b - 1, a = b * q + r
  PROVE  a \div b = q /\ a % b = r
  BY SMT

\* Dividing twice.
LEMMA QuotientTwice ==
  ASSUME NEW a \in Nat, NEW b \in Nat \ {0}, NEW c \in Nat \ {0}
  PROVE  (a \div b) \div c = a \div (c * b)
<1>1. PICK q \in Nat, r \in 0 .. b - 1 : a = b * q + r /\ q = a \div b
  BY Quotient
<1>2. PICK p \in Nat, t \in 0 .. c - 1 : q = c * p + t /\ p = q \div c
  BY Quotient
<1>3. a = (c * b) * p + (b * t + r)
  <2>1. b * (c * p + t) = b * (c * p) + b * t /\ b * (c * p) = (c * b) * p
    BY SMT
  <2>2. b * (c * p) \in Nat /\ b * t \in Nat
    BY SMT
  <2> QED
    BY <1>1, <1>2, <2>1, <2>2
<1>4. b * t + r \in 0 .. c * b - 1 /\ c * b \in Nat \ {0}
  <2>1. b * t <= b * (c - 1)
    BY <1>2, SMT
  <2>2. b * t + r < b * c /\ b * t \in Nat
    BY <2>1, SMT
  <2> QED
    BY <2>2, SMT
<1>5. PICK bc \in Nat \ {0} : bc = c * b
  BY <1>4
<1>6. PICK s \in 0 .. bc - 1 : a = bc * p + s
  BY <1>3, <1>4, <1>5
<1>7. a \div bc = p
  BY <1>5, <1>6, QuotientIs
<1> QED
  BY <1>1, <1>2, <1>5, <1>7

-----------------------------------------------------------------------------
(* The layers of a tree.                                                   *)

Above(below, deg) ==
  [i \in 1 .. Len(below) \div deg |-> Digest(SubSeq(below, (i - 1) * deg + 1, i * deg))]

\* The recursive definition of Layers has a solution.
LEMMA LayersSolved ==
  ASSUME NEW leaves, NEW deg, LogFloor(Len(leaves), deg) \in Nat
  PROVE  Layers(leaves, deg) =
           [k \in 0 .. LogFloor(Len(leaves), deg) |->
              IF k = 0 THEN leaves ELSE Above(Layers(leaves, deg)[k - 1], deg)]
<1> DEFINE Solves(g, m) == g = [k \in 0 .. m |-> IF k = 0 THEN leaves ELSE Above(g[k - 1], deg)]
           S == {m \in Nat : \E g : Solves(g, m)}
<1>1. 0 \in S
  <2> DEFINE g == [k \in 0 .. 0 |-> leaves]
  <2>1. Solves(g, 0)
    OBVIOUS
  <2> QED
    BY <2>1
<1>2. ASSUME NEW m \in Nat, m \in S PROVE m + 1 \in S
  <2>1. PICK g : Solves(g, m)
    BY <1>2
  <2> DEFINE h == [k \in 0 .. m + 1 |-> IF k = m + 1 THEN Above(g[m], deg) ELSE g[k]]
             hh == [k \in 0 .. m + 1 |-> IF k = 0 THEN leaves ELSE Above(h[k - 1], deg)]
  <2>2. ASSUME NEW k \in 0 .. m + 1 PROVE h[k] = hh[k]
    <3>1. CASE k = m + 1
      <4>1. k - 1 = m /\ k # 0 /\ m # m + 1 /\ m \in 0 .. m + 1
        BY <3>1
      <4>2. h[k] = Above(g[m], deg) /\ h[m] = g[m] /\ hh[k] = Above(h[k - 1], deg)
        BY <3>1, <4>1
      <4> QED
        BY <4>1, <4>2
    <3>2. CASE k \in 0 .. m
      <4>1. h[k] = g[k] /\ (k # 0 => h[k - 1] = g[k - 1])
        BY <3>2
      <4>2. g[k] = IF k = 0 THEN leaves ELSE Above(g[k - 1], deg)
        BY <2>1, <3>2
      <4> QED
        BY <4>1, <4>2
    <3> QED
      BY <3>1, <3>2
  <2>3. h = hh
    BY <2>2
  <2>4. \E f : Solves(f, m + 1)
    BY <2>3
  <2> HIDE DEF Solves
  <2> QED
    BY <2>4
<1>3. LogFloor(Len(leaves), deg) \in S
  <2> HIDE DEF S
  <2> QED
    BY <1>1, <1>2, SetInduction
<1>4. \E g : Solves(g, LogFloor(Len(leaves), deg))
  BY <1>3
<1>5. Layers(leaves, deg) = CHOOSE g : Solves(g, LogFloor(Len(leaves), deg))
  BY DEF Layers, Above
<1>6. Solves(Layers(leaves, deg), LogFloor(Len(leaves), deg))
  <2> HIDE DEF Solves
  <2> QED
    BY <1>4, <1>5
<1> QED
  BY <1>6

\* A tree of height h has as many leaves as the degree's power.
IsTree(leaves, deg, h) == deg \in Degrees /\ h \in Nat /\ Len(leaves) = Power(deg, h)

\* The nodes below node q (from 0) of the layer above layer k.
Below(leaves, deg, k, q) == SubSeq(Layers(leaves, deg)[k], q * deg + 1, (q + 1) * deg)

NodesOn(leaves, deg, k) == {Layers(leaves, deg)[k][i] : i \in Int}

\* The leaves, and each layer from the one below.
LEMMA LayerStep ==
  ASSUME NEW leaves, NEW deg, NEW h, IsTree(leaves, deg, h)
  PROVE  /\ Layers(leaves, deg)[0] = leaves
         /\ \A k \in 0 .. h - 1 : Layers(leaves, deg)[k + 1] = Above(Layers(leaves, deg)[k], deg)
<1> DEFINE layer == Layers(leaves, deg)
<1>1. LogFloor(Len(leaves), deg) = h /\ h \in Nat
  BY LogFloorPower DEF IsTree
<1>2. layer = [k \in 0 .. h |-> IF k = 0 THEN leaves ELSE Above(layer[k - 1], deg)]
  BY <1>1, LayersSolved
<1> HIDE DEF layer
<1>3. layer[0] = leaves
  BY <1>1, <1>2
<1>4. ASSUME NEW k \in 0 .. h - 1 PROVE layer[k + 1] = Above(layer[k], deg)
  <2>1. PICK m \in 0 .. h : m = k + 1 /\ m # 0 /\ m - 1 = k
    BY <1>1
  <2>2. layer[m] = Above(layer[m - 1], deg)
    BY <1>2, <2>1
  <2> QED
    BY <2>1, <2>2
<1> QED
  BY <1>3, <1>4 DEF layer

\* How many nodes a layer has.
LEMMA LayerLength ==
  ASSUME NEW leaves, NEW deg, NEW h, IsTree(leaves, deg, h), NEW k \in 0 .. h
  PROVE  Len(Layers(leaves, deg)[k]) = Power(deg, h - k) /\ h - k \in Nat
<1> DEFINE layer == Layers(leaves, deg)
           S == {m \in Nat : m <= h => Len(layer[m]) = Power(deg, h - m)}
<1>1. h \in Nat /\ deg \in Degrees
  BY DEF IsTree
<1>2. 0 \in S
  BY <1>1, LayerStep DEF IsTree
<1>3. ASSUME NEW m \in Nat, m \in S PROVE m + 1 \in S
  <2> SUFFICES ASSUME m + 1 <= h PROVE Len(layer[m + 1]) = Power(deg, h - (m + 1))
    OBVIOUS
  <2>1. PICK d \in Nat : d = h - (m + 1) /\ d + 1 = h - m
    BY <1>1
  <2>2. PICK p \in Nat \ {0} : p = Power(deg, d) /\ Power(deg, d + 1) = deg * p
    BY <1>1, PowerNat, PowerStep
  <2>3. Len(layer[m]) = deg * p
    BY <1>1, <1>3, <2>1, <2>2
  <2>4. (deg * p) \div deg = p
    <3>1. deg \in Nat \ {0} /\ p \in Nat /\ 0 \in 0 .. deg - 1
      BY <1>1 DEF Degrees
    <3>2. PICK np \in Nat : np = deg * p
      BY <3>1, SMT
    <3>3. np = deg * p + 0
      BY <3>2
    <3>4. np \div deg = p
      BY <3>1, <3>3, QuotientIs
    <3> QED
      BY <3>2, <3>4
  <2>5. layer[m + 1] = Above(layer[m], deg)
    BY <1>1, LayerStep
  <2>6. Len(Above(layer[m], deg)) = p
    <3> HIDE DEF layer
    <3>1. Len(layer[m]) \div deg = p
      BY <2>3, <2>4
    <3>2. Above(layer[m], deg)
            = [i \in 1 .. p |-> Digest(SubSeq(layer[m], (i - 1) * deg + 1, i * deg))]
      BY <3>1 DEF Above
    <3> QED
      BY <3>2
  <2> QED
    BY <2>1, <2>2, <2>5, <2>6
<1>4. k \in S
  <2> HIDE DEF S
  <2> QED
    BY <1>1, <1>2, <1>3, SetInduction
<1> QED
  BY <1>1, <1>4

\* A node is the digest of the nodes below it.
LEMMA NodeBelow ==
  ASSUME NEW leaves, NEW deg, NEW h, IsTree(leaves, deg, h),
         NEW k \in 0 .. h - 1, NEW q \in 0 .. Power(deg, h - (k + 1)) - 1
  PROVE  /\ Layers(leaves, deg)[k + 1][q + 1] = Digest(Below(leaves, deg, k, q))
         /\ Below(leaves, deg, k, q) \in Seq(NodesOn(leaves, deg, k))
         /\ Len(Below(leaves, deg, k, q)) = deg
         /\ \A j \in 0 .. deg - 1 :
              Below(leaves, deg, k, q)[j + 1] = Layers(leaves, deg)[k][q * deg + j + 1]
<1> DEFINE layer == Layers(leaves, deg)
           T == NodesOn(leaves, deg, k)
<1>1. h \in Nat /\ deg \in Nat \ {0} /\ deg \in Degrees
  BY DEF IsTree, Degrees
<1>2. layer[k + 1] = Above(layer[k], deg)
  BY LayerStep
<1>3. PICK p \in Nat \ {0} : p = Power(deg, h - (k + 1)) /\ Len(layer[k + 1]) = p
  <2>1. PICK m \in 0 .. h : m = k + 1
    BY <1>1
  <2>2. Len(layer[m]) = Power(deg, h - m) /\ h - m \in Nat
    BY LayerLength
  <2>3. Power(deg, h - m) \in Nat \ {0}
    BY <1>1, <2>2, PowerNat
  <2> QED
    BY <2>1, <2>2, <2>3
<1>4. q \in Nat /\ q + 1 \in 1 .. p /\ (q + 1) - 1 = q
  BY <1>3
<1>5. Len(layer[k]) \div deg = p
  <2>1. PICK m \in Nat : m = h - (k + 1) /\ h - k = m + 1
    BY <1>1
  <2>2. Len(layer[k]) = deg * p
    <3>1. k \in 0 .. h
      BY <1>1
    <3>2. Len(layer[k]) = Power(deg, h - k)
      BY <3>1, LayerLength
    <3> QED
      BY <1>1, <1>3, <2>1, <3>2, PowerStep
  <2>3. PICK np \in Nat : np = deg * p
    BY <1>1, SMT
  <2>4. np = deg * p + 0 /\ 0 \in 0 .. deg - 1
    BY <1>1, <2>3
  <2>5. np \div deg = p
    BY <1>1, <2>4, QuotientIs
  <2> QED
    BY <2>2, <2>3, <2>5
<1> HIDE DEF layer
<1>6. Above(layer[k], deg) = [i \in 1 .. p |-> Digest(SubSeq(layer[k], (i - 1) * deg + 1, i * deg))]
  BY <1>5 DEF Above
<1>7. layer[k + 1][q + 1] = Digest(SubSeq(layer[k], q * deg + 1, (q + 1) * deg))
  BY <1>2, <1>4, <1>6
<1>8. PICK a \in Nat : a = q * deg
  BY <1>1, <1>4, SMT
<1>9. (q + 1) * deg = a + deg
  BY <1>1, <1>4, <1>8, SMT
<1>10. /\ SubSeq(layer[k], a + 1, a + deg) \in Seq(T)
       /\ Len(SubSeq(layer[k], a + 1, a + deg)) = deg
       /\ \A j \in 1 .. deg : SubSeq(layer[k], a + 1, a + deg)[j] = layer[k][a + j]
  <2>1. a + 1 \in Int /\ a + deg \in Int /\ a + 1 <= a + deg /\ (a + deg) - (a + 1) + 1 = deg
    BY <1>1
  <2>2. \A i \in a + 1 .. a + deg : layer[k][i] \in T
    BY <2>1 DEF NodesOn, layer
  <2>3. /\ SubSeq(layer[k], a + 1, a + deg) \in Seq(T)
        /\ Len(SubSeq(layer[k], a + 1, a + deg))
             = IF a + 1 <= a + deg THEN (a + deg) - (a + 1) + 1 ELSE 0
        /\ \A j \in 1 .. (a + deg) - (a + 1) + 1 :
             SubSeq(layer[k], a + 1, a + deg)[j] = layer[k][(a + 1) + j - 1]
    <3> HIDE DEF T
    <3> QED
      BY <2>1, <2>2, SubSeqProperties
  <2> QED
    BY <1>1, <2>1, <2>3
<1>11. \A j \in 0 .. deg - 1 : SubSeq(layer[k], a + 1, a + deg)[j + 1] = layer[k][a + j + 1]
  <2> SUFFICES ASSUME NEW j \in 0 .. deg - 1
               PROVE  SubSeq(layer[k], a + 1, a + deg)[j + 1] = layer[k][a + j + 1]
    OBVIOUS
  <2>1. PICK i \in 1 .. deg : i = j + 1 /\ a + i = a + j + 1
    BY <1>1
  <2> QED
    BY <1>10, <2>1
<1> QED
  BY <1>7, <1>8, <1>9, <1>10, <1>11 DEF Below, layer

-----------------------------------------------------------------------------
(* The way from a leaf to the root.                                        *)

\* The position of the leaf's ancestor on layer k, from 0.
Ancestor(i, deg, k) == i \div Power(deg, k)

\* What the client has computed after k steps.
Values(leaf, i, proof, deg) ==
  CHOOSE value : value =
    [k \in 0 .. Len(proof) |->
       IF k = 0 THEN leaf
       ELSE Digest(InsertAt(proof[k], (Ancestor(i, deg, k - 1) % deg) + 1, value[k - 1]))]

\* verify, by the values on the way to the root.
LEMMA TreeVerifyIs ==
  \A leaf, i, root, proof, deg :
    TreeVerify(leaf, i, root, proof, deg) <=> Values(leaf, i, proof, deg)[Len(proof)] = root
BY DEF TreeVerify, Values, Ancestor

\* The recursive definition of TreeVerify has a solution.
LEMMA ValuesSolved ==
  ASSUME NEW leaf, NEW i, NEW proof, NEW deg, Len(proof) \in Nat
  PROVE  /\ Values(leaf, i, proof, deg)[0] = leaf
         /\ \A k \in 1 .. Len(proof) :
              Values(leaf, i, proof, deg)[k]
                = Digest(InsertAt(proof[k], (Ancestor(i, deg, k - 1) % deg) + 1,
                                  Values(leaf, i, proof, deg)[k - 1]))
<1> DEFINE Up(k, v) == Digest(InsertAt(proof[k], (Ancestor(i, deg, k - 1) % deg) + 1, v))
           Solves(g, m) == g = [k \in 0 .. m |-> IF k = 0 THEN leaf ELSE Up(k, g[k - 1])]
           S == {m \in Nat : \E g : Solves(g, m)}
<1>5. Values(leaf, i, proof, deg) = CHOOSE g : Solves(g, Len(proof))
  BY DEF Values
<1>7. ASSUME NEW g, Solves(g, Len(proof))
      PROVE  /\ g[0] = leaf
             /\ \A k \in 1 .. Len(proof) :
                  g[k] = Digest(InsertAt(proof[k], (Ancestor(i, deg, k - 1) % deg) + 1, g[k - 1]))
  <2>1. g[0] = leaf
    BY <1>7
  <2>2. \A k \in 1 .. Len(proof) : g[k] = Up(k, g[k - 1])
    <3> HIDE DEF Up
    <3> QED
      BY <1>7
  <2> QED
    BY <2>1, <2>2
<1> HIDE DEF Up
<1>1. 0 \in S
  <2> DEFINE g == [k \in 0 .. 0 |-> leaf]
  <2>1. Solves(g, 0)
    OBVIOUS
  <2> QED
    BY <2>1
<1>2. ASSUME NEW m \in Nat, m \in S PROVE m + 1 \in S
  <2>1. PICK g : Solves(g, m)
    BY <1>2
  <2> DEFINE h == [k \in 0 .. m + 1 |-> IF k = m + 1 THEN Up(k, g[m]) ELSE g[k]]
             hh == [k \in 0 .. m + 1 |-> IF k = 0 THEN leaf ELSE Up(k, h[k - 1])]
  <2>2. ASSUME NEW k \in 0 .. m + 1 PROVE h[k] = hh[k]
    <3>1. CASE k = m + 1
      <4>1. k - 1 = m /\ k # 0 /\ m # m + 1 /\ m \in 0 .. m + 1
        BY <3>1
      <4>2. h[k] = Up(k, g[m]) /\ h[m] = g[m] /\ hh[k] = Up(k, h[k - 1])
        BY <3>1, <4>1
      <4> QED
        BY <4>1, <4>2
    <3>2. CASE k \in 0 .. m
      <4>1. h[k] = g[k] /\ (k # 0 => h[k - 1] = g[k - 1])
        BY <3>2
      <4>2. g[k] = IF k = 0 THEN leaf ELSE Up(k, g[k - 1])
        BY <2>1, <3>2
      <4> QED
        BY <4>1, <4>2
    <3> QED
      BY <3>1, <3>2
  <2>3. h = hh
    BY <2>2
  <2>4. \E f : Solves(f, m + 1)
    BY <2>3
  <2> HIDE DEF Solves
  <2> QED
    BY <2>4
<1>3. Len(proof) \in S
  <2> HIDE DEF S
  <2> QED
    BY <1>1, <1>2, SetInduction
<1>4. \E g : Solves(g, Len(proof))
  BY <1>3
<1> HIDE DEF Solves
<1>6. Solves(Values(leaf, i, proof, deg), Len(proof))
  BY <1>4, <1>5
<1> QED
  BY <1>6, <1>7

\* The ancestor one layer up, and its position among its siblings.
LEMMA AncestorStep ==
  ASSUME NEW deg \in Degrees, NEW i \in Nat, NEW k \in Nat
  PROVE  /\ Ancestor(i, deg, k) \in Nat
         /\ Ancestor(i, deg, k) % deg \in 0 .. deg - 1
         /\ Ancestor(i, deg, k) \div deg = Ancestor(i, deg, k + 1)
         /\ Ancestor(i, deg, k)
              = Ancestor(i, deg, k + 1) * deg + (Ancestor(i, deg, k) % deg)
<1>1. deg \in Nat \ {0}
  BY DEF Degrees
<1>2. PICK p \in Nat \ {0} : p = Power(deg, k) /\ Power(deg, k + 1) = deg * p
  BY PowerNat, PowerStep
<1>3. PICK a \in Nat : a = Ancestor(i, deg, k) /\ a = i \div p
  BY <1>2, Quotient DEF Ancestor
<1>4. a \div deg = i \div (deg * p)
  BY <1>1, <1>2, <1>3, QuotientTwice
<1>5. a \div deg = Ancestor(i, deg, k + 1)
  BY <1>2, <1>4 DEF Ancestor
<1>6. a \div deg \in Nat /\ a % deg \in 0 .. deg - 1 /\ a = deg * (a \div deg) + (a % deg)
  BY <1>1, Quotient
<1>7. deg * (a \div deg) = (a \div deg) * deg
  BY <1>1, <1>6, SMT
<1> QED
  BY <1>3, <1>5, <1>6, <1>7

\* The ancestors of a tree's leaf are in the tree.
LEMMA AncestorBound ==
  ASSUME NEW deg \in Degrees, NEW h \in Nat, NEW k \in 0 .. h,
         NEW i \in 0 .. Power(deg, h) - 1
  PROVE  Ancestor(i, deg, k) \in 0 .. Power(deg, h - k) - 1
<1> DEFINE S == {m \in Nat : m <= h => Ancestor(i, deg, m) < Power(deg, h - m)}
<1>0. i \in Nat
  BY PowerNat
<1>1. 0 \in S
  <2>1. i \div 1 = i
    BY <1>0
  <2> QED
    BY <2>1, PowerZero, PowerNat DEF Ancestor
<1>2. ASSUME NEW m \in Nat, m \in S PROVE m + 1 \in S
  <2> SUFFICES ASSUME m + 1 <= h PROVE Ancestor(i, deg, m + 1) < Power(deg, h - (m + 1))
    OBVIOUS
  <2>1. PICK d \in Nat : d = h - (m + 1) /\ d + 1 = h - m
    OBVIOUS
  <2>2. PICK p \in Nat \ {0} : p = Power(deg, d) /\ Power(deg, h - m) = deg * p
    BY <2>1, PowerNat, PowerStep
  <2>3. PICK a \in Nat, b \in Nat :
          /\ a = Ancestor(i, deg, m) /\ b = Ancestor(i, deg, m + 1)
          /\ b * deg <= a
    <3>1. PICK a \in Nat : a = Ancestor(i, deg, m)
      BY <1>0, AncestorStep
    <3>2. PICK b \in Nat : b = Ancestor(i, deg, m + 1)
      BY <1>0, AncestorStep
    <3>3. PICK r \in 0 .. deg - 1 : a = b * deg + r
      BY <1>0, <3>1, <3>2, AncestorStep
    <3>4. b * deg \in Nat
      BY SMT DEF Degrees
    <3>5. b * deg <= a
      BY <3>3, <3>4
    <3> QED
      BY <3>1, <3>2, <3>5
  <2>4. a < deg * p
    BY <1>2, <2>2, <2>3
  <2>5. b < p
    <3> SUFFICES ASSUME p <= b PROVE FALSE
      OBVIOUS
    <3>1. deg * p <= b * deg
      BY SMT DEF Degrees
    <3>2. deg * p \in Int /\ b * deg \in Int
      BY SMT DEF Degrees
    <3> QED
      BY <2>3, <2>4, <3>1, <3>2
  <2> QED
    BY <2>1, <2>2, <2>3, <2>5
<1>3. k \in S
  <2> HIDE DEF S
  <2> QED
    BY <1>1, <1>2, SetInduction
<1>4. Ancestor(i, deg, k) \in Nat /\ h - k \in Nat
  <2>1. k \in Nat /\ h - k \in Nat
    OBVIOUS
  <2> QED
    BY <1>0, <2>1, AncestorStep
<1>5. Power(deg, h - k) \in Nat
  BY <1>4, PowerNat
<1> QED
  BY <1>3, <1>4, <1>5

\* The ancestor on layer k - 1 with its siblings, and its place among them.
Siblings(leaves, deg, i, k) == Below(leaves, deg, k - 1, Ancestor(i, deg, k))
Place(deg, i, k) == (Ancestor(i, deg, k - 1) % deg) + 1

TreeProofAt(leaves, i, deg, k) == RemoveAt(Siblings(leaves, deg, i, k), Place(deg, i, k))

\* generateProof, by the siblings on each layer.
LEMMA TreeProofIs ==
  ASSUME NEW leaves, NEW deg, NEW h, IsTree(leaves, deg, h), NEW i \in Nat
  PROVE  TreeProof(leaves, i, deg) = [k \in 1 .. h |-> TreeProofAt(leaves, i, deg, k)]
<1> DEFINE layer == Layers(leaves, deg)
           F(k) == LET up == i \div Power(deg, k - 1)
                       children == SubSeq(layer[k - 1], (up \div deg) * deg + 1,
                                          (up \div deg + 1) * deg)
                   IN  RemoveAt(children, (up % deg) + 1)
<1>1. LogFloor(Len(leaves), deg) = h /\ h \in Nat /\ deg \in Degrees
  BY LogFloorPower DEF IsTree
<1>2. TreeProof(leaves, i, deg) = [k \in 1 .. h |-> F(k)]
  BY <1>1 DEF TreeProof
<1>3. ASSUME NEW k \in 1 .. h PROVE F(k) = TreeProofAt(leaves, i, deg, k)
  <2>1. PICK m \in Nat : m = k - 1 /\ m + 1 = k
    BY <1>1
  <2>2. Ancestor(i, deg, m) \div deg = Ancestor(i, deg, m + 1)
    BY <1>1, AncestorStep
  <2>3. Ancestor(i, deg, k - 1) \div deg = Ancestor(i, deg, k)
    BY <2>1, <2>2
  <2> DEFINE a == Ancestor(i, deg, k - 1)
             q == Ancestor(i, deg, k)
  <2>4. F(k) = RemoveAt(SubSeq(layer[k - 1], (a \div deg) * deg + 1, (a \div deg + 1) * deg),
                        (a % deg) + 1)
    BY DEF Ancestor
  <2>5. TreeProofAt(leaves, i, deg, k)
          = RemoveAt(SubSeq(layer[k - 1], q * deg + 1, (q + 1) * deg), (a % deg) + 1)
    BY DEF TreeProofAt, Siblings, Place, Below
  <2>6. a \div deg = q
    BY <2>3
  <2> HIDE DEF F, a, q, layer
  <2> QED
    BY <2>4, <2>5, <2>6
<1> HIDE DEF F
<1> QED
  BY <1>2, <1>3

\* What insertion and removal of siblings say about one layer.
LEMMA LayerVerified ==
  ASSUME NEW leaves, NEW deg, NEW h, IsTree(leaves, deg, h), NEW i \in 0 .. Power(deg, h) - 1,
         NEW k \in 1 .. h
  PROVE  /\ Layers(leaves, deg)[k][Ancestor(i, deg, k) + 1] = Digest(Siblings(leaves, deg, i, k))
         /\ Siblings(leaves, deg, i, k)[Place(deg, i, k)]
              = Layers(leaves, deg)[k - 1][Ancestor(i, deg, k - 1) + 1]
         /\ Place(deg, i, k) \in 1 .. deg
         /\ Len(Siblings(leaves, deg, i, k)) = deg
         /\ Siblings(leaves, deg, i, k) \in Seq(NodesOn(leaves, deg, k - 1))
<1> DEFINE q == Ancestor(i, deg, k)
           r == Ancestor(i, deg, k - 1) % deg
<1>1. /\ h \in Nat /\ deg \in Degrees /\ deg \in Nat
      /\ k - 1 \in Nat /\ k - 1 \in 0 .. h - 1 /\ k \in 0 .. h
  BY DEF IsTree, Degrees
<1>2. i \in Nat
  BY <1>1, PowerNat
<1>3. (k - 1) + 1 = k
  BY <1>1
<1>4. /\ r \in 0 .. deg - 1
      /\ Ancestor(i, deg, k - 1) = q * deg + r
  <2>1. PICK m \in Nat : m = k - 1 /\ m + 1 = k
    BY <1>1
  <2>2. /\ Ancestor(i, deg, m) % deg \in 0 .. deg - 1
        /\ Ancestor(i, deg, m) = Ancestor(i, deg, m + 1) * deg + (Ancestor(i, deg, m) % deg)
    BY <1>1, <1>2, AncestorStep
  <2> QED
    BY <2>1, <2>2
<1>5. q \in 0 .. Power(deg, h - k) - 1
  BY <1>1, AncestorBound
<1>6. PICK m \in 0 .. h - 1 : m = k - 1 /\ m + 1 = k
  BY <1>1
<1>7. q \in 0 .. Power(deg, h - (m + 1)) - 1
  BY <1>5, <1>6
<1> HIDE DEF q, r
<1>8. /\ Layers(leaves, deg)[m + 1][q + 1] = Digest(Below(leaves, deg, m, q))
      /\ Below(leaves, deg, m, q) \in Seq(NodesOn(leaves, deg, m))
      /\ Len(Below(leaves, deg, m, q)) = deg
      /\ \A j \in 0 .. deg - 1 :
           Below(leaves, deg, m, q)[j + 1] = Layers(leaves, deg)[m][q * deg + j + 1]
  BY <1>7, NodeBelow
<1>9. Below(leaves, deg, k - 1, q)[r + 1] = Layers(leaves, deg)[k - 1][Ancestor(i, deg, k - 1) + 1]
  BY <1>4, <1>6, <1>8
<1>10. r + 1 \in 1 .. deg
  BY <1>1, <1>4
<1> QED
  BY <1>6, <1>8, <1>9, <1>10 DEF q, r, Siblings, Place

\* The client computes the ancestors of a leaf that comes with its proof.
LEMMA ProofVerifies ==
  ASSUME NEW leaves, NEW deg, NEW h, IsTree(leaves, deg, h), NEW i \in 0 .. Power(deg, h) - 1
  PROVE  TreeVerify(leaves[i + 1], i, TreeRoot(leaves, deg), TreeProof(leaves, i, deg), deg)
<1> DEFINE proof == TreeProof(leaves, i, deg)
           layer == Layers(leaves, deg)
           value == Values(leaves[i + 1], i, proof, deg)
           S == {k \in Nat : k <= h => value[k] = layer[k][Ancestor(i, deg, k) + 1]}
<1>1. h \in Nat /\ deg \in Degrees /\ deg \in Nat /\ LogFloor(Len(leaves), deg) = h
  BY LogFloorPower DEF IsTree, Degrees
<1>2. i \in Nat
  BY <1>1, PowerNat
<1>3. proof = [k \in 1 .. h |-> TreeProofAt(leaves, i, deg, k)]
  BY <1>2, TreeProofIs
<1> HIDE DEF proof
<1>4. Len(proof) = h
  BY <1>1, <1>3
<1>5. /\ value[0] = leaves[i + 1]
      /\ \A k \in 1 .. h :
           value[k] = Digest(InsertAt(proof[k], (Ancestor(i, deg, k - 1) % deg) + 1, value[k - 1]))
  BY <1>1, <1>4, ValuesSolved
<1> HIDE DEF value
<1>6. 0 \in S
  <2>1. i \div 1 = i
    BY <1>2
  <2>2. Ancestor(i, deg, 0) = i
    BY <2>1, PowerZero DEF Ancestor
  <2>3. layer[0] = leaves
    BY LayerStep
  <2> QED
    BY <1>5, <2>2, <2>3
<1>7. ASSUME NEW m \in Nat, m \in S PROVE m + 1 \in S
  <2> SUFFICES ASSUME m + 1 <= h
               PROVE  value[m + 1] = layer[m + 1][Ancestor(i, deg, m + 1) + 1]
    OBVIOUS
  <2>1. PICK k \in 1 .. h : k = m + 1 /\ k - 1 = m
    BY <1>1
  <2> DEFINE q == Ancestor(i, deg, k)
             p == Place(deg, i, k)
             below == Siblings(leaves, deg, i, k)
             T == NodesOn(leaves, deg, k - 1)
  <2>2. /\ layer[k][q + 1] = Digest(below)
        /\ below[p] = layer[k - 1][Ancestor(i, deg, k - 1) + 1]
        /\ Len(below) = deg /\ p \in 1 .. deg
        /\ below \in Seq(T)
    BY LayerVerified
  <2>3. proof[k] = RemoveAt(below, p)
    BY <1>3 DEF TreeProofAt
  <2>4. value[k] = Digest(InsertAt(proof[k], p, value[k - 1]))
    BY <1>5 DEF Place
  <2>5. value[k - 1] = layer[k - 1][Ancestor(i, deg, k - 1) + 1]
    BY <1>1, <1>7, <2>1
  <2> HIDE DEF q, p, below, T, layer
  <2>6. InsertAt(RemoveAt(below, p), p, below[p]) = below
    BY <2>2, InsertedRemoved
  <2>7. value[k] = layer[k][q + 1]
    BY <2>2, <2>3, <2>4, <2>5, <2>6
  <2> QED
    BY <2>1, <2>7 DEF q, layer
<1>8. h \in S
  <2> HIDE DEF S
  <2> QED
    BY <1>1, <1>6, <1>7, SetInduction
<1>9. Ancestor(i, deg, h) = 0
  <2>1. h \in 0 .. h /\ h - h = 0
    BY <1>1
  <2> QED
    BY <1>1, <2>1, AncestorBound, PowerZero
<1>10. value[h] = layer[h][1]
  BY <1>1, <1>8, <1>9
<1> QED
  BY <1>1, <1>4, <1>10, TreeVerifyIs DEF TreeRoot, proof, value

\* What a client parses: siblings for some number of layers.
IsProof(proof, deg) ==
  /\ Len(proof) \in Nat
  /\ proof = [k \in 1 .. Len(proof) |-> proof[k]]
  /\ \A k \in 1 .. Len(proof) : \E T : proof[k] \in Seq(T) /\ Len(proof[k]) = deg - 1

\* An insertion can be undone.
LEMMA Extracted ==
  ASSUME NEW T, NEW s \in Seq(T), NEW e, NEW p \in 1 .. Len(s) + 1
  PROVE  InsertAt(s, p, e)[p] = e /\ RemoveAt(InsertAt(s, p, e), p) = s
<1> DEFINE S == T \cup {e}
<1>1. s \in Seq(S) /\ e \in S
  <2>1. /\ Len(s) \in Nat /\ s = [j \in 1 .. Len(s) |-> s[j]]
        /\ \A j \in 1 .. Len(s) : s[j] \in T
    BY LenProperties, ElementOfSeq
  <2> QED
    BY <2>1
<1> HIDE DEF S
<1> QED
  BY <1>1, Inserted, RemovedInserted

\* One step down: a computed value that is a node gives away the node below
\* it and the siblings.
LEMMA StepDown ==
  ASSUME NEW leaves, NEW deg, NEW h, IsTree(leaves, deg, h),
         NEW k \in 0 .. h - 1, NEW q \in 0 .. Power(deg, h - (k + 1)) - 1,
         NEW T, NEW s \in Seq(T), Len(s) = deg - 1, NEW r \in 0 .. deg - 1, NEW v,
         Digest(InsertAt(s, r + 1, v)) = Layers(leaves, deg)[k + 1][q + 1]
  PROVE  /\ v = Layers(leaves, deg)[k][q * deg + r + 1]
         /\ s = RemoveAt(Below(leaves, deg, k, q), r + 1)
<1>1. deg \in Nat \ {0}
  BY DEF IsTree, Degrees
<1>2. PICK p \in 1 .. Len(s) + 1 : p = r + 1
  BY <1>1
<1>3. InsertAt(s, p, v)[p] = v /\ RemoveAt(InsertAt(s, p, v), p) = s
  BY Extracted
<1>4. Digest(InsertAt(s, p, v)) = Digest(Below(leaves, deg, k, q))
  BY <1>2, NodeBelow
<1>5. InsertAt(s, p, v) = Below(leaves, deg, k, q)
  <2> DEFINE a == InsertAt(s, p, v)
             b == Below(leaves, deg, k, q)
  <2> HIDE DEF a, b
  <2>1. Digest(a) = Digest(b) => a = b
    <3>1. Digest(a).children = a /\ Digest(b).children = b
      BY DEF Digest
    <3> QED
      BY <3>1
  <2> QED
    BY <1>4, <2>1 DEF a, b
<1>6. Below(leaves, deg, k, q)[r + 1] = Layers(leaves, deg)[k][q * deg + r + 1]
  BY NodeBelow
<1> QED
  BY <1>2, <1>3, <1>5, <1>6

\* A leaf is no inner node.
LEMMA LeafIsNoDigest == \A d, children : LeafHash(d) # Digest(children)
<1> SUFFICES ASSUME NEW d, NEW children, LeafHash(d) = Digest(children) PROVE FALSE
  OBVIOUS
<1>1. DOMAIN LeafHash(d) = {"data"} /\ DOMAIN Digest(children) = {"children"}
  BY DEF LeafHash, Digest
<1> QED
  BY <1>1

\* From the root down, a verified proof has gone through nodes of the tree.
LEMMA WayDown ==
  ASSUME NEW leaves, NEW deg, NEW h, IsTree(leaves, deg, h), NEW i \in 0 .. Power(deg, h) - 1,
         NEW leaf, NEW proof, IsProof(proof, deg),
         Values(leaf, i, proof, deg)[Len(proof)] = TreeRoot(leaves, deg),
         NEW j \in Nat, j <= Len(proof), j <= h
  PROVE  \E x \in 0 .. Power(deg, j) - 1 :
           /\ Values(leaf, i, proof, deg)[Len(proof) - j] = Layers(leaves, deg)[h - j][x + 1]
           /\ Len(proof) = h => x = Ancestor(i, deg, h - j)
<1> DEFINE l == Len(proof)
           v == Values(leaf, i, proof, deg)
           layer == Layers(leaves, deg)
           S == {m \in Nat : m <= l /\ m <= h =>
                   \E x \in 0 .. Power(deg, m) - 1 :
                     /\ v[l - m] = layer[h - m][x + 1]
                     /\ l = h => x = Ancestor(i, deg, h - m)}
<1>1. /\ l \in Nat /\ h \in Nat /\ deg \in Degrees /\ deg \in Nat \ {0}
      /\ LogFloor(Len(leaves), deg) = h
  BY LogFloorPower DEF IsTree, IsProof, Degrees
<1>2. i \in Nat
  BY <1>1, PowerNat
<1>3. v[l] = layer[h][1]
  BY <1>1 DEF TreeRoot
<1>4. \A k \in 1 .. l :
        v[k] = Digest(InsertAt(proof[k], (Ancestor(i, deg, k - 1) % deg) + 1, v[k - 1]))
  BY <1>1, ValuesSolved
<1> HIDE DEF l, v, layer
<1>5. 0 \in S
  <2>1. h \in 0 .. h /\ h - h = 0 /\ l - 0 = l /\ h - 0 = h
    BY <1>1
  <2>2. Ancestor(i, deg, h) = 0 /\ Power(deg, 0) = 1
    BY <1>1, <2>1, AncestorBound, PowerZero
  <2>3. 0 \in 0 .. Power(deg, 0) - 1 /\ v[l - 0] = layer[h - 0][0 + 1]
    BY <1>3, <2>1, <2>2
  <2> QED
    BY <2>1, <2>2, <2>3
<1>6. ASSUME NEW m \in Nat, m \in S PROVE m + 1 \in S
  <2> SUFFICES ASSUME m + 1 <= l, m + 1 <= h
               PROVE  \E x \in 0 .. Power(deg, m + 1) - 1 :
                        /\ v[l - (m + 1)] = layer[h - (m + 1)][x + 1]
                        /\ l = h => x = Ancestor(i, deg, h - (m + 1))
    OBVIOUS
  <2>1. PICK x \in 0 .. Power(deg, m) - 1 :
          /\ v[l - m] = layer[h - m][x + 1]
          /\ l = h => x = Ancestor(i, deg, h - m)
    BY <1>1, <1>6
  <2>2. PICK k \in 0 .. h - 1 : k = h - (m + 1) /\ k + 1 = h - m /\ h - (k + 1) = m
    BY <1>1
  <2>3. PICK b \in 1 .. l : b = l - m /\ b - 1 = l - (m + 1) /\ b - 1 \in Nat
    BY <1>1
  <2> DEFINE r == Ancestor(i, deg, b - 1) % deg
  <2>4. r \in 0 .. deg - 1
    BY <1>1, <1>2, <2>3, AncestorStep
  <2>5. v[b] = Digest(InsertAt(proof[b], r + 1, v[b - 1]))
    BY <1>4
  <2>6. PICK T : proof[b] \in Seq(T) /\ Len(proof[b]) = deg - 1
    BY DEF IsProof, l
  <2>7. Digest(InsertAt(proof[b], r + 1, v[b - 1])) = Layers(leaves, deg)[k + 1][x + 1]
    BY <2>1, <2>2, <2>3, <2>5 DEF layer
  <2>8. x \in 0 .. Power(deg, h - (k + 1)) - 1
    BY <2>2
  <2>9. v[b - 1] = Layers(leaves, deg)[k][x * deg + r + 1]
    <3> HIDE DEF r
    <3> QED
      BY <2>4, <2>6, <2>7, <2>8, StepDown
  <2>10. x * deg + r \in 0 .. Power(deg, m + 1) - 1
    <3>1. PICK p \in Nat \ {0} : p = Power(deg, m) /\ Power(deg, m + 1) = deg * p
      BY <1>1, PowerNat, PowerStep
    <3>2. x \in Nat /\ x + 1 <= p
      BY <2>1, <3>1
    <3>3. /\ (x + 1) * deg <= deg * p /\ (x + 1) * deg = x * deg + deg
          /\ x * deg \in Nat /\ deg * p \in Nat
      BY <1>1, <3>2, SMT
    <3>4. PICK y \in Nat, z \in Nat : y = x * deg /\ z = deg * p /\ y + deg <= z
      BY <3>3
    <3> HIDE DEF r
    <3>5. y + r \in 0 .. z - 1
      BY <1>1, <2>4, <3>4
    <3> QED
      BY <3>1, <3>4, <3>5
  <2>11. ASSUME l = h PROVE x * deg + r = Ancestor(i, deg, h - (m + 1))
    <3>1. b - 1 = h - (m + 1) /\ (b - 1) + 1 = h - m
      BY <1>1, <2>3, <2>11
    <3>2. x = Ancestor(i, deg, (b - 1) + 1)
      BY <2>1, <2>11, <3>1
    <3>3. Ancestor(i, deg, b - 1) = Ancestor(i, deg, (b - 1) + 1) * deg + r
      BY <1>1, <1>2, <2>3, AncestorStep
    <3> HIDE DEF r
    <3> QED
      BY <3>1, <3>2, <3>3
  <2> HIDE DEF r
  <2> QED
    BY <2>2, <2>3, <2>9, <2>10, <2>11 DEF layer
<1>7. j \in S
  <2> HIDE DEF S
  <2> QED
    BY <1>5, <1>6, SetInduction
<1> QED
  BY <1>7 DEF l, v, layer

HoldsLeaves(leaves) == \A k \in 1 .. Len(leaves) : \E d : leaves[k] = LeafHash(d)

\* A leaf is only accepted as what it is, with the proof that generateProof
\* makes for it.
LEMMA VerifiedProof ==
  ASSUME NEW leaves, NEW deg, NEW h, IsTree(leaves, deg, h), HoldsLeaves(leaves),
         NEW i \in 0 .. Power(deg, h) - 1, NEW data, NEW proof, IsProof(proof, deg),
         TreeVerify(LeafHash(data), i, TreeRoot(leaves, deg), proof, deg)
  PROVE  LeafHash(data) = leaves[i + 1] /\ proof = TreeProof(leaves, i, deg)
<1> DEFINE l == Len(proof)
           v == Values(LeafHash(data), i, proof, deg)
           layer == Layers(leaves, deg)
<1>1. l \in Nat /\ h \in Nat /\ deg \in Degrees /\ deg \in Nat \ {0} /\ Len(leaves) = Power(deg, h)
  BY DEF IsTree, IsProof, Degrees
<1>2. i \in Nat
  BY <1>1, PowerNat
<1>3. v[l] = TreeRoot(leaves, deg)
  BY TreeVerifyIs
<1>4. /\ v[0] = LeafHash(data)
      /\ \A k \in 1 .. l : v[k] = Digest(InsertAt(proof[k], Place(deg, i, k), v[k - 1]))
  BY <1>1, ValuesSolved DEF Place
<1>5. ASSUME NEW j \in Nat, j <= l, j <= h
      PROVE  \E x \in 0 .. Power(deg, j) - 1 :
               /\ v[l - j] = layer[h - j][x + 1]
               /\ l = h => x = Ancestor(i, deg, h - j)
  BY <1>3, <1>5, WayDown
<1> HIDE DEF l, v
<1>6. layer[0] = leaves
  BY LayerStep
<1>7. ~(l < h)
  <2> SUFFICES ASSUME l < h PROVE FALSE
    OBVIOUS
  <2>1. PICK x \in 0 .. Power(deg, l) - 1 : v[l - l] = layer[h - l][x + 1]
    BY <1>1, <1>5
  <2>2. PICK k \in 0 .. h - 1 : k + 1 = h - l /\ h - (k + 1) = l
    <3>1. (h - l) - 1 \in 0 .. h - 1 /\ ((h - l) - 1) + 1 = h - l /\ h - (((h - l) - 1) + 1) = l
      BY <1>1
    <3> QED
      BY <3>1
  <2>3. x \in 0 .. Power(deg, h - (k + 1)) - 1
    BY <2>2
  <2>4. layer[k + 1][x + 1] = Digest(Below(leaves, deg, k, x))
    BY <2>3, NodeBelow
  <2>5. l - l = 0
    BY <1>1
  <2> QED
    BY <1>4, <2>1, <2>2, <2>4, <2>5, LeafIsNoDigest
<1>8. ~(h < l)
  <2> SUFFICES ASSUME h < l PROVE FALSE
    OBVIOUS
  <2>1. PICK x \in 0 .. Power(deg, h) - 1 : v[l - h] = layer[h - h][x + 1]
    BY <1>1, <1>5
  <2>2. h - h = 0 /\ l - h \in 1 .. l /\ x + 1 \in 1 .. Len(leaves)
    <3>1. Power(deg, h) \in Nat
      BY <1>1, PowerNat
    <3> QED
      BY <1>1, <3>1
  <2>3. PICK d : leaves[x + 1] = LeafHash(d)
    BY <2>2 DEF HoldsLeaves
  <2> QED
    BY <1>4, <1>6, <2>1, <2>2, <2>3, LeafIsNoDigest
<1>9. l = h
  BY <1>1, <1>7, <1>8
<1>10. ASSUME NEW k \in 0 .. h PROVE v[k] = layer[k][Ancestor(i, deg, k) + 1]
  <2>1. PICK j \in Nat : j <= h /\ h - j = k
    <3>1. h - k \in Nat /\ h - k <= h /\ h - (h - k) = k
      BY <1>1
    <3> QED
      BY <3>1
  <2>2. PICK x \in 0 .. Power(deg, j) - 1 :
          v[l - j] = layer[h - j][x + 1] /\ x = Ancestor(i, deg, h - j)
    BY <1>5, <1>9, <2>1
  <2> QED
    BY <1>9, <2>1, <2>2
<1>11. LeafHash(data) = leaves[i + 1]
  <2>1. i \div 1 = i
    BY <1>2
  <2>2. Ancestor(i, deg, 0) = i /\ 0 \in 0 .. h
    BY <1>1, <2>1, PowerZero DEF Ancestor
  <2> QED
    BY <1>4, <1>6, <1>10, <2>2
<1>12. ASSUME NEW k \in 1 .. h PROVE proof[k] = TreeProofAt(leaves, i, deg, k)
  <2>1. PICK b \in 0 .. h - 1 : b = k - 1 /\ b + 1 = k
    BY <1>1
  <2> DEFINE q == Ancestor(i, deg, k)
             r == Ancestor(i, deg, b) % deg
  <2>2. b \in Nat /\ r \in 0 .. deg - 1 /\ Place(deg, i, k) = r + 1
    <3>1. b \in Nat
      BY <2>1
    <3> QED
      BY <1>1, <1>2, <2>1, <3>1, AncestorStep DEF Place
  <2>3. q \in 0 .. Power(deg, h - (b + 1)) - 1
    <3>1. k \in 0 .. h
      BY <1>1
    <3> QED
      BY <1>1, <2>1, <3>1, AncestorBound
  <2>4. PICK T : proof[k] \in Seq(T) /\ Len(proof[k]) = deg - 1
    BY <1>9 DEF IsProof, l
  <2>5. Digest(InsertAt(proof[k], r + 1, v[k - 1])) = Layers(leaves, deg)[b + 1][q + 1]
    <3>1. v[k] = Digest(InsertAt(proof[k], Place(deg, i, k), v[k - 1]))
      BY <1>4, <1>9
    <3>2. v[k] = layer[k][q + 1]
      BY <1>1, <1>10
    <3> QED
      BY <2>1, <2>2, <3>1, <3>2
  <2> HIDE DEF q, r
  <2>6. proof[k] = RemoveAt(Below(leaves, deg, b, q), r + 1)
    BY <2>2, <2>3, <2>4, <2>5, StepDown
  <2> QED
    BY <2>1, <2>2, <2>6 DEF TreeProofAt, Siblings, q
<1>13. proof = [k \in 1 .. h |-> proof[k]]
  BY <1>9 DEF IsProof, l
<1>14. TreeProof(leaves, i, deg) = [k \in 1 .. h |-> TreeProofAt(leaves, i, deg, k)]
  BY <1>2, TreeProofIs
<1> QED
  BY <1>11, <1>12, <1>13, <1>14

-----------------------------------------------------------------------------
(* Where the trees of a range begin.                                       *)

BeforeAll(sizes) ==
  CHOOSE before : before = [j \in 0 .. Len(sizes) |-> IF j = 0 THEN 0 ELSE before[j - 1] + sizes[j]]

\* The number of leaves before a tree is a value of Offset's function.
LEMMA OffsetIs == \A sizes, k : Offset(sizes, k) = BeforeAll(sizes)[k - 1]
  BY DEF Offset, BeforeAll

\* The recursive definition of Offset has a solution.
LEMMA BeforeSolved ==
  ASSUME NEW sizes, Len(sizes) \in Nat
  PROVE  BeforeAll(sizes) =
           [j \in 0 .. Len(sizes) |-> IF j = 0 THEN 0 ELSE BeforeAll(sizes)[j - 1] + sizes[j]]
<1> DEFINE Solves(g, m) == g = [j \in 0 .. m |-> IF j = 0 THEN 0 ELSE g[j - 1] + sizes[j]]
           S == {m \in Nat : \E g : Solves(g, m)}
<1>1. 0 \in S
  <2> DEFINE g == [j \in 0 .. 0 |-> 0]
  <2>1. Solves(g, 0)
    OBVIOUS
  <2> QED
    BY <2>1
<1>2. ASSUME NEW m \in Nat, m \in S PROVE m + 1 \in S
  <2>1. PICK g : Solves(g, m)
    BY <1>2
  <2> DEFINE h == [j \in 0 .. m + 1 |-> IF j = m + 1 THEN g[m] + sizes[j] ELSE g[j]]
             hh == [j \in 0 .. m + 1 |-> IF j = 0 THEN 0 ELSE h[j - 1] + sizes[j]]
  <2>2. ASSUME NEW j \in 0 .. m + 1 PROVE h[j] = hh[j]
    <3>1. CASE j = m + 1
      <4>1. j - 1 = m /\ j # 0 /\ m # m + 1 /\ m \in 0 .. m + 1
        BY <3>1
      <4>2. h[j] = g[m] + sizes[j] /\ h[m] = g[m] /\ hh[j] = h[j - 1] + sizes[j]
        BY <3>1, <4>1
      <4> QED
        BY <4>1, <4>2
    <3>2. CASE j \in 0 .. m
      <4>1. h[j] = g[j] /\ (j # 0 => h[j - 1] = g[j - 1])
        BY <3>2
      <4>2. g[j] = IF j = 0 THEN 0 ELSE g[j - 1] + sizes[j]
        BY <2>1, <3>2
      <4> QED
        BY <4>1, <4>2
    <3> QED
      BY <3>1, <3>2
  <2>3. h = hh
    BY <2>2
  <2>4. \E f : Solves(f, m + 1)
    BY <2>3
  <2> HIDE DEF Solves
  <2> QED
    BY <2>4
<1>3. Len(sizes) \in S
  <2> HIDE DEF S
  <2> QED
    BY <1>1, <1>2, SetInduction
<1> QED
  BY <1>3 DEF BeforeAll

\* A tree begins where the one before ends.
LEMMA OffsetStep ==
  ASSUME NEW sizes, sizes \in Seq(Nat)
  PROVE  /\ Offset(sizes, 1) = 0
         /\ \A k \in 1 .. Len(sizes) : Offset(sizes, k + 1) = Offset(sizes, k) + sizes[k]
<1> DEFINE f == BeforeAll(sizes)
<1>1. PICK l \in Nat : l = Len(sizes)
  BY LenProperties
<1>2. f = [j \in 0 .. l |-> IF j = 0 THEN 0 ELSE f[j - 1] + sizes[j]]
  BY <1>1, BeforeSolved
<1>3. \A k \in Int : Offset(sizes, k) = f[k - 1]
  BY OffsetIs
<1> HIDE DEF f
<1>4. f[0] = 0
  BY <1>2
<1>5. ASSUME NEW k \in 1 .. l PROVE f[k] = f[k - 1] + sizes[k]
  BY <1>2
<1>6. Offset(sizes, 1) = 0
  <2>1. 1 \in Int /\ 1 - 1 = 0
    OBVIOUS
  <2> QED
    BY <1>3, <1>4, <2>1
<1>7. ASSUME NEW k \in 1 .. l PROVE Offset(sizes, k + 1) = Offset(sizes, k) + sizes[k]
  <2>1. k \in Int /\ k + 1 \in Int /\ (k + 1) - 1 = k
    OBVIOUS
  <2> QED
    BY <1>3, <1>5, <2>1
<1> QED
  BY <1>1, <1>6, <1>7

\* Where trees begin is a number.
LEMMA OffsetNat ==
  ASSUME NEW sizes \in Seq(Nat), NEW k \in 1 .. Len(sizes) + 1
  PROVE  Offset(sizes, k) \in Nat
<1>1. PICK l \in Nat : l = Len(sizes)
  BY LenProperties
<1> DEFINE S == {m \in Nat : m <= l => Offset(sizes, m + 1) \in Nat}
<1>2. 0 \in S
  BY OffsetStep
<1>3. ASSUME NEW m \in Nat, m \in S PROVE m + 1 \in S
  <2> SUFFICES ASSUME m + 1 <= l PROVE Offset(sizes, (m + 1) + 1) \in Nat
    OBVIOUS
  <2>1. PICK j \in 1 .. Len(sizes) : j = m + 1
    BY <1>1
  <2>2. Offset(sizes, j + 1) = Offset(sizes, j) + sizes[j] /\ sizes[j] \in Nat
    BY OffsetStep, ElementOfSeq
  <2> QED
    BY <1>1, <1>3, <2>1, <2>2
<1>4. PICK m \in Nat : m <= l /\ m + 1 = k
  <2>1. k - 1 \in Nat /\ k - 1 <= l /\ (k - 1) + 1 = k
    BY <1>1
  <2> QED
    BY <2>1
<1>5. m \in S
  <2> HIDE DEF S
  <2> QED
    BY <1>2, <1>3, SetInduction
<1> QED
  BY <1>4, <1>5

\* One element in front of a sequence.
LEMMA Prepended ==
  ASSUME NEW T, NEW t \in T, NEW s \in Seq(T), NEW l \in Nat, Len(s) = l
  PROVE  /\ Len(Joint(<<t>>, s)) = l + 1
         /\ Joint(<<t>>, s)[1] = t
         /\ \A j \in 1 .. l : Joint(<<t>>, s)[j + 1] = s[j]
<1> DEFINE u == <<t>>
<1>1. PICK o \in Nat : o = 1
  OBVIOUS
<1>2. u \in Seq(T) /\ Len(u) = o /\ u[1] = t
  BY <1>1
<1> HIDE DEF u
<1>3. /\ Len(Joint(u, s)) = o + l
      /\ \A j \in 1 .. o : Joint(u, s)[j] = u[j]
      /\ \A j \in 1 .. l : Joint(u, s)[o + j] = s[j]
  BY <1>2, Joined
<1>4. \A j \in 1 .. l : o + j = j + 1
  BY <1>1
<1> QED
  BY <1>1, <1>2, <1>3, <1>4 DEF u

\* The first size in front of the others moves them all.
LEMMA OffsetCons ==
  ASSUME NEW T, NEW t \in T, NEW s \in Seq(T), t \in Nat, s \in Seq(Nat),
         NEW all \in Seq(Nat), all = Joint(<<t>>, s),
         NEW k \in 1 .. Len(s) + 1
  PROVE  /\ Len(all) = Len(s) + 1
         /\ Offset(all, k + 1) = t + Offset(s, k)
<1>1. PICK l \in Nat : l = Len(s)
  BY LenProperties
<1>2. Len(all) = l + 1 /\ all[1] = t /\ \A j \in 1 .. l : all[j + 1] = s[j]
  <2>1. Len(s) = l
    BY <1>1
  <2>2. /\ Len(Joint(<<t>>, s)) = l + 1
        /\ Joint(<<t>>, s)[1] = t
        /\ \A j \in 1 .. l : Joint(<<t>>, s)[j + 1] = s[j]
    BY <2>1, Prepended
  <2> QED
    BY <2>2
<1> DEFINE S == {m \in Nat : m <= l => Offset(all, (m + 1) + 1) = t + Offset(s, m + 1)}
<1>3. 0 \in S
  <2>1. Offset(all, 1) = 0 /\ Offset(s, 1) = 0
    BY OffsetStep
  <2>2. PICK o \in 1 .. Len(all) : o = 1
    BY <1>2
  <2>3. Offset(all, o + 1) = Offset(all, o) + all[o]
    BY OffsetStep
  <2> QED
    BY <1>2, <2>1, <2>2, <2>3
<1>4. ASSUME NEW m \in Nat, m \in S PROVE m + 1 \in S
  <2> SUFFICES ASSUME m + 1 <= l
               PROVE  Offset(all, ((m + 1) + 1) + 1) = t + Offset(s, (m + 1) + 1)
    OBVIOUS
  <2>1. PICK j \in 1 .. Len(s) : j = m + 1
    BY <1>1
  <2>2. PICK i \in 1 .. Len(all) : i = j + 1
    BY <1>1, <1>2
  <2>3. Offset(s, j + 1) = Offset(s, j) + s[j]
    BY OffsetStep
  <2>4. Offset(all, i + 1) = Offset(all, i) + all[i]
    BY OffsetStep
  <2>5. all[i] = s[j] /\ s[j] \in Nat
    BY <1>1, <1>2, <2>2, ElementOfSeq
  <2>6. Offset(s, j) \in Nat
    <3>1. j \in 1 .. Len(s) + 1
      BY <1>1
    <3> QED
      BY <3>1, OffsetNat
  <2>7. Offset(all, j + 1) = t + Offset(s, j)
    BY <1>1, <1>4, <2>1
  <2> QED
    BY <2>1, <2>2, <2>3, <2>4, <2>5, <2>6, <2>7
<1>5. PICK m \in Nat : m <= l /\ m + 1 = k
  <2>1. k - 1 \in Nat /\ k - 1 <= l /\ (k - 1) + 1 = k
    BY <1>1
  <2> QED
    BY <2>1
<1>6. m \in S
  <2> HIDE DEF S
  <2> QED
    BY <1>3, <1>4, SetInduction
<1> QED
  BY <1>1, <1>2, <1>5, <1>6

\* Sizes are numbers.
LEMMA SizesNat ==
  ASSUME NEW deg \in Degrees, NEW l \in Nat
  PROVE  PeakSizes(l, deg) \in Seq(Nat)
<1>1. PeakSizes(l, deg) \in Seq(PowersOf(deg)) /\ PowersOf(deg) \subseteq Nat
  BY SizesArePowers, PowersAreNat
<1> DEFINE s == PeakSizes(l, deg)
<1> HIDE DEF s
<1>2. s \in Seq(PowersOf(deg)) => s \in Seq(Nat)
  <2> SUFFICES ASSUME s \in Seq(PowersOf(deg)) PROVE s \in Seq(Nat)
    OBVIOUS
  <2>1. /\ Len(s) \in Nat /\ s = [j \in 1 .. Len(s) |-> s[j]]
        /\ \A j \in 1 .. Len(s) : s[j] \in PowersOf(deg)
    BY LenProperties, ElementOfSeq
  <2> QED
    BY <1>1, <2>1
<1> QED
  BY <1>1, <1>2 DEF s

\* The trees hold all leaves.
LEMMA SizesAddUp ==
  ASSUME NEW deg \in Degrees, NEW l \in Nat
  PROVE  Offset(PeakSizes(l, deg), Len(PeakSizes(l, deg)) + 1) = l
<1> DEFINE S == {m \in Nat : Offset(PeakSizes(m, deg), Len(PeakSizes(m, deg)) + 1) = m}
<1>1. ASSUME NEW m \in Nat, \A k \in 0 .. m - 1 : k \in S PROVE m \in S
  <2>1. CASE m = 0
    <3>1. PeakSizes(m, deg) = <<>> /\ PeakSizes(m, deg) \in Seq(Nat)
      BY <2>1, SizesZero, SizesNat
    <3>2. Len(PeakSizes(m, deg)) + 1 = 1
      BY <3>1
    <3> QED
      BY <2>1, <3>1, <3>2, OffsetStep
  <2>2. CASE m # 0
    <3>1. PICK r \in 0 .. m - 1 : r = m - TreeSize(m, deg)
      BY <2>2, TreeSizeIs
    <3>2. PICK t \in Nat : t = TreeSize(m, deg) /\ t + r = m
      BY <2>2, <3>1, TreeSizeIs
    <3>3. PeakSizes(m, deg) = Joint(<<t>>, PeakSizes(r, deg))
      BY <2>2, <3>1, <3>2, SizesStep DEF Joint
    <3>4. PeakSizes(m, deg) \in Seq(Nat) /\ PeakSizes(r, deg) \in Seq(Nat)
      BY SizesNat
    <3> DEFINE all == PeakSizes(m, deg)
               s == PeakSizes(r, deg)
    <3>5. Offset(s, Len(s) + 1) = r
      BY <1>1
    <3> HIDE DEF all, s
    <3>6. PICK k \in 1 .. Len(s) + 1 : k = Len(s) + 1
      <4>1. Len(s) \in Nat
        BY <3>4 DEF s
      <4> QED
        BY <4>1
    <3>7. Len(all) = Len(s) + 1 /\ Offset(all, k + 1) = t + Offset(s, k)
      <4> DEFINE T == PowersOf(deg)
      <4>1. s \in Seq(T)
        <5>1. r \in Nat
          OBVIOUS
        <5> QED
          BY <5>1, SizesArePowers DEF s
      <4>3. t \in T
        BY <2>2, <3>2, TreeSizeIs DEF TreeSize, PowersOf
      <4>2. s \in Seq(Nat) /\ all \in Seq(Nat) /\ all = Joint(<<t>>, s)
        BY <3>3, <3>4 DEF all, s
      <4> HIDE DEF T
      <4> QED
        BY <4>1, <4>2, <4>3, OffsetCons
    <3>8. Offset(all, Len(all) + 1) = m
      BY <3>2, <3>5, <3>6, <3>7
    <3> QED
      BY <3>8 DEF all
  <2> QED
    BY <2>1, <2>2
<1>2. l \in S
  <2> HIDE DEF S
  <2> QED
    BY <1>1, StrongInduction
<1> QED
  BY <1>2

\* A later tree ends later.
LEMMA OffsetMonotone ==
  ASSUME NEW sizes \in Seq(Nat), NEW k \in 1 .. Len(sizes) + 1
  PROVE  Offset(sizes, k) <= Offset(sizes, Len(sizes) + 1)
<1>1. PICK l \in Nat : l = Len(sizes)
  BY LenProperties
<1> DEFINE S == {m \in Nat : k + m <= l + 1 => Offset(sizes, k) <= Offset(sizes, k + m)}
<1>2. \A j \in 1 .. l + 1 : Offset(sizes, j) \in Nat
  BY <1>1, OffsetNat
<1>3. 0 \in S
  BY <1>1, <1>2
<1>4. ASSUME NEW m \in Nat, m \in S PROVE m + 1 \in S
  <2> SUFFICES ASSUME k + (m + 1) <= l + 1 PROVE Offset(sizes, k) <= Offset(sizes, k + (m + 1))
    OBVIOUS
  <2>1. PICK j \in 1 .. Len(sizes) : j = k + m /\ j + 1 = k + (m + 1)
    BY <1>1
  <2>2. Offset(sizes, j + 1) = Offset(sizes, j) + sizes[j] /\ sizes[j] \in Nat
    BY OffsetStep, ElementOfSeq
  <2>3. Offset(sizes, k) <= Offset(sizes, j)
    BY <1>1, <1>4, <2>1
  <2>4. Offset(sizes, k) \in Nat /\ Offset(sizes, j) \in Nat
    BY <1>1, <1>2
  <2> QED
    BY <2>1, <2>2, <2>3, <2>4
<1>5. PICK m \in Nat : k + m = l + 1
  <2>1. l + 1 - k \in Nat /\ k + (l + 1 - k) = l + 1
    BY <1>1
  <2> QED
    BY <2>1
<1>6. m \in S
  <2> HIDE DEF S
  <2> QED
    BY <1>3, <1>4, SetInduction
<1> QED
  BY <1>1, <1>5, <1>6

\* Each leaf is in a tree.
LEMMA PeakOfIs ==
  ASSUME NEW deg \in Degrees, NEW l \in Nat, NEW i \in 0 .. l - 1
  PROVE  LET sizes == PeakSizes(l, deg)
             k == PeakOf(sizes, i)
         IN  /\ k \in 1 .. Len(sizes) /\ sizes \in Seq(Nat)
             /\ Offset(sizes, k) \in Nat /\ sizes[k] \in Nat
             /\ Offset(sizes, k) <= i /\ i < Offset(sizes, k) + sizes[k]
             /\ Offset(sizes, k) + sizes[k] <= l
<1> DEFINE sizes == PeakSizes(l, deg)
<1>1. sizes \in Seq(Nat) /\ Offset(sizes, Len(sizes) + 1) = l
  BY SizesNat, SizesAddUp
<1> HIDE DEF sizes
<1>2. PICK z \in Nat : z = Len(sizes) /\ DOMAIN sizes = 1 .. z
  BY <1>1, LenProperties
<1>3. /\ \A k \in 1 .. z + 1 : Offset(sizes, k) \in Nat
      /\ \A k \in 1 .. z : sizes[k] \in Nat
  BY <1>1, <1>2, OffsetNat, ElementOfSeq
<1>4. /\ Offset(sizes, 1) = 0
      /\ \A k \in 1 .. z : Offset(sizes, k + 1) = Offset(sizes, k) + sizes[k]
  BY <1>1, <1>2, OffsetStep
<1> DEFINE Holds(k) == Offset(sizes, k) <= i /\ i < Offset(sizes, k) + sizes[k]
<1>5. \E k \in 1 .. z : Holds(k)
  <2> SUFFICES ASSUME \A k \in 1 .. z : ~Holds(k) PROVE FALSE
    OBVIOUS
  <2> DEFINE S == {m \in Nat : m <= z => Offset(sizes, m + 1) <= i}
  <2>1. 0 \in S
    BY <1>4
  <2>2. ASSUME NEW m \in Nat, m \in S PROVE m + 1 \in S
    <3> SUFFICES ASSUME m + 1 <= z PROVE Offset(sizes, (m + 1) + 1) <= i
      OBVIOUS
    <3>1. PICK k \in 1 .. z : k = m + 1
      OBVIOUS
    <3>2. Offset(sizes, k) <= i
      BY <2>2, <3>1
    <3>3. Offset(sizes, k) \in Nat /\ sizes[k] \in Nat
      BY <1>3
    <3>4. ~(i < Offset(sizes, k) + sizes[k])
      BY <3>2
    <3>5. Offset(sizes, k) + sizes[k] <= i
      BY <3>3, <3>4
    <3> QED
      BY <1>4, <3>1, <3>5
  <2>3. z \in S
    <3> HIDE DEF S
    <3> QED
      BY <2>1, <2>2, SetInduction
  <2>4. Offset(sizes, z + 1) <= i
    BY <2>3
  <2> QED
    BY <1>1, <1>2, <2>4
<1> DEFINE k == PeakOf(sizes, i)
<1>6. k \in 1 .. z /\ Holds(k)
  <2>1. k = CHOOSE q \in 1 .. z : Holds(q)
    BY <1>2 DEF PeakOf
  <2> HIDE DEF Holds
  <2> QED
    BY <1>5, <2>1
<1> HIDE DEF k
<1>7. Offset(sizes, k + 1) <= l
  <2>1. PICK q \in 1 .. Len(sizes) + 1 : q = k + 1
    BY <1>2, <1>6
  <2> QED
    BY <1>1, <2>1, OffsetMonotone
<1>8. Offset(sizes, k) + sizes[k] <= l /\ Offset(sizes, k) \in Nat /\ sizes[k] \in Nat
  BY <1>3, <1>4, <1>6, <1>7
<1> QED
  BY <1>1, <1>2, <1>6, <1>8 DEF k, sizes

\* What generateProof makes are siblings.
LEMMA TreeProofTyped ==
  ASSUME NEW leaves, NEW deg, NEW h, IsTree(leaves, deg, h), NEW i \in 0 .. Power(deg, h) - 1
  PROVE  IsProof(TreeProof(leaves, i, deg), deg)
<1> DEFINE proof == TreeProof(leaves, i, deg)
<1>1. h \in Nat /\ deg \in Degrees
  BY DEF IsTree
<1>2. i \in Nat
  BY <1>1, PowerNat
<1>3. proof = [k \in 1 .. h |-> TreeProofAt(leaves, i, deg, k)]
  BY <1>2, TreeProofIs
<1> HIDE DEF proof
<1>4. Len(proof) = h
  BY <1>1, <1>3
<1>5. ASSUME NEW k \in 1 .. h
      PROVE  \E T : proof[k] \in Seq(T) /\ Len(proof[k]) = deg - 1
  <2> DEFINE s == Siblings(leaves, deg, i, k)
             p == Place(deg, i, k)
             T == NodesOn(leaves, deg, k - 1)
  <2>1. s \in Seq(T) /\ Len(s) = deg /\ p \in 1 .. deg
    BY LayerVerified
  <2>2. proof[k] = RemoveAt(s, p)
    BY <1>3 DEF TreeProofAt
  <2> HIDE DEF s, p, T
  <2>3. RemoveAt(s, p) \in Seq(T) /\ Len(RemoveAt(s, p)) = deg - 1
    BY <2>1, Removed
  <2> QED
    BY <2>2, <2>3
<1>6. proof = [k \in 1 .. Len(proof) |-> proof[k]]
  BY <1>3, <1>4
<1> QED
  BY <1>1, <1>4, <1>5, <1>6 DEF IsProof, proof

-----------------------------------------------------------------------------
(* Ranges of any leaves.                                                   *)

IsRange(leaves, l, deg) ==
  /\ deg \in Degrees /\ l \in Nat
  /\ leaves = [i \in 1 .. l |-> leaves[i]]
  /\ HoldsLeaves(leaves)

\* The peaks of a range have the sizes the source computes for it.
LEMMA RangePeaks ==
  ASSUME NEW leaves, NEW l, NEW deg, IsRange(leaves, l, deg)
  PROVE  LET peaks == Peaks(leaves, deg)
             sizes == PeakSizes(l, deg)
         IN  /\ Len(leaves) = l
             /\ peaks = [k \in 1 .. Len(sizes) |->
                           [rootHash |-> TreeRoot(TreeLeaves(leaves, deg, k), deg),
                            size |-> sizes[k]]]
             /\ Len(peaks) = Len(sizes) /\ Sizes(peaks) = sizes
             /\ sizes \in Seq(PowersOf(deg)) /\ sizes \in Seq(Nat) /\ Len(sizes) \in Nat
<1> DEFINE sizes == PeakSizes(l, deg)
           peaks == Peaks(leaves, deg)
<1>1. l \in Nat /\ deg \in Degrees /\ Len(leaves) = l
  BY DEF IsRange
<1>2. sizes \in Seq(PowersOf(deg)) /\ sizes \in Seq(Nat)
  BY <1>1, SizesArePowers, SizesNat
<1>3. Len(sizes) \in Nat /\ DOMAIN sizes = 1 .. Len(sizes)
      /\ sizes = [k \in 1 .. Len(sizes) |-> sizes[k]]
  BY <1>2, LenProperties
<1>4. peaks = [k \in 1 .. Len(sizes) |->
                 [rootHash |-> TreeRoot(TreeLeaves(leaves, deg, k), deg), size |-> sizes[k]]]
  BY <1>1, <1>3 DEF Peaks
<1> HIDE DEF peaks, sizes
<1>5. Len(peaks) = Len(sizes) /\ DOMAIN peaks = 1 .. Len(sizes)
  BY <1>3, <1>4
<1>6. Sizes(peaks) = [k \in 1 .. Len(sizes) |-> peaks[k].size]
  BY <1>5 DEF Sizes
<1>7. Sizes(peaks) = sizes
  BY <1>3, <1>4, <1>6
<1> QED
  BY <1>1, <1>2, <1>3, <1>4, <1>5, <1>7 DEF sizes, peaks

\* Every peak is that of a tree, which holds the next leaves of the range.
LEMMA RangeTree ==
  ASSUME NEW leaves, NEW l, NEW deg, IsRange(leaves, l, deg),
         NEW k \in 1 .. Len(PeakSizes(l, deg))
  PROVE  LET sizes == PeakSizes(l, deg)
             tree == TreeLeaves(leaves, deg, k)
         IN  /\ \E h \in Nat : sizes[k] = Power(deg, h) /\ IsTree(tree, deg, h)
             /\ Len(tree) = sizes[k] /\ sizes[k] \in Nat \ {0}
             /\ Offset(sizes, k) \in Nat
             /\ Offset(sizes, k) + sizes[k] <= l
             /\ Offset(sizes, k + 1) = Offset(sizes, k) + sizes[k]
             /\ \A j \in 1 .. sizes[k] : tree[j] = leaves[Offset(sizes, k) + j]
             /\ HoldsLeaves(tree)
             /\ tree = [j \in 1 .. sizes[k] |-> tree[j]]
<1> DEFINE sizes == PeakSizes(l, deg)
           o == Offset(sizes, k)
           tree == TreeLeaves(leaves, deg, k)
<1>1. l \in Nat /\ deg \in Degrees /\ Len(leaves) = l
      /\ sizes \in Seq(PowersOf(deg)) /\ sizes \in Seq(Nat) /\ Len(sizes) \in Nat
  BY RangePeaks DEF IsRange
<1>2. tree = SubSeq(leaves, o + 1, o + sizes[k])
  BY <1>1 DEF TreeLeaves
<1>3. o \in Nat /\ Offset(sizes, k + 1) = o + sizes[k] /\ Offset(sizes, k + 1) <= l
  <2>1. PICK q \in 1 .. Len(sizes) + 1 : q = k + 1
    BY <1>1
  <2>2. PICK p \in 1 .. Len(sizes) + 1 : p = k
    BY <1>1
  <2>3. Offset(sizes, q) <= l
    BY <1>1, OffsetMonotone, SizesAddUp
  <2>4. Offset(sizes, p) \in Nat
    BY <1>1, OffsetNat
  <2> HIDE DEF sizes
  <2> QED
    BY <1>1, <2>1, <2>2, <2>3, <2>4, OffsetStep DEF sizes
<1>4. PICK h \in Nat : sizes[k] = Power(deg, h)
  <2>1. sizes[k] \in PowersOf(deg)
    BY <1>1, ElementOfSeq
  <2> QED
    BY <2>1 DEF PowersOf
<1> HIDE DEF sizes, o, tree
<1>5. PICK z \in Nat : z = sizes[k] /\ z # 0 /\ o + z <= l
  BY <1>1, <1>3, <1>4, PowerNat
<1>6. Len(tree) = z /\ (\A j \in 1 .. z : tree[j] = leaves[o + j])
      /\ tree = [j \in 1 .. z |-> tree[j]]
  <2> DEFINE T == {leaves[j] : j \in 1 .. l}
  <2>1. \A j \in o + 1 .. o + z : leaves[j] \in T
    <3> SUFFICES ASSUME NEW j \in o + 1 .. o + z PROVE leaves[j] \in T
      OBVIOUS
    <3>1. j \in 1 .. l
      BY <1>1, <1>3, <1>5
    <3> QED
      BY <3>1
  <2>2. o + 1 \in Int /\ o + z \in Int /\ o + 1 <= o + z /\ (o + z) - (o + 1) + 1 = z
    BY <1>3, <1>5
  <2>3. /\ SubSeq(leaves, o + 1, o + z) \in Seq(T)
        /\ Len(SubSeq(leaves, o + 1, o + z))
             = IF o + 1 <= o + z THEN (o + z) - (o + 1) + 1 ELSE 0
        /\ \A j \in 1 .. (o + z) - (o + 1) + 1 :
             SubSeq(leaves, o + 1, o + z)[j] = leaves[(o + 1) + j - 1]
    <3> HIDE DEF T
    <3> QED
      BY <2>1, <2>2, SubSeqProperties
  <2>4. tree = SubSeq(leaves, o + 1, o + z)
    BY <1>2, <1>5
  <2>5. Len(tree) = z /\ (\A j \in 1 .. z : tree[j] = leaves[(o + 1) + j - 1]) /\ tree \in Seq(T)
    BY <2>2, <2>3, <2>4
  <2>6. ASSUME NEW j \in 1 .. z PROVE tree[j] = leaves[o + j]
    <3>1. (o + 1) + j - 1 = o + j
      BY <1>3
    <3> QED
      BY <2>5, <3>1
  <2> HIDE DEF T
  <2>7. tree = [j \in 1 .. Len(tree) |-> tree[j]]
    BY <2>5, LenProperties
  <2> QED
    BY <2>5, <2>6, <2>7
<1>7. IsTree(tree, deg, h)
  BY <1>1, <1>4, <1>5, <1>6 DEF IsTree
<1>8. HoldsLeaves(tree)
  <2> SUFFICES ASSUME NEW j \in 1 .. z PROVE \E d : tree[j] = LeafHash(d)
    BY <1>6 DEF HoldsLeaves
  <2>1. o + j \in 1 .. l
    BY <1>1, <1>3, <1>5
  <2>2. \E d : leaves[o + j] = LeafHash(d)
    BY <1>1, <2>1 DEF IsRange, HoldsLeaves
  <2> QED
    BY <1>6, <2>2
<1> QED
  BY <1>3, <1>4, <1>5, <1>6, <1>7, <1>8 DEF sizes, o, tree

\* The tree that the leaf at i is in.
LEMMA RangeLeafTree ==
  ASSUME NEW leaves, NEW l, NEW deg, IsRange(leaves, l, deg), NEW i \in 0 .. l - 1
  PROVE  LET sizes == PeakSizes(l, deg)
             k == PeakOf(sizes, i)
             tree == TreeLeaves(leaves, deg, k)
         IN  /\ k \in 1 .. Len(sizes)
             /\ i - Offset(sizes, k) \in 0 .. Len(tree) - 1
             /\ tree[(i - Offset(sizes, k)) + 1] = leaves[i + 1]
             /\ Peaks(leaves, deg)[k].rootHash = TreeRoot(tree, deg)
             /\ RangeProof(leaves, i, deg) = TreeProof(tree, i - Offset(sizes, k), deg)
<1> DEFINE sizes == PeakSizes(l, deg)
           k == PeakOf(sizes, i)
           o == Offset(sizes, k)
           tree == TreeLeaves(leaves, deg, k)
<1>1. l \in Nat /\ deg \in Degrees /\ Len(leaves) = l
  BY RangePeaks DEF IsRange
<1>2. /\ k \in 1 .. Len(sizes) /\ sizes \in Seq(Nat)
      /\ o \in Nat /\ sizes[k] \in Nat
      /\ o <= i /\ i < o + sizes[k] /\ o + sizes[k] <= l
  BY <1>1, PeakOfIs
<1>3. RangeProof(leaves, i, deg) = TreeProof(tree, i - o, deg)
  BY <1>1 DEF RangeProof
<1>4. Peaks(leaves, deg)
        = [q \in 1 .. Len(sizes) |->
             [rootHash |-> TreeRoot(TreeLeaves(leaves, deg, q), deg), size |-> sizes[q]]]
  BY RangePeaks
<1>5. Len(tree) = sizes[k] /\ \A j \in 1 .. sizes[k] : tree[j] = leaves[o + j]
  <2> HIDE DEF k
  <2> QED
    BY <1>2, RangeTree
<1> HIDE DEF sizes, k, o, tree
<1>6. Peaks(leaves, deg)[k].rootHash = TreeRoot(tree, deg)
  BY <1>2, <1>4 DEF tree
<1>7. i - o \in 0 .. Len(tree) - 1 /\ (i - o) + 1 \in 1 .. sizes[k] /\ o + ((i - o) + 1) = i + 1
  BY <1>1, <1>2, <1>5
<1>8. tree[(i - o) + 1] = leaves[i + 1]
  BY <1>5, <1>7
<1> QED
  BY <1>2, <1>3, <1>6, <1>7, <1>8 DEF sizes, k, o, tree

\* A client accepts a range of peaks for the number of leaves it was built
\* from, and for no other.
LEMMA RangeVerifyIs ==
  ASSUME NEW leaves, NEW l, NEW deg, IsRange(leaves, l, deg), NEW m \in Nat
  PROVE  RangeVerify(RangeRoot(Peaks(leaves, deg)), Peaks(leaves, deg), m, deg) = "valid"
           <=> m = l
<1> DEFINE peaks == Peaks(leaves, deg)
           sizes == PeakSizes(l, deg)
           others == PeakSizes(m, deg)
           Differs == {k \in DOMAIN others \cap DOMAIN peaks : peaks[k].size # others[k]}
<1>1. l \in Nat /\ deg \in Degrees
  BY DEF IsRange
<1>2. /\ DOMAIN peaks = 1 .. Len(sizes) /\ Len(peaks) = Len(sizes)
      /\ sizes \in Seq(PowersOf(deg))
      /\ \A k \in 1 .. Len(sizes) : peaks[k].size = sizes[k]
  <2>1. /\ peaks = [k \in 1 .. Len(sizes) |->
                      [rootHash |-> TreeRoot(TreeLeaves(leaves, deg, k), deg), size |-> sizes[k]]]
        /\ Len(peaks) = Len(sizes) /\ sizes \in Seq(PowersOf(deg))
    BY RangePeaks
  <2> HIDE DEF peaks, sizes
  <2> QED
    BY <2>1
<1>3. others \in Seq(PowersOf(deg))
  BY <1>1, SizesArePowers
<1>4. sizes = others <=> m = l
  BY <1>1, SizesDetermine
<1>5. RangeVerify(RangeRoot(peaks), peaks, m, deg) = "valid"
        <=> Differs = {} /\ Len(peaks) = Len(others)
  <2>1. RangeVerify(RangeRoot(peaks), peaks, m, deg)
          = IF Differs # {} THEN "invalid"
            ELSE IF Len(peaks) < Len(others) THEN "exception"
            ELSE IF Len(peaks) = Len(others) THEN "valid" ELSE "invalid"
    BY DEF RangeVerify
  <2> QED
    BY <1>2, <1>3, <2>1
<1>6. Differs = {} /\ Len(peaks) = Len(others) <=> sizes = others
  <2> HIDE DEF peaks, sizes, others
  <2> QED
    BY <1>2, <1>3
<1> QED
  BY <1>4, <1>5, <1>6

\* verify against the root of the leaf's tree.
LEMMA RangeLeafVerify ==
  ASSUME NEW leaves, NEW l, NEW deg, IsRange(leaves, l, deg), NEW i \in 0 .. l - 1,
         NEW leaf, NEW proof
  PROVE  LET sizes == PeakSizes(l, deg)
             k == PeakOf(sizes, i)
             tree == TreeLeaves(leaves, deg, k)
         IN  LeafVerify(leaf, i, Peaks(leaves, deg), proof, deg)
               <=> TreeVerify(leaf, i - Offset(sizes, k), TreeRoot(tree, deg), proof, deg)
<1>1. Sizes(Peaks(leaves, deg)) = PeakSizes(l, deg)
  BY RangePeaks
<1> QED
  BY <1>1, RangeLeafTree DEF LeafVerify

\* generateProof makes siblings, and a client accepts them for their leaf.
LEMMA RangeAccepts ==
  ASSUME NEW leaves, NEW l, NEW deg, IsRange(leaves, l, deg), NEW i \in 0 .. l - 1
  PROVE  /\ IsProof(RangeProof(leaves, i, deg), deg)
         /\ LeafVerify(leaves[i + 1], i, Peaks(leaves, deg), RangeProof(leaves, i, deg), deg)
<1> DEFINE sizes == PeakSizes(l, deg)
           k == PeakOf(sizes, i)
           o == Offset(sizes, k)
           tree == TreeLeaves(leaves, deg, k)
<1>1. /\ k \in 1 .. Len(sizes)
      /\ i - o \in 0 .. Len(tree) - 1
      /\ tree[(i - o) + 1] = leaves[i + 1]
      /\ RangeProof(leaves, i, deg) = TreeProof(tree, i - o, deg)
  BY RangeLeafTree
<1>2. PICK h \in Nat : IsTree(tree, deg, h)
  <2> HIDE DEF k
  <2> QED
    BY <1>1, RangeTree
<1>3. i - o \in 0 .. Power(deg, h) - 1
  BY <1>1, <1>2 DEF IsTree
<1>4. LeafVerify(leaves[i + 1], i, Peaks(leaves, deg), RangeProof(leaves, i, deg), deg)
        <=> TreeVerify(leaves[i + 1], i - o, TreeRoot(tree, deg), RangeProof(leaves, i, deg), deg)
  BY RangeLeafVerify
<1> HIDE DEF tree, o
<1>5. TreeVerify(tree[(i - o) + 1], i - o, TreeRoot(tree, deg), TreeProof(tree, i - o, deg), deg)
  BY <1>2, <1>3, ProofVerifies
<1>6. IsProof(TreeProof(tree, i - o, deg), deg)
  BY <1>2, <1>3, TreeProofTyped
<1> QED
  BY <1>1, <1>4, <1>5, <1>6

\* A leaf that a client accepts for a range is the range's, with its siblings.
LEMMA RangeBinds ==
  ASSUME NEW leaves, NEW l, NEW deg, IsRange(leaves, l, deg), NEW i \in 0 .. l - 1,
         NEW data, NEW proof, IsProof(proof, deg),
         LeafVerify(LeafHash(data), i, Peaks(leaves, deg), proof, deg)
  PROVE  LeafHash(data) = leaves[i + 1] /\ proof = RangeProof(leaves, i, deg)
<1> DEFINE sizes == PeakSizes(l, deg)
           k == PeakOf(sizes, i)
           o == Offset(sizes, k)
           tree == TreeLeaves(leaves, deg, k)
<1>1. /\ k \in 1 .. Len(sizes)
      /\ i - o \in 0 .. Len(tree) - 1
      /\ tree[(i - o) + 1] = leaves[i + 1]
      /\ RangeProof(leaves, i, deg) = TreeProof(tree, i - o, deg)
  BY RangeLeafTree
<1>2. HoldsLeaves(tree) /\ \E h \in Nat : IsTree(tree, deg, h)
  <2> HIDE DEF k
  <2> QED
    BY <1>1, RangeTree
<1>3. PICK h \in Nat : IsTree(tree, deg, h)
  BY <1>2
<1>4. i - o \in 0 .. Power(deg, h) - 1
  BY <1>1, <1>3 DEF IsTree
<1>5. TreeVerify(LeafHash(data), i - o, TreeRoot(tree, deg), proof, deg)
  BY RangeLeafVerify
<1> HIDE DEF tree, o
<1>6. LeafHash(data) = tree[(i - o) + 1] /\ proof = TreeProof(tree, i - o, deg)
  BY <1>2, <1>3, <1>4, <1>5, VerifiedProof
<1> QED
  BY <1>1, <1>6

\* Trees begin one after the other.
LEMMA OffsetGrows ==
  ASSUME NEW sizes \in Seq(Nat),
         NEW i \in 1 .. Len(sizes) + 1, NEW k \in 1 .. Len(sizes) + 1, i <= k
  PROVE  Offset(sizes, i) <= Offset(sizes, k)
<1> DEFINE z == Len(sizes)
           S == {j \in Nat : j \in 1 .. z + 1 /\ i <= j => Offset(sizes, i) <= Offset(sizes, j)}
<1>1. z \in Nat
  OBVIOUS
<1>2. \A j \in 1 .. z + 1 : Offset(sizes, j) \in Nat
  BY OffsetNat
<1>3. \A j \in 1 .. z : Offset(sizes, j + 1) = Offset(sizes, j) + sizes[j] /\ sizes[j] \in Nat
  BY OffsetStep, ElementOfSeq
<1> HIDE DEF z
<1>4. 0 \in S
  BY <1>1
<1>5. ASSUME NEW j \in Nat, j \in S PROVE j + 1 \in S
  <2> SUFFICES ASSUME j + 1 \in 1 .. z + 1, i <= j + 1
               PROVE  Offset(sizes, i) <= Offset(sizes, j + 1)
    OBVIOUS
  <2>1. CASE i = j + 1
    BY <1>2, <2>1
  <2>2. CASE i # j + 1
    <3>1. j \in 1 .. z /\ i <= j
      BY <1>1, <2>2 DEF z
    <3>2. Offset(sizes, i) <= Offset(sizes, j)
      BY <1>1, <1>5, <3>1
    <3>3. Offset(sizes, j + 1) = Offset(sizes, j) + sizes[j] /\ sizes[j] \in Nat
      BY <1>3, <3>1
    <3>4. Offset(sizes, i) \in Nat /\ Offset(sizes, j) \in Nat
      BY <1>1, <1>2, <3>1 DEF z
    <3> QED
      BY <3>2, <3>3, <3>4
  <2> QED
    BY <2>1, <2>2
<1>6. Nat \subseteq S
  <2> HIDE DEF S
  <2> QED
    BY <1>4, <1>5, SetInduction
<1> QED
  BY <1>1, <1>6 DEF z

\* The latest leaf is the last one of the last tree.
LEMMA LatestInRange ==
  ASSUME NEW leaves, NEW l, NEW deg, IsRange(leaves, l, deg), l # 0, NEW leaf, NEW proof
  PROVE  LET peaks == Peaks(leaves, deg)
             last == peaks[Len(peaks)]
         IN  TreeVerify(leaf, last.size - 1, last.rootHash, proof, deg)
               <=> LeafVerify(leaf, l - 1, peaks, proof, deg)
<1> DEFINE sizes == PeakSizes(l, deg)
           k == PeakOf(sizes, l - 1)
           z == Len(sizes)
<1>1. l \in Nat /\ deg \in Degrees /\ l - 1 \in 0 .. l - 1
  BY DEF IsRange
<1>2. /\ k \in 1 .. z /\ sizes \in Seq(Nat)
      /\ Offset(sizes, k) \in Nat /\ sizes[k] \in Nat
      /\ Offset(sizes, k) <= l - 1 /\ l - 1 < Offset(sizes, k) + sizes[k]
      /\ Offset(sizes, k) + sizes[k] <= l
  BY <1>1, PeakOfIs
<1>3. z \in Nat /\ z \in 1 .. z
  BY <1>2
<1>4. Offset(sizes, z + 1) = l
  BY <1>1, SizesAddUp
<1>5. sizes[z] \in Nat \ {0} /\ Offset(sizes, z) \in Nat
      /\ Offset(sizes, z + 1) = Offset(sizes, z) + sizes[z]
  <2>1. PICK q \in 1 .. z : q = z
    BY <1>3
  <2>2. sizes[q] \in Nat \ {0} /\ Offset(sizes, q) \in Nat
        /\ Offset(sizes, q + 1) = Offset(sizes, q) + sizes[q]
    BY RangeTree
  <2> HIDE DEF z
  <2> QED
    BY <2>1, <2>2
<1>6. ASSUME k # z PROVE FALSE
  <2>1. Offset(sizes, k) + sizes[k] = l
    BY <1>1, <1>2
  <2>2. Offset(sizes, k + 1) = Offset(sizes, k) + sizes[k]
    <3> HIDE DEF k, sizes
    <3> QED
      BY <1>2, OffsetStep
  <2>3. k + 1 \in 1 .. z /\ sizes \in Seq(Nat)
    BY <1>2, <1>3, <1>6
  <2>4. Offset(sizes, k + 1) <= Offset(sizes, z)
    <3>1. PICK q \in 1 .. z + 1 : q = k + 1
      BY <2>3
    <3>2. PICK p \in 1 .. z + 1 : p = z
      BY <1>3
    <3>3. q <= p
      BY <2>3, <3>1, <3>2
    <3> HIDE DEF k, sizes
    <3> QED
      BY <2>3, <3>1, <3>2, <3>3, OffsetGrows
  <2> QED
    BY <1>1, <1>4, <1>5, <2>1, <2>2, <2>4
<1>7. (l - 1) - Offset(sizes, k) = sizes[z] - 1
  BY <1>1, <1>4, <1>5, <1>6
<1>8. /\ Peaks(leaves, deg)[k].rootHash = TreeRoot(TreeLeaves(leaves, deg, k), deg)
      /\ LeafVerify(leaf, l - 1, Peaks(leaves, deg), proof, deg)
           <=> TreeVerify(leaf, (l - 1) - Offset(sizes, k),
                          TreeRoot(TreeLeaves(leaves, deg, k), deg), proof, deg)
  BY <1>1, RangeLeafTree, RangeLeafVerify
<1>9. Len(Peaks(leaves, deg)) = z /\ Peaks(leaves, deg)[z].size = sizes[z]
  <2>1. /\ Peaks(leaves, deg)
             = [q \in 1 .. z |->
                  [rootHash |-> TreeRoot(TreeLeaves(leaves, deg, q), deg), size |-> sizes[q]]]
        /\ Len(Peaks(leaves, deg)) = z
    BY RangePeaks
  <2> HIDE DEF z, sizes
  <2> QED
    BY <1>3, <2>1
<1> HIDE DEF k, sizes, z
<1> QED
  BY <1>6, <1>7, <1>8, <1>9

-----------------------------------------------------------------------------
(* The ranges of the module MCMerkleMountainRange.                         *)

Bounds ==
  /\ degree \in Degrees /\ degree \in 2 .. MaxDegree
  /\ leafCount \in 1 .. MaxLeaves
  /\ {proofOf, leafOf, verifiedAt} \subseteq 0 .. leafCount - 1

\* The bounds of a state stay.
LEMMA BoundsInvariance == RangeSpec => []Bounds
<1> USE BoundsAssumption DEF Bounds, Degrees
<1>1. RangeInit => Bounds
  BY DEF RangeInit
<1>2. Bounds /\ [RangeNext]_rangeVars => Bounds'
  BY DEF RangeNext, rangeVars, PresentLeaf, PresentIndex
<1> QED
  BY <1>1, <1>2, PTL DEF RangeSpec

\* The leaves of a state are a range.
LEMMA LeavesAreRange ==
  ASSUME Bounds
  PROVE  IsRange(Leaves, leafCount, degree)
<1>1. leafCount \in Nat /\ degree \in Degrees
  BY BoundsAssumption DEF Bounds
<1>2. HoldsLeaves(Leaves)
  BY <1>1 DEF Leaves, HoldsLeaves, RangeLeaf
<1> QED
  BY <1>1, <1>2 DEF IsRange, Leaves

\* A client accepts a range of peaks for the number of leaves it was built
\* from, and for no other: MerkleMountainVerify.verify against getMMRInfo,
\* for ranges of every size and degree.
THEOREM RangesAlwaysFit == RangeSpec => []RangesFit
<1>1. Bounds => RangesFit
  <2> SUFFICES ASSUME Bounds, NEW other \in 1 .. MaxLeaves
               PROVE  RangeVerify(RangeRoot(Peaks(Leaves, degree)), Peaks(Leaves, degree),
                                  other, degree) = "valid" <=> other = leafCount
    BY DEF RangesFit
  <2>1. other \in Nat
    OBVIOUS
  <2> QED
    BY <2>1, LeavesAreRange, RangeVerifyIs
<1> QED
  BY <1>1, BoundsInvariance, PTL

\* Different indices have different leaves.
LEMMA LeavesDiffer == \A i, j : RangeLeaf(i) = RangeLeaf(j) => i = j
<1> SUFFICES ASSUME NEW i, NEW j, RangeLeaf(i) = RangeLeaf(j) PROVE i = j
  OBVIOUS
<1>1. RangeLeaf(i).data = i /\ RangeLeaf(j).data = j
  BY DEF RangeLeaf, LeafHash
<1> QED
  BY <1>1

\* A leaf passes at an index exactly when it is the leaf of that index and
\* comes with that index's siblings: generateProof against verify, for
\* ranges of every size and degree, and a proof made for any leaf.
THEOREM ProofsAlwaysFit == RangeSpec => []ProofsFit
<1>1. Bounds => ProofsFit
  <2> SUFFICES ASSUME Bounds PROVE ProofsFit
    OBVIOUS
  <2> DEFINE peaks == Peaks(Leaves, degree)
             proof == RangeProof(Leaves, proofOf, degree)
             own == RangeProof(Leaves, verifiedAt, degree)
  <2>1. /\ IsRange(Leaves, leafCount, degree) /\ proofOf \in 0 .. leafCount - 1
        /\ verifiedAt \in 0 .. leafCount - 1
    BY LeavesAreRange DEF Bounds
  <2>2. Leaves[verifiedAt + 1] = RangeLeaf(verifiedAt)
    <3>1. verifiedAt + 1 \in 1 .. leafCount /\ (verifiedAt + 1) - 1 = verifiedAt
      BY <2>1 DEF IsRange
    <3> QED
      BY <3>1 DEF Leaves
  <2>3. IsProof(proof, degree)
    BY <2>1, RangeAccepts
  <2>4. LeafVerify(RangeLeaf(verifiedAt), verifiedAt, peaks, own, degree)
    BY <2>1, <2>2, RangeAccepts
  <2>5. ASSUME LeafVerify(RangeLeaf(leafOf), verifiedAt, peaks, proof, degree)
        PROVE  leafOf = verifiedAt /\ proof = own
    <3>1. LeafVerify(LeafHash(leafOf), verifiedAt, peaks, proof, degree)
      BY <2>5 DEF RangeLeaf
    <3>2. LeafHash(leafOf) = Leaves[verifiedAt + 1] /\ proof = own
      BY <2>1, <2>3, <3>1, RangeBinds
    <3> QED
      BY <2>2, <3>2, LeavesDiffer DEF RangeLeaf
  <2> HIDE DEF peaks, proof, own
  <2> QED
    BY <2>4, <2>5 DEF ProofsFit, peaks, proof, own
<1> QED
  BY <1>1, BoundsInvariance, PTL

-----------------------------------------------------------------------------
(* Trees and ranges that agree on a node.                                  *)

\* Hashes of inner nodes do not collide.
LEMMA DigestBinds == \A a, b : Digest(a) = Digest(b) => a = b
<1> SUFFICES ASSUME NEW a, NEW b, Digest(a) = Digest(b) PROVE a = b
  OBVIOUS
<1>1. Digest(a).children = a /\ Digest(b).children = b
  BY DEF Digest
<1> QED
  BY <1>1

\* The node c of a level in front of a position j, when a node is a wide.
LEMMA NodeAround ==
  ASSUME NEW j \in Nat, NEW a \in Nat \ {0}
  PROVE  \E c \in Nat : c * a <= j /\ j < (c + 1) * a
<1>1. PICK c \in Nat, r \in 0 .. a - 1 : j = a * c + r
  BY Quotient
<1>2. c * a = a * c /\ (c + 1) * a = a * c + a /\ a * c \in Nat
  OBVIOUS
<1> QED
  BY <1>1, <1>2

\* Trees that agree on a node agree on the leaves below it.
LEMMA SameBelow ==
  ASSUME NEW x, NEW y, NEW deg, NEW h, IsTree(x, deg, h), IsTree(y, deg, h),
         NEW k \in 0 .. h, NEW q \in 0 .. Power(deg, h - k) - 1,
         Layers(x, deg)[k][q + 1] = Layers(y, deg)[k][q + 1]
  PROVE  \A j \in q * Power(deg, k) .. (q + 1) * Power(deg, k) - 1 : x[j + 1] = y[j + 1]
<1> DEFINE X == Layers(x, deg)
           Y == Layers(y, deg)
           P(m) == Power(deg, m)
           AgreeOn(m, p) == \A j \in p * P(m) .. (p + 1) * P(m) - 1 : x[j + 1] = y[j + 1]
           S == {m \in Nat : m <= h =>
                   \A p \in 0 .. P(h - m) - 1 : X[m][p + 1] = Y[m][p + 1] => AgreeOn(m, p)}
<1>1. h \in Nat /\ deg \in Degrees /\ deg \in Nat \ {0}
  BY DEF IsTree, Degrees
<1>2. \A m \in Nat : P(m) \in Nat \ {0} /\ P(m + 1) = deg * P(m)
  BY <1>1, PowerNat, PowerStep
<1>3. 0 \in S
  <2> SUFFICES ASSUME NEW p \in 0 .. P(h - 0) - 1, X[0][p + 1] = Y[0][p + 1]
               PROVE  AgreeOn(0, p)
    OBVIOUS
  <2>1. X[0] = x /\ Y[0] = y
    BY LayerStep
  <2>2. P(0) = 1 /\ p \in Nat
    BY <1>1, <1>2, PowerZero
  <2>3. \A j \in p * 1 .. (p + 1) * 1 - 1 : j = p
    BY <2>2
  <2> HIDE DEF X, Y, P
  <2> QED
    BY <2>1, <2>2, <2>3
<1>4. ASSUME NEW m \in Nat, m \in S PROVE m + 1 \in S
  <2> SUFFICES ASSUME m + 1 <= h,
                      NEW p \in 0 .. P(h - (m + 1)) - 1, X[m + 1][p + 1] = Y[m + 1][p + 1],
                      NEW j \in p * P(m + 1) .. (p + 1) * P(m + 1) - 1
               PROVE  x[j + 1] = y[j + 1]
    OBVIOUS
  <2>1. m \in 0 .. h - 1 /\ h - (m + 1) \in Nat /\ h - m \in Nat /\ h - m = (h - (m + 1)) + 1
    BY <1>1
  <2>2. P(m) \in Nat \ {0} /\ P(m + 1) = deg * P(m)
        /\ P(h - (m + 1)) \in Nat \ {0} /\ P(h - m) = deg * P(h - (m + 1))
    BY <1>2, <2>1
  <2>3. /\ X[m + 1][p + 1] = Digest(Below(x, deg, m, p))
        /\ \A r \in 0 .. deg - 1 : Below(x, deg, m, p)[r + 1] = X[m][p * deg + r + 1]
    BY <2>1, NodeBelow
  <2>4. /\ Y[m + 1][p + 1] = Digest(Below(y, deg, m, p))
        /\ \A r \in 0 .. deg - 1 : Below(y, deg, m, p)[r + 1] = Y[m][p * deg + r + 1]
    BY <2>1, NodeBelow
  <2>5. Below(x, deg, m, p) = Below(y, deg, m, p)
    <3>1. Digest(Below(x, deg, m, p)) = Digest(Below(y, deg, m, p))
      BY <2>3, <2>4
    <3> QED
      BY <3>1, DigestBinds
  <2>6. \A r \in 0 .. deg - 1 : X[m][p * deg + r + 1] = Y[m][p * deg + r + 1]
    BY <2>3, <2>4, <2>5
  <2> HIDE DEF X, Y, P
  <2>7. PICK a \in Nat : a = P(m) /\ a # 0
    BY <2>2
  <2>8. PICK b \in Nat : b = P(h - (m + 1)) /\ p \in 0 .. b - 1
    BY <2>2
  <2>9. j \in Nat /\ p \in Nat /\ p * (deg * a) <= j /\ j < (p + 1) * (deg * a)
    BY <1>1, <2>2, <2>7, <2>8
  <2>10. PICK c \in Nat : c * a <= j /\ j < (c + 1) * a
    BY <2>7, <2>9, NodeAround
  <2>11. p * deg <= c /\ c < (p + 1) * deg
    <3>1. (p * deg) * a <= j /\ j < ((p + 1) * deg) * a
      BY <1>1, <2>7, <2>9
    <3>2. (p * deg) * a < (c + 1) * a /\ c * a < ((p + 1) * deg) * a
      BY <1>1, <2>7, <2>9, <2>10, <3>1
    <3>3. \A u, v \in Nat : u * a < v * a => u < v
      BY <2>7
    <3>4. p * deg \in Nat /\ (p + 1) * deg \in Nat /\ c + 1 \in Nat
      BY <1>1, <2>9
    <3> QED
      BY <3>2, <3>3, <3>4
  <2>12. PICK r \in 0 .. deg - 1 : c = p * deg + r
    <3>1. c - p * deg \in 0 .. deg - 1 /\ c = p * deg + (c - p * deg)
      BY <1>1, <2>9, <2>11
    <3> QED
      BY <3>1
  <2>13. c \in 0 .. P(h - m) - 1
    <3>1. (p + 1) * deg <= b * deg
      BY <1>1, <2>8
    <3> QED
      BY <1>1, <2>2, <2>8, <2>11, <3>1
  <2>14. X[m][c + 1] = Y[m][c + 1]
    BY <2>6, <2>12
  <2>15. AgreeOn(m, c)
    BY <1>1, <1>4, <2>1, <2>13, <2>14
  <2>16. j \in c * P(m) .. (c + 1) * P(m) - 1
    BY <2>7, <2>9, <2>10
  <2> QED
    BY <2>15, <2>16
<1>5. Nat \subseteq S
  <2> HIDE DEF S
  <2> QED
    BY <1>3, <1>4, SetInduction
<1> QED
  BY <1>1, <1>5

\* The first m leaves of x are those of y.
Agree(x, y, m) == \A j \in 0 .. m - 1 : x[j + 1] = y[j + 1]

\* The index of the i-th child of node q.
ChildIndex(q, i, deg) == q * deg + i - 1

\* Trees that agree on the leaves before a node, and on its first children.
LEMMA Descend ==
  ASSUME NEW x, NEW y, NEW deg, NEW h, IsTree(x, deg, h), IsTree(y, deg, h),
         NEW k \in 0 .. h - 1, NEW q \in 0 .. Power(deg, h - (k + 1)) - 1, NEW i \in 1 .. deg,
         Agree(x, y, q * Power(deg, k + 1)),
         \A r \in 1 .. i - 1 : Below(x, deg, k, q)[r] = Below(y, deg, k, q)[r]
  PROVE  LET e == ChildIndex(q, i, deg)
         IN  /\ e \in 0 .. Power(deg, h - k) - 1
             /\ Below(x, deg, k, q)[i] = Layers(x, deg)[k][e + 1]
             /\ Below(y, deg, k, q)[i] = Layers(y, deg)[k][e + 1]
             /\ Agree(x, y, e * Power(deg, k))
<1> USE DEF ChildIndex, Agree
<1> DEFINE P(m) == Power(deg, m)
<1>1. h \in Nat /\ deg \in Degrees /\ deg \in Nat \ {0} /\ k \in Nat
      /\ h - (k + 1) \in Nat /\ h - k \in Nat /\ h - k = (h - (k + 1)) + 1
  BY DEF IsTree, Degrees
<1>2. P(k) \in Nat \ {0} /\ P(k + 1) = deg * P(k)
      /\ P(h - (k + 1)) \in Nat \ {0} /\ P(h - k) = deg * P(h - (k + 1))
  BY <1>1, PowerNat, PowerStep
<1>3. /\ \A r \in 0 .. deg - 1 : Below(x, deg, k, q)[r + 1] = Layers(x, deg)[k][q * deg + r + 1]
      /\ \A r \in 0 .. deg - 1 : Below(y, deg, k, q)[r + 1] = Layers(y, deg)[k][q * deg + r + 1]
  <2> HIDE DEF P
  <2>1. \A r \in 0 .. deg - 1 : Below(x, deg, k, q)[r + 1] = Layers(x, deg)[k][q * deg + r + 1]
    BY NodeBelow
  <2>2. \A r \in 0 .. deg - 1 : Below(y, deg, k, q)[r + 1] = Layers(y, deg)[k][q * deg + r + 1]
    BY NodeBelow
  <2> QED
    BY <2>1, <2>2
<1> HIDE DEF P
<1>4. PICK a \in Nat : a = P(k) /\ a # 0
  BY <1>2
<1>5. PICK b \in Nat : b = P(h - (k + 1)) /\ q \in 0 .. b - 1
  BY <1>2 DEF P
<1>6. \A r \in 0 .. deg - 1 : q * deg + r \in 0 .. P(h - k) - 1
  <2> SUFFICES ASSUME NEW r \in 0 .. deg - 1 PROVE q * deg + r \in 0 .. P(h - k) - 1
    OBVIOUS
  <2>1. (q + 1) * deg <= b * deg
    BY <1>1, <1>5
  <2>2. (q + 1) * deg = q * deg + deg /\ q * deg \in Nat
    BY <1>1, <1>5
  <2> QED
    BY <1>1, <1>2, <1>5, <2>1, <2>2
<1>7. PICK e \in 0 .. deg - 1 : e = i - 1 /\ e + 1 = i
  BY <1>1
<1>8. q * deg + i - 1 = q * deg + e /\ q * deg \in Nat
  BY <1>1, <1>5, <1>7
<1>9. ASSUME NEW j \in 0 .. (q * deg + e) * a - 1 PROVE x[j + 1] = y[j + 1]
  <2>1. j \in Nat /\ j < (q * deg + e) * a
    BY <1>1, <1>4, <1>8
  <2>2. CASE j < q * (deg * a)
    <3>1. j \in 0 .. q * P(k + 1) - 1
      BY <1>1, <1>2, <1>4, <1>5, <2>1, <2>2
    <3> QED
      BY <3>1 DEF P
  <2>3. CASE q * (deg * a) <= j
    <3>1. PICK c \in Nat : c * a <= j /\ j < (c + 1) * a
      BY <1>4, <2>1, NodeAround
    <3>2. q * deg <= c /\ c < q * deg + e
      <4>1. (q * deg) * a <= j
        BY <1>1, <1>4, <1>5, <2>3
      <4>2. (q * deg) * a < (c + 1) * a /\ c * a < (q * deg + e) * a
        BY <1>1, <1>4, <1>8, <2>1, <3>1, <4>1
      <4>3. \A u, v \in Nat : u * a < v * a => u < v
        BY <1>4
      <4> QED
        BY <1>1, <1>7, <1>8, <3>1, <4>2, <4>3
    <3>3. PICK r \in 0 .. deg - 1 : c = q * deg + r /\ r < e /\ r + 1 \in 1 .. i - 1
      <4>1. c - q * deg \in 0 .. deg - 1 /\ c = q * deg + (c - q * deg) /\ c - q * deg < e
            /\ (c - q * deg) + 1 \in 1 .. i - 1
        BY <1>1, <1>7, <1>8, <3>1, <3>2
      <4> QED
        BY <4>1
    <3>4. Layers(x, deg)[k][c + 1] = Layers(y, deg)[k][c + 1]
      BY <1>3, <3>3
    <3>5. c \in 0 .. P(h - k) - 1
      BY <1>6, <3>3
    <3>6. \A w \in c * Power(deg, k) .. (c + 1) * Power(deg, k) - 1 : x[w + 1] = y[w + 1]
      BY <1>1, <3>4, <3>5, SameBelow DEF P
    <3>7. j \in c * P(k) .. (c + 1) * P(k) - 1
      BY <1>4, <2>1, <3>1
    <3> QED
      BY <3>6, <3>7 DEF P
  <2> QED
    BY <1>1, <1>4, <1>5, <2>1, <2>2, <2>3
<1> QED
  BY <1>3, <1>4, <1>6, <1>7, <1>8, <1>9 DEF P

\* A tree of a range is bound by its root.
LEMMA SameTree ==
  ASSUME NEW x, NEW y, NEW l, NEW deg, IsRange(x, l, deg), IsRange(y, l, deg),
         NEW k \in 1 .. Len(PeakSizes(l, deg)),
         TreeRoot(TreeLeaves(x, deg, k), deg) = TreeRoot(TreeLeaves(y, deg, k), deg)
  PROVE  LET o == Offset(PeakSizes(l, deg), k)
         IN  \A j \in o .. o + PeakSizes(l, deg)[k] - 1 : x[j + 1] = y[j + 1]
<1> DEFINE sizes == PeakSizes(l, deg)
           o == Offset(sizes, k)
           X == TreeLeaves(x, deg, k)
           Y == TreeLeaves(y, deg, k)
<1>1. /\ \E h \in Nat : sizes[k] = Power(deg, h) /\ IsTree(X, deg, h)
      /\ sizes[k] \in Nat \ {0} /\ o \in Nat
      /\ \A j \in 1 .. sizes[k] : X[j] = x[o + j]
  BY RangeTree
<1>2. /\ \E h \in Nat : sizes[k] = Power(deg, h) /\ IsTree(Y, deg, h)
      /\ \A j \in 1 .. sizes[k] : Y[j] = y[o + j]
  BY RangeTree
<1> HIDE DEF sizes, o, X, Y
<1>3. PICK h \in Nat : sizes[k] = Power(deg, h) /\ IsTree(X, deg, h)
  BY <1>1
<1>4. PICK g \in Nat : sizes[k] = Power(deg, g) /\ IsTree(Y, deg, g)
  BY <1>2
<1>5. deg \in Degrees
  BY <1>3 DEF IsTree
<1>6. h = g
  BY <1>3, <1>4, <1>5, LogFloorPower
<1>7. LogFloor(Len(X), deg) = h /\ LogFloor(Len(Y), deg) = h
  BY <1>3, <1>4, <1>5, <1>6, LogFloorPower DEF IsTree
<1>8. Layers(X, deg)[h][0 + 1] = Layers(Y, deg)[h][0 + 1]
  BY <1>7 DEF TreeRoot, X, Y
<1>9. Power(deg, h - h) = 1 /\ h \in 0 .. h /\ 0 \in 0 .. Power(deg, h - h) - 1
  BY <1>5, PowerZero
<1>10. \A j \in 0 * Power(deg, h) .. (0 + 1) * Power(deg, h) - 1 : X[j + 1] = Y[j + 1]
  BY <1>3, <1>4, <1>6, <1>8, <1>9, SameBelow
<1>11. ASSUME NEW j \in o .. o + sizes[k] - 1 PROVE x[j + 1] = y[j + 1]
  <2>1. PICK i \in 0 .. sizes[k] - 1 : j = o + i /\ i + 1 \in 1 .. sizes[k] /\ j + 1 = o + (i + 1)
    <3>1. j - o \in 0 .. sizes[k] - 1 /\ j = o + (j - o) /\ (j - o) + 1 \in 1 .. sizes[k]
          /\ j + 1 = o + ((j - o) + 1)
      BY <1>1
    <3> QED
      BY <3>1
  <2>2. i \in 0 * Power(deg, h) .. (0 + 1) * Power(deg, h) - 1
    BY <1>1, <1>3
  <2> QED
    BY <1>1, <1>2, <1>10, <2>1, <2>2
<1> QED
  BY <1>11 DEF o, sizes

\* Ranges that agree on the first roots agree on the leaves of their trees.
LEMMA SameBefore ==
  ASSUME NEW x, NEW y, NEW l, NEW deg, IsRange(x, l, deg), IsRange(y, l, deg),
         NEW k \in 1 .. Len(PeakSizes(l, deg)) + 1,
         \A p \in 1 .. k - 1 : Peaks(x, deg)[p].rootHash = Peaks(y, deg)[p].rootHash
  PROVE  \A j \in 0 .. Offset(PeakSizes(l, deg), k) - 1 : x[j + 1] = y[j + 1]
<1> DEFINE sizes == PeakSizes(l, deg)
           z == Len(sizes)
<1>1. l \in Nat /\ deg \in Degrees /\ sizes \in Seq(Nat) /\ z \in Nat
  BY RangePeaks DEF IsRange
<1>2. Offset(sizes, z + 1) = l
  BY <1>1, SizesAddUp
<1>3. Offset(sizes, k) <= l /\ Offset(sizes, k) \in Nat
  <2> HIDE DEF sizes
  <2> QED
    BY <1>1, <1>2, OffsetMonotone, OffsetNat DEF sizes
<1> SUFFICES ASSUME NEW j \in 0 .. Offset(sizes, k) - 1 PROVE x[j + 1] = y[j + 1]
  OBVIOUS
<1>4. j \in 0 .. l - 1
  BY <1>1, <1>3
<1> DEFINE p == PeakOf(sizes, j)
<1>5. p \in 1 .. z /\ Offset(sizes, p) \in Nat /\ sizes[p] \in Nat
      /\ Offset(sizes, p) <= j /\ j < Offset(sizes, p) + sizes[p]
  BY <1>1, <1>4, PeakOfIs
<1> HIDE DEF p
<1>6. p < k
  <2> SUFFICES ASSUME k <= p PROVE FALSE
    BY <1>1, <1>5
  <2>1. PICK q \in 1 .. z + 1 : q = p
    BY <1>1, <1>5
  <2>2. Offset(sizes, k) <= Offset(sizes, q)
    BY <1>1, <2>1, OffsetGrows
  <2> QED
    BY <1>3, <1>4, <1>5, <2>1, <2>2
<1>7. Peaks(x, deg)[p].rootHash = TreeRoot(TreeLeaves(x, deg, p), deg)
      /\ Peaks(y, deg)[p].rootHash = TreeRoot(TreeLeaves(y, deg, p), deg)
  <2>1. /\ Peaks(x, deg) = [q \in 1 .. z |->
             [rootHash |-> TreeRoot(TreeLeaves(x, deg, q), deg), size |-> sizes[q]]]
        /\ Peaks(y, deg) = [q \in 1 .. z |->
             [rootHash |-> TreeRoot(TreeLeaves(y, deg, q), deg), size |-> sizes[q]]]
    BY RangePeaks
  <2> HIDE DEF sizes, z
  <2> QED
    BY <1>5, <2>1
<1>8. Peaks(x, deg)[p].rootHash = Peaks(y, deg)[p].rootHash
  BY <1>1, <1>5, <1>6
<1>9. \A i \in Offset(sizes, p) .. Offset(sizes, p) + sizes[p] - 1 : x[i + 1] = y[i + 1]
  <2>1. TreeRoot(TreeLeaves(x, deg, p), deg) = TreeRoot(TreeLeaves(y, deg, p), deg)
    BY <1>7, <1>8
  <2> QED
    BY <1>5, <2>1, SameTree
<1> QED
  BY <1>4, <1>5, <1>9

\* A range is bound by its root.
LEMMA RangeRootBinds ==
  ASSUME NEW x, NEW y, NEW l, NEW deg, IsRange(x, l, deg), IsRange(y, l, deg)
  PROVE  /\ RangeRoot(Peaks(x, deg)) = RangeRoot(Peaks(y, deg)) => x = y
         /\ RangeRoot(Peaks(x, deg)) # RangeRoot(Peaks(y, deg)) =>
              \E k \in 1 .. Len(PeakSizes(l, deg)) :
                Peaks(x, deg)[k].rootHash # Peaks(y, deg)[k].rootHash
<1> DEFINE sizes == PeakSizes(l, deg)
           z == Len(sizes)
           X == Peaks(x, deg)
           Y == Peaks(y, deg)
<1>1. l \in Nat /\ deg \in Degrees /\ sizes \in Seq(Nat) /\ z \in Nat
      /\ X = [k \in 1 .. z |->
                [rootHash |-> TreeRoot(TreeLeaves(x, deg, k), deg), size |-> sizes[k]]]
      /\ Y = [k \in 1 .. z |->
                [rootHash |-> TreeRoot(TreeLeaves(y, deg, k), deg), size |-> sizes[k]]]
  <2>1. l \in Nat /\ deg \in Degrees
    BY DEF IsRange
  <2>2. /\ X = [k \in 1 .. z |->
               [rootHash |-> TreeRoot(TreeLeaves(x, deg, k), deg), size |-> sizes[k]]]
        /\ sizes \in Seq(Nat) /\ z \in Nat
    BY RangePeaks
  <2>3. Y = [k \in 1 .. z |->
               [rootHash |-> TreeRoot(TreeLeaves(y, deg, k), deg), size |-> sizes[k]]]
    BY RangePeaks
  <2> QED
    BY <2>1, <2>2, <2>3
<1>2. Offset(sizes, z + 1) = l
  BY <1>1, SizesAddUp
<1>3. z + 1 \in 1 .. z + 1 /\ (z + 1) - 1 = z
  BY <1>1
<1>4. (\A k \in 1 .. z : X[k].rootHash = Y[k].rootHash) => x = y
  <2> SUFFICES ASSUME \A k \in 1 .. z : X[k].rootHash = Y[k].rootHash PROVE x = y
    OBVIOUS
  <2>1. PICK w \in 1 .. z + 1 : w = z + 1
    BY <1>3
  <2>2. \A p \in 1 .. w - 1 : X[p].rootHash = Y[p].rootHash
    BY <1>3, <2>1
  <2>3. \A j \in 0 .. Offset(sizes, w) - 1 : x[j + 1] = y[j + 1]
    BY <2>2, SameBefore
  <2>4. \A j \in 0 .. l - 1 : x[j + 1] = y[j + 1]
    BY <1>2, <2>1, <2>3
  <2>5. \A i \in 1 .. l : x[i] = y[i]
    <3> SUFFICES ASSUME NEW i \in 1 .. l PROVE x[i] = y[i]
      OBVIOUS
    <3>1. i - 1 \in 0 .. l - 1 /\ (i - 1) + 1 = i
      BY <1>1
    <3> QED
      BY <2>4, <3>1
  <2> QED
    BY <2>5 DEF IsRange
<1> HIDE DEF z, sizes, X, Y
<1>5. /\ RootHashes(X) = [k \in 1 .. z |-> X[k].rootHash]
      /\ RootHashes(Y) = [k \in 1 .. z |-> Y[k].rootHash]
  BY <1>1 DEF RootHashes
<1>6. RangeRoot(X) = RangeRoot(Y) <=> RootHashes(X) = RootHashes(Y)
  BY DigestBinds DEF RangeRoot
<1>7. RootHashes(X) = RootHashes(Y) <=> \A k \in 1 .. z : X[k].rootHash = Y[k].rootHash
  BY <1>5
<1> QED
  BY <1>4, <1>6, <1>7 DEF z, X, Y, sizes

-----------------------------------------------------------------------------
(* FlattenSeq.                                                             *)

\* A function on 1 .. m is a sequence of length m.
LEMMA FunctionIsSeq ==
  ASSUME NEW T, NEW m \in Nat, NEW s \in [1 .. m -> T]
  PROVE  s \in Seq(T) /\ Len(s) = m
OBVIOUS

\* The pieces of t, and how much of t is before the next piece.
ArePieces(S, m, pieces, before, t) ==
  /\ m \in Nat \ {0} /\ Len(pieces) = m
  /\ before \in [0 .. m -> Nat] /\ before[0] = 0
  /\ \A k \in 1 .. m : pieces[k] \in Seq(S) /\ before[k] = before[k - 1] + Len(pieces[k])
  /\ t = [i \in 1 .. before[m] |-> t[i]]
  /\ \A k \in 1 .. m : \A j \in 1 .. Len(pieces[k]) : pieces[k][j] = t[before[k - 1] + j]

\* A sequence is put together from its pieces.
LEMMA Flattened ==
  ASSUME NEW S, NEW m, NEW pieces, NEW before, NEW t, ArePieces(S, m, pieces, before, t)
  PROVE  FlattenSeq(pieces) = t
<1> USE DEF ArePieces
<1> DEFINE Prefix(i) == [j \in 1 .. before[i] |-> t[j]]
           Solves(g) ==
             g = [i \in 1 .. m |-> IF i = 1 THEN pieces[i] ELSE Joint(g[i - 1], pieces[i])]
<1>1. ASSUME NEW i \in 1 .. m
      PROVE  /\ before[i] \in Nat /\ before[i - 1] \in Nat /\ Len(pieces[i]) \in Nat
             /\ before[i] = before[i - 1] + Len(pieces[i])
             /\ pieces[i] = [j \in 1 .. Len(pieces[i]) |-> pieces[i][j]]
  <2>1. i \in 0 .. m /\ i - 1 \in 0 .. m /\ pieces[i] \in Seq(S)
    OBVIOUS
  <2> QED
    BY <2>1, LenProperties
<1>2. pieces[1] = Prefix(1)
  <2>1. 1 \in 1 .. m /\ 1 - 1 = 0
    OBVIOUS
  <2>2. before[1] = Len(pieces[1]) /\ pieces[1] = [j \in 1 .. Len(pieces[1]) |-> pieces[1][j]]
    BY <1>1, <2>1
  <2>3. \A j \in 1 .. Len(pieces[1]) : pieces[1][j] = t[before[0] + j]
    BY <2>1
  <2>4. \A j \in 1 .. Len(pieces[1]) : pieces[1][j] = t[j]
    <3> SUFFICES ASSUME NEW j \in 1 .. Len(pieces[1]) PROVE pieces[1][j] = t[j]
      OBVIOUS
    <3>1. before[0] + j = j
      BY <1>1, <2>1
    <3> QED
      BY <2>3, <3>1
  <2> QED
    BY <2>2, <2>4
<1>3. ASSUME NEW i \in 2 .. m PROVE Joint(Prefix(i - 1), pieces[i]) = Prefix(i)
  <2> DEFINE b == before[i - 1]
             c == Len(pieces[i])
             x == Prefix(i - 1)
             y == pieces[i]
             T == {t[j] : j \in Nat} \cup {y[j] : j \in Nat}
  <2>1. i \in 1 .. m /\ b \in Nat /\ c \in Nat /\ before[i] = b + c
        /\ y = [j \in 1 .. c |-> y[j]]
    <3>1. i \in 1 .. m
      OBVIOUS
    <3> HIDE DEF Prefix, x, T
    <3> QED
      BY <1>1, <3>1
  <2>2. \A j \in 1 .. c : y[j] = t[b + j]
    BY <2>1
  <2>3. x \in Seq(T) /\ Len(x) = b /\ \A j \in 1 .. b : x[j] = t[j]
    <3> HIDE DEF b
    <3>1. \A j \in 1 .. b : t[j] \in T
      OBVIOUS
    <3>2. x = [j \in 1 .. b |-> t[j]]
      BY DEF b
    <3> HIDE DEF x, T
    <3>3. x \in [1 .. b -> T]
      BY <3>1, <3>2
    <3>4. b \in Nat /\ \A j \in 1 .. b : x[j] = t[j]
      BY <2>1, <3>2
    <3>5. b \in Nat
      BY <3>4
    <3>6. x \in Seq(T) /\ Len(x) = b
      BY <3>3, <3>5, FunctionIsSeq
    <3> QED
      BY <3>4, <3>6
  <2>4. y \in Seq(T) /\ Len(y) = c
    <3> HIDE DEF c
    <3>1. \A j \in 1 .. c : y[j] \in T
      OBVIOUS
    <3> HIDE DEF y, T
    <3>2. y \in [1 .. c -> T] /\ c \in Nat
      BY <2>1, <3>1
    <3> QED
      BY <3>2, FunctionIsSeq
  <2> HIDE DEF b, c, x, y, T
  <2>5. /\ Joint(x, y) \in Seq(T) /\ Len(Joint(x, y)) = b + c
        /\ \A j \in 1 .. b : Joint(x, y)[j] = x[j]
        /\ \A j \in 1 .. c : Joint(x, y)[b + j] = y[j]
    <3>1. b \in Nat /\ c \in Nat /\ x \in Seq(T) /\ y \in Seq(T) /\ Len(x) = b /\ Len(y) = c
      BY <2>1, <2>3, <2>4
    <3> QED
      BY <3>1, Joined
  <2>6. Joint(x, y) = [j \in 1 .. b + c |-> Joint(x, y)[j]]
    BY <2>5, LenProperties
  <2>7. \A j \in 1 .. b + c : Joint(x, y)[j] = t[j]
    <3> SUFFICES ASSUME NEW j \in 1 .. b + c PROVE Joint(x, y)[j] = t[j]
      OBVIOUS
    <3>1. CASE j \in 1 .. b
      BY <2>3, <2>5, <3>1
    <3>2. CASE j \notin 1 .. b
      <4>1. PICK w \in 1 .. c : j = b + w
        <5>1. j - b \in 1 .. c /\ j = b + (j - b)
          BY <2>1, <3>2
        <5> QED
          BY <5>1
      <4> QED
        BY <2>2, <2>5, <4>1
    <3> QED
      BY <3>1, <3>2
  <2>8. Joint(x, y) = [j \in 1 .. b + c |-> t[j]]
    BY <2>6, <2>7
  <2> QED
    BY <2>1, <2>8 DEF x, y
<1>4. Solves([i \in 1 .. m |-> Prefix(i)])
  <2> DEFINE g == [i \in 1 .. m |-> Prefix(i)]
             h == [i \in 1 .. m |-> IF i = 1 THEN pieces[i] ELSE Joint(g[i - 1], pieces[i])]
  <2> HIDE DEF Prefix
  <2>1. ASSUME NEW i \in 1 .. m PROVE g[i] = h[i]
    <3>1. CASE i = 1
      BY <1>2, <3>1
    <3>2. CASE i # 1
      <4>1. i \in 2 .. m /\ i - 1 \in 1 .. m
        BY <3>2
      <4> QED
        BY <1>3, <3>2, <4>1
    <3> QED
      BY <3>1, <3>2
  <2> QED
    BY <2>1
<1> DEFINE f == CHOOSE g : Solves(g)
<1>5. FlattenSeq(pieces) = f[m]
  BY DEF FlattenSeq, Joint
<1> HIDE DEF Prefix
<1>6. Solves(f)
  <2> HIDE DEF Solves
  <2> QED
    BY <1>4
<1>7. \A i \in 1 .. m : f[i] = IF i = 1 THEN pieces[i] ELSE Joint(f[i - 1], pieces[i])
  <2> HIDE DEF f
  <2> QED
    BY <1>6
<1> HIDE DEF f, Solves
<1> DEFINE R == {i \in Nat : i \in 1 .. m => f[i] = Prefix(i)}
<1>8. 0 \in R
  OBVIOUS
<1>9. ASSUME NEW i \in Nat, i \in R PROVE i + 1 \in R
  <2> SUFFICES ASSUME i + 1 \in 1 .. m PROVE f[i + 1] = Prefix(i + 1)
    OBVIOUS
  <2>1. CASE i = 0
    <3>1. i + 1 = 1
      BY <2>1
    <3>2. f[1] = pieces[1]
      BY <1>7
    <3> QED
      BY <1>2, <3>1, <3>2
  <2>2. CASE i # 0
    <3>1. PICK w \in 2 .. m : w = i + 1 /\ w - 1 = i /\ i \in 1 .. m
      BY <2>2
    <3>2. f[w] = Joint(f[w - 1], pieces[w])
      <4>1. w \in 1 .. m /\ w # 1
        OBVIOUS
      <4> HIDE DEF ArePieces
      <4> QED
        BY <1>7, <4>1
    <3>3. f[w - 1] = Prefix(w - 1)
      BY <1>9, <3>1
    <3> QED
      BY <1>3, <3>1, <3>2, <3>3
  <2> QED
    BY <2>1, <2>2
<1>10. Nat \subseteq R
  <2> HIDE DEF R
  <2> QED
    BY <1>8, <1>9, SetInduction
<1>11. f[m] = Prefix(m)
  BY <1>10
<1> QED
  BY <1>5, <1>11 DEF Prefix

-----------------------------------------------------------------------------
(* What provers are.                                                       *)

\* What started and configured provers have in common.
LEMMA StatesAre ==
  ASSUME NEW c, NEW m \in Nat, NEW deg, NEW p \in States(c, m, deg)
  PROVE  /\ p.store.dishonestChain = c /\ p.store.maxChainSize = m /\ p.treeDegree = deg
         /\ p.chainSize \in 0 .. m
         /\ c = NoChain => p.store.dishonestyIndex = -1
         /\ c # NoChain => \/ p.store.dishonestyIndex = -1 /\ p.chainSize = m
                           \/ p.store.dishonestyIndex \in 0 .. p.chainSize - 1
<1> DEFINE started == NewProver(Store(c, m), deg)
<1>1. /\ started.store = Store(c, m) /\ started.treeDegree = deg /\ started.chainSize = m
      /\ Store(c, m).dishonestChain = c /\ Store(c, m).maxChainSize = m
      /\ Store(c, m).dishonestyIndex = -1
      /\ Store(c, m) = [dishonestChain |-> c, dishonestyIndex |-> -1, maxChainSize |-> m]
  BY DEF NewProver, Store
<1>2. CASE p = started
  BY <1>1, <1>2
<1>3. ASSUME NEW s \in 0 .. m, p \in SetConfig(started, s, deg)
      PROVE  /\ p.store.dishonestChain = c /\ p.store.maxChainSize = m /\ p.treeDegree = deg
             /\ p.chainSize \in 0 .. m
             /\ c = NoChain => p.store.dishonestyIndex = -1
             /\ c # NoChain => p.store.dishonestyIndex \in 0 .. p.chainSize - 1
  <2>1. PICK store \in UpdateChainSize(Store(c, m), s) :
          p = [store |-> store, chainSize |-> s, treeDegree |-> deg]
    BY <1>1, <1>3 DEF SetConfig
  <2>2. p.store = store /\ p.chainSize = s /\ p.treeDegree = deg
    BY <2>1
  <2>3. CASE c = NoChain
    <3>1. store = Store(c, m)
      BY <1>1, <2>1, <2>3 DEF UpdateChainSize, IsHonest
    <3> QED
      BY <1>1, <2>2, <2>3, <3>1
  <2>4. CASE c # NoChain
    <3>1. PICK d \in 0 .. s - 1 : store = [Store(c, m) EXCEPT !.dishonestyIndex = d]
      BY <1>1, <2>1, <2>4 DEF UpdateChainSize, IsHonest
    <3>2. store.dishonestChain = c /\ store.maxChainSize = m /\ store.dishonestyIndex = d
      BY <1>1, <3>1
    <3> QED
      BY <2>2, <2>4, <3>2
  <2> QED
    BY <2>3, <2>4
<1> QED
  BY <1>2, <1>3 DEF States


\* The leaves of a prover are committees' hashes, those of the honest chain
\* for an honest prover and not for another.
LEMMA ProverLeaves ==
  ASSUME NEW c, NEW m \in Nat, NEW deg \in Degrees, NEW p \in States(c, m, deg),
         c # HonestChain
  PROVE  LET leaves == MMRLeaves(p)
             honest == [i \in 1 .. p.chainSize + 1 |-> CommitteeHash(Committee(HonestChain, i - 1))]
         IN  /\ IsRange(leaves, p.chainSize + 1, deg)
             /\ IsHonest(p.store) <=> leaves = honest
<1> DEFINE leaves == MMRLeaves(p)
           l == p.chainSize + 1
           d == p.store.dishonestyIndex
           cut == IF d < 0 THEN (m + 1) + d ELSE d
           Hash(i) == CommitteeHash(Committee(IF c = NoChain \/ i - 1 < cut THEN HonestChain ELSE c,
                                              i - 1))
           hashes == [i \in 1 .. m + 1 |-> Hash(i)]
           honest == [i \in 1 .. l |-> CommitteeHash(Committee(HonestChain, i - 1))]
<1>1. /\ p.store.dishonestChain = c /\ p.store.maxChainSize = m
      /\ p.chainSize \in Nat /\ p.chainSize <= m /\ l \in 1 .. m + 1 /\ l \in Nat
      /\ c # NoChain => \/ d = -1 /\ p.chainSize = m
                        \/ d \in 0 .. p.chainSize - 1
  <2>1. p.store.dishonestChain = c /\ p.store.maxChainSize = m
        /\ p.chainSize \in Nat /\ p.chainSize <= m
    <3>1. p.store.dishonestChain = c /\ p.store.maxChainSize = m /\ p.chainSize \in 0 .. m
      BY StatesAre
    <3> QED
      BY <3>1
  <2>2. c # NoChain => \/ d = -1 /\ p.chainSize = m
                       \/ d \in 0 .. p.chainSize - 1
    BY StatesAre
  <2>3. l \in 1 .. m + 1 /\ l \in Nat
    BY <2>1
  <2> QED
    BY <2>1, <2>2, <2>3
<1>2. SyncCommitteeHashes(p.store) = hashes
  BY <1>1 DEF SyncCommitteeHashes, IsHonest
<1>3. IsHonest(p.store) <=> c = NoChain
  BY <1>1 DEF IsHonest
<1>4. \A i, a, b : CommitteeHash(Committee(a, i)) = CommitteeHash(Committee(b, i)) => a = b
  <2> SUFFICES ASSUME NEW i, NEW a, NEW b,
                      CommitteeHash(Committee(a, i)) = CommitteeHash(Committee(b, i))
               PROVE  a = b
    OBVIOUS
  <2>1. CommitteeHash(Committee(a, i)).data = Committee(a, i)
        /\ CommitteeHash(Committee(b, i)).data = Committee(b, i)
    BY DEF CommitteeHash, LeafHash
  <2>2. Committee(a, i).chain = a /\ Committee(b, i).chain = b
    BY DEF Committee
  <2> QED
    BY <2>1, <2>2
<1> DEFINE all == hashes
<1> HIDE DEF Hash
<1>5. leaves = [i \in 1 .. l |-> Hash(i)]
  <2> DEFINE T == {Hash(i) : i \in Int}
  <2>1. hashes \in [1 .. m + 1 -> T] /\ m + 1 \in Nat
    OBVIOUS
  <2> HIDE DEF T
  <2>2. hashes \in Seq(T) /\ Len(hashes) = m + 1
    BY <2>1, FunctionIsSeq
  <2>3. /\ SubSeq(hashes, 1, l) \in Seq(T)
        /\ Len(SubSeq(hashes, 1, l)) = IF 1 <= l THEN l - 1 + 1 ELSE 0
        /\ \A j \in 1 .. l - 1 + 1 : SubSeq(hashes, 1, l)[j] = hashes[1 + j - 1]
    <3>1. \A i \in 1 .. l : hashes[i] \in T
      BY <1>1, <2>1
    <3> HIDE DEF hashes
    <3> QED
      BY <1>1, <3>1, SubSeqProperties
  <2>4. leaves = SubSeq(hashes, 1, l)
    BY <1>1, <1>2 DEF MMRLeaves
  <2>5. Len(leaves) = l /\ leaves \in Seq(T)
    BY <1>1, <2>3, <2>4
  <2>6. ASSUME NEW j \in 1 .. l PROVE leaves[j] = Hash(j)
    <3>1. j \in 1 .. l - 1 + 1 /\ 1 + j - 1 = j /\ j \in 1 .. m + 1
      BY <1>1
    <3>2. hashes[j] = Hash(j)
      BY <3>1
    <3> HIDE DEF hashes
    <3> QED
      BY <2>3, <2>4, <3>1, <3>2
  <2> HIDE DEF leaves, T, l
  <2>7. leaves = [j \in 1 .. l |-> leaves[j]]
    BY <2>5, LenProperties
  <2> QED
    BY <2>6, <2>7
<1> HIDE DEF leaves, hashes, l, cut, d
<1>6. IsRange(leaves, l, deg)
  <2>1. \A i \in 1 .. l : \E a : leaves[i] = LeafHash(a)
    BY <1>5 DEF Hash, CommitteeHash
  <2>2. leaves = [i \in 1 .. l |-> leaves[i]] /\ Len(leaves) = l
    BY <1>1, <1>5
  <2> QED
    BY <1>1, <2>1, <2>2 DEF IsRange, HoldsLeaves
<1>7. c = NoChain => leaves = honest
  BY <1>5 DEF Hash
<1>8. ASSUME c # NoChain PROVE leaves # honest
  <2>1. PICK i \in 1 .. l : ~ (i - 1 < cut)
    <3>1. CASE d = -1 /\ p.chainSize = m
      <4>1. l \in 1 .. l /\ ~ (l - 1 < cut)
        BY <1>1, <3>1 DEF l, cut
      <4> QED
        BY <4>1
    <3>2. CASE d \in 0 .. p.chainSize - 1
      <4>1. d + 1 \in 1 .. l /\ ~ ((d + 1) - 1 < cut)
        BY <1>1, <3>2 DEF l, cut
      <4> QED
        BY <4>1
    <3> QED
      BY <1>1, <1>8, <3>1, <3>2
  <2>2. leaves[i] = CommitteeHash(Committee(c, i - 1))
    BY <1>5, <1>8, <2>1 DEF Hash
  <2>3. honest[i] = CommitteeHash(Committee(HonestChain, i - 1))
    OBVIOUS
  <2> QED
    BY <1>4, <2>2, <2>3
<1> QED
  BY <1>3, <1>6, <1>7, <1>8 DEF leaves, l

-----------------------------------------------------------------------------
(* The leaves that peaks commit to.                                        *)

Expanded(nodes) == FlattenSeq([k \in DOMAIN nodes |-> nodes[k].children])

\* The levels below a root, from the root down.
LevelsBelow(root, h) ==
  CHOOSE level : level = [d \in 0 .. h |-> IF d = 0 THEN <<root>> ELSE Expanded(level[d - 1])]

Committed(peaks, deg) ==
  FlattenSeq([i \in DOMAIN peaks |->
    LevelsBelow(peaks[i].rootHash, LogFloor(peaks[i].size, deg))[LogFloor(peaks[i].size, deg)]])

\* The leaves that FirstDifference speaks of.
LEMMA CommittedLeavesAre == \A peaks : CommittedLeaves(peaks) = Committed(peaks, n)
BY DEF CommittedLeaves, Committed, LevelsBelow, Expanded

\* A layer is a sequence of its nodes.
LEMMA LayerSeq ==
  ASSUME NEW x, NEW deg, NEW h, IsTree(x, deg, h), x = [i \in 1 .. Len(x) |-> x[i]],
         NEW k \in 0 .. h
  PROVE  /\ Power(deg, h - k) \in Nat \ {0}
         /\ Layers(x, deg)[k] = [i \in 1 .. Power(deg, h - k) |-> Layers(x, deg)[k][i]]
<1> DEFINE layer == Layers(x, deg)
<1>1. h \in Nat /\ deg \in Degrees /\ h - k \in Nat
  BY DEF IsTree
<1>2. PICK p \in Nat \ {0} : p = Power(deg, h - k)
  BY <1>1, PowerNat
<1>3. Len(layer[k]) = p
  BY <1>2, LayerLength
<1>4. CASE k = 0
  BY <1>2, <1>3, <1>4, LayerStep
<1>5. CASE k # 0
  <2>1. PICK j \in 0 .. h - 1 : k = j + 1
    <3>1. k - 1 \in 0 .. h - 1 /\ k = (k - 1) + 1
      BY <1>1, <1>5
    <3> QED
      BY <3>1
  <2>2. layer[k] = Above(layer[j], deg)
    BY <2>1, LayerStep
  <2> DEFINE z == Len(layer[j]) \div deg
  <2> HIDE DEF layer
  <2>3. layer[k] = [i \in 1 .. z |-> layer[k][i]]
    BY <2>2 DEF Above
  <2>4. z = p
    <3>1. PICK q \in 0 .. h : q = j
      BY <1>1
    <3>2. Len(layer[q]) = Power(deg, h - q) /\ h - q \in Nat
      BY LayerLength DEF layer
    <3>3. Power(deg, (h - k) + 1) = deg * p /\ (h - k) + 1 = h - q
      BY <1>1, <1>2, <2>1, <3>1, PowerStep
    <3>4. PICK w \in Nat : w = deg * p + 0 /\ w = deg * p
      BY <1>1, <1>2 DEF Degrees
    <3>5. deg \in Nat \ {0} /\ 0 \in 0 .. deg - 1
      BY <1>1 DEF Degrees
    <3>6. w \div deg = p
      BY <1>2, <3>4, <3>5, QuotientIs
    <3> QED
      BY <3>1, <3>2, <3>3, <3>4, <3>6
  <2> QED
    BY <1>2, <2>3, <2>4 DEF layer
<1> QED
  BY <1>4, <1>5

\* The children of the nodes of a layer are the layer below.
LEMMA LayerExpanded ==
  ASSUME NEW x, NEW deg, NEW h, IsTree(x, deg, h), x = [i \in 1 .. Len(x) |-> x[i]],
         NEW k \in 0 .. h - 1
  PROVE  Expanded(Layers(x, deg)[k + 1]) = Layers(x, deg)[k]
<1> DEFINE upper == Layers(x, deg)[k + 1]
           t == Layers(x, deg)[k]
           S == NodesOn(x, deg, k)
<1>1. h \in Nat /\ deg \in Degrees /\ deg \in Nat \ {0}
  BY DEF IsTree, Degrees
<1>2. PICK c \in 0 .. h : c = k + 1 /\ k \in 0 .. h /\ h - k = (h - c) + 1 /\ h - c \in Nat
  BY <1>1
<1>3. PICK m \in Nat \ {0} : m = Power(deg, h - c)
  BY <1>2, LayerSeq
<1>4. upper = [i \in 1 .. m |-> upper[i]]
  BY <1>2, <1>3, LayerSeq
<1>5. Power(deg, h - k) = deg * m
  BY <1>1, <1>2, <1>3, PowerStep
<1>6. t = [i \in 1 .. deg * m |-> t[i]]
  BY <1>2, <1>5, LayerSeq
<1> DEFINE pieces == [i \in DOMAIN upper |-> upper[i].children]
           before == [i \in 0 .. m |-> deg * i]
<1>7. ASSUME NEW i \in 1 .. m
      PROVE  /\ pieces[i] \in Seq(S) /\ Len(pieces[i]) = deg
             /\ before[i] = before[i - 1] + deg /\ before[i - 1] = deg * (i - 1)
             /\ \A j \in 1 .. deg : pieces[i][j] = t[deg * (i - 1) + j]
  <2>1. PICK q \in 0 .. Power(deg, h - (k + 1)) - 1 : q + 1 = i /\ q = i - 1 /\ q \in Nat
    <3>1. i - 1 \in 0 .. Power(deg, h - c) - 1 /\ (i - 1) + 1 = i /\ i - 1 \in Nat
      BY <1>3
    <3> QED
      BY <1>2, <3>1
  <2>2. /\ upper[q + 1] = Digest(Below(x, deg, k, q))
        /\ Below(x, deg, k, q) \in Seq(S) /\ Len(Below(x, deg, k, q)) = deg
        /\ \A j \in 0 .. deg - 1 : Below(x, deg, k, q)[j + 1] = t[q * deg + j + 1]
    BY NodeBelow
  <2>3. pieces[i] = Below(x, deg, k, q)
    <3>1. upper[i].children = Below(x, deg, k, q)
      BY <2>1, <2>2 DEF Digest
    <3>2. i \in DOMAIN upper
      <4> HIDE DEF upper
      <4> QED
        BY <1>4
    <3> HIDE DEF upper
    <3> QED
      BY <3>1, <3>2
  <2> HIDE DEF upper, t, pieces
  <2>4. ASSUME NEW j \in 1 .. deg PROVE pieces[i][j] = t[deg * (i - 1) + j]
    <3>1. PICK r \in 0 .. deg - 1 : r = j - 1 /\ r + 1 = j
      BY <1>1
    <3>2. q * deg = deg * (i - 1) /\ deg * (i - 1) \in Int
      BY <1>1, <2>1
    <3>3. q * deg + r + 1 = q * deg + j
      <4> DEFINE w == q * deg
      <4>1. w \in Int
        BY <3>2
      <4> HIDE DEF w
      <4>2. w + r + 1 = w + j
        BY <3>1, <4>1
      <4> QED
        BY <4>2 DEF w
    <3> QED
      BY <2>2, <2>3, <3>1, <3>2, <3>3
  <2>5. before[i] = before[i - 1] + deg /\ before[i - 1] = deg * (i - 1)
    <3>1. i \in 0 .. m /\ i - 1 \in 0 .. m
      BY <1>3
    <3>2. before[i] = deg * i /\ before[i - 1] = deg * (i - 1)
      BY <3>1
    <3>3. deg * i = deg * (i - 1) + deg
      BY <1>1
    <3> QED
      BY <3>2, <3>3
  <2> QED
    BY <2>2, <2>3, <2>4, <2>5
<1>8. Len(pieces) = m /\ before \in [0 .. m -> Nat] /\ before[0] = 0 /\ before[m] = deg * m
  <2> HIDE DEF upper, t
  <2>1. DOMAIN upper = 1 .. m
    BY <1>4
  <2>2. \A i \in 0 .. m : deg * i \in Nat
    BY <1>1
  <2>3. deg * 0 = 0 /\ 0 \in 0 .. m /\ m \in 0 .. m
    BY <1>1
  <2> QED
    BY <2>1, <2>2, <2>3
<1>9. t = [i \in 1 .. before[m] |-> t[i]]
  BY <1>6, <1>8
<1> HIDE DEF upper, t, pieces, before, S
<1>10. \A i \in 1 .. m : pieces[i] \in Seq(S) /\ before[i] = before[i - 1] + Len(pieces[i])
  <2> SUFFICES ASSUME NEW i \in 1 .. m
               PROVE  pieces[i] \in Seq(S) /\ before[i] = before[i - 1] + Len(pieces[i])
    OBVIOUS
  <2>1. pieces[i] \in Seq(S) /\ Len(pieces[i]) = deg
    BY <1>7
  <2>2. before[i] = before[i - 1] + deg
    BY <1>7
  <2> QED
    BY <2>1, <2>2
<1>11. ASSUME NEW i \in 1 .. m, NEW j \in 1 .. Len(pieces[i])
       PROVE  pieces[i][j] = t[before[i - 1] + j]
  <2>1. j \in 1 .. deg
    BY <1>7
  <2>2. pieces[i][j] = t[deg * (i - 1) + j] /\ before[i - 1] = deg * (i - 1)
    BY <1>7, <2>1
  <2> QED
    BY <2>2
<1>12. ArePieces(S, m, pieces, before, t)
  BY <1>8, <1>9, <1>10, <1>11 DEF ArePieces
<1>13. FlattenSeq(pieces) = t
  BY <1>12, Flattened
<1> QED
  BY <1>13 DEF pieces, upper, t, Expanded

\* From the root of a tree down are its layers, the leaves at last.
LEMMA LevelsAreLayers ==
  ASSUME NEW x, NEW deg, NEW h, IsTree(x, deg, h), x = [i \in 1 .. Len(x) |-> x[i]]
  PROVE  LevelsBelow(TreeRoot(x, deg), h)[h] = x
<1> DEFINE root == TreeRoot(x, deg)
           Is(level) ==
             level = [d \in 0 .. h |-> IF d = 0 THEN <<root>> ELSE Expanded(level[d - 1])]
           layers == [d \in 0 .. h |-> Layers(x, deg)[h - d]]
           f == LevelsBelow(root, h)
<1>1. h \in Nat /\ deg \in Degrees
  BY DEF IsTree
<1>2. Layers(x, deg)[h] = <<root>>
  <2>1. PICK k \in 0 .. h : k = h /\ h - k = 0
    BY <1>1
  <2>2. Layers(x, deg)[h] = [i \in 1 .. 1 |-> Layers(x, deg)[h][i]]
    <3>1. Power(deg, h - k) = 1
      BY <2>1, PowerZero
    <3>2. Layers(x, deg)[k] = [i \in 1 .. Power(deg, h - k) |-> Layers(x, deg)[k][i]]
      BY LayerSeq
    <3> QED
      BY <2>1, <3>1, <3>2
  <2>3. LogFloor(Len(x), deg) = h
    BY <1>1, LogFloorPower DEF IsTree
  <2>4. root = Layers(x, deg)[h][1]
    BY <2>3 DEF TreeRoot
  <2>5. [i \in 1 .. 1 |-> Layers(x, deg)[h][i]] = <<Layers(x, deg)[h][1]>>
    OBVIOUS
  <2> QED
    BY <2>2, <2>4, <2>5
<1>3. ASSUME NEW d \in 1 .. h PROVE Layers(x, deg)[h - d] = Expanded(Layers(x, deg)[h - (d - 1)])
  <2>1. PICK k \in 0 .. h - 1 : k = h - d /\ k + 1 = h - (d - 1)
    <3>1. h - d \in 0 .. h - 1 /\ (h - d) + 1 = h - (d - 1)
      BY <1>1
    <3> QED
      BY <3>1
  <2> QED
    BY <2>1, LayerExpanded
<1>4. Is(layers)
  <2> DEFINE g == [d \in 0 .. h |-> IF d = 0 THEN <<root>> ELSE Expanded(layers[d - 1])]
  <2>1. ASSUME NEW d \in 0 .. h PROVE layers[d] = g[d]
    <3>1. CASE d = 0
      BY <1>1, <1>2, <3>1
    <3>2. CASE d # 0
      <4>1. d \in 1 .. h /\ d - 1 \in 0 .. h
        BY <1>1, <3>2
      <4>2. layers[d - 1] = Layers(x, deg)[h - (d - 1)]
        BY <4>1
      <4>3. Layers(x, deg)[h - d] = Expanded(Layers(x, deg)[h - (d - 1)])
        BY <1>3, <4>1
      <4> HIDE DEF root
      <4> QED
        BY <3>2, <4>2, <4>3
    <3> QED
      BY <3>1, <3>2
  <2> HIDE DEF root
  <2> QED
    BY <2>1
<1>5. f = CHOOSE level : Is(level)
  BY DEF LevelsBelow
<1>6. Is(f)
  <2> HIDE DEF Is, layers, f
  <2> QED
    BY <1>4, <1>5
<1> HIDE DEF f, root
<1>7. f[0] = <<root>> /\ \A d \in 1 .. h : f[d] = Expanded(f[d - 1])
  <2>1. 0 \in 0 .. h /\ \A d \in 1 .. h : d \in 0 .. h /\ d # 0
    BY <1>1
  <2> QED
    BY <1>6, <2>1
<1> DEFINE R == {d \in Nat : d <= h => f[d] = Layers(x, deg)[h - d]}
<1>8. 0 \in R
  BY <1>1, <1>2, <1>7
<1>9. ASSUME NEW d \in Nat, d \in R PROVE d + 1 \in R
  <2> SUFFICES ASSUME d + 1 <= h PROVE f[d + 1] = Layers(x, deg)[h - (d + 1)]
    OBVIOUS
  <2>1. PICK e \in 1 .. h : e = d + 1 /\ e - 1 = d
    BY <1>1
  <2>2. f[e] = Expanded(f[e - 1])
    BY <1>7
  <2>3. Layers(x, deg)[h - e] = Expanded(Layers(x, deg)[h - (e - 1)])
    BY <1>3
  <2>4. f[d] = Layers(x, deg)[h - d]
    BY <1>1, <1>9
  <2> QED
    BY <2>1, <2>2, <2>3, <2>4
<1>10. Nat \subseteq R
  <2> HIDE DEF R
  <2> QED
    BY <1>8, <1>9, SetInduction
<1>11. f[h] = Layers(x, deg)[0]
  <2>1. h \in R /\ h - h = 0
    BY <1>1, <1>10
  <2> QED
    BY <1>1, <2>1
<1> QED
  BY <1>11, LayerStep DEF f, root

\* The peaks of a range commit to its leaves.
LEMMA CommittedTo ==
  ASSUME NEW leaves, NEW l \in Nat \ {0}, NEW deg, IsRange(leaves, l, deg)
  PROVE  Committed(Peaks(leaves, deg), deg) = leaves
<1> DEFINE sizes == PeakSizes(l, deg)
           z == Len(sizes)
           peaks == Peaks(leaves, deg)
           Log(i) == LogFloor(peaks[i].size, deg)
           pieces == [i \in DOMAIN peaks |-> LevelsBelow(peaks[i].rootHash, Log(i))[Log(i)]]
           before == [i \in 0 .. z |-> Offset(sizes, i + 1)]
           S == {leaves[i] : i \in 1 .. l}
<1>1. /\ l \in Nat /\ deg \in Degrees /\ leaves = [i \in 1 .. l |-> leaves[i]]
      /\ sizes \in Seq(Nat) /\ z \in Nat
      /\ peaks = [k \in 1 .. z |-> [rootHash |-> TreeRoot(TreeLeaves(leaves, deg, k), deg),
                                    size |-> sizes[k]]]
  <2>1. l \in Nat /\ deg \in Degrees /\ leaves = [i \in 1 .. l |-> leaves[i]]
    BY DEF IsRange
  <2>2. sizes \in Seq(Nat) /\ z \in Nat
    BY RangePeaks
  <2>3. peaks = [k \in 1 .. z |-> [rootHash |-> TreeRoot(TreeLeaves(leaves, deg, k), deg),
                                  size |-> sizes[k]]]
    BY RangePeaks
  <2> QED
    BY <2>1, <2>2, <2>3
<1>2. ASSUME NEW k \in 1 .. z
      PROVE  /\ pieces[k] = TreeLeaves(leaves, deg, k)
             /\ pieces[k] \in Seq(S) /\ Len(pieces[k]) = sizes[k] /\ sizes[k] \in Nat
             /\ Offset(sizes, k) \in Nat
             /\ Offset(sizes, k + 1) = Offset(sizes, k) + sizes[k]
             /\ \A j \in 1 .. sizes[k] : pieces[k][j] = leaves[Offset(sizes, k) + j]
  <2> DEFINE tree == TreeLeaves(leaves, deg, k)
  <2>1. /\ \E h \in Nat : sizes[k] = Power(deg, h) /\ IsTree(tree, deg, h)
        /\ Len(tree) = sizes[k] /\ sizes[k] \in Nat \ {0}
        /\ Offset(sizes, k) \in Nat
        /\ Offset(sizes, k) + sizes[k] <= l
        /\ Offset(sizes, k + 1) = Offset(sizes, k) + sizes[k]
        /\ \A j \in 1 .. sizes[k] : tree[j] = leaves[Offset(sizes, k) + j]
        /\ tree = [j \in 1 .. sizes[k] |-> tree[j]]
    BY RangeTree
  <2>2. PICK h \in Nat : sizes[k] = Power(deg, h) /\ IsTree(tree, deg, h)
    BY <2>1
  <2>3. LogFloor(sizes[k], deg) = h
    BY <1>1, <2>2, LogFloorPower
  <2> HIDE DEF tree, sizes
  <2>4. LevelsBelow(TreeRoot(tree, deg), h)[h] = tree
    BY <2>1, <2>2, LevelsAreLayers
  <2>5. pieces[k] = tree
    <3>1. k \in DOMAIN peaks /\ peaks[k].rootHash = TreeRoot(tree, deg) /\ peaks[k].size = sizes[k]
      <4> HIDE DEF peaks
      <4> QED
        BY <1>1 DEF tree
    <3> HIDE DEF peaks
    <3> QED
      BY <2>3, <2>4, <3>1
  <2> HIDE DEF pieces
  <2>6. tree \in Seq(S)
    <3>1. \A j \in 1 .. sizes[k] : tree[j] \in S
      <4> SUFFICES ASSUME NEW j \in 1 .. sizes[k] PROVE tree[j] \in S
        OBVIOUS
      <4>1. Offset(sizes, k) + j \in 1 .. l
        BY <1>1, <2>1
      <4> QED
        BY <2>1, <4>1
    <3> HIDE DEF S
    <3>2. tree \in [1 .. sizes[k] -> S] /\ sizes[k] \in Nat
      BY <2>1, <3>1
    <3> QED
      BY <3>2, FunctionIsSeq
  <2> QED
    BY <2>1, <2>5, <2>6 DEF tree, sizes
<1>3. z # 0
  <2>1. Offset(sizes, z + 1) = l
    BY <1>1, SizesAddUp
  <2>2. Offset(sizes, 1) = 0
    BY <1>1, OffsetStep
  <2> HIDE DEF sizes
  <2> QED
    BY <1>1, <2>1, <2>2
<1>4. /\ Len(pieces) = z /\ before \in [0 .. z -> Nat] /\ before[0] = 0 /\ before[z] = l
  <2>1. DOMAIN peaks = 1 .. z
    BY <1>1
  <2>2. Len(pieces) = z
    <3> HIDE DEF peaks, sizes, z
    <3> QED
      BY <1>1, <2>1
  <2>3. Offset(sizes, 1) = 0
    BY <1>1, OffsetStep
  <2>4. Offset(sizes, z + 1) = l
    BY <1>1, SizesAddUp
  <2>5. \A i \in 0 .. z : Offset(sizes, i + 1) \in Nat
    <3> SUFFICES ASSUME NEW i \in 0 .. z PROVE Offset(sizes, i + 1) \in Nat
      OBVIOUS
    <3>1. i + 1 \in 1 .. z + 1
      BY <1>1
    <3> QED
      BY <1>1, <3>1, OffsetNat
  <2> HIDE DEF sizes, z, peaks, pieces
  <2>6. 0 \in 0 .. z /\ z \in 0 .. z /\ 0 + 1 = 1
    BY <1>1
  <2> QED
    BY <2>2, <2>3, <2>4, <2>5, <2>6
<1>5. ASSUME NEW k \in 1 .. z
      PROVE  before[k] = Offset(sizes, k + 1) /\ before[k - 1] = Offset(sizes, k)
  <2>1. k \in 0 .. z /\ k - 1 \in 0 .. z /\ (k - 1) + 1 = k
    BY <1>1
  <2> QED
    BY <2>1
<1> HIDE DEF sizes, z, peaks, pieces, before, S
<1>6. \A k \in 1 .. z : pieces[k] \in Seq(S) /\ before[k] = before[k - 1] + Len(pieces[k])
  BY <1>2, <1>5
<1>7. \A k \in 1 .. z : \A j \in 1 .. Len(pieces[k]) : pieces[k][j] = leaves[before[k - 1] + j]
  BY <1>2, <1>5
<1>8. z \in Nat \ {0} /\ leaves = [i \in 1 .. before[z] |-> leaves[i]]
  BY <1>1, <1>3, <1>4
<1>9. ArePieces(S, z, pieces, before, leaves)
  BY <1>4, <1>6, <1>7, <1>8 DEF ArePieces
<1>10. FlattenSeq(pieces) = leaves
  BY <1>9, Flattened
<1> QED
  BY <1>10 DEF Committed, pieces, peaks

-----------------------------------------------------------------------------
(* The inductive invariant: the provers and their answers.                 *)

\* An honest prover with the expected size.
Fits(k, ps, s) == IsHonest(ps[k].store) /\ ps[k].chainSize = s

\* What prover k of ps can ever be.
Ever(k, ps, deg) == States(ps[k].store.dishonestChain, ps[k].store.maxChainSize, deg)

\* What prover k of ps is, or has been when the client has asked it in a game:
\* an honest one has the expected size then, and keeps it.
CanBe(k, ps, s, deg) ==
  {p \in Ever(k, ps, deg) : IsHonest(p.store) => p = ps[k] /\ Fits(k, ps, s)}

\* Who takes part in games: not the honest provers of another size.
Plays(k, ps, s) == IsHonest(ps[k].store) => Fits(k, ps, s)

ProversAre ==
  /\ size \in Nat /\ n \in Degrees /\ changes \in Nat
  /\ provers = [k \in 1 .. N |-> provers[k]]
  /\ \A k \in 1 .. N :
       /\ provers[k].store.dishonestChain # HonestChain
       /\ provers[k].store.maxChainSize \in Nat
       /\ provers[k] \in Ever(k, provers, n)
  /\ \E k \in 1 .. N : Fits(k, provers, size)

\* What the client holds has been answered by what its prover was.  Of the
\* mountain ranges it needs no copy: no prover is asked for its range twice.
CacheServed ==
  /\ cache = [k \in 1 .. N |-> cache[k]]
  /\ \A k \in 1 .. N : \A request \in DOMAIN cache[k] \ {MMR} :
       \E p \in CanBe(k, provers, size, n) : cache[k][request] = Serve(p, request)

-----------------------------------------------------------------------------

\* The fields of a prover.
LEMMA StateShape ==
  ASSUME NEW c, NEW m \in Nat, NEW deg, NEW p \in States(c, m, deg)
  PROVE  /\ p = [store |-> p.store, chainSize |-> p.chainSize, treeDegree |-> deg]
         /\ p.store = [Store(c, m) EXCEPT !.dishonestyIndex = p.store.dishonestyIndex]
<1> DEFINE started == NewProver(Store(c, m), deg)
<1>1. /\ started = [store |-> Store(c, m), chainSize |-> m, treeDegree |-> deg]
      /\ started.store = Store(c, m)
      /\ Store(c, m) = [dishonestChain |-> c, dishonestyIndex |-> -1, maxChainSize |-> m]
      /\ Store(c, m) = [Store(c, m) EXCEPT !.dishonestyIndex = -1]
      /\ Store(c, m).dishonestyIndex = -1
  BY DEF NewProver, Store
<1>2. CASE p = started
  BY <1>1, <1>2
<1>3. ASSUME NEW s \in 0 .. m, p \in SetConfig(started, s, deg)
      PROVE  /\ p = [store |-> p.store, chainSize |-> p.chainSize, treeDegree |-> deg]
             /\ p.store = [Store(c, m) EXCEPT !.dishonestyIndex = p.store.dishonestyIndex]
  <2>1. PICK store \in UpdateChainSize(Store(c, m), s) :
          p = [store |-> store, chainSize |-> s, treeDegree |-> deg]
    BY <1>1, <1>3 DEF SetConfig
  <2>2. store = [Store(c, m) EXCEPT !.dishonestyIndex = store.dishonestyIndex]
    <3>1. CASE IsHonest(Store(c, m))
      BY <1>1, <2>1, <3>1 DEF UpdateChainSize
    <3>2. CASE ~ IsHonest(Store(c, m))
      <4>1. PICK d \in 0 .. s - 1 : store = [Store(c, m) EXCEPT !.dishonestyIndex = d]
        BY <2>1, <3>2 DEF UpdateChainSize
      <4>2. [Store(c, m) EXCEPT !.dishonestyIndex = d].dishonestyIndex = d
        BY <1>1
      <4> QED
        BY <4>1, <4>2
    <3> QED
      BY <3>1, <3>2
  <2> QED
    BY <2>1, <2>2
<1> QED
  BY <1>2, <1>3 DEF States

\* p is what prover k of ps becomes by a change, and of the expected size when
\* prover k is honest and of that size.
ChangesTo(p, ps, k, s, deg) ==
  /\ s \in Nat /\ ps[k].store.maxChainSize \in Nat /\ ps[k] \in Ever(k, ps, deg)
  /\ p \in SetConfig(ps[k], s, deg)
            \cup {NewProver(Store(ps[k].store.dishonestChain,
                                  ps[k].store.maxChainSize), deg)}
  /\ Fits(k, ps, s) => p.chainSize = s

\* What p then has of prover k of ps.
KeepsOf(p, ps, k, s, deg) ==
  /\ p \in States(ps[k].store.dishonestChain, ps[k].store.maxChainSize, deg)
  /\ p.store.dishonestChain = ps[k].store.dishonestChain
  /\ p.store.maxChainSize = ps[k].store.maxChainSize
  /\ Fits(k, ps, s) => p = ps[k]

\* A change leaves what provers can be, and honest ones that keep the expected
\* size as they are.
LEMMA ChangeKeeps ==
  ASSUME NEW ps, NEW k, NEW deg, NEW s, NEW p, ChangesTo(p, ps, k, s, deg)
  PROVE  KeepsOf(p, ps, k, s, deg)
<1> SUFFICES
      ASSUME s \in Nat, ps[k].store.maxChainSize \in Nat, ps[k] \in Ever(k, ps, deg),
             p \in SetConfig(ps[k], s, deg)
                   \cup {NewProver(Store(ps[k].store.dishonestChain,
                                         ps[k].store.maxChainSize), deg)},
             Fits(k, ps, s) => p.chainSize = s
      PROVE  /\ p \in States(ps[k].store.dishonestChain, ps[k].store.maxChainSize, deg)
             /\ p.store.dishonestChain = ps[k].store.dishonestChain
             /\ p.store.maxChainSize = ps[k].store.maxChainSize
             /\ Fits(k, ps, s) => p = ps[k]
  BY DEF ChangesTo, KeepsOf
<1> DEFINE c == ps[k].store.dishonestChain
           m == ps[k].store.maxChainSize
           q == ps[k]
           started == NewProver(Store(c, m), deg)
<1>1. q \in States(c, m, deg) /\ m \in Nat
  BY DEF Ever
<1> HIDE DEF c, m, q
<1>2. /\ q = [store |-> q.store, chainSize |-> q.chainSize, treeDegree |-> deg]
      /\ q.store = [Store(c, m) EXCEPT !.dishonestyIndex = q.store.dishonestyIndex]
  BY <1>1, StateShape
<1>3. started = [store |-> Store(c, m), chainSize |-> m, treeDegree |-> deg]
      /\ started.store = Store(c, m)
      /\ Store(c, m) = [dishonestChain |-> c, dishonestyIndex |-> -1, maxChainSize |-> m]
  BY DEF NewProver, Store
<1>4. p \in States(c, m, deg)
  <2>1. CASE p = started
    BY <2>1 DEF States
  <2>2. CASE p \in SetConfig(q, s, deg)
    <3>1. /\ s \in 0 .. m
          /\ ~ (deg > s \/ s > m)
          /\ \E store \in UpdateChainSize(q.store, s) :
               p = [store |-> store, chainSize |-> s, treeDegree |-> deg]
      BY <1>1, <2>2 DEF SetConfig, m, q
    <3>2. PICK store \in UpdateChainSize(q.store, s) :
            p = [store |-> store, chainSize |-> s, treeDegree |-> deg]
      BY <3>1
    <3>3. store \in UpdateChainSize(Store(c, m), s)
      <4>1. IsHonest(q.store) <=> IsHonest(Store(c, m))
        BY <1>2, <1>3 DEF IsHonest
      <4>2. CASE IsHonest(q.store)
        <5>1. q.store.dishonestyIndex = -1
          <6>1. c = NoChain
            BY <1>2, <1>3, <4>2 DEF IsHonest
          <6> QED
            BY <1>1, <6>1, StatesAre
        <5>2. q.store = Store(c, m)
          BY <1>2, <1>3, <5>1
        <5> QED
          BY <3>2, <5>2
      <4>3. CASE ~ IsHonest(q.store)
        <5>1. PICK d \in 0 .. s - 1 : store = [q.store EXCEPT !.dishonestyIndex = d]
          BY <3>2, <4>3 DEF UpdateChainSize
        <5>2. store = [Store(c, m) EXCEPT !.dishonestyIndex = d]
          BY <1>2, <1>3, <5>1
        <5> QED
          BY <4>1, <4>3, <5>2 DEF UpdateChainSize
      <4> QED
        BY <4>2, <4>3
    <3>4. p \in SetConfig(started, s, deg)
      BY <1>3, <3>1, <3>2, <3>3 DEF SetConfig
    <3> QED
      BY <3>1, <3>4 DEF States
  <2> QED
    BY <2>1, <2>2 DEF c, m, q
<1>5. p.store.dishonestChain = c /\ p.store.maxChainSize = m
  BY <1>1, <1>4, StatesAre
<1>6. ASSUME Fits(k, ps, s) PROVE p = q
  <2>1. q.chainSize = s /\ p.chainSize = s /\ IsHonest(q.store)
    BY <1>6 DEF Fits, q
  <2>2. c = NoChain
    BY <1>2, <1>3, <2>1 DEF IsHonest
  <2>3. q.store.dishonestyIndex = -1 /\ p.store.dishonestyIndex = -1
    <3>1. q.store.dishonestyIndex = -1
      BY <1>1, <2>2, StatesAre
    <3>2. p.store.dishonestyIndex = -1
      BY <1>1, <1>4, <2>2, StatesAre
    <3> QED
      BY <3>1, <3>2
  <2>4. /\ p = [store |-> p.store, chainSize |-> p.chainSize, treeDegree |-> deg]
        /\ p.store = [Store(c, m) EXCEPT !.dishonestyIndex = p.store.dishonestyIndex]
    BY <1>1, <1>4, StateShape
  <2> QED
    BY <1>2, <2>1, <2>3, <2>4
<1> QED
  BY <1>4, <1>5, <1>6 DEF c, m, q

\* The requests of games are none for mountain ranges.
LEMMA OtherRequests ==
  /\ \A tree, node : NodeOf(tree, node) # MMR
  /\ \A period : Leaf(period) # MMR /\ UpdateOf(period) # MMR
<1>1. MMR.of = "mmr"
  BY DEF MMR
<1>2. ASSUME NEW tree, NEW node PROVE NodeOf(tree, node).of = "node"
  BY DEF NodeOf
<1>3. ASSUME NEW period PROVE Leaf(period).of = "leaf" /\ UpdateOf(period).of = "update"
  BY DEF Leaf, UpdateOf
<1> QED
  BY <1>1, <1>2, <1>3

\* An answer is that of what the prover is or was, also one from the cache.
LEMMA Asked ==
  ASSUME ProversAre, CacheServed, NEW k \in 1 .. N, Plays(k, provers, size),
         NEW request, request # MMR
  PROVE  \E p \in CanBe(k, provers, size, n) : Ask(k, request) = Serve(p, request)
<1>1. provers[k] \in CanBe(k, provers, size, n)
  BY DEF ProversAre, CanBe, Plays
<1>2. CASE request \in DOMAIN cache[k]
  BY <1>2 DEF CacheServed, Ask
<1>3. CASE request \notin DOMAIN cache[k]
  BY <1>1, <1>3 DEF Ask
<1> QED
  BY <1>2, <1>3

\* What the client holds after a request is what provers have answered.
LEMMA Kept ==
  ASSUME ProversAre, CacheServed, NEW k \in 1 .. N, NEW request, Keep(k, request),
         request # MMR => Plays(k, provers, size), UNCHANGED <<provers, setting>>
  PROVE  CacheServed' /\ \A j \in 1 .. N : j # k => cache'[j] = cache[j]
<1> DEFINE old == cache[k]
           new == [r \in DOMAIN old \cup {request} |-> Ask(k, r)]
<1>1. cache = [j \in 1 .. N |-> cache[j]] /\ cache' = [cache EXCEPT ![k] = new]
  BY DEF CacheServed, Keep
<1>2. provers' = provers /\ n' = n /\ size' = size
  BY DEF setting
<1>3. request # MMR =>
        \E q \in CanBe(k, provers, size, n) : Ask(k, request) = Serve(q, request)
  BY Asked
<1>4. /\ DOMAIN new = {request} \cup DOMAIN old
      /\ new[request] = Ask(k, request)
      /\ \A r \in DOMAIN old : r # request => new[r] = old[r]
  BY DEF Ask
<1> HIDE DEF new
<1>5. cache' = [j \in 1 .. N |-> cache'[j]] /\ cache'[k] = new
      /\ \A j \in 1 .. N : j # k => cache'[j] = cache[j]
  BY <1>1
<1>6. ASSUME NEW j \in 1 .. N, NEW r \in DOMAIN cache'[j] \ {MMR}
      PROVE  \E p \in CanBe(j, provers, size, n) : cache'[j][r] = Serve(p, r)
  <2>1. CASE j # k
    BY <1>5, <1>6, <2>1 DEF CacheServed
  <2>2. CASE j = k /\ r = request
    BY <1>3, <1>4, <1>5, <1>6, <2>2
  <2>3. CASE j = k /\ r # request
    <3>1. r \in DOMAIN old /\ new[r] = old[r]
      BY <1>4, <1>5, <1>6, <2>3
    <3> QED
      BY <1>5, <1>6, <2>3, <3>1 DEF CacheServed
  <2> QED
    BY <2>1, <2>2, <2>3
<1> QED
  BY <1>2, <1>5, <1>6 DEF CacheServed

-----------------------------------------------------------------------------
(* What the client knows of provers by their peaks.                        *)

HonestLeaves(s) == [i \in 1 .. s + 1 |-> CommitteeHash(Committee(HonestChain, i - 1))]

HonestInfo(info, s, deg) == Committed(info.peaks, deg) = HonestLeaves(s)

\* An info commits its prover to a range of the expected size, and only an
\* honest prover to the honest one.
InfoIs(info, s, deg, ps) ==
  LET leaves == Committed(info.peaks, deg)
  IN  /\ info.index \in 1 .. N
      /\ IsRange(leaves, s + 1, deg)
      /\ info.peaks = Peaks(leaves, deg) /\ info.root = RangeRoot(info.peaks)
      /\ HonestInfo(info, s, deg) <=> IsHonest(ps[info.index].store)
      /\ HonestInfo(info, s, deg) => Fits(info.index, ps, s)

\* Hashes of committees do not collide.
LEMMA HashBinds == \A a, b : CommitteeHash(a) = CommitteeHash(b) => a = b
<1> SUFFICES ASSUME NEW a, NEW b, CommitteeHash(a) = CommitteeHash(b) PROVE a = b
  OBVIOUS
<1>1. CommitteeHash(a).data = a /\ CommitteeHash(b).data = b
  BY DEF CommitteeHash, LeafHash
<1> QED
  BY <1>1

\* What the leaves of a prover say about it.
LEMMA ProverIs ==
  ASSUME ProversAre, NEW k \in 1 .. N, NEW p \in Ever(k, provers, n)
  PROVE  /\ p.treeDegree = n /\ p.chainSize \in Nat
         /\ IsRange(MMRLeaves(p), p.chainSize + 1, n)
         /\ IsHonest(p.store) <=> MMRLeaves(p) = HonestLeaves(p.chainSize)
         /\ IsHonest(p.store) <=> IsHonest(provers[k].store)
<1> DEFINE c == provers[k].store.dishonestChain
           m == provers[k].store.maxChainSize
<1>1. p \in States(c, m, n) /\ m \in Nat /\ n \in Degrees /\ c # HonestChain
  BY DEF ProversAre, Ever
<1> HIDE DEF c, m
<1>2. p.store.dishonestChain = c /\ p.treeDegree = n
  BY <1>1, StatesAre
<1>3. p.chainSize \in 0 .. m
  BY <1>1, StatesAre
<1>4. p.chainSize \in Nat
  BY <1>1, <1>3
<1>5. IsRange(MMRLeaves(p), p.chainSize + 1, n)
  BY <1>1, ProverLeaves
<1>6. IsHonest(p.store) <=> MMRLeaves(p) = HonestLeaves(p.chainSize)
  BY <1>1, ProverLeaves DEF HonestLeaves
<1>7. IsHonest(p.store) <=> IsHonest(provers[k].store)
  BY <1>2 DEF IsHonest, c
<1> HIDE <1>1
<1>8. /\ IsHonest(p.store) <=> MMRLeaves(p) = HonestLeaves(p.chainSize)
      /\ IsHonest(p.store) <=> IsHonest(provers[k].store)
  BY <1>6, <1>7
<1> QED
  BY <1>2, <1>4, <1>5, <1>8

\* What a player in a game is.
LEMMA PlayerIs ==
  ASSUME ProversAre, NEW k \in 1 .. N, NEW p \in CanBe(k, provers, size, n)
  PROVE  /\ p \in Ever(k, provers, n)
         /\ Fits(k, provers, size) => IsHonest(p.store) /\ p.chainSize = size
<1>1. p \in Ever(k, provers, n) /\ (IsHonest(p.store) => p = provers[k])
  BY DEF CanBe
<1>2. IsHonest(p.store) <=> IsHonest(provers[k].store)
  BY <1>1, ProverIs
<1> QED
  BY <1>1, <1>2 DEF Fits

\* Peaks of the expected size that verify.
LEMMA InfoOf ==
  ASSUME ProversAre, NEW k \in 1 .. N, NEW p, p = provers[k], NEW peaks,
         peaks = Peaks(MMRLeaves(p), p.treeDegree),
         NEW info, info.root = RangeRoot(peaks), info.peaks = peaks, info.index = k
  PROVE  /\ RangeVerify(RangeRoot(peaks), peaks, size + 1, n) = "valid"
              => InfoIs(info, size, n, provers)
         /\ Fits(k, provers, size) =>
              /\ RangeVerify(RangeRoot(peaks), peaks, size + 1, n) = "valid"
              /\ HonestInfo(info, size, n)
<1> DEFINE leaves == MMRLeaves(p)
           l == p.chainSize + 1
<1>1. /\ p.treeDegree = n /\ p.chainSize \in Nat /\ IsRange(leaves, l, n)
      /\ IsHonest(p.store) <=> leaves = HonestLeaves(p.chainSize)
      /\ p \in Ever(k, provers, n)
  BY ProverIs DEF ProversAre
<1>2. size \in Nat /\ size + 1 \in Nat /\ l \in Nat \ {0} /\ (size + 1 = l <=> size = p.chainSize)
  BY <1>1 DEF ProversAre
<1> HIDE DEF leaves, l
<1>3. peaks = Peaks(leaves, n)
  BY <1>1 DEF leaves
<1>4. RangeVerify(RangeRoot(peaks), peaks, size + 1, n) = "valid" <=> size + 1 = l
  BY <1>1, <1>2, <1>3, RangeVerifyIs
<1>5. Committed(peaks, n) = leaves
  BY <1>1, <1>2, <1>3, CommittedTo
<1>6. ASSUME size + 1 = l PROVE InfoIs(info, size, n, provers)
  <2>1. HonestInfo(info, size, n) <=> IsHonest(provers[k].store)
    BY <1>1, <1>2, <1>5, <1>6 DEF HonestInfo
  <2>2. HonestInfo(info, size, n) => Fits(k, provers, size)
    BY <1>1, <1>2, <1>6, <2>1 DEF Fits
  <2> QED
    BY <1>1, <1>3, <1>5, <1>6, <2>1, <2>2 DEF InfoIs
<1>7. ASSUME Fits(k, provers, size) PROVE size + 1 = l /\ HonestInfo(info, size, n)
  BY <1>1, <1>2, <1>5, <1>7 DEF Fits, HonestInfo
<1> QED
  BY <1>4, <1>6, <1>7

-----------------------------------------------------------------------------
(* What provers answer.                                                    *)

\* Answers that are values.
LEMMA AnswerIs ==
  \A condition \in BOOLEAN : \A value :
    /\ AnswerIf(condition, value).ok => condition
    /\ condition => AnswerIf(condition, value).value = value
BY DEF AnswerIf, Answer, Failure

\* GetLeafWithProof
LEMMA LeafServed ==
  ASSUME ProversAre, NEW k \in 1 .. N, NEW p \in Ever(k, provers, n), NEW q \in Nat,
         NEW period, PeriodOf(p, period) = q, GetLeafWithProof(p, period).ok
  PROVE  LET leaf == GetLeafWithProof(p, period).value
         IN  /\ q <= p.chainSize
             /\ leaf.proof = RangeProof(MMRLeaves(p), q, n) /\ IsProof(leaf.proof, n)
             /\ leaf.syncCommittee = GetSyncCommittee(p.store, q)
             /\ IsHonest(p.store) => leaf.syncCommittee = Committee(HonestChain, q)
<1> DEFINE leaf == [syncCommittee |-> GetSyncCommittee(p.store, q),
                    proof |-> RangeProof(MMRLeaves(p), q, p.treeDegree)]
<1>1. /\ p.treeDegree = n /\ p.chainSize \in Nat /\ IsRange(MMRLeaves(p), p.chainSize + 1, n)
  BY ProverIs
<1>2. GetLeafWithProof(p, period) = AnswerIf(q <= p.chainSize, leaf)
  BY DEF GetLeafWithProof
<1>3. q <= p.chainSize /\ GetLeafWithProof(p, period).value = leaf
  <2>1. (q <= p.chainSize) \in BOOLEAN
    OBVIOUS
  <2> HIDE DEF leaf
  <2> QED
    BY <1>2, <2>1, AnswerIs
<1>4. q \in 0 .. (p.chainSize + 1) - 1
  BY <1>1, <1>3
<1>5. IsProof(RangeProof(MMRLeaves(p), q, n), n)
  BY <1>1, <1>4, RangeAccepts
<1>6. ASSUME IsHonest(p.store) PROVE GetSyncCommittee(p.store, q) = Committee(HonestChain, q)
  <2>1. CASE q = 0
    BY <1>6, <2>1 DEF GetSyncCommittee
  <2>2. CASE q # 0
    <3>1. (q - 1) + 1 = q
      OBVIOUS
    <3>2. GetSyncCommittee(p.store, q) = Committee(HonestChain, (q - 1) + 1)
      BY <1>6, <2>2 DEF GetSyncCommittee, GetSyncUpdate, SyncUpdate
    <3> QED
      BY <3>1, <3>2
  <2> QED
    BY <2>1, <2>2
<1> QED
  BY <1>1, <1>3, <1>5, <1>6

\* getVerifiedSyncCommittee, of a period.
LEMMA LeafAccepted ==
  ASSUME ProversAre, NEW info, InfoIs(info, size, n, provers),
         NEW p \in CanBe(info.index, provers, size, n), NEW q \in 0 .. size,
         GetLeafWithProof(p, q).ok
  PROVE  LET leaf == GetLeafWithProof(p, q).value
         IN  /\ Verified(leaf, q, info.peaks) =>
                  CommitteeHash(leaf.syncCommittee) = Committed(info.peaks, n)[q + 1]
             /\ HonestInfo(info, size, n) =>
                  /\ Verified(leaf, q, info.peaks)
                  /\ leaf.syncCommittee = Committee(HonestChain, q)
<1> DEFINE leaf == GetLeafWithProof(p, q).value
           leaves == Committed(info.peaks, n)
           hash == CommitteeHash(leaf.syncCommittee)
<1>1. size \in Nat /\ q \in Nat /\ q # Latest /\ q \in 0 .. (size + 1) - 1
      /\ info.index \in 1 .. N /\ PeriodOf(p, q) = q
  BY DEF ProversAre, InfoIs, Latest, PeriodOf
<1>2. /\ leaf.proof = RangeProof(MMRLeaves(p), q, n) /\ IsProof(leaf.proof, n)
      /\ IsHonest(p.store) => leaf.syncCommittee = Committee(HonestChain, q)
  BY <1>1, PlayerIs, LeafServed
<1> HIDE DEF leaf, leaves
<1>3. IsRange(leaves, size + 1, n) /\ info.peaks = Peaks(leaves, n)
  BY DEF InfoIs, leaves
<1>4. Verified(leaf, q, info.peaks) <=> LeafVerify(hash, q, Peaks(leaves, n), leaf.proof, n)
  BY <1>1, <1>3 DEF Verified
<1>5. LeafVerify(hash, q, Peaks(leaves, n), leaf.proof, n) => hash = leaves[q + 1]
  BY <1>1, <1>2, <1>3, RangeBinds DEF CommitteeHash
<1>6. ASSUME HonestInfo(info, size, n)
      PROVE  /\ LeafVerify(hash, q, Peaks(leaves, n), leaf.proof, n)
             /\ leaf.syncCommittee = Committee(HonestChain, q)
  <2>1. Fits(info.index, provers, size) /\ leaves = HonestLeaves(size)
    BY <1>6 DEF InfoIs, HonestInfo, leaves
  <2>2. IsHonest(p.store) /\ p.chainSize = size /\ MMRLeaves(p) = HonestLeaves(p.chainSize)
    BY <1>1, <2>1, PlayerIs, ProverIs
  <2>3. leaf.syncCommittee = Committee(HonestChain, q) /\ leaf.proof = RangeProof(leaves, q, n)
    BY <1>2, <2>1, <2>2
  <2>4. leaves[q + 1] = hash
    <3>1. q + 1 \in 1 .. size + 1 /\ (q + 1) - 1 = q
      BY <1>1
    <3>2. HonestLeaves(size)[q + 1] = CommitteeHash(Committee(HonestChain, q))
      BY <3>1 DEF HonestLeaves
    <3> QED
      BY <2>1, <2>3, <3>2
  <2>5. LeafVerify(leaves[q + 1], q, Peaks(leaves, n), RangeProof(leaves, q, n), n)
    BY <1>1, <1>3, RangeAccepts
  <2> QED
    BY <2>3, <2>4, <2>5
<1> QED
  BY <1>4, <1>5, <1>6 DEF leaf, leaves

\* getVerifiedSyncCommittee, of the latest period of an honest participant.
LEMMA LatestAccepted ==
  ASSUME ProversAre, NEW info, InfoIs(info, size, n, provers), HonestInfo(info, size, n),
         NEW p \in CanBe(info.index, provers, size, n), GetLeafWithProof(p, Latest).ok
  PROVE  LET leaf == GetLeafWithProof(p, Latest).value
         IN  Verified(leaf, Latest, info.peaks) /\ leaf.syncCommittee = CurrentCommittee
<1> DEFINE leaf == GetLeafWithProof(p, Latest).value
           leaves == Committed(info.peaks, n)
           hash == CommitteeHash(leaf.syncCommittee)
<1>1. size \in Nat /\ info.index \in 1 .. N /\ PeriodOf(p, Latest) = p.chainSize
  BY DEF ProversAre, InfoIs, PeriodOf
<1>2. Fits(info.index, provers, size) /\ leaves = HonestLeaves(size)
  BY DEF InfoIs, HonestInfo
<1>3. IsHonest(p.store) /\ p.chainSize = size /\ MMRLeaves(p) = HonestLeaves(p.chainSize)
  BY <1>1, <1>2, PlayerIs, ProverIs
<1>4. /\ leaf.proof = RangeProof(MMRLeaves(p), size, n) /\ IsProof(leaf.proof, n)
      /\ leaf.syncCommittee = Committee(HonestChain, size)
  BY <1>1, <1>3, PlayerIs, LeafServed
<1> HIDE DEF leaf, leaves
<1>5. IsRange(leaves, size + 1, n) /\ info.peaks = Peaks(leaves, n)
  BY DEF InfoIs, leaves
<1> DEFINE peaks == Peaks(leaves, n)
           last == peaks[Len(peaks)]
<1>6. Verified(leaf, Latest, info.peaks) <=>
        TreeVerify(hash, last.size - 1, last.rootHash, leaf.proof, n)
  BY <1>5 DEF Verified, LatestIndex
<1>7. size + 1 # 0 /\ (size + 1) - 1 = size /\ size \in 0 .. (size + 1) - 1
  BY <1>1
<1>8. TreeVerify(hash, last.size - 1, last.rootHash, leaf.proof, n)
        <=> LeafVerify(hash, size, peaks, leaf.proof, n)
  BY <1>5, <1>7, LatestInRange
<1>9. LeafVerify(leaves[size + 1], size, peaks, RangeProof(leaves, size, n), n)
  BY <1>5, <1>7, RangeAccepts
<1>10. leaves[size + 1] = hash
  <2>1. size + 1 \in 1 .. size + 1
    BY <1>1
  <2>2. HonestLeaves(size)[size + 1] = CommitteeHash(Committee(HonestChain, size))
    BY <1>7, <2>1 DEF HonestLeaves
  <2> QED
    BY <1>2, <1>4, <2>2
<1> QED
  BY <1>2, <1>3, <1>4, <1>6, <1>8, <1>9, <1>10 DEF leaf, CurrentCommittee

\* GetSyncUpdates, of one period.
LEMMA UpdateServed ==
  ASSUME NEW p, NEW q \in Nat, p.chainSize \in Nat, GetSyncUpdates(p, q, 1).ok,
         GetSyncUpdates(p, q, 1).value # <<>>
  PROVE  \E c : /\ GetSyncUpdates(p, q, 1).value[1] = SyncUpdate(c, q)
                /\ IsHonest(p.store) => c = HonestChain
<1> DEFINE count == IF q + 1 - 1 >= p.chainSize THEN p.chainSize - q ELSE 1
           updates == [i \in 1 .. count |-> GetSyncUpdate(p.store, q + i - 1)]
<1>1. GetSyncUpdates(p, q, 1) = AnswerIf(count >= 0, updates)
  BY DEF GetSyncUpdates
<1>2. count \in Int
  OBVIOUS
<1>3. count >= 0 /\ GetSyncUpdates(p, q, 1).value = updates
  <2>1. (count >= 0) \in BOOLEAN
    OBVIOUS
  <2> HIDE DEF updates, count
  <2> QED
    BY <1>1, <2>1, AnswerIs
<1>4. count # 0
  <2>1. [i \in 1 .. 0 |-> GetSyncUpdate(p.store, q + i - 1)] = <<>>
    OBVIOUS
  <2> HIDE DEF count
  <2> QED
    BY <1>3, <2>1
<1>5. 1 \in 1 .. count /\ q + 1 - 1 = q
  <2> HIDE DEF count
  <2> QED
    BY <1>2, <1>3, <1>4
<1>6. updates[1] = GetSyncUpdate(p.store, q)
  <2> HIDE DEF count
  <2> QED
    BY <1>5
<1> QED
  BY <1>3, <1>6 DEF GetSyncUpdate

\* GetNode, of an inner node.
LEMMA NodeServed ==
  ASSUME NEW p, NEW tree, NEW children, GetNode(p, tree, Digest(children)).ok
  PROVE  GetNode(p, tree, Digest(children)).value = children
<1> DEFINE known == \E k \in {j \in DOMAIN PeakSizes(Len(MMRLeaves(p)), p.treeDegree) :
                         TreeRoot(TreeLeaves(MMRLeaves(p), p.treeDegree, j), p.treeDegree) = tree} :
                      Digest(children) \in TreeNodes(TreeLeaves(MMRLeaves(p), p.treeDegree, k),
                                                     p.treeDegree)
<1>1. "children" \in DOMAIN Digest(children) /\ Digest(children).children = children
  BY DEF Digest
<1>2. GetNode(p, tree, Digest(children)) = AnswerIf(known, children)
  BY <1>1 DEF GetNode
<1>3. known \in BOOLEAN
  OBVIOUS
<1> HIDE DEF known
<1> QED
  BY <1>2, <1>3, AnswerIs

-----------------------------------------------------------------------------
(* The inductive invariant: the tournament.                                *)

\* The first leaf on which x and y differ is the one at i.
DifferAt(x, y, i, s) ==
  /\ i \in 0 .. s /\ x[i + 1] # y[i + 1]
  /\ \A q \in 1 .. i : x[q] = y[q]

\* The nodes that the game g compares are at the same place of the k-th trees,
\* h high, they differ, and the leaves before them do not.
Compared(g, x, y, s, deg, k, h) ==
  LET sizes == PeakSizes(s + 1, deg)
      tree1 == TreeLeaves(x, deg, k)
      tree2 == TreeLeaves(y, deg, k)
  IN  /\ sizes[k] = Power(deg, h)
      /\ g.steps \in 0 .. h /\ g.index \in 0 .. Power(deg, h - g.steps) - 1
      /\ g.node1 = Layers(tree1, deg)[g.steps][g.index + 1]
      /\ g.node2 = Layers(tree2, deg)[g.steps][g.index + 1]
      /\ g.node1 # g.node2
      /\ g.offset = Offset(sizes, k)
      /\ \A j \in 0 .. g.offset - 1 : x[j + 1] = y[j + 1]
      /\ \A j \in 0 .. g.index * Power(deg, g.steps) - 1 : tree1[j + 1] = tree2[j + 1]

\* Somewhere in the range.
InGame(g, x, y, s, deg) ==
  \E k \in 1 .. Len(PeakSizes(s + 1, deg)) : \E h \in Nat : Compared(g, x, y, s, deg, k, h)

-----------------------------------------------------------------------------

\* The trees of two ranges at the same place.
LEMMA TwoTrees ==
  ASSUME NEW s \in Nat, NEW deg, NEW x, NEW y, IsRange(x, s + 1, deg), IsRange(y, s + 1, deg),
         NEW k \in 1 .. Len(PeakSizes(s + 1, deg)), NEW h \in Nat,
         PeakSizes(s + 1, deg)[k] = Power(deg, h)
  PROVE  LET sizes == PeakSizes(s + 1, deg)
             tree1 == TreeLeaves(x, deg, k)
             tree2 == TreeLeaves(y, deg, k)
         IN  /\ IsTree(tree1, deg, h) /\ IsTree(tree2, deg, h)
             /\ Offset(sizes, k) \in Nat /\ Power(deg, h) \in Nat \ {0}
             /\ Offset(sizes, k) + Power(deg, h) <= s + 1
             /\ \A j \in 1 .. Power(deg, h) : /\ tree1[j] = x[Offset(sizes, k) + j]
                                              /\ tree2[j] = y[Offset(sizes, k) + j]
<1> DEFINE sizes == PeakSizes(s + 1, deg)
           tree1 == TreeLeaves(x, deg, k)
           tree2 == TreeLeaves(y, deg, k)
<1>1. deg \in Degrees
  BY DEF IsRange
<1>2. /\ \E a \in Nat : sizes[k] = Power(deg, a) /\ IsTree(tree1, deg, a)
      /\ Offset(sizes, k) \in Nat /\ Offset(sizes, k) + sizes[k] <= s + 1
      /\ \A j \in 1 .. sizes[k] : tree1[j] = x[Offset(sizes, k) + j]
  BY RangeTree
<1>3. /\ \E a \in Nat : sizes[k] = Power(deg, a) /\ IsTree(tree2, deg, a)
      /\ \A j \in 1 .. sizes[k] : tree2[j] = y[Offset(sizes, k) + j]
  BY RangeTree
<1>4. \A a \in Nat : sizes[k] = Power(deg, a) => a = h
  <2> SUFFICES ASSUME NEW a \in Nat, sizes[k] = Power(deg, a) PROVE a = h
    OBVIOUS
  <2>1. LogFloor(Power(deg, a), deg) = a
    BY <1>1, LogFloorPower
  <2>2. LogFloor(Power(deg, h), deg) = h
    BY <1>1, LogFloorPower
  <2> QED
    BY <2>1, <2>2
<1>5. Power(deg, h) \in Nat \ {0}
  BY <1>1, PowerNat
<1> HIDE DEF sizes, tree1, tree2
<1>6. sizes[k] = Power(deg, h)
  BY DEF sizes
<1>7. IsTree(tree1, deg, h) /\ IsTree(tree2, deg, h)
  BY <1>2, <1>3, <1>4
<1> QED
  BY <1>2, <1>3, <1>5, <1>6, <1>7 DEF sizes, tree1, tree2

\* peaksVsPeaks: a game starts at the first peak that differs.
LEMMA PeaksCompared ==
  ASSUME NEW s \in Nat, NEW deg, NEW x, NEW y, IsRange(x, s + 1, deg), IsRange(y, s + 1, deg),
         NEW k \in 1 .. Len(PeakSizes(s + 1, deg)),
         Peaks(x, deg)[k].rootHash # Peaks(y, deg)[k].rootHash,
         \A p \in 1 .. k - 1 : Peaks(x, deg)[p].rootHash = Peaks(y, deg)[p].rootHash,
         NEW g, g.steps = LogFloor(PeakSizes(s + 1, deg)[k], deg), g.index = 0,
         g.offset = Offset(PeakSizes(s + 1, deg), k),
         g.node1 = Peaks(x, deg)[k].rootHash, g.node2 = Peaks(y, deg)[k].rootHash
  PROVE  InGame(g, x, y, s, deg) /\ g.steps \in Nat
<1> DEFINE sizes == PeakSizes(s + 1, deg)
           tree1 == TreeLeaves(x, deg, k)
           tree2 == TreeLeaves(y, deg, k)
<1>1. deg \in Degrees /\ \E a \in Nat : sizes[k] = Power(deg, a)
  <2>1. \E a \in Nat : sizes[k] = Power(deg, a) /\ IsTree(tree1, deg, a)
    BY RangeTree
  <2> QED
    BY <2>1 DEF IsRange
<1>2. PICK h \in Nat : sizes[k] = Power(deg, h)
  BY <1>1
<1>3. LogFloor(sizes[k], deg) = h
  BY <1>1, <1>2, LogFloorPower
<1>4. IsTree(tree1, deg, h) /\ IsTree(tree2, deg, h)
  BY <1>2, TwoTrees
<1>5. g.node1 = Layers(tree1, deg)[h][1]
  <2>1. Peaks(x, deg)[k].rootHash = TreeRoot(tree1, deg)
    BY RangePeaks
  <2>2. LogFloor(Len(tree1), deg) = h
    BY <1>1, <1>4, LogFloorPower DEF IsTree
  <2> QED
    BY <2>1, <2>2 DEF TreeRoot
<1>6. g.node2 = Layers(tree2, deg)[h][1]
  <2>1. Peaks(y, deg)[k].rootHash = TreeRoot(tree2, deg)
    BY RangePeaks
  <2>2. LogFloor(Len(tree2), deg) = h
    BY <1>1, <1>4, LogFloorPower DEF IsTree
  <2> QED
    BY <2>1, <2>2 DEF TreeRoot
<1>7. Power(deg, h - h) = 1
  BY PowerZero
<1>8. \A j \in 0 .. Offset(sizes, k) - 1 : x[j + 1] = y[j + 1]
  <2>1. PICK q \in 1 .. Len(sizes) + 1 : q = k
    <3>1. Len(sizes) \in Nat
      BY RangePeaks
    <3> HIDE DEF sizes
    <3>2. k \in 1 .. Len(sizes) + 1
      BY <3>1 DEF sizes
    <3> QED
      BY <3>2
  <2>2. \A p \in 1 .. q - 1 : Peaks(x, deg)[p].rootHash = Peaks(y, deg)[p].rootHash
    BY <2>1
  <2>3. \A j \in 0 .. Offset(sizes, q) - 1 : x[j + 1] = y[j + 1]
    BY <2>2, SameBefore
  <2> QED
    BY <2>1, <2>3
<1> HIDE DEF sizes, tree1, tree2
<1>9. g.steps = h /\ g.offset = Offset(sizes, k) /\ g.steps \in 0 .. h
  BY <1>3 DEF sizes
<1>10. /\ g.index \in 0 .. Power(deg, h - g.steps) - 1
       /\ g.index + 1 = 1 /\ g.index * Power(deg, g.steps) = 0
  <2>1. Power(deg, h) \in Nat
    BY <1>1, PowerNat
  <2>2. g.index \in 0 .. Power(deg, h - g.steps) - 1
    BY <1>7, <1>9
  <2>3. 0 * Power(deg, h) = 0
    BY <2>1
  <2> QED
    BY <1>9, <2>2, <2>3
<1>11. \A j \in 0 .. g.index * Power(deg, g.steps) - 1 : tree1[j + 1] = tree2[j + 1]
  BY <1>10
<1>12. Compared(g, x, y, s, deg, k, h)
  <2>1. g.node1 = Layers(tree1, deg)[g.steps][g.index + 1]
        /\ g.node2 = Layers(tree2, deg)[g.steps][g.index + 1]
    BY <1>5, <1>6, <1>9, <1>10
  <2>2. \A j \in 0 .. g.offset - 1 : x[j + 1] = y[j + 1]
    BY <1>8, <1>9
  <2>3. g.node1 # g.node2
    OBVIOUS
  <2> HIDE <1>7
  <2> QED
    BY <1>2, <1>9, <1>10, <1>11, <2>1, <2>2, <2>3 DEF Compared, sizes, tree1, tree2
<1> QED
  BY <1>9, <1>12 DEF InGame

\* treeVsTree ends at the first leaf that differs.
LEMMA LeavesCompared ==
  ASSUME NEW s \in Nat, NEW deg, NEW x, NEW y, IsRange(x, s + 1, deg), IsRange(y, s + 1, deg),
         NEW g, g.steps = 0, InGame(g, x, y, s, deg)
  PROVE  DifferAt(x, y, g.index + g.offset, s)
<1> DEFINE sizes == PeakSizes(s + 1, deg)
<1>1. PICK k \in 1 .. Len(sizes) : \E h \in Nat : Compared(g, x, y, s, deg, k, h)
  BY DEF InGame
<1>2. PICK h \in Nat : Compared(g, x, y, s, deg, k, h)
  BY <1>1
<1> DEFINE tree1 == TreeLeaves(x, deg, k)
           tree2 == TreeLeaves(y, deg, k)
           o == Offset(sizes, k)
           i == g.index
<1>3. /\ IsTree(tree1, deg, h) /\ IsTree(tree2, deg, h)
      /\ o \in Nat /\ Power(deg, h) \in Nat \ {0}
      /\ o + Power(deg, h) <= s + 1
      /\ \A j \in 1 .. Power(deg, h) : tree1[j] = x[o + j] /\ tree2[j] = y[o + j]
  <2>1. sizes[k] = Power(deg, h)
    BY <1>2 DEF Compared
  <2> QED
    BY <2>1, TwoTrees
<1>4. Layers(tree1, deg)[0] = tree1 /\ Layers(tree2, deg)[0] = tree2
  BY <1>3, LayerStep
<1>5. /\ i \in 0 .. Power(deg, h) - 1 /\ i \in Nat
      /\ tree1[i + 1] # tree2[i + 1]
      /\ g.offset = o
      /\ \A j \in 0 .. o - 1 : x[j + 1] = y[j + 1]
      /\ \A j \in 0 .. i - 1 : tree1[j + 1] = tree2[j + 1]
  <2>1. i \in 0 .. Power(deg, h - 0) - 1 /\ g.node1 # g.node2 /\ g.offset = o
    BY <1>2 DEF Compared
  <2>2. g.node1 = Layers(tree1, deg)[0][i + 1] /\ g.node2 = Layers(tree2, deg)[0][i + 1]
    BY <1>2 DEF Compared
  <2>3. \A j \in 0 .. i * Power(deg, 0) - 1 : tree1[j + 1] = tree2[j + 1]
    BY <1>2 DEF Compared
  <2>4. \A j \in 0 .. o - 1 : x[j + 1] = y[j + 1]
    BY <1>2 DEF Compared
  <2>5. h - 0 = h /\ Power(deg, 0) = 1
    BY PowerZero
  <2> HIDE DEF tree1, tree2, o, i
  <2>6. i \in 0 .. Power(deg, h) - 1 /\ i \in Nat
    BY <1>3, <2>1, <2>5
  <2>7. i * Power(deg, 0) = i
    BY <2>5, <2>6
  <2>8. tree1[i + 1] # tree2[i + 1]
    BY <1>4, <2>1, <2>2
  <2>9. \A j \in 0 .. i - 1 : tree1[j + 1] = tree2[j + 1]
    BY <2>3, <2>7
  <2> QED
    BY <2>1, <2>4, <2>6, <2>8, <2>9
<1> HIDE DEF tree1, tree2, o, i
<1>6. i + o \in 0 .. s /\ i + o + 1 = o + (i + 1) /\ i + 1 \in 1 .. Power(deg, h)
  BY <1>3, <1>5
<1>7. x[i + o + 1] # y[i + o + 1]
  BY <1>3, <1>5, <1>6
<1>8. ASSUME NEW q \in 1 .. i + o PROVE x[q] = y[q]
  <2>1. CASE q <= o
    <3>1. q - 1 \in 0 .. o - 1 /\ (q - 1) + 1 = q
      BY <1>3, <2>1
    <3> QED
      BY <1>5, <3>1
  <2>2. CASE ~ (q <= o)
    <3>1. PICK j \in 0 .. i - 1 : q = o + (j + 1) /\ j + 1 \in 1 .. Power(deg, h)
      <4>1. q - o - 1 \in 0 .. i - 1 /\ q = o + ((q - o - 1) + 1)
            /\ (q - o - 1) + 1 \in 1 .. Power(deg, h)
        BY <1>3, <1>5, <2>2
      <4> QED
        BY <4>1
    <3> QED
      BY <1>3, <1>5, <3>1
  <2> QED
    BY <1>3, <1>5, <2>1, <2>2
<1>9. g.offset = o
  BY <1>5
<1> QED
  BY <1>6, <1>7, <1>8, <1>9 DEF DifferAt, i

\* The two nodes that the game g compares have the children a and b, of which a
\* first one differs; the game goes on with it.
Opens(g, x, y, s, deg, a, b) ==
  /\ g.node1 = Digest(a) /\ g.node2 = Digest(b) /\ Len(a) = deg /\ Len(b) = deg
  /\ \E i \in 1 .. deg : a[i] # b[i]
  /\ \A i \in 1 .. deg : \A next :
       /\ a[i] # b[i] /\ \A r \in 1 .. i - 1 : a[r] = b[r]
       /\ next.steps = g.steps - 1 /\ next.index = g.index * deg + i - 1
       /\ next.offset = g.offset /\ next.node1 = a[i] /\ next.node2 = b[i]
       => InGame(next, x, y, s, deg)

\* treeVsTree: inner nodes that are compared have children, of which a first
\* one differs; the game goes on with it.
LEMMA ChildrenCompared ==
  ASSUME NEW s \in Nat, NEW deg, NEW x, NEW y, IsRange(x, s + 1, deg), IsRange(y, s + 1, deg),
         NEW g, g.steps # 0, InGame(g, x, y, s, deg)
  PROVE  \E a, b : Opens(g, x, y, s, deg, a, b)
<1> DEFINE sizes == PeakSizes(s + 1, deg)
<1>1. PICK k \in 1 .. Len(sizes) : \E h \in Nat : Compared(g, x, y, s, deg, k, h)
  BY DEF InGame
<1>2. PICK h \in Nat : Compared(g, x, y, s, deg, k, h)
  BY <1>1
<1> DEFINE tree1 == TreeLeaves(x, deg, k)
           tree2 == TreeLeaves(y, deg, k)
           q == g.index
<1>3. sizes[k] = Power(deg, h)
  BY <1>2 DEF Compared
<1>4. IsTree(tree1, deg, h) /\ IsTree(tree2, deg, h) /\ deg \in Degrees
  BY <1>3, TwoTrees DEF IsRange
<1>5. /\ g.steps \in 0 .. h /\ q \in 0 .. Power(deg, h - g.steps) - 1
      /\ g.node1 = Layers(tree1, deg)[g.steps][q + 1]
      /\ g.node2 = Layers(tree2, deg)[g.steps][q + 1]
      /\ g.node1 # g.node2
      /\ g.offset = Offset(sizes, k)
      /\ \A j \in 0 .. g.offset - 1 : x[j + 1] = y[j + 1]
      /\ \A j \in 0 .. q * Power(deg, g.steps) - 1 : tree1[j + 1] = tree2[j + 1]
  BY <1>2 DEF Compared
<1> HIDE DEF sizes, tree1, tree2, q
<1>6. PICK c \in 0 .. h - 1 : c + 1 = g.steps /\ c = g.steps - 1
  <2>1. g.steps - 1 \in 0 .. h - 1 /\ (g.steps - 1) + 1 = g.steps
    BY <1>5
  <2> QED
    BY <2>1
<1>7. q \in 0 .. Power(deg, h - (c + 1)) - 1
  BY <1>5, <1>6
<1> DEFINE a == Below(tree1, deg, c, q)
           b == Below(tree2, deg, c, q)
           T == NodesOn(tree1, deg, c) \cup NodesOn(tree2, deg, c)
<1>8. /\ g.node1 = Digest(a) /\ Len(a) = deg /\ a \in Seq(NodesOn(tree1, deg, c))
  <2>1. /\ Layers(tree1, deg)[c + 1][q + 1] = Digest(a)
        /\ a \in Seq(NodesOn(tree1, deg, c)) /\ Len(a) = deg
    BY <1>4, <1>7, NodeBelow
  <2> QED
    BY <1>5, <1>6, <2>1
<1>9. /\ g.node2 = Digest(b) /\ Len(b) = deg /\ b \in Seq(NodesOn(tree2, deg, c))
  <2>1. /\ Layers(tree2, deg)[c + 1][q + 1] = Digest(b)
        /\ b \in Seq(NodesOn(tree2, deg, c)) /\ Len(b) = deg
    BY <1>4, <1>7, NodeBelow
  <2> QED
    BY <1>5, <1>6, <2>1
<1> HIDE DEF a, b
<1>10. \E i \in 1 .. deg : a[i] # b[i]
  <2>1. a # b
    BY <1>5, <1>8, <1>9
  <2>2. a = [i \in 1 .. deg |-> a[i]]
    BY <1>8, LenProperties
  <2>3. b = [i \in 1 .. deg |-> b[i]]
    BY <1>9, LenProperties
  <2> QED
    BY <2>1, <2>2, <2>3
<1>11. ASSUME NEW i \in 1 .. deg, NEW next,
              a[i] # b[i], \A r \in 1 .. i - 1 : a[r] = b[r],
              next.steps = g.steps - 1, next.index = g.index * deg + i - 1,
              next.offset = g.offset, next.node1 = a[i], next.node2 = b[i]
       PROVE  InGame(next, x, y, s, deg)
  <2> DEFINE e == ChildIndex(q, i, deg)
  <2>1. Agree(tree1, tree2, q * Power(deg, c + 1))
    BY <1>5, <1>6 DEF Agree
  <2>2. /\ e \in 0 .. Power(deg, h - c) - 1
        /\ a[i] = Layers(tree1, deg)[c][e + 1]
        /\ b[i] = Layers(tree2, deg)[c][e + 1]
        /\ \A j \in 0 .. e * Power(deg, c) - 1 : tree1[j + 1] = tree2[j + 1]
    <3>1. \A r \in 1 .. i - 1 : Below(tree1, deg, c, q)[r] = Below(tree2, deg, c, q)[r]
      BY <1>11 DEF a, b
    <3>2. /\ e \in 0 .. Power(deg, h - c) - 1
          /\ Below(tree1, deg, c, q)[i] = Layers(tree1, deg)[c][e + 1]
          /\ Below(tree2, deg, c, q)[i] = Layers(tree2, deg)[c][e + 1]
          /\ Agree(tree1, tree2, e * Power(deg, c))
      BY <1>4, <1>7, <2>1, <3>1, Descend
    <3> QED
      BY <3>2 DEF a, b, Agree
  <2>3. next.steps = c /\ next.index = e /\ c \in 0 .. h
    <3>1. next.index = e
      BY <1>11 DEF q, ChildIndex
    <3> HIDE DEF e
    <3> QED
      BY <1>6, <1>11, <3>1
  <2> HIDE DEF e
  <2>4. Compared(next, x, y, s, deg, k, h)
    <3>1. /\ next.node1 = Layers(tree1, deg)[next.steps][next.index + 1]
          /\ next.node2 = Layers(tree2, deg)[next.steps][next.index + 1]
          /\ next.node1 # next.node2
      BY <1>11, <2>2, <2>3
    <3>2. /\ next.steps \in 0 .. h /\ next.index \in 0 .. Power(deg, h - next.steps) - 1
          /\ next.offset = Offset(sizes, k)
          /\ \A j \in 0 .. next.offset - 1 : x[j + 1] = y[j + 1]
          /\ \A j \in 0 .. next.index * Power(deg, next.steps) - 1 : tree1[j + 1] = tree2[j + 1]
      BY <1>5, <1>11, <2>2, <2>3
    <3> QED
      BY <1>3, <3>1, <3>2 DEF Compared, sizes, tree1, tree2
  <2> QED
    BY <2>4 DEF InGame, sizes
<1>12. \A i \in 1 .. deg : \A next :
         /\ a[i] # b[i] /\ \A r \in 1 .. i - 1 : a[r] = b[r]
         /\ next.steps = g.steps - 1 /\ next.index = g.index * deg + i - 1
         /\ next.offset = g.offset /\ next.node1 = a[i] /\ next.node2 = b[i]
         => InGame(next, x, y, s, deg)
  BY <1>11
<1>13. Opens(g, x, y, s, deg, a, b)
  BY <1>8, <1>9, <1>10, <1>12 DEF Opens
<1> QED
  BY <1>13

-----------------------------------------------------------------------------

InfosAre ==
  /\ Len(proverInfos) \in Nat
  /\ proverInfos = [j \in 1 .. Len(proverInfos) |-> proverInfos[j]]
  /\ \A j \in 1 .. Len(proverInfos) : InfoIs(proverInfos[j], size, n, provers)

LeafStages == {"leaf1", "leaf2", "prev", "update1", "update2"}
GameStages == {"node1", "node2"} \cup LeafStages
Stages == {"info", "tournament", "latest", "returned", "thrown"} \cup GameStages

\* The locals of a game.
IsGame(g) ==
  g = [node1 |-> g.node1, node2 |-> g.node2, tree1 |-> g.tree1, tree2 |-> g.tree2,
       steps |-> g.steps, index |-> g.index, offset |-> g.offset, children1 |-> g.children1,
       committee1 |-> g.committee1, committee2 |-> g.committee2,
       prevCommittee |-> g.prevCommittee, is1Correct |-> g.is1Correct]

\* Nothing is held of the provers still to be asked, and an honest one of the
\* expected size is among them or among the infos.
Collecting ==
  pc = "info" =>
    /\ at \in 1 .. N
    /\ \A k \in at .. N : cache[k] = <<>>
    /\ \E k \in 1 .. N :
         /\ Fits(k, provers, size)
         /\ k < at => \E j \in 1 .. Len(proverInfos) : HonestInfo(proverInfos[j], size, n)

\* A winner that an honest participant has met is honest.
Fighting ==
  pc \in {"tournament"} \cup GameStages =>
    /\ at \in 2 .. Len(proverInfos) + 1
    /\ pc \in GameStages => at <= Len(proverInfos)
    /\ Len(winners) \in Nat \ {0} /\ winners = [i \in 1 .. Len(winners) |-> winners[i]]
    /\ InfoIs(Winner, size, n, provers)
    /\ \E j \in 1 .. Len(proverInfos) : HonestInfo(proverInfos[j], size, n)
    /\ (\E j \in 1 .. at - 1 : HonestInfo(proverInfos[j], size, n)) => HonestInfo(Winner, size, n)

\* The leaves that the players are committed to.
Leaves1 == Committed(Winner.peaks, n)
Leaves2 == Committed(Contestant.peaks, n)

Bisecting ==
  pc \in {"node1", "node2"} =>
    /\ game.steps \in Nat \ {0}
    /\ InGame(game, Leaves1, Leaves2, size, n)
    /\ pc = "node2" => game.node1 = Digest(game.children1)

\* What the client knows of the leaves that are judged.
Judging ==
  pc \in LeafStages =>
    /\ DifferAt(Leaves1, Leaves2, Period, size)
    /\ pc # "leaf1" => CommitteeHash(game.committee1) = Leaves1[Period + 1]
    /\ pc \in {"prev", "update1", "update2"} =>
         Period # 0 /\ CommitteeHash(game.committee2) = Leaves2[Period + 1]
    /\ pc \in {"update1", "update2"} => CommitteeHash(game.prevCommittee) = Leaves1[Period]
    /\ pc = "update2" =>
         /\ game.is1Correct \in BOOLEAN
         /\ game.is1Correct =>
              \E chain : /\ game.prevCommittee = Committee(chain, Period - 1)
                         /\ game.committee1 = Committee(chain, Period)
         /\ HonestInfo(Winner, size, n) => game.is1Correct

Outcome ==
  /\ pc \in Stages
  /\ OnlyNetworkErrors
  /\ result = IF pc = "returned" THEN CurrentCommittee ELSE NoCommittee
  /\ pc = "latest" => at = 1 /\ InfoIs(Winner, size, n, provers) /\ HonestInfo(Winner, size, n)

Core ==
  /\ InfosAre /\ Collecting /\ Fighting /\ IsGame(game) /\ Bisecting /\ Judging /\ Outcome

IInv == ProversAre /\ CacheServed /\ Core

-----------------------------------------------------------------------------
(* What steps have in common.                                              *)

Still == UNCHANGED <<provers, changes, size, n>>

\* The locals before a game.
LEMMA NoGameIs == IsGame(NoGame)
BY DEF IsGame, NoGame

\* A step that throws.
LEMMA Thrown ==
  ASSUME Core, Still, NEW why \in {"transport", "bad answer", "peaks"}, Throw(why),
         pc \notin {"returned", "thrown"}
  PROVE  Core'
<1>1. /\ pc' = "thrown" /\ reason' = why /\ proverInfos' = proverInfos
      /\ result' = result /\ result = NoCommittee
      /\ size' = size /\ n' = n /\ provers' = provers
  BY DEF Throw, Still, Core, Outcome
<1>2. InfosAre'
  BY <1>1 DEF Core, InfosAre
<1>3. Collecting' /\ Fighting' /\ Bisecting' /\ Judging'
  BY <1>1 DEF Collecting, Fighting, Bisecting, Judging, GameStages, LeafStages
<1>4. Outcome'
  BY <1>1 DEF Outcome, OnlyNetworkErrors, Stages
<1>5. IsGame(game)'
  BY NoGameIs DEF Throw
<1> QED
  BY <1>2, <1>3, <1>4, <1>5 DEF Core

\* A step that ends a game the right way.
LEMMA Decided ==
  ASSUME Core, Still, pc \in GameStages, NEW b \in BOOLEAN, Decide(b),
         b => ~ HonestInfo(Contestant, size, n),
         ~ b => ~ HonestInfo(Winner, size, n)
  PROVE  Core'
<1>1. /\ pc' = "tournament" /\ proverInfos' = proverInfos /\ at' = at + 1
      /\ result' = result /\ result = NoCommittee /\ reason' = reason
      /\ winners' = IF b THEN winners ELSE <<Contestant>>
      /\ size' = size /\ n' = n /\ provers' = provers
      /\ OnlyNetworkErrors
  BY DEF Decide, Still, Core, Outcome, GameStages, LeafStages
<1>2. InfosAre'
  BY <1>1 DEF Core, InfosAre
<1>3. /\ at \in 2 .. Len(proverInfos) + 1 /\ at <= Len(proverInfos) /\ Len(proverInfos) \in Nat
      /\ Len(winners) \in Nat \ {0} /\ winners = [i \in 1 .. Len(winners) |-> winners[i]]
      /\ InfoIs(Winner, size, n, provers)
      /\ \E j \in 1 .. Len(proverInfos) : HonestInfo(proverInfos[j], size, n)
      /\ (\E j \in 1 .. at - 1 : HonestInfo(proverInfos[j], size, n)) => HonestInfo(Winner, size, n)
  BY DEF Core, Fighting, InfosAre
<1>4. InfoIs(Contestant, size, n, provers)
  BY <1>3 DEF Core, InfosAre, Contestant
<1>5. at' \in 2 .. Len(proverInfos) + 1 /\ at' - 1 = at
  BY <1>1, <1>3
<1>6. /\ Len(winners') \in Nat \ {0} /\ winners' = [i \in 1 .. Len(winners') |-> winners'[i]]
      /\ InfoIs(winners'[1], size, n, provers)
  <2>1. CASE b
    BY <1>1, <1>3, <2>1 DEF Winner
  <2>2. CASE ~ b
    <3>1. winners' = <<Contestant>>
      BY <1>1, <2>2
    <3> QED
      BY <1>4, <3>1
  <2> QED
    BY <2>1, <2>2
<1>7. ASSUME NEW j \in 1 .. at, HonestInfo(proverInfos[j], size, n)
      PROVE  HonestInfo(winners'[1], size, n)
  <2>1. CASE b
    <3>1. j # at
      BY <1>7, <2>1 DEF Contestant
    <3>2. j \in 1 .. at - 1
      BY <1>3, <3>1
    <3>3. winners'[1] = Winner
      BY <1>1, <2>1 DEF Winner
    <3> QED
      BY <1>3, <1>7, <3>2, <3>3
  <2>2. CASE ~ b
    <3>1. winners'[1] = Contestant
      BY <1>1, <2>2
    <3>2. j \notin 1 .. at - 1
      BY <1>3, <1>7, <2>2
    <3>3. j = at
      BY <1>3, <3>2
    <3> QED
      BY <1>7, <3>1, <3>3 DEF Contestant
  <2> QED
    BY <2>1, <2>2
<1>8. Fighting'
  BY <1>1, <1>3, <1>5, <1>6, <1>7 DEF Fighting, Winner, GameStages, LeafStages
<1>9. Collecting' /\ Bisecting' /\ Judging'
  BY <1>1 DEF Collecting, Bisecting, Judging, LeafStages
<1>10. Outcome'
  BY <1>1 DEF Outcome, OnlyNetworkErrors, Stages
<1>11. IsGame(game)'
  BY NoGameIs DEF Decide
<1> QED
  BY <1>2, <1>8, <1>9, <1>10, <1>11 DEF Core

\* A step within a game.
LEMMA Continued ==
  ASSUME Core, Still, pc \in GameStages, pc' \in GameStages,
         UNCHANGED <<at, proverInfos, winners, result, reason>>, IsGame(game'), Bisecting', Judging'
  PROVE  Core'
<1>1. /\ proverInfos' = proverInfos /\ at' = at /\ winners' = winners
      /\ result' = result /\ result = NoCommittee /\ reason' = reason
      /\ size' = size /\ n' = n /\ provers' = provers
      /\ OnlyNetworkErrors /\ pc' \in Stages
  BY DEF Still, Core, Outcome, GameStages, LeafStages, Stages
<1>2. InfosAre'
  BY <1>1 DEF Core, InfosAre
<1>3. Fighting'
  BY <1>1 DEF Core, Fighting, Winner
<1>4. Collecting'
  BY DEF Collecting, GameStages, LeafStages
<1>5. Outcome'
  BY <1>1 DEF Outcome, OnlyNetworkErrors, GameStages, LeafStages
<1> QED
  BY <1>2, <1>3, <1>4, <1>5 DEF Core

\* The players of a game.
LEMMA Players ==
  ASSUME ProversAre, Core, pc \in GameStages
  PROVE  /\ InfoIs(Winner, size, n, provers) /\ InfoIs(Contestant, size, n, provers)
         /\ Winner.index \in 1 .. N /\ Contestant.index \in 1 .. N
         /\ Plays(Winner.index, provers, size) /\ Plays(Contestant.index, provers, size)
         /\ IsRange(Leaves1, size + 1, n) /\ IsRange(Leaves2, size + 1, n)
         /\ size \in Nat /\ n \in Degrees
         /\ pc \notin {"returned", "thrown"}
<1>1. InfoIs(Winner, size, n, provers) /\ at \in 2 .. Len(proverInfos) + 1
      /\ at <= Len(proverInfos) /\ Len(proverInfos) \in Nat
  BY DEF Core, Fighting, InfosAre
<1>2. InfoIs(Contestant, size, n, provers)
  BY <1>1 DEF Core, InfosAre, Contestant
<1>3. size \in Nat /\ n \in Degrees /\ pc \notin {"returned", "thrown"}
  BY DEF ProversAre, GameStages, LeafStages
<1> QED
  BY <1>1, <1>2, <1>3 DEF InfoIs, Leaves1, Leaves2, Plays

\* The place of the nodes that are compared.
SamePlace(g, h) ==
  /\ h.node1 = g.node1 /\ h.node2 = g.node2 /\ h.steps = g.steps
  /\ h.index = g.index /\ h.offset = g.offset

\* The same place is in the same game.
LEMMA InGameSame ==
  ASSUME NEW g, NEW h, SamePlace(g, h), NEW x, NEW y, NEW s, NEW deg, InGame(g, x, y, s, deg)
  PROVE  InGame(h, x, y, s, deg)
BY DEF SamePlace, InGame, Compared

\* AskNode1 sets one local.
LEMMA SetChildren1 ==
  ASSUME NEW g, IsGame(g), NEW v, NEW h, h = [g EXCEPT !.children1 = v]
  PROVE  IsGame(h) /\ SamePlace(g, h) /\ h.children1 = v
BY DEF IsGame, SamePlace

\* AskLeaf1 sets one local.
LEMMA SetCommittee1 ==
  ASSUME NEW g, IsGame(g), NEW v, NEW h, h = [g EXCEPT !.committee1 = v]
  PROVE  IsGame(h) /\ SamePlace(g, h) /\ h.committee1 = v
BY DEF IsGame, SamePlace

\* AskLeaf2 sets one local.
LEMMA SetCommittee2 ==
  ASSUME NEW g, IsGame(g), NEW v, NEW h, h = [g EXCEPT !.committee2 = v]
  PROVE  /\ IsGame(h) /\ SamePlace(g, h) /\ h.committee2 = v
         /\ h.committee1 = g.committee1
BY DEF IsGame, SamePlace

\* AskPrevLeaf sets one local.
LEMMA SetPrevCommittee ==
  ASSUME NEW g, IsGame(g), NEW v, NEW h, h = [g EXCEPT !.prevCommittee = v]
  PROVE  /\ IsGame(h) /\ SamePlace(g, h) /\ h.prevCommittee = v
         /\ h.committee1 = g.committee1 /\ h.committee2 = g.committee2
BY DEF IsGame, SamePlace

\* AskUpdate1 sets one local.
LEMMA SetIs1Correct ==
  ASSUME NEW g, IsGame(g), NEW v, NEW h, h = [g EXCEPT !.is1Correct = v]
  PROVE  /\ IsGame(h) /\ SamePlace(g, h) /\ h.is1Correct = v
         /\ h.committee1 = g.committee1 /\ h.committee2 = g.committee2
         /\ h.prevCommittee = g.prevCommittee
BY DEF IsGame, SamePlace

\* A step of the client leaves provers as they are.
LEMMA StillAre ==
  ASSUME ProversAre, UNCHANGED <<provers, changes, setting>>
  PROVE  Still /\ ProversAre'
BY DEF setting, Still, ProversAre

-----------------------------------------------------------------------------
(* The steps of a game.                                                    *)

\* Leaves and their differences stay within a game.
LEMMA SamePlayers ==
  ASSUME Still, UNCHANGED <<at, proverInfos, winners>>
  PROVE  /\ Leaves1' = Leaves1 /\ Leaves2' = Leaves2
         /\ size' = size /\ n' = n /\ provers' = provers
         /\ Winner' = Winner /\ Contestant' = Contestant
BY DEF Still, Leaves1, Leaves2, Winner, Contestant

\* Both nodes have children, and the first that differ are compared next.
LEMMA Children ==
  ASSUME ProversAre, Core, pc \in {"node1", "node2"}
  PROVE  \E a, b : Opens(game, Leaves1, Leaves2, size, n, a, b)
<1>1. /\ IsRange(Leaves1, size + 1, n) /\ IsRange(Leaves2, size + 1, n) /\ size \in Nat
  BY Players DEF GameStages
<1>2. game.steps # 0 /\ InGame(game, Leaves1, Leaves2, size, n)
  BY DEF Core, Bisecting
<1> QED
  BY <1>1, <1>2, ChildrenCompared

\* A request, answered or not, leaves provers and what they have answered.
LEMMA Replied ==
  ASSUME ProversAre, CacheServed, NEW k \in 1 .. N, NEW request,
         request # MMR => Plays(k, provers, size),
         Keep(k, request) \/ UNCHANGED cache, UNCHANGED <<provers, changes, setting>>
  PROVE  Still /\ ProversAre' /\ CacheServed'
<1>1. Still /\ ProversAre'
  BY StillAre
<1>2. CASE Keep(k, request)
  <2>1. UNCHANGED <<provers, setting>>
    OBVIOUS
  <2> QED
    BY <1>1, <1>2, <2>1, Kept
<1>3. CASE UNCHANGED cache
  BY <1>1, <1>3 DEF CacheServed, setting
<1> QED
  BY <1>1, <1>2, <1>3

\* treeVsTree asks the winner for the children of its node.
LEMMA AskNode1Step ==
  ASSUME IInv, AskNode1
  PROVE  Core' /\ ProversAre' /\ CacheServed'
<1> DEFINE k == Winner.index
           request == NodeOf(game.tree1, game.node1)
           answer == Ask(k, request)
<1>1. ProversAre /\ CacheServed /\ Core /\ pc = "node1" /\ pc \in GameStages
  BY DEF IInv, AskNode1, GameStages
<1>2. /\ \/ Throw("transport") /\ UNCHANGED cache
         \/ Keep(k, request) /\ ~ answer.ok /\ Throw("bad answer")
         \/ /\ Keep(k, request) /\ answer.ok
            /\ game' = [game EXCEPT !.children1 = answer.value] /\ pc' = "node2"
            /\ UNCHANGED <<at, proverInfos, winners, result, reason>>
      /\ UNCHANGED <<provers, changes, setting>>
  BY DEF AskNode1, Request
<1>3. /\ k \in 1 .. N /\ Plays(k, provers, size) /\ request # MMR
      /\ pc \notin {"returned", "thrown"}
  BY <1>1, Players, OtherRequests
<1>4. Keep(k, request) \/ UNCHANGED cache
  BY <1>2
<1>5. Still /\ ProversAre' /\ CacheServed'
  BY <1>1, <1>2, <1>3, <1>4, Replied
<1>6. CASE Throw("transport") \/ Throw("bad answer")
  BY <1>1, <1>3, <1>5, <1>6, Thrown
<1>7. CASE /\ answer.ok
           /\ game' = [game EXCEPT !.children1 = answer.value] /\ pc' = "node2"
           /\ UNCHANGED <<at, proverInfos, winners, result, reason>>
  <2>1. PICK p \in CanBe(k, provers, size, n) : answer = Serve(p, request)
    BY <1>1, <1>3, Asked
  <2>2. Serve(p, request) = GetNode(p, game.tree1, game.node1)
    BY DEF Serve, NodeOf
  <2>3. PICK a : game.node1 = Digest(a)
    BY <1>1, Children DEF Opens
  <2>4. answer.value = a
    BY <1>7, <2>1, <2>2, <2>3, NodeServed
  <2>5. IsGame(game') /\ SamePlace(game, game') /\ game'.children1 = a
    BY <1>1, <1>7, <2>4, SetChildren1 DEF Core
  <2>6. /\ game.steps \in Nat \ {0} /\ InGame(game, Leaves1, Leaves2, size, n)
    BY <1>1 DEF Core, Bisecting
  <2>7. /\ Leaves1' = Leaves1 /\ Leaves2' = Leaves2 /\ size' = size /\ n' = n
    BY <1>5, <1>7, SamePlayers
  <2>8. Bisecting'
    <3>1. game'.steps \in Nat \ {0} /\ game'.node1 = Digest(a)
      BY <2>3, <2>5, <2>6 DEF SamePlace
    <3>2. InGame(game', Leaves1, Leaves2, size, n)
      BY <2>5, <2>6, InGameSame
    <3> QED
      BY <2>5, <2>7, <3>1, <3>2 DEF Bisecting
  <2>9. Judging' /\ pc' \in GameStages
    BY <1>7 DEF Judging, LeafStages, GameStages
  <2> QED
    BY <1>1, <1>5, <1>7, <2>5, <2>8, <2>9, Continued
<1> QED
  BY <1>2, <1>5, <1>6, <1>7

\* The least of a set of numbers.
LEMMA FirstOf ==
  ASSUME NEW S, S \subseteq Nat, S # {}
  PROVE  LET i == CHOOSE i \in S : \A j \in S : i <= j
         IN  i \in S /\ \A j \in S : i <= j
<1>1. \E i \in S : \A j \in S : i <= j
  <2> SUFFICES ASSUME \A i \in S : \E j \in S : ~ (i <= j) PROVE FALSE
    OBVIOUS
  <2> DEFINE R == Nat \ S
  <2>1. ASSUME NEW m \in Nat, \A k \in 0 .. m - 1 : k \in R PROVE m \in R
    <3> SUFFICES ASSUME m \in S PROVE FALSE
      OBVIOUS
    <3>1. PICK j \in S : ~ (m <= j)
      OBVIOUS
    <3>2. j \in 0 .. m - 1
      BY <3>1
    <3> QED
      BY <2>1, <3>2
  <2>2. Nat \subseteq R
    <3> HIDE DEF R
    <3> QED
      BY <2>1, StrongInduction
  <2> QED
    BY <2>2
<1> QED
  BY <1>1

\* treeVsTree is called: an inner node is bisected, a leaf is judged.
LEMMA CompareIs ==
  ASSUME NEW tree1, NEW tree2, NEW node1, NEW node2, NEW steps, NEW index, NEW offset,
         Compare(tree1, tree2, node1, node2, steps, index, offset)
  PROVE  /\ IsGame(game') /\ game'.node1 = node1 /\ game'.node2 = node2 /\ game'.steps = steps
         /\ game'.index = index /\ game'.offset = offset
         /\ pc' = IF game'.steps = 0 THEN "leaf1" ELSE "node1"
BY DEF Compare, NoGame, IsGame

\* The game that treeVsTree is called for.
LEMMA Opened ==
  ASSUME size \in Nat, IsRange(Leaves1, size + 1, n), IsRange(Leaves2, size + 1, n),
         Still, UNCHANGED <<at, proverInfos, winners>>,
         game'.steps \in Nat, InGame(game', Leaves1, Leaves2, size, n),
         pc' = IF game'.steps = 0 THEN "leaf1" ELSE "node1"
  PROVE  Bisecting' /\ Judging' /\ pc' \in GameStages
<1>1. /\ Leaves1' = Leaves1 /\ Leaves2' = Leaves2 /\ size' = size /\ n' = n
  BY SamePlayers
<1>2. CASE game'.steps = 0
  <2>1. DifferAt(Leaves1, Leaves2, game'.index + game'.offset, size)
    BY <1>2, LeavesCompared
  <2> QED
    BY <1>1, <1>2, <2>1 DEF Bisecting, Judging, Period, GameStages, LeafStages
<1>3. CASE game'.steps # 0
  BY <1>1, <1>3 DEF Bisecting, Judging, GameStages, LeafStages
<1> QED
  BY <1>2, <1>3

\* treeVsTree asks the contestant, compares and goes on.
LEMMA AskNode2Step ==
  ASSUME IInv, AskNode2
  PROVE  Core' /\ ProversAre' /\ CacheServed'
<1> DEFINE k == Contestant.index
           request == NodeOf(game.tree2, game.node2)
           answer == Ask(k, request)
           children1 == game.children1
           children2 == answer.value
           Differ == {i \in 1 .. n : children1[i] # children2[i]}
           first == CHOOSE i \in Differ : \A j \in Differ : i <= j
<1>1. ProversAre /\ CacheServed /\ Core /\ pc = "node2" /\ pc \in GameStages
  BY DEF IInv, AskNode2, GameStages
<1>2. /\ \/ Throw("transport") /\ UNCHANGED cache
         \/ Keep(k, request) /\ ~ answer.ok /\ Throw("bad answer")
         \/ /\ Keep(k, request) /\ answer.ok
            /\ IF ~ IsParent(game.node1, children1) THEN Decide(FALSE)
               ELSE IF ~ IsParent(game.node2, children2) THEN Decide(TRUE)
               ELSE IF Differ = {} THEN Throw("same children")
               ELSE /\ Compare(game.tree1, game.tree2, children1[first], children2[first],
                               game.steps - 1, IndexOfChild(first), game.offset)
                    /\ UNCHANGED <<at, proverInfos, winners, result, reason>>
      /\ UNCHANGED <<provers, changes, setting>>
  BY DEF AskNode2, Request
<1>3. /\ k \in 1 .. N /\ Plays(k, provers, size) /\ request # MMR
      /\ pc \notin {"returned", "thrown"}
  BY <1>1, Players, OtherRequests
<1>4. Keep(k, request) \/ UNCHANGED cache
  BY <1>2
<1>5. Still /\ ProversAre' /\ CacheServed'
  BY <1>1, <1>2, <1>3, <1>4, Replied
<1>6. CASE Throw("transport") \/ Throw("bad answer")
  BY <1>1, <1>3, <1>5, <1>6, Thrown
<1>7. CASE /\ answer.ok
           /\ IF ~ IsParent(game.node1, children1) THEN Decide(FALSE)
              ELSE IF ~ IsParent(game.node2, children2) THEN Decide(TRUE)
              ELSE IF Differ = {} THEN Throw("same children")
              ELSE /\ Compare(game.tree1, game.tree2, children1[first], children2[first],
                              game.steps - 1, IndexOfChild(first), game.offset)
                   /\ UNCHANGED <<at, proverInfos, winners, result, reason>>
  <2>1. PICK p \in CanBe(k, provers, size, n) : answer = Serve(p, request)
    BY <1>1, <1>3, Asked
  <2>2. Serve(p, request) = GetNode(p, game.tree2, game.node2)
    BY DEF Serve, NodeOf
  <2>3. PICK a, b : Opens(game, Leaves1, Leaves2, size, n, a, b)
    BY <1>1, Children
  <2>4. children2 = b
    <3>1. game.node2 = Digest(b)
      BY <2>3 DEF Opens
    <3>2. answer = GetNode(p, game.tree2, Digest(b)) /\ answer.ok
      BY <1>7, <2>1, <2>2, <3>1
    <3> HIDE DEF answer
    <3> QED
      BY <3>2, NodeServed
  <2>5. children1 = a
    <3>1. game.node1 = Digest(children1)
      BY <1>1 DEF Core, Bisecting
    <3> QED
      BY <2>3, <3>1, DigestBinds DEF Opens
  <2>6. IsParent(game.node1, children1) /\ IsParent(game.node2, children2)
    BY <2>3, <2>4, <2>5 DEF IsParent, Opens
  <2>7. Differ # {} /\ Differ = {i \in 1 .. n : a[i] # b[i]}
    BY <2>3, <2>4, <2>5 DEF Opens
  <2> HIDE DEF children2, answer, request
  <2>8. first \in Differ /\ \A j \in Differ : first <= j
    <3>1. Differ \subseteq Nat
      OBVIOUS
    <3> HIDE DEF Differ
    <3> QED
      BY <2>7, <3>1, FirstOf
  <2>9. first \in 1 .. n /\ a[first] # b[first] /\ \A r \in 1 .. first - 1 : a[r] = b[r]
    <3> HIDE DEF first, Differ
    <3>1. first \in 1 .. n /\ a[first] # b[first] /\ n \in Nat
      BY <1>1, <2>7, <2>8 DEF ProversAre, Degrees
    <3>2. ASSUME NEW r \in 1 .. first - 1 PROVE a[r] = b[r]
      <4>1. r \in 1 .. n /\ ~ (first <= r)
        BY <3>1
      <4> QED
        BY <2>7, <2>8, <4>1
    <3> QED
      BY <3>1, <3>2
  <2> HIDE DEF first, Differ
  <2>10. /\ Compare(game.tree1, game.tree2, a[first], b[first],
                    game.steps - 1, IndexOfChild(first), game.offset)
         /\ UNCHANGED <<at, proverInfos, winners, result, reason>>
    BY <1>7, <2>4, <2>5, <2>6, <2>7
  <2>11. /\ IsGame(game') /\ game'.node1 = a[first] /\ game'.node2 = b[first]
         /\ game'.steps = game.steps - 1 /\ game'.index = IndexOfChild(first)
         /\ game'.offset = game.offset
         /\ pc' = IF game'.steps = 0 THEN "leaf1" ELSE "node1"
    BY <2>10, CompareIs
  <2>12. InGame(game', Leaves1, Leaves2, size, n)
    BY <2>3, <2>9, <2>11 DEF IndexOfChild, Opens
  <2>13. game'.steps \in Nat
    <3>1. game.steps \in Nat \ {0}
      BY <1>1 DEF Core, Bisecting
    <3> QED
      BY <2>11, <3>1
  <2>14. Bisecting' /\ Judging' /\ pc' \in GameStages
    <3>1. size \in Nat /\ IsRange(Leaves1, size + 1, n) /\ IsRange(Leaves2, size + 1, n)
      BY <1>1, Players
    <3>2. UNCHANGED <<at, proverInfos, winners>>
      BY <2>10
    <3>3. pc' = IF game'.steps = 0 THEN "leaf1" ELSE "node1"
      BY <2>11
    <3> QED
      BY <1>5, <2>12, <2>13, <3>1, <3>2, <3>3, Opened
  <2> QED
    BY <1>1, <1>5, <2>10, <2>11, <2>14, Continued
<1> QED
  BY <1>2, <1>5, <1>6, <1>7

-----------------------------------------------------------------------------
(* The judgement.                                                          *)

\* What is known at a leaf.
LEMMA AtLeaf ==
  ASSUME IInv, pc \in LeafStages
  PROVE  /\ ProversAre /\ CacheServed /\ Core /\ pc \in GameStages
         /\ DifferAt(Leaves1, Leaves2, Period, size) /\ IsGame(game)
         /\ InfoIs(Winner, size, n, provers) /\ InfoIs(Contestant, size, n, provers)
         /\ Winner.index \in 1 .. N /\ Contestant.index \in 1 .. N
         /\ Plays(Winner.index, provers, size) /\ Plays(Contestant.index, provers, size)
         /\ size \in Nat /\ Period \in 0 .. size
         /\ pc \notin {"returned", "thrown"}
         /\ Judging
<1>1. ProversAre /\ CacheServed /\ Core /\ pc \in GameStages
  BY DEF IInv, GameStages
<1>2. DifferAt(Leaves1, Leaves2, Period, size) /\ IsGame(game) /\ Judging
  BY <1>1 DEF Core, Judging
<1> QED
  BY <1>1, <1>2, Players DEF DifferAt

\* The honest leaves, of a player who is honest.
LEMMA HonestLeaf ==
  ASSUME NEW info, HonestInfo(info, size, n), NEW i \in 0 .. size, size \in Nat
  PROVE  Committed(info.peaks, n)[i + 1] = CommitteeHash(Committee(HonestChain, i))
<1>1. i + 1 \in 1 .. size + 1 /\ (i + 1) - 1 = i
  OBVIOUS
<1> QED
  BY <1>1 DEF HonestInfo, HonestLeaves

\* Going on within the judgement: what is known by then.
LEMMA WentOn ==
  ASSUME IInv, pc \in LeafStages, Still, NEW stage \in LeafStages, NEW locals,
         IsGame(locals), SamePlace(game, locals), GoOnTo(stage, locals),
         stage # "leaf1" => CommitteeHash(locals.committee1) = Leaves1[Period + 1],
         stage \in {"prev", "update1", "update2"} =>
           Period # 0 /\ CommitteeHash(locals.committee2) = Leaves2[Period + 1],
         stage \in {"update1", "update2"} => CommitteeHash(locals.prevCommittee) = Leaves1[Period],
         stage = "update2" =>
           /\ locals.is1Correct \in BOOLEAN
           /\ locals.is1Correct =>
                \E chain : /\ locals.prevCommittee = Committee(chain, Period - 1)
                           /\ locals.committee1 = Committee(chain, Period)
           /\ HonestInfo(Winner, size, n) => locals.is1Correct
  PROVE  Core'
<1>1. /\ pc' = stage /\ game' = locals
      /\ UNCHANGED <<at, proverInfos, winners, result, reason>>
  BY DEF GoOnTo
<1>2. /\ Leaves1' = Leaves1 /\ Leaves2' = Leaves2 /\ size' = size /\ n' = n /\ Winner' = Winner
  BY <1>1, SamePlayers
<1>3. Core /\ pc \in GameStages /\ DifferAt(Leaves1, Leaves2, Period, size)
  BY AtLeaf
<1>4. Period' = Period
  BY <1>1 DEF Period, SamePlace
<1>5. HonestInfo(Winner, size, n)' = HonestInfo(Winner, size, n)
  BY <1>1, <1>2 DEF Winner
<1>6. Judging'
  BY <1>1, <1>2, <1>3, <1>4, <1>5 DEF Judging
<1>7. Bisecting' /\ pc' \in GameStages
  BY <1>1 DEF Bisecting, GameStages, LeafStages
<1>8. IsGame(game')
  BY <1>1
<1> QED
  BY <1>1, <1>3, <1>6, <1>7, <1>8, Continued

\* checkNodeAndPrevUpdate: the winner's leaf.
LEMMA AskLeaf1Step ==
  ASSUME IInv, AskLeaf1
  PROVE  Core' /\ ProversAre' /\ CacheServed'
<1> DEFINE k == Winner.index
           request == Leaf(Period)
           answer == Ask(k, request)
           leaf == answer.value
           locals == [game EXCEPT !.committee1 = leaf.syncCommittee]
<1>1. pc = "leaf1" /\ pc \in LeafStages
  BY DEF AskLeaf1, LeafStages
<1>2. /\ \/ Throw("transport") /\ UNCHANGED cache
         \/ Keep(k, request) /\ ~ answer.ok /\ Throw("bad answer")
         \/ /\ Keep(k, request) /\ answer.ok
            /\ IF Verified(leaf, Period, Winner.peaks) THEN GoOnTo("leaf2", locals)
               ELSE Decide(FALSE)
      /\ UNCHANGED <<provers, changes, setting>>
  BY DEF AskLeaf1, Request
<1>3. /\ ProversAre /\ CacheServed /\ Core /\ pc \in GameStages /\ IsGame(game)
      /\ InfoIs(Winner, size, n, provers) /\ k \in 1 .. N
      /\ Plays(k, provers, size) /\ request # MMR
      /\ size \in Nat /\ Period \in 0 .. size /\ pc \notin {"returned", "thrown"}
  BY <1>1, AtLeaf, OtherRequests
<1>4. Keep(k, request) \/ UNCHANGED cache
  BY <1>2
<1>5. Still /\ ProversAre' /\ CacheServed'
  BY <1>2, <1>3, <1>4, Replied
<1>6. CASE Throw("transport") \/ Throw("bad answer")
  BY <1>3, <1>5, <1>6, Thrown
<1>7. CASE /\ answer.ok
           /\ IF Verified(leaf, Period, Winner.peaks) THEN GoOnTo("leaf2", locals)
              ELSE Decide(FALSE)
  <2>1. PICK p \in CanBe(k, provers, size, n) : answer = Serve(p, request)
    BY <1>3, Asked
  <2>2. answer = GetLeafWithProof(p, Period)
    BY <2>1 DEF Serve, Leaf
  <2>3. /\ Verified(leaf, Period, Winner.peaks) =>
             CommitteeHash(leaf.syncCommittee) = Leaves1[Period + 1]
        /\ HonestInfo(Winner, size, n) => Verified(leaf, Period, Winner.peaks)
    BY <1>3, <1>7, <2>2, LeafAccepted DEF Leaves1
  <2> HIDE DEF leaf
  <2>4. CASE Verified(leaf, Period, Winner.peaks)
    <3>1. IsGame(locals) /\ SamePlace(game, locals) /\ locals.committee1 = leaf.syncCommittee
      BY <1>3, SetCommittee1
    <3> HIDE DEF locals
    <3>2. GoOnTo("leaf2", locals)
      BY <1>7, <2>4
    <3>3. CommitteeHash(locals.committee1) = Leaves1[Period + 1]
      BY <2>3, <2>4, <3>1
    <3>4. "leaf2" \in LeafStages /\ "leaf2" \notin {"prev", "update1", "update2"}
      BY DEF LeafStages
    <3> QED
      BY <1>1, <1>5, <3>1, <3>2, <3>3, <3>4, WentOn
  <2>5. CASE ~ Verified(leaf, Period, Winner.peaks)
    <3>1. Decide(FALSE) /\ ~ HonestInfo(Winner, size, n)
      BY <1>7, <2>3, <2>5
    <3> QED
      BY <1>3, <1>5, <3>1, Decided
  <2> QED
    BY <1>5, <2>4, <2>5
<1> QED
  BY <1>2, <1>5, <1>6, <1>7

\* Two players who differ at a leaf are not right both.
LEMMA Judged ==
  ASSUME Core, Still, pc \in GameStages,
         NEW is1Correct \in BOOLEAN, NEW is2Correct \in BOOLEAN, Judge(is1Correct, is2Correct),
         ~ (is1Correct /\ is2Correct),
         HonestInfo(Winner, size, n) => is1Correct,
         HonestInfo(Contestant, size, n) => is2Correct
  PROVE  Core'
<1>1. Decide(is1Correct)
  BY DEF Judge
<1>2. is1Correct => ~ HonestInfo(Contestant, size, n)
  OBVIOUS
<1>3. ~ is1Correct => ~ HonestInfo(Winner, size, n)
  OBVIOUS
<1> QED
  BY <1>1, <1>2, <1>3, Decided

\* checkNodeAndPrevUpdate: the contestant's leaf.
LEMMA AskLeaf2Step ==
  ASSUME IInv, AskLeaf2
  PROVE  Core' /\ ProversAre' /\ CacheServed'
<1> DEFINE k == Contestant.index
           request == Leaf(Period)
           answer == Ask(k, request)
           leaf == answer.value
           locals == [game EXCEPT !.committee2 = leaf.syncCommittee]
           is1Correct == game.committee1 = GenesisSyncCommittee
           is2Correct == leaf.syncCommittee = GenesisSyncCommittee
           Outcomes ==
             IF ~ Verified(leaf, Period, Contestant.peaks) THEN Decide(TRUE)
             ELSE IF Period = 0 THEN Judge(is1Correct, is2Correct)
             ELSE GoOnTo("prev", locals)
<1>1. pc = "leaf2" /\ pc \in LeafStages
  BY DEF AskLeaf2, LeafStages
<1>2. /\ \/ Throw("transport") /\ UNCHANGED cache
         \/ Keep(k, request) /\ ~ answer.ok /\ Throw("bad answer")
         \/ Keep(k, request) /\ answer.ok /\ Outcomes
      /\ UNCHANGED <<provers, changes, setting>>
  BY DEF AskLeaf2, Request
<1>3. /\ ProversAre /\ CacheServed /\ Core /\ pc \in GameStages /\ IsGame(game)
      /\ InfoIs(Contestant, size, n, provers) /\ k \in 1 .. N
      /\ Plays(k, provers, size) /\ request # MMR
      /\ size \in Nat /\ Period \in 0 .. size /\ pc \notin {"returned", "thrown"}
      /\ Judging /\ DifferAt(Leaves1, Leaves2, Period, size)
  BY <1>1, AtLeaf, OtherRequests
<1>4. Keep(k, request) \/ UNCHANGED cache
  BY <1>2
<1>5. Still /\ ProversAre' /\ CacheServed'
  BY <1>2, <1>3, <1>4, Replied
<1>6. CASE Throw("transport") \/ Throw("bad answer")
  BY <1>3, <1>5, <1>6, Thrown
<1>7. CASE answer.ok /\ Outcomes
  <2>1. PICK p \in CanBe(k, provers, size, n) : answer = Serve(p, request)
    BY <1>3, Asked
  <2>2. answer = GetLeafWithProof(p, Period)
    BY <2>1 DEF Serve, Leaf
  <2>3. /\ Verified(leaf, Period, Contestant.peaks) =>
             CommitteeHash(leaf.syncCommittee) = Leaves2[Period + 1]
        /\ HonestInfo(Contestant, size, n) =>
             Verified(leaf, Period, Contestant.peaks)
             /\ leaf.syncCommittee = Committee(HonestChain, Period)
    BY <1>3, <1>7, <2>2, LeafAccepted DEF Leaves2
  <2>4. CommitteeHash(game.committee1) = Leaves1[Period + 1]
    BY <1>1, <1>3 DEF Judging
  <2> HIDE DEF leaf
  <2>5. CASE ~ Verified(leaf, Period, Contestant.peaks)
    <3>1. Decide(TRUE) /\ ~ HonestInfo(Contestant, size, n)
      BY <1>7, <2>3, <2>5
    <3> QED
      BY <1>3, <1>5, <3>1, Decided
  <2>6. CASE Verified(leaf, Period, Contestant.peaks) /\ Period = 0
    <3>1. Judge(is1Correct, is2Correct)
      BY <1>7, <2>6
    <3>2. ~ (is1Correct /\ is2Correct)
      BY <1>3, <2>3, <2>4, <2>6 DEF DifferAt
    <3>3. HonestInfo(Winner, size, n) => is1Correct
      <4>1. HonestInfo(Winner, size, n) =>
              Leaves1[Period + 1] = CommitteeHash(Committee(HonestChain, Period))
        BY <1>3, HonestLeaf DEF Leaves1
      <4> QED
        BY <2>4, <2>6, <4>1, HashBinds, GenesisAssumption DEF GenesisSyncCommittee
    <3>4. HonestInfo(Contestant, size, n) => is2Correct
      BY <2>3, <2>6, GenesisAssumption DEF GenesisSyncCommittee
    <3>5. is1Correct \in BOOLEAN /\ is2Correct \in BOOLEAN
      OBVIOUS
    <3> HIDE DEF is1Correct, is2Correct
    <3> QED
      BY <1>3, <1>5, <3>1, <3>2, <3>3, <3>4, <3>5, Judged
  <2>7. CASE Verified(leaf, Period, Contestant.peaks) /\ Period # 0
    <3>1. /\ IsGame(locals) /\ SamePlace(game, locals) /\ locals.committee2 = leaf.syncCommittee
          /\ locals.committee1 = game.committee1
      BY <1>3, SetCommittee2
    <3> HIDE DEF locals
    <3>2. GoOnTo("prev", locals)
      BY <1>7, <2>7
    <3>3. /\ CommitteeHash(locals.committee1) = Leaves1[Period + 1]
          /\ CommitteeHash(locals.committee2) = Leaves2[Period + 1]
      BY <2>3, <2>4, <2>7, <3>1
    <3>4. "prev" \in LeafStages
      BY DEF LeafStages
    <3> QED
      BY <1>1, <1>5, <2>7, <3>1, <3>2, <3>3, <3>4, WentOn
  <2> QED
    BY <1>5, <2>5, <2>6, <2>7
<1> QED
  BY <1>2, <1>5, <1>6, <1>7

\* checkNodeAndPrevUpdate: the winner's leaf before.
LEMMA AskPrevLeafStep ==
  ASSUME IInv, AskPrevLeaf
  PROVE  Core' /\ ProversAre' /\ CacheServed'
<1> DEFINE k == Winner.index
           request == Leaf(Period - 1)
           answer == Ask(k, request)
           leaf == answer.value
           locals == [game EXCEPT !.prevCommittee = leaf.syncCommittee]
           Outcomes == IF Verified(leaf, Period - 1, Winner.peaks) THEN GoOnTo("update1", locals)
                       ELSE Decide(FALSE)
<1>1. pc = "prev" /\ pc \in LeafStages
  BY DEF AskPrevLeaf, LeafStages
<1>2. /\ \/ Throw("transport") /\ UNCHANGED cache
         \/ Keep(k, request) /\ ~ answer.ok /\ Throw("bad answer")
         \/ Keep(k, request) /\ answer.ok /\ Outcomes
      /\ UNCHANGED <<provers, changes, setting>>
  BY DEF AskPrevLeaf, Request
<1>3. /\ ProversAre /\ CacheServed /\ Core /\ pc \in GameStages /\ IsGame(game)
      /\ InfoIs(Winner, size, n, provers) /\ k \in 1 .. N
      /\ Plays(k, provers, size) /\ request # MMR
      /\ size \in Nat /\ Period \in 0 .. size /\ pc \notin {"returned", "thrown"}
      /\ Judging
  BY <1>1, AtLeaf, OtherRequests
<1>4. Keep(k, request) \/ UNCHANGED cache
  BY <1>2
<1>5. Still /\ ProversAre' /\ CacheServed'
  BY <1>2, <1>3, <1>4, Replied
<1>6. CASE Throw("transport") \/ Throw("bad answer")
  BY <1>3, <1>5, <1>6, Thrown
<1>7. CASE answer.ok /\ Outcomes
  <2>1. PICK p \in CanBe(k, provers, size, n) : answer = Serve(p, request)
    BY <1>3, Asked
  <2>2. answer = GetLeafWithProof(p, Period - 1)
    BY <2>1 DEF Serve, Leaf
  <2>3. /\ CommitteeHash(game.committee1) = Leaves1[Period + 1]
        /\ CommitteeHash(game.committee2) = Leaves2[Period + 1]
        /\ Period # 0
    BY <1>1, <1>3 DEF Judging
  <2>4. PICK q \in 0 .. size : q = Period - 1 /\ q + 1 = Period
    <3>1. Period - 1 \in 0 .. size /\ (Period - 1) + 1 = Period
      BY <1>3, <2>3
    <3> QED
      BY <3>1
  <2>5. /\ Verified(leaf, q, Winner.peaks) => CommitteeHash(leaf.syncCommittee) = Leaves1[q + 1]
        /\ HonestInfo(Winner, size, n) => Verified(leaf, q, Winner.peaks)
    <3>1. GetLeafWithProof(p, q).ok /\ leaf = GetLeafWithProof(p, q).value
      BY <1>7, <2>2, <2>4
    <3> HIDE DEF leaf
    <3> QED
      BY <1>3, <3>1, LeafAccepted DEF Leaves1
  <2> HIDE DEF leaf
  <2>6. CASE ~ Verified(leaf, q, Winner.peaks)
    <3>1. Decide(FALSE) /\ ~ HonestInfo(Winner, size, n)
      BY <1>7, <2>4, <2>5, <2>6
    <3> QED
      BY <1>3, <1>5, <3>1, Decided
  <2>7. CASE Verified(leaf, q, Winner.peaks)
    <3>1. /\ IsGame(locals) /\ SamePlace(game, locals) /\ locals.prevCommittee = leaf.syncCommittee
          /\ locals.committee1 = game.committee1 /\ locals.committee2 = game.committee2
      BY <1>3, SetPrevCommittee
    <3> HIDE DEF locals
    <3>2. GoOnTo("update1", locals)
      BY <1>7, <2>4, <2>7
    <3>3. /\ CommitteeHash(locals.committee1) = Leaves1[Period + 1]
          /\ CommitteeHash(locals.committee2) = Leaves2[Period + 1]
          /\ CommitteeHash(locals.prevCommittee) = Leaves1[Period]
      BY <2>3, <2>4, <2>5, <2>7, <3>1
    <3>4. "update1" \in LeafStages
      BY DEF LeafStages
    <3> QED
      BY <1>1, <1>5, <2>3, <3>1, <3>2, <3>3, <3>4, WentOn
  <2> QED
    BY <1>5, <2>6, <2>7
<1> QED
  BY <1>2, <1>5, <1>6, <1>7

\* The update of a period, of a prover that answers with one.
LEMMA UpdateAsked ==
  ASSUME ProversAre, CacheServed, NEW k \in 1 .. N, Plays(k, provers, size), NEW q \in Nat,
         Ask(k, UpdateOf(q)).ok, Ask(k, UpdateOf(q)).value # <<>>
  PROVE  \E c : /\ Ask(k, UpdateOf(q)).value[1] = SyncUpdate(c, q)
                /\ IsHonest(provers[k].store) => c = HonestChain
<1>1. PICK p \in CanBe(k, provers, size, n) : Ask(k, UpdateOf(q)) = Serve(p, UpdateOf(q))
  BY Asked, OtherRequests
<1>2. Ask(k, UpdateOf(q)) = GetSyncUpdates(p, q, 1)
  BY <1>1 DEF Serve, UpdateOf
<1>3. p.chainSize \in Nat /\ (IsHonest(p.store) <=> IsHonest(provers[k].store))
  BY PlayerIs, ProverIs
<1> QED
  BY <1>2, <1>3, UpdateServed

\* SyncUpdateVerify: the two committees belong to the same chain as the update.
LEMMA UpdateVerified ==
  ASSUME NEW prev, NEW committee, NEW c, NEW q \in Nat, NEW next, next = q + 1
  PROVE  SyncUpdateVerify(prev, committee, SyncUpdate(c, q)) <=>
           prev = Committee(c, q) /\ committee = Committee(c, next)
BY DEF SyncUpdateVerify, SyncUpdate

\* No two chains share a committee.
LEMMA ChainsDiffer == \A c, d, q : Committee(c, q) = Committee(d, q) => c = d
<1> SUFFICES ASSUME NEW c, NEW d, NEW q, Committee(c, q) = Committee(d, q) PROVE c = d
  OBVIOUS
<1>1. Committee(c, q).chain = c /\ Committee(d, q).chain = d
  BY DEF Committee
<1> QED
  BY <1>1

\* checkNodeAndPrevUpdate: the winner's update.
LEMMA AskUpdate1Step ==
  ASSUME IInv, AskUpdate1
  PROVE  Core' /\ ProversAre' /\ CacheServed'
<1> DEFINE k == Winner.index
           request == UpdateOf(Period - 1)
           answer == Ask(k, request)
           updates == answer.value
           isCorrect == SyncUpdateVerify(game.prevCommittee, game.committee1, updates[1])
           locals == [game EXCEPT !.is1Correct = isCorrect]
           Outcomes == IF updates = <<>> THEN Throw("bad answer") ELSE GoOnTo("update2", locals)
<1>1. pc = "update1" /\ pc \in LeafStages
  BY DEF AskUpdate1, LeafStages
<1>2. /\ \/ Throw("transport") /\ UNCHANGED cache
         \/ Keep(k, request) /\ ~ answer.ok /\ Throw("bad answer")
         \/ Keep(k, request) /\ answer.ok /\ Outcomes
      /\ UNCHANGED <<provers, changes, setting>>
  BY DEF AskUpdate1, Request
<1>3. /\ ProversAre /\ CacheServed /\ Core /\ pc \in GameStages /\ IsGame(game)
      /\ InfoIs(Winner, size, n, provers) /\ k \in 1 .. N
      /\ Plays(k, provers, size) /\ request # MMR
      /\ size \in Nat /\ Period \in 0 .. size /\ pc \notin {"returned", "thrown"}
      /\ Judging
  BY <1>1, AtLeaf, OtherRequests
<1>4. Keep(k, request) \/ UNCHANGED cache
  BY <1>2
<1>5. Still /\ ProversAre' /\ CacheServed'
  BY <1>2, <1>3, <1>4, Replied
<1>6. CASE Throw("transport") \/ Throw("bad answer")
  BY <1>3, <1>5, <1>6, Thrown
<1>7. CASE answer.ok /\ updates # <<>> /\ GoOnTo("update2", locals)
  <2>1. /\ CommitteeHash(game.committee1) = Leaves1[Period + 1]
        /\ CommitteeHash(game.committee2) = Leaves2[Period + 1]
        /\ CommitteeHash(game.prevCommittee) = Leaves1[Period]
        /\ Period # 0
    BY <1>1, <1>3 DEF Judging
  <2>2. PICK q \in 0 .. size : q = Period - 1 /\ q + 1 = Period
    <3>1. Period - 1 \in 0 .. size /\ (Period - 1) + 1 = Period
      BY <1>3, <2>1
    <3> QED
      BY <3>1
  <2>3. PICK c : updates[1] = SyncUpdate(c, q) /\ (IsHonest(provers[k].store) => c = HonestChain)
    <3>1. Ask(k, UpdateOf(q)).ok /\ Ask(k, UpdateOf(q)).value # <<>> /\ q \in Nat
      BY <1>7, <2>2
    <3>2. \E c : /\ Ask(k, UpdateOf(q)).value[1] = SyncUpdate(c, q)
                 /\ IsHonest(provers[k].store) => c = HonestChain
      BY <1>3, <3>1, UpdateAsked
    <3> QED
      BY <2>2, <3>2
  <2>4. isCorrect <=> /\ game.prevCommittee = Committee(c, q)
                      /\ game.committee1 = Committee(c, Period)
    <3>1. q \in Nat
      OBVIOUS
    <3> QED
      BY <2>2, <2>3, <3>1, UpdateVerified
  <2>5. HonestInfo(Winner, size, n) => isCorrect
    <3> SUFFICES ASSUME HonestInfo(Winner, size, n) PROVE isCorrect
      OBVIOUS
    <3>1. c = HonestChain
      BY <1>3, <2>3 DEF InfoIs
    <3>2. Leaves1[Period + 1] = CommitteeHash(Committee(HonestChain, Period))
      BY <1>3, HonestLeaf DEF Leaves1
    <3>3. Leaves1[q + 1] = CommitteeHash(Committee(HonestChain, q))
      BY <1>3, HonestLeaf DEF Leaves1
    <3> HIDE DEF isCorrect
    <3> QED
      BY <2>1, <2>2, <2>4, <3>1, <3>2, <3>3, HashBinds
  <2>6. isCorrect \in BOOLEAN
    BY DEF SyncUpdateVerify
  <2> HIDE DEF isCorrect
  <2>7. /\ IsGame(locals) /\ SamePlace(game, locals) /\ locals.is1Correct = isCorrect
        /\ locals.committee1 = game.committee1 /\ locals.committee2 = game.committee2
        /\ locals.prevCommittee = game.prevCommittee
    BY <1>3, SetIs1Correct
  <2> HIDE DEF locals
  <2>8. "update2" \in LeafStages
    BY DEF LeafStages
  <2>9. locals.is1Correct => \E chain : /\ locals.prevCommittee = Committee(chain, Period - 1)
                                        /\ locals.committee1 = Committee(chain, Period)
    BY <2>2, <2>4, <2>7
  <2> QED
    BY <1>1, <1>5, <1>7, <2>1, <2>5, <2>6, <2>7, <2>8, <2>9, WentOn
<1> QED
  BY <1>2, <1>5, <1>6, <1>7

\* checkNodeAndPrevUpdate: the contestant's update, and the judgement.
LEMMA AskUpdate2Step ==
  ASSUME IInv, AskUpdate2
  PROVE  Core' /\ ProversAre' /\ CacheServed'
<1> DEFINE k == Contestant.index
           request == UpdateOf(Period - 1)
           answer == Ask(k, request)
           updates == answer.value
           isCorrect == SyncUpdateVerify(game.prevCommittee, game.committee2, updates[1])
           Outcomes == IF updates = <<>> THEN Throw("bad answer")
                       ELSE Judge(game.is1Correct, isCorrect)
<1>1. pc = "update2" /\ pc \in LeafStages
  BY DEF AskUpdate2, LeafStages
<1>2. /\ \/ Throw("transport") /\ UNCHANGED cache
         \/ Keep(k, request) /\ ~ answer.ok /\ Throw("bad answer")
         \/ Keep(k, request) /\ answer.ok /\ Outcomes
      /\ UNCHANGED <<provers, changes, setting>>
  BY DEF AskUpdate2, Request
<1>3. /\ ProversAre /\ CacheServed /\ Core /\ pc \in GameStages
      /\ InfoIs(Contestant, size, n, provers) /\ k \in 1 .. N
      /\ Plays(k, provers, size) /\ request # MMR
      /\ size \in Nat /\ Period \in 0 .. size /\ pc \notin {"returned", "thrown"}
      /\ Judging /\ DifferAt(Leaves1, Leaves2, Period, size)
  BY <1>1, AtLeaf, OtherRequests
<1>4. Keep(k, request) \/ UNCHANGED cache
  BY <1>2
<1>5. Still /\ ProversAre' /\ CacheServed'
  BY <1>2, <1>3, <1>4, Replied
<1>6. CASE Throw("transport") \/ Throw("bad answer")
  BY <1>3, <1>5, <1>6, Thrown
<1>7. CASE answer.ok /\ updates # <<>> /\ Judge(game.is1Correct, isCorrect)
  <2>1. /\ CommitteeHash(game.committee1) = Leaves1[Period + 1]
        /\ CommitteeHash(game.committee2) = Leaves2[Period + 1]
        /\ CommitteeHash(game.prevCommittee) = Leaves1[Period]
        /\ Period # 0 /\ game.is1Correct \in BOOLEAN
        /\ HonestInfo(Winner, size, n) => game.is1Correct
    BY <1>1, <1>3 DEF Judging
  <2>2. PICK q \in 0 .. size : q = Period - 1 /\ q + 1 = Period
    <3>1. Period - 1 \in 0 .. size /\ (Period - 1) + 1 = Period
      BY <1>3, <2>1
    <3> QED
      BY <3>1
  <2>3. PICK c : updates[1] = SyncUpdate(c, q) /\ (IsHonest(provers[k].store) => c = HonestChain)
    <3>1. Ask(k, UpdateOf(q)).ok /\ Ask(k, UpdateOf(q)).value # <<>> /\ q \in Nat
      BY <1>7, <2>2
    <3>2. \E c : /\ Ask(k, UpdateOf(q)).value[1] = SyncUpdate(c, q)
                 /\ IsHonest(provers[k].store) => c = HonestChain
      BY <1>3, <3>1, UpdateAsked
    <3> QED
      BY <2>2, <3>2
  <2>4. isCorrect <=> /\ game.prevCommittee = Committee(c, q)
                      /\ game.committee2 = Committee(c, Period)
    <3>1. q \in Nat
      OBVIOUS
    <3> QED
      BY <2>2, <2>3, <3>1, UpdateVerified
  <2>5. HonestInfo(Contestant, size, n) => isCorrect
    <3> SUFFICES ASSUME HonestInfo(Contestant, size, n) PROVE isCorrect
      OBVIOUS
    <3>1. c = HonestChain
      BY <1>3, <2>3 DEF InfoIs
    <3>2. Leaves2[Period + 1] = CommitteeHash(Committee(HonestChain, Period))
      BY <1>3, HonestLeaf DEF Leaves2
    <3>3. Leaves2[q + 1] = CommitteeHash(Committee(HonestChain, q))
      BY <1>3, HonestLeaf DEF Leaves2
    <3>4. Leaves1[Period] = Leaves2[Period]
      <4>1. Period \in 1 .. Period
        BY <1>3, <2>1
      <4> QED
        BY <1>3, <4>1 DEF DifferAt
    <3> HIDE DEF isCorrect
    <3> QED
      BY <2>1, <2>2, <2>4, <3>1, <3>2, <3>3, <3>4, HashBinds
  <2>6. isCorrect \in BOOLEAN
    BY DEF SyncUpdateVerify
  <2> HIDE DEF isCorrect
  <2>7. ~ (game.is1Correct /\ isCorrect)
    <3> SUFFICES ASSUME game.is1Correct, isCorrect PROVE FALSE
      OBVIOUS
    <3>1. PICK chain : /\ game.prevCommittee = Committee(chain, Period - 1)
                       /\ game.committee1 = Committee(chain, Period)
      BY <1>1, <1>3 DEF Judging
    <3>2. chain = c
      BY <2>2, <2>4, <3>1, ChainsDiffer
    <3> QED
      BY <1>3, <2>1, <2>4, <3>1, <3>2 DEF DifferAt
  <2> QED
    BY <1>3, <1>5, <1>7, <2>1, <2>5, <2>6, <2>7, Judged
<1> QED
  BY <1>2, <1>5, <1>6, <1>7

\* sync: the first winner has the latest committee.
LEMMA AskLatestStep ==
  ASSUME IInv, AskLatest
  PROVE  Core' /\ ProversAre' /\ CacheServed'
<1> DEFINE k == winners[at].index
           request == Leaf(Latest)
           answer == Ask(k, request)
           leaf == answer.value
           Returns == /\ pc' = "returned" /\ result' = leaf.syncCommittee
                      /\ UNCHANGED <<at, proverInfos, winners, game, reason>>
           Outcomes ==
             IF Verified(leaf, Latest, winners[at].peaks) THEN Returns
             ELSE IF at = Len(winners) THEN Throw("all winners cheated")
             ELSE at' = at + 1 /\ UNCHANGED <<pc, proverInfos, winners, game, result, reason>>
<1>1. ProversAre /\ CacheServed /\ Core /\ pc = "latest" /\ pc \notin {"returned", "thrown"}
  BY DEF IInv, AskLatest
<1>2. /\ \/ Throw("transport") /\ UNCHANGED cache
         \/ Keep(k, request) /\ ~ answer.ok /\ Throw("bad answer")
         \/ Keep(k, request) /\ answer.ok /\ Outcomes
      /\ UNCHANGED <<provers, changes, setting>>
  BY DEF AskLatest, Request
<1>3. /\ winners[at] = Winner /\ InfoIs(Winner, size, n, provers) /\ HonestInfo(Winner, size, n)
      /\ k \in 1 .. N /\ Plays(k, provers, size) /\ request # MMR
  BY <1>1, OtherRequests DEF Core, Outcome, Winner, InfoIs, Plays
<1>4. Keep(k, request) \/ UNCHANGED cache
  BY <1>2
<1>5. Still /\ ProversAre' /\ CacheServed'
  BY <1>1, <1>2, <1>3, <1>4, Replied
<1>6. CASE Throw("transport") \/ Throw("bad answer")
  BY <1>1, <1>5, <1>6, Thrown
<1>7. CASE answer.ok /\ Outcomes
  <2>1. PICK p \in CanBe(k, provers, size, n) : answer = Serve(p, request)
    BY <1>1, <1>3, Asked
  <2>2. answer = GetLeafWithProof(p, Latest)
    BY <2>1 DEF Serve, Leaf
  <2>3. Verified(leaf, Latest, winners[at].peaks) /\ leaf.syncCommittee = CurrentCommittee
    BY <1>1, <1>3, <1>7, <2>2, LatestAccepted
  <2> HIDE DEF leaf
  <2>4. /\ pc' = "returned" /\ result' = CurrentCommittee
        /\ UNCHANGED <<at, proverInfos, winners, game, reason>>
        /\ size' = size /\ n' = n /\ provers' = provers
    BY <1>5, <1>7, <2>3 DEF Still
  <2>5. InfosAre' /\ IsGame(game)'
    BY <1>1, <2>4 DEF Core, InfosAre
  <2>6. Collecting' /\ Fighting' /\ Bisecting' /\ Judging'
    BY <2>4 DEF Collecting, Fighting, Bisecting, Judging, GameStages, LeafStages
  <2>7. Outcome'
    BY <1>1, <2>4 DEF Core, Outcome, OnlyNetworkErrors, Stages, CurrentCommittee
  <2> QED
    BY <1>5, <2>5, <2>6, <2>7 DEF Core
<1> QED
  BY <1>2, <1>5, <1>6, <1>7

-----------------------------------------------------------------------------
(* sync: the mountain ranges.                                              *)

\* A sequence is the function of its elements.
LEMMA SeqShape ==
  ASSUME NEW S, NEW t \in Seq(S)
  PROVE  t = [j \in 1 .. Len(t) |-> t[j]]
OBVIOUS

IsList(s) == Len(s) \in Nat /\ s = [j \in 1 .. Len(s) |-> s[j]]

\* t is s, followed by v.
Longer(s, v, t) ==
  /\ IsList(t) /\ Len(t) = Len(s) + 1 /\ t[Len(s) + 1] = v
  /\ \A j \in 1 .. Len(s) : t[j] = s[j]

\* A sequence with one more element.
LEMMA Appended ==
  ASSUME NEW s, IsList(s), NEW v, NEW t, t = Append(s, v)
  PROVE  Longer(s, v, t)
<1> DEFINE S == {s[j] : j \in 1 .. Len(s)} \cup {v}
           l == Len(s)
<1>1. s \in Seq(S) /\ v \in S
  <2>1. \A j \in 1 .. l : s[j] \in S
    OBVIOUS
  <2>2. s = [j \in 1 .. l |-> s[j]] /\ l \in Nat
    BY DEF IsList
  <2> HIDE DEF S, l
  <2>3. s \in [1 .. l -> S]
    BY <2>1, <2>2
  <2> QED
    BY <2>2, <2>3 DEF S
<1> HIDE DEF S
<1>2. /\ Append(s, v) \in Seq(S) /\ Len(Append(s, v)) = Len(s) + 1
      /\ \A j \in 1 .. Len(s) : Append(s, v)[j] = s[j]
      /\ Append(s, v)[Len(s) + 1] = v
  BY <1>1, AppendProperties
<1>3. t \in Seq(S) /\ Len(t) = Len(s) + 1
  BY <1>2
<1>4. t = [j \in 1 .. Len(t) |-> t[j]]
  BY <1>3, SeqShape
<1> QED
  BY <1>2, <1>3, <1>4 DEF Longer, IsList

\* A prover is dealt with; after the last one the tournament starts.
LEMMA InfosCollected ==
  ASSUME ProversAre, Core, Still, pc = "info", NEW infos, WithInfos(infos),
         Len(infos) \in Nat, infos = [j \in 1 .. Len(infos) |-> infos[j]],
         \A j \in 1 .. Len(infos) : InfoIs(infos[j], size, n, provers),
         \A k \in 1 .. N : k # at => cache'[k] = cache[k],
         \E k \in 1 .. N :
           /\ Fits(k, provers, size)
           /\ k <= at => \E j \in 1 .. Len(infos) : HonestInfo(infos[j], size, n)
  PROVE  Core'
<1>1. /\ proverInfos' = infos /\ game' = game /\ result' = result /\ result = NoCommittee
      /\ size' = size /\ n' = n /\ provers' = provers /\ OnlyNetworkErrors
      /\ at \in 1 .. N /\ N \in Nat /\ IsGame(game)
      /\ \A k \in at .. N : cache[k] = <<>>
  BY NAssumption DEF WithInfos, Still, Core, Outcome, Collecting
<1>2. InfosAre' /\ IsGame(game)'
  BY <1>1 DEF InfosAre
<1>3. CASE at < N
  <2>1. pc' = "info" /\ at' = at + 1 /\ UNCHANGED <<winners, reason>>
    BY <1>3 DEF WithInfos
  <2>2. /\ at' \in 1 .. N /\ \A k \in 1 .. N : k < at' <=> k <= at
    BY <1>1, <1>3, <2>1
  <2>3. ASSUME NEW k \in at' .. N PROVE cache'[k] = <<>>
    <3>1. k \in at .. N /\ k \in 1 .. N /\ k # at
      BY <1>1, <2>1
    <3> QED
      BY <1>1, <3>1
  <2>4. Collecting'
    BY <1>1, <2>2, <2>3 DEF Collecting
  <2>5. Fighting' /\ Bisecting' /\ Judging'
    BY <2>1 DEF Fighting, Bisecting, Judging, GameStages, LeafStages
  <2>6. Outcome'
    BY <1>1, <2>1 DEF Outcome, OnlyNetworkErrors, Stages
  <2> QED
    BY <1>2, <2>4, <2>5, <2>6 DEF Core
<1>4. CASE ~ (at < N)
  <2>1. PICK j \in 1 .. Len(infos) : HonestInfo(infos[j], size, n)
    <3>1. \A k \in 1 .. N : k <= at
      BY <1>1, <1>4
    <3> QED
      BY <3>1
  <2>2. infos # <<>> /\ Len(infos) \in Nat \ {0}
    BY <2>1
  <2>3. /\ pc' = "tournament" /\ at' = 2 /\ winners' = <<infos[1]>> /\ reason' = reason
    BY <1>4, <2>2 DEF WithInfos
  <2>4. Len(winners') = 1 /\ winners'[1] = infos[1] /\ winners' = [i \in 1 .. 1 |-> winners'[i]]
    BY <2>3
  <2>5. InfoIs(infos[1], size, n, provers)
    BY <2>2
  <2>6. ASSUME NEW i \in 1 .. 2 - 1, HonestInfo(infos[i], size, n)
        PROVE  HonestInfo(infos[1], size, n)
    <3>1. i = 1
      OBVIOUS
    <3> QED
      BY <2>6, <3>1
  <2>7. Fighting'
    BY <1>1, <2>1, <2>2, <2>3, <2>4, <2>5, <2>6 DEF Fighting, Winner, GameStages, LeafStages
  <2>8. Collecting' /\ Bisecting' /\ Judging'
    BY <2>3 DEF Collecting, Bisecting, Judging, LeafStages
  <2>9. Outcome'
    BY <1>1, <2>3 DEF Outcome, OnlyNetworkErrors, Stages
  <2> QED
    BY <1>2, <2>7, <2>8, <2>9 DEF Core
<1> QED
  BY <1>3, <1>4

\* sync: the mountain range of a prover.
LEMMA CollectInfoStep ==
  ASSUME IInv, CollectInfo
  PROVE  Core' /\ ProversAre' /\ CacheServed'
<1> DEFINE answer == Ask(at, MMR)
           value == answer.value
           verdict == RangeVerify(value.rootHash, value.peaks, size + 1, n)
           info == [root |-> value.rootHash, peaks |-> value.peaks, index |-> at]
           Outcomes == \/ verdict = "exception" /\ Throw("peaks")
                       \/ verdict = "valid" /\ WithInfos(Append(proverInfos, info))
                       \/ verdict = "invalid" /\ WithInfos(proverInfos)
<1>1. ProversAre /\ CacheServed /\ Core /\ pc = "info" /\ pc \notin {"returned", "thrown"}
  BY DEF IInv, CollectInfo
<1>2. /\ \/ Throw("transport") /\ UNCHANGED cache
         \/ Keep(at, MMR) /\ ~ answer.ok /\ Throw("bad answer")
         \/ Keep(at, MMR) /\ answer.ok /\ Outcomes
      /\ UNCHANGED <<provers, changes, setting>>
  BY DEF CollectInfo, Request
<1>3. /\ at \in 1 .. N /\ N \in Nat /\ at \in at .. N /\ cache[at] = <<>>
      /\ \E k \in 1 .. N :
           /\ Fits(k, provers, size)
           /\ k < at => \E j \in 1 .. Len(proverInfos) : HonestInfo(proverInfos[j], size, n)
      /\ Len(proverInfos) \in Nat
      /\ proverInfos = [j \in 1 .. Len(proverInfos) |-> proverInfos[j]]
      /\ \A j \in 1 .. Len(proverInfos) : InfoIs(proverInfos[j], size, n, provers)
  BY <1>1, NAssumption DEF Core, Collecting, InfosAre
<1>4. Keep(at, MMR) \/ UNCHANGED cache
  BY <1>2
<1>5. Still /\ ProversAre' /\ CacheServed'
  BY <1>1, <1>2, <1>3, <1>4, Replied
<1>6. CASE Throw("transport") \/ Throw("bad answer") \/ Throw("peaks")
  BY <1>1, <1>5, <1>6, Thrown
<1>7. PICK p : p = provers[at] /\ answer = Serve(p, MMR)
  <2>1. MMR \notin DOMAIN cache[at]
    BY <1>3
  <2> QED
    BY <2>1 DEF Ask
<1>8. PICK peaks : /\ peaks = Peaks(MMRLeaves(p), p.treeDegree)
                   /\ value.rootHash = RangeRoot(peaks) /\ value.peaks = peaks
  BY <1>7 DEF Serve, MMR, GetMMRInfo, Answer
<1>9. /\ RangeVerify(RangeRoot(peaks), peaks, size + 1, n) = verdict
      /\ info.root = RangeRoot(peaks) /\ info.peaks = peaks /\ info.index = at
  BY <1>8
<1> HIDE DEF info, verdict
<1>10. /\ verdict = "valid" => InfoIs(info, size, n, provers)
       /\ Fits(at, provers, size) => verdict = "valid" /\ HonestInfo(info, size, n)
  BY <1>1, <1>3, <1>7, <1>8, <1>9, InfoOf
<1>11. \A k \in 1 .. N : k # at => cache'[k] = cache[k]
  BY <1>1, <1>2, <1>3, <1>4, Kept
<1>12. CASE verdict = "valid" /\ WithInfos(Append(proverInfos, info))
  <2> DEFINE l == Len(proverInfos)
  <2>0. PICK infos : infos = Append(proverInfos, info)
    OBVIOUS
  <2>1. /\ Len(infos) = l + 1 /\ infos = [j \in 1 .. Len(infos) |-> infos[j]]
        /\ \A j \in 1 .. l : infos[j] = proverInfos[j]
        /\ infos[l + 1] = info /\ l \in Nat
    <3>1. IsList(proverInfos)
      BY <1>3 DEF IsList
    <3>2. Longer(proverInfos, info, infos)
      BY <2>0, <3>1, Appended
    <3> QED
      BY <1>3, <3>2 DEF Longer, IsList
  <2> HIDE DEF l
  <2>2. ASSUME NEW j \in 1 .. Len(infos) PROVE InfoIs(infos[j], size, n, provers)
    <3>1. j \in 1 .. l \/ j = l + 1
      BY <2>1
    <3> QED
      BY <1>3, <1>10, <1>12, <2>1, <3>1 DEF l
  <2>3. \E k \in 1 .. N :
          /\ Fits(k, provers, size)
          /\ k <= at => \E j \in 1 .. Len(infos) : HonestInfo(infos[j], size, n)
    <3>1. PICK k \in 1 .. N :
            /\ Fits(k, provers, size)
            /\ k < at => \E j \in 1 .. Len(proverInfos) : HonestInfo(proverInfos[j], size, n)
      BY <1>3
    <3>2. CASE k = at
      <4>1. l + 1 \in 1 .. Len(infos)
        BY <2>1
      <4> QED
        BY <1>10, <2>1, <3>1, <3>2, <4>1
    <3>3. CASE k < at
      <4>1. PICK j \in 1 .. l : HonestInfo(proverInfos[j], size, n)
        BY <3>1, <3>3 DEF l
      <4>2. j \in 1 .. Len(infos)
        BY <2>1
      <4> QED
        BY <2>1, <3>1, <4>1, <4>2
    <3>4. CASE k > at
      BY <1>3, <3>1, <3>4
    <3>5. k = at \/ k < at \/ k > at
      BY <1>3
    <3> QED
      BY <3>2, <3>3, <3>4, <3>5
  <2>4. WithInfos(infos) /\ Len(infos) \in Nat
    BY <1>12, <2>0, <2>1
  <2> QED
    BY <1>1, <1>5, <1>11, <2>1, <2>2, <2>3, <2>4, InfosCollected
<1>13. CASE verdict = "invalid" /\ WithInfos(proverInfos)
  <2>1. PICK k \in 1 .. N :
          /\ Fits(k, provers, size)
          /\ k < at => \E j \in 1 .. Len(proverInfos) : HonestInfo(proverInfos[j], size, n)
    BY <1>3
  <2>2. k # at
    BY <1>10, <1>13, <2>1
  <2>3. k <= at => k < at
    BY <1>3, <2>2
  <2> QED
    BY <1>1, <1>3, <1>5, <1>13, <1>11, <2>1, <2>3, InfosCollected
<1>14. \/ Throw("transport") \/ Throw("bad answer") \/ Throw("peaks")
       \/ verdict = "valid" /\ WithInfos(Append(proverInfos, info))
       \/ verdict = "invalid" /\ WithInfos(proverInfos)
  BY <1>2 DEF info, verdict
<1> QED
  BY <1>5, <1>6, <1>12, <1>13, <1>14

-----------------------------------------------------------------------------
(* The tournament.                                                         *)

\* The players that meet.
LEMMA Met ==
  ASSUME ProversAre, Core, pc = "tournament", ~ (at > Len(proverInfos))
  PROVE  /\ InfoIs(Winner, size, n, provers) /\ InfoIs(Contestant, size, n, provers)
         /\ at \in 2 .. Len(proverInfos) /\ Len(proverInfos) \in Nat
         /\ size \in Nat /\ IsRange(Leaves1, size + 1, n) /\ IsRange(Leaves2, size + 1, n)
         /\ Winner.peaks = Peaks(Leaves1, n) /\ Contestant.peaks = Peaks(Leaves2, n)
         /\ Winner.root = RangeRoot(Peaks(Leaves1, n))
         /\ Contestant.root = RangeRoot(Peaks(Leaves2, n))
<1>1. /\ InfoIs(Winner, size, n, provers) /\ Len(proverInfos) \in Nat
      /\ at \in 2 .. Len(proverInfos) + 1
      /\ \A j \in 1 .. Len(proverInfos) : InfoIs(proverInfos[j], size, n, provers)
  BY DEF Core, Fighting, InfosAre
<1>2. at \in 2 .. Len(proverInfos) /\ at \in 1 .. Len(proverInfos)
  BY <1>1
<1>3. InfoIs(Contestant, size, n, provers)
  BY <1>1, <1>2 DEF Contestant
<1>4. size \in Nat
  BY DEF ProversAre
<1> QED
  BY <1>1, <1>2, <1>3, <1>4 DEF InfoIs, Leaves1, Leaves2

\* After the last contestant, the honest ones have met the winners.
LEMMA LastMet ==
  ASSUME Core, Still, pc = "tournament", at > Len(proverInfos),
         pc' = "latest", at' = 1, UNCHANGED <<proverInfos, winners, game, result, reason>>
  PROVE  Core'
<1>1. /\ size' = size /\ n' = n /\ provers' = provers /\ result = NoCommittee
      /\ OnlyNetworkErrors /\ IsGame(game) /\ InfosAre
      /\ InfoIs(Winner, size, n, provers) /\ Len(proverInfos) \in Nat
      /\ at \in 2 .. Len(proverInfos) + 1
      /\ \E j \in 1 .. Len(proverInfos) : HonestInfo(proverInfos[j], size, n)
      /\ (\E j \in 1 .. at - 1 : HonestInfo(proverInfos[j], size, n)) => HonestInfo(Winner, size, n)
  BY DEF Core, Outcome, Still, Fighting, InfosAre
<1>2. HonestInfo(Winner, size, n)
  <2>1. at - 1 = Len(proverInfos)
    BY <1>1
  <2> QED
    BY <1>1, <2>1
<1>3. InfosAre' /\ IsGame(game)'
  BY <1>1 DEF InfosAre
<1>4. Collecting' /\ Fighting' /\ Bisecting' /\ Judging'
  BY DEF Collecting, Fighting, Bisecting, Judging, GameStages, LeafStages
<1>5. Outcome'
  BY <1>1, <1>2 DEF Outcome, OnlyNetworkErrors, Stages, Winner
<1> QED
  BY <1>3, <1>4, <1>5 DEF Core

\* A contestant with the same root is as honest as the winners.
LEMMA JoinedWinners ==
  ASSUME ProversAre, Core, Still, pc = "tournament", ~ (at > Len(proverInfos)),
         Winner.root = Contestant.root, winners' = Append(winners, Contestant), at' = at + 1,
         UNCHANGED <<pc, proverInfos, game, result, reason>>
  PROVE  Core'
<1>1. /\ size' = size /\ n' = n /\ provers' = provers /\ result = NoCommittee
      /\ OnlyNetworkErrors /\ IsGame(game) /\ InfosAre
      /\ Len(winners) \in Nat \ {0} /\ winners = [i \in 1 .. Len(winners) |-> winners[i]]
      /\ \E j \in 1 .. Len(proverInfos) : HonestInfo(proverInfos[j], size, n)
      /\ (\E j \in 1 .. at - 1 : HonestInfo(proverInfos[j], size, n)) => HonestInfo(Winner, size, n)
  BY DEF Core, Outcome, Still, Fighting
<1>2. /\ InfoIs(Winner, size, n, provers) /\ at \in 2 .. Len(proverInfos)
      /\ Len(proverInfos) \in Nat /\ size \in Nat
      /\ IsRange(Leaves1, size + 1, n) /\ IsRange(Leaves2, size + 1, n)
      /\ RangeRoot(Peaks(Leaves1, n)) = RangeRoot(Peaks(Leaves2, n))
  BY Met
<1>3. HonestInfo(Contestant, size, n) <=> HonestInfo(Winner, size, n)
  <2>1. Leaves1 = Leaves2
    BY <1>2, RangeRootBinds
  <2> QED
    BY <2>1 DEF HonestInfo, Leaves1, Leaves2
<1>4. /\ Len(winners') \in Nat \ {0} /\ winners'[1] = Winner
      /\ winners' = [i \in 1 .. Len(winners') |-> winners'[i]]
  <2>1. IsList(winners)
    BY <1>1 DEF IsList
  <2>2. Longer(winners, Contestant, winners')
    BY <2>1, Appended
  <2> QED
    BY <1>1, <2>2 DEF Longer, IsList, Winner
<1>5. at' \in 2 .. Len(proverInfos) + 1 /\ at' - 1 = at
  BY <1>2
<1>6. ASSUME NEW j \in 1 .. at, HonestInfo(proverInfos[j], size, n)
      PROVE  HonestInfo(Winner, size, n)
  <2>1. CASE j = at
    BY <1>3, <1>6, <2>1 DEF Contestant
  <2>2. CASE j # at
    <3>1. j \in 1 .. at - 1
      BY <1>2, <2>2
    <3> QED
      BY <1>1, <1>6, <3>1
  <2> QED
    BY <2>1, <2>2
<1>7. Fighting'
  <2>1. Winner' = Winner
    BY <1>4 DEF Winner
  <2>2. (\E j \in 1 .. at' - 1 : HonestInfo(proverInfos[j], size, n)) => HonestInfo(Winner, size, n)
    BY <1>5, <1>6
  <2> QED
    BY <1>1, <1>2, <1>4, <1>5, <2>1, <2>2 DEF Fighting, GameStages, LeafStages
<1>8. InfosAre' /\ IsGame(game)'
  BY <1>1 DEF InfosAre
<1>9. Collecting' /\ Bisecting' /\ Judging'
  BY DEF Collecting, Bisecting, Judging, LeafStages
<1>10. Outcome'
  BY <1>1 DEF Outcome, OnlyNetworkErrors, Stages
<1> QED
  BY <1>7, <1>8, <1>9, <1>10 DEF Core

\* A game begins: the peaks are as many, one differs, and a game starts there.
LEMMA GameBegun ==
  ASSUME ProversAre, Core, Still, pc = "tournament", ~ (at > Len(proverInfos)),
         Winner.root # Contestant.root, PeaksVsPeaks
  PROVE  Core'
<1> DEFINE peaks1 == Winner.peaks
           peaks2 == Contestant.peaks
           sizes == PeakSizes(size + 1, n)
           Differ == {i \in DOMAIN peaks1 : peaks1[i].rootHash # peaks2[i].rootHash}
           first == CHOOSE i \in Differ : \A j \in Differ : i <= j
<1>1. /\ InfoIs(Winner, size, n, provers) /\ at \in 2 .. Len(proverInfos)
      /\ Len(proverInfos) \in Nat /\ size \in Nat
      /\ IsRange(Leaves1, size + 1, n) /\ IsRange(Leaves2, size + 1, n)
      /\ peaks1 = Peaks(Leaves1, n) /\ peaks2 = Peaks(Leaves2, n)
      /\ RangeRoot(Peaks(Leaves1, n)) # RangeRoot(Peaks(Leaves2, n))
  BY Met
<1>2. /\ Len(peaks1) = Len(sizes) /\ DOMAIN peaks1 = 1 .. Len(sizes) /\ Sizes(peaks1) = sizes
      /\ \A k \in 1 .. Len(sizes) : peaks1[k].size = sizes[k]
      /\ Len(sizes) \in Nat
  BY <1>1, RangePeaks
<1>3. Len(peaks2) = Len(sizes)
  BY <1>1, RangePeaks
<1>4. PICK k \in 1 .. Len(sizes) : peaks1[k].rootHash # peaks2[k].rootHash
  BY <1>1, RangeRootBinds
<1>5. Differ # {} /\ Differ \subseteq Nat
  BY <1>2, <1>4
<1>6. first \in Differ /\ \A j \in Differ : first <= j
  <2> HIDE DEF Differ
  <2> QED
    BY <1>5, FirstOf
<1>7. /\ Compare(peaks1[first].rootHash, peaks2[first].rootHash, peaks1[first].rootHash,
                 peaks2[first].rootHash, LogFloor(peaks1[first].size, n), 0,
                 Offset(Sizes(peaks1), first))
      /\ UNCHANGED <<at, proverInfos, winners, result, reason>>
  <2>1. Len(peaks1) = Len(peaks2) /\ Differ # {}
    BY <1>2, <1>3, <1>5
  <2> QED
    BY <2>1 DEF PeaksVsPeaks
<1>8. /\ first \in 1 .. Len(sizes) /\ peaks1[first].rootHash # peaks2[first].rootHash
      /\ \A p \in 1 .. first - 1 : peaks1[p].rootHash = peaks2[p].rootHash
  <2>1. first \in 1 .. Len(sizes) /\ peaks1[first].rootHash # peaks2[first].rootHash
    <3> HIDE DEF first
    <3> QED
      BY <1>2, <1>6
  <2>2. ASSUME NEW p \in 1 .. first - 1 PROVE peaks1[p].rootHash = peaks2[p].rootHash
    <3> HIDE DEF first
    <3>1. p \in 1 .. Len(sizes) /\ ~ (first <= p)
      BY <1>2, <2>1
    <3>2. p \notin Differ
      <4> HIDE DEF Differ
      <4> QED
        BY <1>6, <3>1
    <3> QED
      BY <1>2, <3>1, <3>2
  <2> QED
    BY <2>1, <2>2
<1> HIDE DEF first, Differ
<1>9. /\ IsGame(game') /\ game'.node1 = peaks1[first].rootHash
      /\ game'.node2 = peaks2[first].rootHash
      /\ game'.steps = LogFloor(peaks1[first].size, n)
      /\ game'.index = 0 /\ game'.offset = Offset(Sizes(peaks1), first)
      /\ pc' = IF game'.steps = 0 THEN "leaf1" ELSE "node1"
  BY <1>7, CompareIs
<1>10. InGame(game', Leaves1, Leaves2, size, n) /\ game'.steps \in Nat
  <2>1. /\ Peaks(Leaves1, n)[first].rootHash # Peaks(Leaves2, n)[first].rootHash
        /\ \A p \in 1 .. first - 1 :
             Peaks(Leaves1, n)[p].rootHash = Peaks(Leaves2, n)[p].rootHash
        /\ game'.node1 = Peaks(Leaves1, n)[first].rootHash
        /\ game'.node2 = Peaks(Leaves2, n)[first].rootHash
        /\ game'.steps = LogFloor(sizes[first], n) /\ game'.index = 0
        /\ game'.offset = Offset(sizes, first)
    BY <1>1, <1>2, <1>8, <1>9
  <2> QED
    BY <1>1, <1>8, <2>1, PeaksCompared
<1>11. /\ pc' = IF game'.steps = 0 THEN "leaf1" ELSE "node1"
       /\ UNCHANGED <<at, proverInfos, winners>>
  BY <1>7, <1>9
<1>12. Bisecting' /\ Judging' /\ pc' \in GameStages
  BY <1>1, <1>10, <1>11, Opened
<1>13. /\ proverInfos' = proverInfos /\ at' = at /\ winners' = winners
       /\ result' = result /\ result = NoCommittee /\ reason' = reason
       /\ size' = size /\ n' = n /\ provers' = provers /\ OnlyNetworkErrors
  BY <1>7 DEF Still, Core, Outcome
<1>14. InfosAre' /\ IsGame(game)'
  BY <1>9, <1>13 DEF Core, InfosAre
<1>15. Fighting'
  <2>1. at <= Len(proverInfos)
    BY <1>1
  <2> QED
    BY <1>13, <2>1 DEF Core, Fighting, Winner
<1>16. Collecting'
  BY <1>12 DEF Collecting, GameStages, LeafStages
<1>17. Outcome'
  BY <1>12, <1>13 DEF Outcome, OnlyNetworkErrors, GameStages, LeafStages, Stages
<1> QED
  BY <1>12, <1>14, <1>15, <1>16, <1>17 DEF Core

\* tournament: the next contestant.
LEMMA MeetStep ==
  ASSUME IInv, Meet
  PROVE  Core' /\ ProversAre' /\ CacheServed'
<1>1. ProversAre /\ CacheServed /\ Core /\ pc = "tournament"
  BY DEF IInv, Meet
<1>2. UNCHANGED <<provers, changes, cache, setting>>
  BY DEF Meet
<1>3. Still /\ ProversAre' /\ CacheServed'
  BY <1>1, <1>2, StillAre DEF CacheServed, setting
<1>4. CASE at > Len(proverInfos)
  <2>1. pc' = "latest" /\ at' = 1 /\ UNCHANGED <<proverInfos, winners, game, result, reason>>
    BY <1>4 DEF Meet
  <2> QED
    BY <1>1, <1>3, <1>4, <2>1, LastMet
<1>5. CASE ~ (at > Len(proverInfos)) /\ Winner.root = Contestant.root
  <2>1. /\ winners' = Append(winners, Contestant) /\ at' = at + 1
        /\ UNCHANGED <<pc, proverInfos, game, result, reason>>
    BY <1>5 DEF Meet
  <2> QED
    BY <1>1, <1>3, <1>5, <2>1, JoinedWinners
<1>6. CASE ~ (at > Len(proverInfos)) /\ Winner.root # Contestant.root
  <2>1. PeaksVsPeaks
    BY <1>6 DEF Meet
  <2> QED
    BY <1>1, <1>3, <1>6, <2>1, GameBegun
<1> QED
  BY <1>4, <1>5, <1>6

-----------------------------------------------------------------------------
(* A change of a prover.                                                   *)

\* Honest provers are the same, and those of the expected size as they were.
SameHonest(ps, qs, s) ==
  \A k \in 1 .. N : /\ IsHonest(qs[k].store) <=> IsHonest(ps[k].store)
                    /\ Fits(k, ps, s) => qs[k] = ps[k]

\* What is known of provers, after a change that leaves honest ones.
LEMMA InfoSame ==
  ASSUME NEW ps, NEW qs, NEW s, SameHonest(ps, qs, s), NEW info, NEW deg,
         InfoIs(info, s, deg, ps)
  PROVE  InfoIs(info, s, deg, qs)
BY DEF InfoIs, Fits, SameHonest

\* What a change of a prover leaves.
LEMMA Changed ==
  ASSUME ProversAre, HonestStay, NEW k \in 1 .. N, Change(k)
  PROVE  /\ SameHonest(provers, provers', size) /\ size' = size /\ n' = n /\ UNCHANGED client
         /\ changes' \in Nat /\ changes # 0 /\ provers' = [j \in 1 .. N |-> provers'[j]]
         /\ \A j \in 1 .. N :
              /\ provers'[j].store.dishonestChain = provers[j].store.dishonestChain
              /\ provers'[j].store.maxChainSize = provers[j].store.maxChainSize
              /\ provers'[j] \in States(provers[j].store.dishonestChain,
                                        provers[j].store.maxChainSize, n)
<1>1. PICK p : /\ p \in SetConfig(provers[k], size, n)
                        \cup {NewProver(Store(provers[k].store.dishonestChain,
                                              provers[k].store.maxChainSize), n)}
               /\ provers' = [provers EXCEPT ![k] = p]
  BY DEF Change
<1>2. /\ size' = size /\ n' = n /\ UNCHANGED client
      /\ changes' \in Nat /\ changes # 0 /\ changes \in Nat /\ size \in Nat
  BY DEF Change, setting, ProversAre
<1>3. /\ p \in States(provers[k].store.dishonestChain, provers[k].store.maxChainSize, n)
      /\ p.store.dishonestChain = provers[k].store.dishonestChain
      /\ p.store.maxChainSize = provers[k].store.maxChainSize
      /\ Fits(k, provers, size) => p = provers[k]
  <2>1. provers[k].store.maxChainSize \in Nat /\ provers[k] \in Ever(k, provers, n)
    BY DEF ProversAre
  <2>2. provers'[k] = p
    BY <1>1 DEF ProversAre
  <2>3. Fits(k, provers, size) => p.chainSize = size
    BY <2>2 DEF HonestStay, Fits
  <2>4. p \in SetConfig(provers[k], size, n)
             \cup {NewProver(Store(provers[k].store.dishonestChain,
                                   provers[k].store.maxChainSize), n)}
    BY <1>1
  <2>5. size \in Nat
    BY <1>2
  <2>6. ChangesTo(p, provers, k, size, n)
    BY <2>1, <2>3, <2>4, <2>5 DEF ChangesTo
  <2>7. KeepsOf(p, provers, k, size, n)
    BY <2>6, ChangeKeeps
  <2> QED
    BY <2>7 DEF KeepsOf
<1>4. /\ provers' = [j \in 1 .. N |-> provers'[j]] /\ provers'[k] = p
      /\ \A j \in 1 .. N : j # k => provers'[j] = provers[j]
  BY <1>1 DEF ProversAre
<1>5. IsHonest(p.store) <=> IsHonest(provers[k].store)
  BY <1>3 DEF IsHonest
<1>6. SameHonest(provers, provers', size)
  BY <1>3, <1>4, <1>5 DEF SameHonest
<1>7. ASSUME NEW j \in 1 .. N
      PROVE  /\ provers'[j].store.dishonestChain = provers[j].store.dishonestChain
             /\ provers'[j].store.maxChainSize = provers[j].store.maxChainSize
             /\ provers'[j] \in States(provers[j].store.dishonestChain,
                                       provers[j].store.maxChainSize, n)
  <2>1. CASE j = k
    BY <1>3, <1>4, <2>1
  <2>2. CASE j # k
    BY <1>4, <2>2 DEF ProversAre, Ever
  <2> QED
    BY <2>1, <2>2
<1> QED
  BY <1>2, <1>4, <1>6, <1>7

\* What provers can be, or have been, they still can.
LEMMA StillCanBe ==
  ASSUME ProversAre, HonestStay, NEW k \in 1 .. N, Change(k), NEW j \in 1 .. N
  PROVE  /\ CanBe(j, provers, size, n) \subseteq CanBe(j, provers', size, n)
         /\ provers'[j] \in Ever(j, provers', n)
<1>1. /\ SameHonest(provers, provers', size)
      /\ Ever(j, provers', n) = Ever(j, provers, n)
      /\ provers'[j] \in Ever(j, provers, n)
  BY Changed DEF Ever
<1>2. ASSUME NEW p \in CanBe(j, provers, size, n) PROVE p \in CanBe(j, provers', size, n)
  <2>1. /\ p \in Ever(j, provers, n)
        /\ IsHonest(p.store) => p = provers[j] /\ Fits(j, provers, size)
    BY DEF CanBe
  <2>2. IsHonest(p.store) => provers'[j] = provers[j] /\ Fits(j, provers', size)
    BY <1>1, <2>1 DEF SameHonest, Fits
  <2> QED
    BY <1>1, <2>1, <2>2 DEF CanBe
<1> QED
  BY <1>1, <1>2

\* A change of a prover keeps the invariant.
LEMMA ChangeStep ==
  ASSUME IInv, HonestStay, NEW k \in 1 .. N, Change(k)
  PROVE  IInv'
<1>1. ProversAre /\ CacheServed /\ Core
  BY DEF IInv
<1>2. /\ SameHonest(provers, provers', size) /\ size' = size /\ n' = n
      /\ changes' \in Nat /\ changes # 0 /\ provers' = [j \in 1 .. N |-> provers'[j]]
      /\ \A j \in 1 .. N :
           /\ provers'[j].store.dishonestChain = provers[j].store.dishonestChain
           /\ provers'[j].store.maxChainSize = provers[j].store.maxChainSize
      /\ UNCHANGED <<cache, pc, at, proverInfos, winners, game, result, reason>>
  BY <1>1, Changed DEF client
<1>3. \A j \in 1 .. N : /\ CanBe(j, provers, size, n) \subseteq CanBe(j, provers', size, n)
                        /\ provers'[j] \in Ever(j, provers', n)
  BY <1>1, StillCanBe
<1>4. ProversAre'
  <2>1. \E j \in 1 .. N : Fits(j, provers', size)
    BY <1>1, <1>2 DEF ProversAre, Fits, SameHonest
  <2> QED
    BY <1>1, <1>2, <1>3, <2>1 DEF ProversAre
<1>5. CacheServed'
  BY <1>1, <1>2, <1>3 DEF CacheServed
<1>6. \A info : InfoIs(info, size, n, provers) => InfoIs(info, size, n, provers')
  BY <1>2, InfoSame
<1>7. InfosAre'
  BY <1>1, <1>2, <1>6 DEF Core, InfosAre
<1>8. Collecting'
  <2>1. \A j \in 1 .. N : Fits(j, provers, size) => Fits(j, provers', size)
    BY <1>2 DEF Fits, SameHonest
  <2> QED
    BY <1>1, <1>2, <2>1 DEF Core, Collecting
<1>9. Fighting' /\ Outcome'
  <2>1. Winner' = Winner /\ CurrentCommittee' = CurrentCommittee
    BY <1>2 DEF Winner, CurrentCommittee
  <2>2. Fighting'
    BY <1>1, <1>2, <1>6, <2>1 DEF Core, Fighting
  <2>3. Outcome'
    BY <1>1, <1>2, <1>6, <2>1 DEF Core, Outcome, OnlyNetworkErrors
  <2> QED
    BY <2>2, <2>3
<1>10. Bisecting' /\ Judging' /\ IsGame(game)'
  <2>1. /\ Leaves1' = Leaves1 /\ Leaves2' = Leaves2 /\ Winner' = Winner /\ Period' = Period
    BY <1>2 DEF Leaves1, Leaves2, Winner, Contestant, Period
  <2>2. Bisecting' /\ IsGame(game)'
    BY <1>1, <1>2, <2>1 DEF Core, Bisecting
  <2>3. Judging'
    BY <1>1, <1>2, <2>1 DEF Core, Judging
  <2> QED
    BY <2>2, <2>3
<1> QED
  BY <1>4, <1>5, <1>7, <1>8, <1>9, <1>10 DEF IInv, Core

-----------------------------------------------------------------------------
(* The invariant holds.                                                    *)

\* The invariant holds when sync is called.
LEMMA InitIInv == Init => IInv
<1> SUFFICES ASSUME Init PROVE IInv
  OBVIOUS
<1>1. PICK d \in Deployments :
        size = d.size /\ n = d.n /\ provers = d.provers /\ changes = d.changes
  BY DEF Init
<1>2. ProversAre
  <2>1. /\ size \in Nat /\ n \in Degrees /\ changes \in Nat
        /\ provers = [k \in 1 .. N |-> provers[k]]
        /\ \E k \in 1 .. N : Fits(k, provers, size)
    BY <1>1, DeploymentsAssumption DEF Degrees, Fits
  <2>2. ASSUME NEW k \in 1 .. N
        PROVE  /\ provers[k].store.dishonestChain # HonestChain
               /\ provers[k].store.maxChainSize \in Nat
               /\ provers[k] \in Ever(k, provers, n)
    <3>1. /\ provers[k].store.dishonestChain # HonestChain
          /\ provers[k].store.maxChainSize \in Nat
          /\ provers[k] \in States(provers[k].store.dishonestChain,
                                   provers[k].store.maxChainSize, n)
      BY <1>1, DeploymentsAssumption
    <3> QED
      BY <3>1 DEF Ever
  <2> QED
    BY <2>1, <2>2 DEF ProversAre
<1>3. CacheServed
  <2>1. cache = [k \in 1 .. N |-> <<>>]
    BY DEF Init
  <2>2. \A k \in 1 .. N : DOMAIN cache[k] = {}
    BY <2>1
  <2> QED
    BY <2>1, <2>2 DEF CacheServed
<1>4. /\ pc = "info" /\ at = 1 /\ proverInfos = <<>> /\ game = NoGame
      /\ result = NoCommittee /\ reason = None
  BY DEF Init
<1>5. InfosAre /\ IsGame(game)
  BY <1>4, NoGameIs DEF InfosAre
<1>6. Collecting
  <2>1. cache = [k \in 1 .. N |-> <<>>] /\ 1 \in 1 .. N /\ \A k \in 1 .. N : ~ (k < 1)
    BY NAssumption DEF Init
  <2> QED
    BY <1>2, <1>4, <2>1 DEF Collecting, ProversAre
<1>7. Fighting /\ Bisecting /\ Judging
  BY <1>4 DEF Fighting, Bisecting, Judging, GameStages, LeafStages
<1>8. Outcome
  BY <1>4 DEF Outcome, OnlyNetworkErrors, Stages
<1> QED
  BY <1>2, <1>3, <1>5, <1>6, <1>7, <1>8 DEF IInv, Core

\* The invariant is inductive, as long as honest provers of the expected size
\* keep it.
LEMMA NextIInv == IInv /\ [Next /\ HonestStay]_vars => IInv'
<1> SUFFICES ASSUME IInv, [Next /\ HonestStay]_vars PROVE IInv'
  OBVIOUS
<1>1. CASE Step
  <2>1. CASE CollectInfo
    BY <2>1, CollectInfoStep DEF IInv
  <2>2. CASE Meet
    BY <2>2, MeetStep DEF IInv
  <2>3. CASE AskNode1
    BY <2>3, AskNode1Step DEF IInv
  <2>4. CASE AskNode2
    BY <2>4, AskNode2Step DEF IInv
  <2>5. CASE AskLeaf1
    BY <2>5, AskLeaf1Step DEF IInv
  <2>6. CASE AskLeaf2
    BY <2>6, AskLeaf2Step DEF IInv
  <2>7. CASE AskPrevLeaf
    BY <2>7, AskPrevLeafStep DEF IInv
  <2>8. CASE AskUpdate1
    BY <2>8, AskUpdate1Step DEF IInv
  <2>9. CASE AskUpdate2
    BY <2>9, AskUpdate2Step DEF IInv
  <2>10. CASE AskLatest
    BY <2>10, AskLatestStep DEF IInv
  <2> QED
    BY <1>1, <2>1, <2>2, <2>3, <2>4, <2>5, <2>6, <2>7, <2>8, <2>9, <2>10 DEF Step
<1>2. CASE HonestStay /\ \E k \in 1 .. N : Change(k)
  BY <1>2, ChangeStep
<1>3. CASE UNCHANGED vars
  <2>1. /\ size' = size /\ n' = n /\ provers' = provers /\ changes' = changes /\ cache' = cache
        /\ pc' = pc /\ at' = at /\ proverInfos' = proverInfos /\ winners' = winners
        /\ game' = game /\ result' = result /\ reason' = reason
    BY <1>3 DEF vars
  <2>2. ProversAre' /\ CacheServed'
    BY <2>1 DEF IInv, ProversAre, CacheServed
  <2>3. /\ Leaves1' = Leaves1 /\ Leaves2' = Leaves2 /\ Winner' = Winner /\ Period' = Period
        /\ CurrentCommittee' = CurrentCommittee
    BY <2>1 DEF Leaves1, Leaves2, Winner, Contestant, Period, CurrentCommittee
  <2>4. InfosAre' /\ Collecting' /\ Fighting' /\ IsGame(game)'
    BY <2>1, <2>3 DEF IInv, Core, InfosAre, Collecting, Fighting
  <2>5. Bisecting'
    BY <2>1, <2>3 DEF IInv, Core, Bisecting
  <2>6. Judging'
    BY <2>1, <2>3 DEF IInv, Core, Judging
  <2>7. Outcome'
    BY <2>1, <2>3 DEF IInv, Core, Outcome, OnlyNetworkErrors
  <2> QED
    BY <2>2, <2>4, <2>5, <2>6, <2>7 DEF IInv, Core
<1> QED
  BY <1>1, <1>2, <1>3 DEF Next, Done

\* The inductive invariant: the provers, what the client holds of them, and
\* where its tournament stands.  It needs that no honest prover of the expected
\* size restarts with a longer chain meanwhile (HonestStay); all others, honest
\* ones with larger stores among them, may change between any two requests.
THEOREM SuperlightInvariance == StayingSpec => []IInv
BY InitIInv, NextIInv, PTL DEF StayingSpec

\* treeVsTree: whatever the provers answer, and however large their ranges
\* are, the leaf that is judged is the first one on which the two differ, in a
\* sync during which the honest provers of the expected size keep it.
THEOREM SuperlightFirstDifference == StayingSpec => []FirstDifference
<1>1. IInv => FirstDifference
  <2> SUFFICES ASSUME IInv, pc \in LeafStages
               PROVE  /\ Leaves1[Period + 1] # Leaves2[Period + 1]
                      /\ \A p \in 1 .. Period : Leaves1[p] = Leaves2[p]
    BY CommittedLeavesAre DEF FirstDifference, LeafStages, Leaves1, Leaves2
  <2> QED
    BY AtLeaf DEF DifferAt
<1> QED
  BY <1>1, SuperlightInvariance, PTL

\* sync: with an honest participant, wherever it is among the provers, none of
\* the exceptions for what "can not be" is thrown, and not all winners cheat,
\* provided that the honest provers of the expected size keep it.
THEOREM SuperlightOnlyNetworkErrors == StayingSpec => []OnlyNetworkErrors
<1>1. IInv => OnlyNetworkErrors
  BY DEF IInv, Core, Outcome
<1> QED
  BY <1>1, SuperlightInvariance, PTL

\* A sync that has ended makes no more steps.
LEMMA Ended ==
  ASSUME Next, pc \in {"returned", "thrown"}
  PROVE  UNCHANGED vars
BY DEF Next, Step, Done, Change, CollectInfo, Meet, AskNode1, AskNode2, AskLeaf1, AskLeaf2,
       AskPrevLeaf, AskUpdate1, AskUpdate2, AskLatest

\* The current period never changes.
LEMMA SettingStays == ASSUME [Next]_vars PROVE size' = size
BY DEF Next, Step, Done, Change, CollectInfo, Meet, AskNode1, AskNode2, AskLeaf1, AskLeaf2,
       AskPrevLeaf, AskUpdate1, AskUpdate2, AskLatest, Request, setting, vars

\* sync returns the committee of the honest chain, once, or it throws, provided
\* that the honest provers of the expected size keep it: one that restarts with
\* a longer chain during the sync loses to a liar.
THEOREM SuperlightRefinement == StayingSpec => KeepsPromise
<1>1. Init => Promise!Init
  BY DEF Init, Promise!Init
<1>2. IInv /\ IInv' /\ [Next /\ HonestStay]_vars => [Promise!Next]_(Promise!vars)
  <2> SUFFICES ASSUME IInv, IInv', [Next /\ HonestStay]_vars
               PROVE  [Promise!Next]_(Promise!vars)
    OBVIOUS
  <2> USE DEF Promise!Next, Promise!vars, Promise!Throw, Promise!Return, Promise!Running
  <2>1. /\ result = IF pc = "returned" THEN CurrentCommittee ELSE NoCommittee
        /\ result' = IF pc' = "returned" THEN CurrentCommittee' ELSE NoCommittee
        /\ size \in Nat
    BY DEF IInv, Core, Outcome, ProversAre
  <2>2. CurrentCommittee' = CurrentCommittee
    BY SettingStays DEF CurrentCommittee
  <2>3. CurrentCommittee # NoCommittee
    BY <2>1, NoCommitteeAssumption DEF CurrentCommittee, Committee
  <2>4. CASE pc \in {"returned", "thrown"}
    <3>1. pc' = pc
      BY <2>4, Ended DEF vars
    <3> QED
      BY <2>1, <2>2, <3>1
  <2>5. CASE pc \notin {"returned", "thrown"}
    BY <2>1, <2>2, <2>3, <2>5
  <2> QED
    BY <2>4, <2>5
<1> QED
  BY <1>1, <1>2, SuperlightInvariance, PTL DEF StayingSpec, KeepsPromise, Promise!Spec
=============================================================================
