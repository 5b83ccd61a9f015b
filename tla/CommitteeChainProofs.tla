------------------------ MODULE CommitteeChainProofs ------------------------
(***************************************************************************)
(* Proofs about CommitteeChain: for every length, period and quorum, any   *)
(* number of workers within GapAssumption and every schedule of them, each *)
(* slot signs with the key of the quorum in force, no slice is overwritten *)
(* while somebody else holds it, and the chain that newTestProver returns  *)
(* is the well-formed one that LightClient is proved correct for.          *)
(***************************************************************************)
EXTENDS CommitteeChain, FiniteSetTheorems, WellFoundedInduction, TLAPS

-----------------------------------------------------------------------------
(* Division.                                                               *)

LEMMA MulStep ==
  ASSUME NEW a \in Nat, NEW b \in Nat, NEW p \in Nat, a < b
  PROVE  a * p + p <= b * p /\ a * p \in Nat /\ b * p \in Nat
  BY SMT

LEMMA MulSucc ==
  ASSUME NEW q \in Nat, NEW p \in Nat
  PROVE  (q + 1) * p = q * p + p /\ q * p \in Nat
  BY SMT

LEMMA DivMod ==
  ASSUME NEW e \in Nat, NEW p \in Nat \ {0}
  PROVE  e \div p \in Nat /\ e % p \in 0 .. p - 1 /\ e = (e \div p) * p + (e % p)
  BY SMT

LEMMA DivUnique ==
  ASSUME NEW q \in Nat, NEW r \in Nat, NEW p \in Nat \ {0}, r < p
  PROVE  (q * p + r) \div p = q /\ (q * p + r) % p = r
  BY SMT

LEMMA CeilUnique ==
  ASSUME NEW e \in Nat, NEW c \in Nat, NEW p \in Nat \ {0}, e <= c * p, c * p < e + p
  PROVE  CeilDiv(e, p) = c
<1> DEFINE r == e + p - 1 - c * p
<1>1. c * p \in Nat
  BY SMT
<1>2. r \in Nat /\ r < p /\ e + p - 1 = c * p + r
  BY <1>1
<1> QED
  BY <1>2, DivUnique DEF CeilDiv

LEMMA CeilBounds ==
  ASSUME NEW e \in Nat, NEW p \in Nat \ {0}
  PROVE  CeilDiv(e, p) \in Nat /\ e <= CeilDiv(e, p) * p /\ CeilDiv(e, p) * p < e + p
<1> DEFINE s == e + p - 1
<1>1. s \in Nat
  OBVIOUS
<1>2. CeilDiv(e, p) = s \div p
  BY DEF CeilDiv
<1> HIDE DEF s
<1>3. s \div p \in Nat /\ s % p \in 0 .. p - 1 /\ s = (s \div p) * p + (s % p)
  BY <1>1, DivMod
<1>4. (s \div p) * p \in Nat
  BY <1>3, SMT
<1>5. s = e + p - 1
  BY DEF s
<1> QED
  BY <1>2, <1>3, <1>4, <1>5

LEMMA Multiple ==
  ASSUME NEW q \in Nat, NEW p \in Nat \ {0}
  PROVE  q * p \in Nat /\ (q * p) % p = 0 /\ (q * p) \div p = q /\ CeilDiv(q * p, p) = q
<1>1. q * p \in Nat
  BY SMT
<1>2. (q * p + 0) \div p = q /\ (q * p + 0) % p = 0
  BY DivUnique
<1>3. CeilDiv(q * p, p) = q
  BY <1>1, CeilUnique
<1> QED
  BY <1>1, <1>2, <1>3

LEMMA ZeroMultiple ==
  ASSUME NEW p \in Nat \ {0}
  PROVE  0 % p = 0 /\ 0 \div p = 0
<1>1. PICK q \in Nat : q = 0
  OBVIOUS
<1>2. q * p = 0
  BY <1>1, SMT
<1>3. (q * p) % p = 0 /\ (q * p) \div p = q
  BY Multiple
<1> QED
  BY <1>1, <1>2, <1>3

\* What is divisible by p is a multiple of it.
LEMMA Divisible ==
  ASSUME NEW e \in Nat, NEW p \in Nat \ {0}, e % p = 0
  PROVE  e \div p \in Nat /\ e = (e \div p) * p /\ CeilDiv(e, p) = e \div p
<1>1. e \div p \in Nat /\ e = (e \div p) * p + (e % p)
  BY DivMod
<1>2. (e \div p) * p \in Nat
  BY <1>1, SMT
<1>3. e = (e \div p) * p
  BY <1>1, <1>2
<1> QED
  BY <1>1, <1>3, Multiple

\* Two multiples of p are at least p apart.
LEMMA NextMultiple ==
  ASSUME NEW a \in Nat, NEW b \in Nat, NEW p \in Nat \ {0}, a % p = 0, b % p = 0, a < b
  PROVE  a \div p < b \div p /\ a + p <= b
<1>1. /\ a \div p \in Nat /\ a = (a \div p) * p
      /\ b \div p \in Nat /\ b = (b \div p) * p
  BY Divisible
<1>2. a \div p < b \div p
  <2>1. CASE b \div p < a \div p
    BY <1>1, <2>1, MulStep
  <2>2. CASE b \div p = a \div p
    BY <1>1, <2>2
  <2> QED
    BY <1>1, <2>1, <2>2
<1> QED
  BY <1>1, <1>2, MulStep

LEMMA MultiplePlus ==
  ASSUME NEW e \in Nat, NEW p \in Nat \ {0}, e % p = 0
  PROVE  (e + p) % p = 0 /\ (e + p) \div p = e \div p + 1
<1>1. e \div p \in Nat /\ e = (e \div p) * p
  BY Divisible
<1> DEFINE q == e \div p + 1
<1>2. q \in Nat /\ q * p = (e \div p) * p + p
  BY <1>1, SMT
<1>3. e + p = q * p
  BY <1>1, <1>2
<1> HIDE DEF q
<1>4. (q * p) % p = 0 /\ (q * p) \div p = q
  BY <1>2, Multiple
<1>5. (e + p) % p = 0 /\ (e + p) \div p = q
  BY <1>3, <1>4
<1> QED
  BY <1>5 DEF q

LEMMA CeilMonotone ==
  ASSUME NEW a \in Nat, NEW b \in Nat, NEW p \in Nat \ {0}, a <= b
  PROVE  CeilDiv(a, p) <= CeilDiv(b, p)
<1> DEFINE c == CeilDiv(a, p)
           d == CeilDiv(b, p)
<1>1. c \in Nat /\ d \in Nat /\ b <= d * p /\ c * p < a + p
  BY CeilBounds
<1> HIDE DEF c, d
<1>2. d * p \in Nat /\ c * p \in Nat
  BY <1>1, SMT
<1>3. ~(d < c)
  BY <1>1, <1>2, MulStep
<1> QED
  BY <1>1, <1>3 DEF c, d

-----------------------------------------------------------------------------
(* The intervals of a call x, and the break points in them.                *)

WorkersOf(x) == 0 .. Number(x) - 1
BreaksOf(x, k) == {i \in Start(x, k) .. Start(x, k + 1) - 1 : i % x.periodLength = 0}
Index(x, k, i) == (i - FirstBreakIn(x, k)) \div x.periodLength

\* The quorum that signs in round i of a worker's loop.
Turn(x, i) == CeilDiv(i, x.periodLength)

LEMMA NumberFacts ==
  ASSUME NEW x \in Args
  PROVE  /\ x.length \in Nat \ {0} /\ x.periodLength \in Nat \ {0}
         /\ Number(x) \in Nat \ {0}
         /\ PerCPU(x) \in Nat \ {0}
         /\ Leftover(x) \in 0 .. Number(x) - 1
         /\ x.length = Number(x) * PerCPU(x) + Leftover(x)
<1>1. /\ x.length \in Nat \ {0} /\ x.periodLength \in Nat \ {0}
      /\ x.workers \in Nat \ {0}
  BY ArgsAssumption, WorkersAssumption
<1>2. Number(x) \in Nat \ {0} /\ Number(x) <= x.length
  BY <1>1 DEF Number
<1> DEFINE m == Number(x)
           l == x.length
           c == l \div m
<1>3. m \in Nat \ {0} /\ l \in Nat \ {0} /\ m <= l
  BY <1>1, <1>2
<1> HIDE DEF m, l
<1>4. c \in Nat /\ l % m \in 0 .. m - 1 /\ l = c * m + (l % m)
  BY <1>3, DivMod
<1>5. c # 0
  BY <1>3, <1>4
<1> HIDE DEF c
<1>6. c * m = m * c /\ m * c \in Nat
  BY <1>3, <1>4, SMT
<1>7. l - m * c \in 0 .. m - 1 /\ l = m * c + (l - m * c)
  BY <1>3, <1>4, <1>6
<1> QED
  BY <1>1, <1>2, <1>4, <1>5, <1>7 DEF PerCPU, Leftover, c, m, l

\* The intervals lie one behind the other from 0 to the length; none is empty.
LEMMA StartFacts ==
  ASSUME NEW x \in Args, NEW k \in Nat
  PROVE  /\ Start(x, k) \in Nat
         /\ Start(x, 0) = 0
         /\ Start(x, Number(x)) = x.length
         /\ Start(x, k) < Start(x, k + 1)
         /\ k \in WorkersOf(x) => Start(x, k + 1) <= x.length
<1> DEFINE m == Number(x)
           c == PerCPU(x)
           r == Leftover(x)
           s == k * c
           t == (k + 1) * c
           z == m * c
<1>1. m \in Nat \ {0} /\ c \in Nat \ {0} /\ r \in 0 .. m - 1 /\ x.length = z + r
  BY NumberFacts
<1>2. /\ Start(x, k) = s + (IF k < r THEN k ELSE r)
      /\ Start(x, k + 1) = t + (IF k + 1 < r THEN k + 1 ELSE r)
      /\ Start(x, m) = z + (IF m < r THEN m ELSE r)
      /\ Start(x, 0) = 0 * c + (IF 0 < r THEN 0 ELSE r)
  BY DEF Start
<1>3. k \in WorkersOf(x) => k + 1 <= m
  BY <1>1 DEF WorkersOf
<1> HIDE DEF m, c, r
<1>4. s \in Nat /\ t = s + c /\ z \in Nat /\ 0 * c = 0 /\ t \in Nat
  BY <1>1, SMT
<1>5. k + 1 <= m => t <= z
  <2>1. CASE k + 1 = m
    <3>1. t = z
      BY <2>1
    <3> QED
      BY <3>1, <1>4
  <2>2. CASE k + 1 < m
    <3>1. t + c <= z
      BY <2>2, <1>1, MulStep
    <3> HIDE DEF t, z
    <3> QED
      BY <3>1, <1>1, <1>4
  <2>3. CASE m < k + 1
    BY <2>3, <1>1
  <2> QED
    BY <2>1, <2>2, <2>3, <1>1
<1> HIDE DEF s, t, z
<1>6. Start(x, k) \in Nat /\ Start(x, 0) = 0 /\ Start(x, m) = x.length
  BY <1>1, <1>2, <1>4
<1>7. Start(x, k) < Start(x, k + 1)
  BY <1>1, <1>2, <1>4
<1>8. k + 1 <= m => Start(x, k + 1) <= x.length
  BY <1>1, <1>2, <1>4, <1>5
<1> QED
  BY <1>3, <1>6, <1>7, <1>8 DEF m

\* Every epoch belongs to some worker.
Less == {pair \in Nat \X Nat : pair[1] < pair[2]}

LEMMA LessWellFounded == IsWellFoundedOn(Less, Nat)
<1>1. Less = OpToRel(<, Nat)
  BY DEF Less, OpToRel
<1> QED
  BY <1>1, NatLessThanWellFounded

LEMMA Owner ==
  ASSUME NEW x \in Args, NEW i \in 0 .. x.length - 1
  PROVE  \E k \in WorkersOf(x) : i \in Start(x, k) .. Start(x, k + 1) - 1
<1> DEFINE Behind == {k \in 0 .. Number(x) : i < Start(x, k)}
<1>1. /\ x.length \in Nat \ {0} /\ Number(x) \in Nat \ {0}
      /\ Start(x, 0) = 0 /\ Start(x, Number(x)) = x.length
  BY NumberFacts, StartFacts
<1>2. Number(x) \in Behind
  BY <1>1
<1>3. Behind \subseteq Nat
  BY <1>1
<1>4. PICK k \in Behind : \A j \in Behind : <<j, k>> \notin Less
  <2> HIDE DEF Behind
  <2> QED
    BY <1>2, <1>3, LessWellFounded, WFMin
<1>5. k # 0
  BY <1>1, <1>4
<1>6. k - 1 \in 0 .. Number(x) /\ k - 1 \notin Behind
  <2>1. k \in 0 .. Number(x) /\ k - 1 \in Nat /\ k - 1 \in 0 .. Number(x)
    BY <1>1, <1>5
  <2>2. <<k - 1, k>> \in Less
    BY <2>1 DEF Less
  <2> QED
    BY <1>4, <2>1, <2>2
<1>7. Start(x, k - 1) \in Nat /\ k - 1 \in WorkersOf(x) /\ (k - 1) + 1 = k
  BY <1>1, <1>4, <1>5, StartFacts DEF WorkersOf
<1>8. Start(x, k) \in Nat
  BY <1>1, <1>4, StartFacts
<1>9. i \in Start(x, k - 1) .. Start(x, (k - 1) + 1) - 1
  BY <1>4, <1>6, <1>7, <1>8
<1> QED
  BY <1>7, <1>9

LEMMA BreakFacts ==
  ASSUME NEW x \in Args, NEW k \in WorkersOf(x)
  PROVE  /\ k \in Nat /\ Start(x, k) \in Nat /\ Start(x, k + 1) \in Nat
         /\ FirstBreakIn(x, k) \in Nat
         /\ FirstBreakIn(x, k) % x.periodLength = 0
         /\ Start(x, k) <= FirstBreakIn(x, k)
         /\ FirstBreakIn(x, k) < Start(x, k) + x.periodLength
         /\ Turn(x, Start(x, k)) \in Nat
         /\ FirstBreakIn(x, k) = Turn(x, Start(x, k)) * x.periodLength
<1>1. k \in Nat /\ x.periodLength \in Nat \ {0}
  BY NumberFacts DEF WorkersOf
<1>2. Start(x, k) \in Nat /\ Start(x, k + 1) \in Nat
  BY <1>1, StartFacts
<1> QED
  BY <1>1, <1>2, CeilBounds, Multiple DEF FirstBreakIn, Turn

LEMMA BreakIn ==
  ASSUME NEW x \in Args, NEW k \in WorkersOf(x), NEW i \in BreaksOf(x, k)
  PROVE  /\ i \in 0 .. x.length - 1 /\ i % x.periodLength = 0
         /\ FirstBreakIn(x, k) <= i /\ i < Start(x, k + 1)
         /\ HasBreakIn(x, k)
<1> DEFINE p == x.periodLength
           f == FirstBreakIn(x, k)
<1>1. /\ p \in Nat \ {0} /\ f \in Nat /\ f % p = 0
      /\ Start(x, k) \in Nat /\ Start(x, k + 1) \in Nat
      /\ f < Start(x, k) + p
      /\ Start(x, k + 1) <= x.length
  BY NumberFacts, BreakFacts, StartFacts
<1>2. i \in Nat /\ i % p = 0 /\ Start(x, k) <= i /\ i < Start(x, k + 1)
  BY <1>1 DEF BreaksOf
<1>3. ~(i < f)
  BY <1>1, <1>2, NextMultiple
<1> QED
  BY <1>1, <1>2, <1>3, NumberFacts DEF HasBreakIn

LEMMA BreakBack ==
  ASSUME NEW x \in Args, NEW k \in WorkersOf(x), NEW i \in Nat,
         i % x.periodLength = 0, FirstBreakIn(x, k) <= i, i < Start(x, k + 1)
  PROVE  i \in BreaksOf(x, k)
  BY BreakFacts DEF BreaksOf

\* privKeys has a slice for every break of the interval.
LEMMA IndexInjective ==
  ASSUME NEW x \in Args, NEW k \in WorkersOf(x),
         NEW i \in BreaksOf(x, k), NEW j \in BreaksOf(x, k),
         Index(x, k, i) = Index(x, k, j)
  PROVE  i = j
<1> DEFINE p == x.periodLength
           f == FirstBreakIn(x, k)
<1>1. p \in Nat \ {0} /\ f \in Nat /\ f % p = 0
  BY NumberFacts, BreakFacts
<1>2. /\ i \in Nat /\ i % p = 0 /\ f <= i
      /\ j \in Nat /\ j % p = 0 /\ f <= j
  BY BreakIn, NumberFacts
<1> HIDE DEF p, f
<1>3. ASSUME NEW e \in Nat, e % p = 0, f <= e
      PROVE  (e - f) \div p = e \div p - f \div p
  <2> DEFINE a == e \div p
             b == f \div p
  <2>1. a \in Nat /\ e = a * p /\ b \in Nat /\ f = b * p
    BY <1>1, <1>3, Divisible
  <2>2. b <= a
    BY <1>1, <1>3, <2>1, NextMultiple
  <2> HIDE DEF a, b
  <2>3. a - b \in Nat /\ e - f = (a - b) * p
    BY <1>1, <2>1, <2>2, SMT
  <2>4. ((a - b) * p) \div p = a - b
    BY <1>1, <2>3, Multiple
  <2> QED
    BY <2>3, <2>4 DEF a, b
<1>4. /\ i \div p \in Nat /\ j \div p \in Nat /\ f \div p \in Nat
      /\ i = (i \div p) * p /\ j = (j \div p) * p
  BY <1>1, <1>2, Divisible
<1>5. i \div p - f \div p = j \div p - f \div p
  BY <1>2, <1>3 DEF Index, p, f
<1>6. i \div p = j \div p
  BY <1>4, <1>5
<1> QED
  BY <1>4, <1>6

LEMMA TurnAtBreak ==
  ASSUME NEW x \in Args, NEW i \in Nat, i % x.periodLength = 0
  PROVE  /\ i \div x.periodLength \in Nat
         /\ Turn(x, i) = i \div x.periodLength
         /\ Turn(x, i + 1) = i \div x.periodLength + 1
<1> DEFINE p == x.periodLength
           q == i \div p
           z == (q + 1) * p
<1>1. p \in Nat \ {0}
  BY NumberFacts
<1>2. q \in Nat /\ i = q * p /\ CeilDiv(i, p) = q
  BY <1>1, Divisible
<1> HIDE DEF q
<1>3. z = q * p + p /\ q * p \in Nat
  BY <1>1, <1>2, MulSucc
<1>4. i + 1 <= z /\ z < (i + 1) + p
  BY <1>1, <1>2, <1>3
<1>5. CeilDiv(i + 1, p) = q + 1
  BY <1>1, <1>2, <1>4, CeilUnique
<1> QED
  BY <1>2, <1>5 DEF Turn, q

LEMMA TurnOtherwise ==
  ASSUME NEW x \in Args, NEW i \in Nat, i % x.periodLength # 0
  PROVE  Turn(x, i) \in Nat /\ Turn(x, i + 1) = Turn(x, i)
<1> DEFINE p == x.periodLength
           q == CeilDiv(i, p)
           z == q * p
<1>1. p \in Nat \ {0}
  BY NumberFacts
<1>2. q \in Nat /\ i <= z /\ z < i + p
  BY <1>1, CeilBounds
<1> HIDE DEF q
<1>3. z \in Nat /\ z % p = 0
  BY <1>1, <1>2, Multiple
<1>4. i # z
  BY <1>3
<1> HIDE DEF z
<1>5. i + 1 <= z /\ z < (i + 1) + p
  BY <1>1, <1>2, <1>3, <1>4
<1>6. CeilDiv(i + 1, p) = q
  BY <1>1, <1>2, <1>5, CeilUnique DEF z
<1> QED
  BY <1>2, <1>6 DEF Turn, q

\* The quorum that a worker sends on is the one that the next worker starts with.
LEMMA TurnAfterLast ==
  ASSUME NEW x \in Args, NEW k \in WorkersOf(x), NEW i \in Nat,
         i % x.periodLength = 0, i < Start(x, k + 1), Start(x, k + 1) <= i + x.periodLength
  PROVE  Turn(x, Start(x, k + 1)) = i \div x.periodLength + 1
<1> DEFINE p == x.periodLength
           q == i \div p
           z == (q + 1) * p
           s == Start(x, k + 1)
<1>1. p \in Nat \ {0} /\ s \in Nat
  BY NumberFacts, BreakFacts
<1>2. q \in Nat /\ i = q * p
  BY <1>1, Divisible
<1>3. i < s /\ s <= i + p
  OBVIOUS
<1> HIDE DEF q, s
<1>4. z = q * p + p /\ q * p \in Nat
  BY <1>1, <1>2, MulSucc
<1>5. s <= z /\ z < s + p
  BY <1>1, <1>2, <1>3, <1>4
<1>6. CeilDiv(s, p) = q + 1
  BY <1>1, <1>2, <1>5, CeilUnique
<1> QED
  BY <1>6 DEF Turn, q, s

\* A worker without a break passes on the quorum it signs with.
LEMMA TurnInGap ==
  ASSUME NEW x \in Args, NEW k \in WorkersOf(x), ~HasBreakIn(x, k)
  PROVE  Turn(x, Start(x, k + 1)) = Turn(x, Start(x, k))
<1> DEFINE p == x.periodLength
           q == Turn(x, Start(x, k))
           z == q * p
           s == Start(x, k + 1)
<1>1. p \in Nat \ {0} /\ s \in Nat
  BY NumberFacts, BreakFacts
<1>2. /\ Start(x, k) \in Nat /\ q \in Nat /\ z \in Nat
      /\ z < Start(x, k) + p
      /\ s <= z
      /\ Start(x, k) < s
  BY <1>1, BreakFacts, StartFacts DEF HasBreakIn
<1> HIDE DEF q, s
<1>3. s <= z /\ z < s + p
  BY <1>1, <1>2
<1>4. CeilDiv(s, p) = q
  BY <1>1, <1>2, <1>3, CeilUnique
<1> QED
  BY <1>4 DEF Turn, q, s

\* The break at epoch 1 is the first worker's.
LEMMA FirstHasBreak ==
  ASSUME NEW x \in Args
  PROVE  0 \in WorkersOf(x) /\ 0 \in BreaksOf(x, 0) /\ HasBreakIn(x, 0)
<1>1. 0 \in WorkersOf(x) /\ x.periodLength \in Nat \ {0}
  BY NumberFacts DEF WorkersOf
<1>2. 0 % x.periodLength = 0
  BY <1>1, SMT
<1>3. Start(x, 0) = 0 /\ Start(x, 1) \in Nat /\ 0 < Start(x, 1)
  BY <1>1, StartFacts
<1>4. 0 \in BreaksOf(x, 0)
  BY <1>2, <1>3 DEF BreaksOf
<1> QED
  BY <1>1, <1>4, BreakIn

-----------------------------------------------------------------------------
(* The chain to be built.                                                  *)

QuorumsOf(x) == 1 .. Turn(x, x.length)

\* The epochs of the breaks, counted from 1.
BreaksBuilt(x) == [q \in QuorumsOf(x) |-> (q - 1) * x.periodLength + 1]

\* What the j-th member of the quorum in force signs in round i.
SignatureOf(x, i, j) ==
  IF i % x.periodLength = 0
    THEN SignBreak(<<Turn(x, i), j>>, i + 1, Apk(Turn(x, i) + 1))
    ELSE SignNoBreak(<<Turn(x, i), j>>, i + 1)

\* The signatures of round i while m slots have signed.
Signed(x, i, m) == [j \in 1 .. m |-> SignatureOf(x, i, j)]

\* The signing slice while m slots have signed in round i.
Held(x, i, m) ==
  [j \in 1 .. Quorum |->
     IF i % x.periodLength = 0 /\ j <= m THEN <<Turn(x, i) + 1, j>> ELSE <<Turn(x, i), j>>]

LEMMA TurnRange ==
  ASSUME NEW x \in Args, NEW i \in 0 .. x.length - 1
  PROVE  /\ Turn(x, x.length) \in Nat
         /\ Turn(x, i) \in 0 .. Turn(x, x.length)
         /\ i % x.periodLength = 0 => i \div x.periodLength + 1 \in QuorumsOf(x)
<1>1. x.periodLength \in Nat \ {0} /\ x.length \in Nat
  BY NumberFacts
<1>2. i \in Nat /\ i + 1 \in Nat /\ i <= x.length /\ i + 1 <= x.length
  BY <1>1
<1>3. /\ Turn(x, x.length) \in Nat /\ Turn(x, i) \in Nat
      /\ Turn(x, i) <= Turn(x, x.length) /\ Turn(x, i + 1) <= Turn(x, x.length)
  BY <1>1, <1>2, CeilBounds, CeilMonotone DEF Turn
<1> QED
  BY <1>2, <1>3, TurnAtBreak DEF QuorumsOf

\* The round in which quorum q takes over.
LEMMA QuorumBreak ==
  ASSUME NEW x \in Args, NEW q \in QuorumsOf(x)
  PROVE  /\ (q - 1) * x.periodLength \in 0 .. x.length - 1
         /\ ((q - 1) * x.periodLength) % x.periodLength = 0
         /\ ((q - 1) * x.periodLength) \div x.periodLength = q - 1
<1> DEFINE p == x.periodLength
           t == Turn(x, x.length)
           a == q - 1
<1>1. p \in Nat \ {0} /\ x.length \in Nat \ {0}
  BY NumberFacts
<1>2. t \in Nat /\ t * p < x.length + p
  BY <1>1, CeilBounds DEF Turn
<1>3. a \in Nat /\ a < t
  BY <1>2 DEF QuorumsOf
<1> HIDE DEF t, a
<1>4. a * p + p <= t * p /\ a * p \in Nat /\ t * p \in Nat
  BY <1>1, <1>2, <1>3, MulStep
<1>5. (a * p) % p = 0 /\ (a * p) \div p = a
  BY <1>1, <1>3, Multiple
<1>6. a * p \in 0 .. x.length - 1
  BY <1>1, <1>2, <1>4
<1> QED
  BY <1>5, <1>6 DEF a

\* The quorum whose turn it is is the one in force, with the breaks as built.
LEMMA TurnInForce ==
  ASSUME NEW x \in Args, NEW i \in 0 .. x.length - 1
  PROVE  InForce(BreaksBuilt(x), Turn(x, i), i + 1)
<1> DEFINE p == x.periodLength
           q == Turn(x, i)
           t == Turn(x, x.length)
           B == BreaksBuilt(x)
<1>1. p \in Nat \ {0} /\ i \in Nat
  BY NumberFacts
<1>2. q \in 0 .. t /\ t \in Nat
  BY TurnRange
<1>3. i <= q * p /\ q * p < i + p
  BY <1>1, CeilBounds DEF Turn
<1>4. Len(B) = t /\ \A c \in 1 .. t : B[c] = (c - 1) * p + 1
  BY <1>2 DEF BreaksBuilt, QuorumsOf
<1> HIDE DEF q, t, B
<1>5. q * p \in Nat
  BY <1>1, <1>2, SMT
<1>6. q > 0 => B[q] < i + 1
  <2> SUFFICES ASSUME q > 0 PROVE B[q] < i + 1
    OBVIOUS
  <2>1. q - 1 \in Nat /\ q \in Nat /\ q - 1 < q
    BY <1>2
  <2>2. (q - 1) * p + p <= q * p /\ (q - 1) * p \in Nat
    BY <1>1, <2>1, MulStep
  <2>3. (q - 1) * p < i
    BY <1>1, <1>3, <1>5, <2>2
  <2>4. B[q] = (q - 1) * p + 1
    BY <1>2, <1>4
  <2> QED
    BY <1>1, <2>2, <2>3, <2>4
<1>7. q < t => i + 1 <= B[q + 1]
  <2> SUFFICES ASSUME q < t PROVE i + 1 <= B[q + 1]
    OBVIOUS
  <2>1. q + 1 \in 1 .. t /\ (q + 1) - 1 = q
    BY <1>2
  <2>2. B[q + 1] = q * p + 1
    BY <1>4, <2>1
  <2> QED
    BY <1>1, <1>3, <1>5, <2>2
<1> QED
  BY <1>2, <1>4, <1>6, <1>7 DEF InForce, q, B

LEMMA SignedAsExpected ==
  ASSUME NEW x \in Args, NEW i \in 0 .. x.length - 1
  PROVE  Signed(x, i, Quorum) =
           [j \in 1 .. Quorum |-> ExpectedSignature(BreaksBuilt(x), Turn(x, i), j, i + 1)]
<1> DEFINE p == x.periodLength
           q == Turn(x, i)
           t == Turn(x, x.length)
           B == BreaksBuilt(x)
<1>1. p \in Nat \ {0} /\ i \in Nat
  BY NumberFacts
<1>2. q \in 0 .. t /\ t \in Nat
  BY TurnRange
<1>3. Len(B) = t /\ \A c \in 1 .. t : B[c] = (c - 1) * p + 1
  BY <1>2 DEF BreaksBuilt, QuorumsOf
<1>4. CASE i % p = 0
  <2>1. q = i \div p /\ i \div p + 1 \in 1 .. t
    BY <1>1, <1>4, TurnAtBreak, TurnRange DEF QuorumsOf
  <2>2. i = q * p
    BY <1>1, <1>4, <2>1, Divisible
  <2> HIDE DEF q, t, B
  <2>3. q < t /\ q + 1 \in 1 .. t /\ (q + 1) - 1 = q
    BY <1>2, <2>1
  <2>4. B[q + 1] = i + 1
    BY <1>3, <2>2, <2>3
  <2>5. \A j \in 1 .. Quorum : ExpectedSignature(B, q, j, i + 1) = SignatureOf(x, i, j)
    BY <1>3, <1>4, <2>3, <2>4 DEF ExpectedSignature, SignatureOf, q
  <2> QED
    BY <2>5 DEF Signed, q, B
<1>5. CASE i % p # 0
  <2> HIDE DEF q, t, B
  <2>1. ~(q < t /\ B[q + 1] = i + 1)
    <3> SUFFICES ASSUME q < t, B[q + 1] = i + 1 PROVE FALSE
      OBVIOUS
    <3>1. q + 1 \in 1 .. t /\ (q + 1) - 1 = q /\ q \in Nat
      BY <1>2
    <3>2. q * p \in Nat /\ (q * p) % p = 0
      BY <1>1, <3>1, Multiple
    <3>3. B[q + 1] = q * p + 1
      BY <1>3, <3>1
    <3>4. i = q * p
      BY <1>1, <3>2, <3>3
    <3> QED
      BY <1>5, <3>2, <3>4
  <2>2. \A j \in 1 .. Quorum : ExpectedSignature(B, q, j, i + 1) = SignatureOf(x, i, j)
    BY <1>3, <1>5, <2>1 DEF ExpectedSignature, SignatureOf, q
  <2> QED
    BY <2>2 DEF Signed, q, B
<1> QED
  BY <1>4, <1>5

-----------------------------------------------------------------------------
(* The inductive invariant, for the arguments x of the call.               *)

Over(f, S) == f = [s \in S |-> f[s]]

RefsOf(x) ==
  {GenesisRef} \cup {SentRef(k) : k \in WorkersOf(x)}
    \cup UNION {{PrivRef(k, Index(x, k, i)) : i \in BreaksOf(x, k)} : k \in WorkersOf(x)}

Pcs == {"keys", "sign", "report", "done", "exited"}

TypeOK(x) ==
  /\ pc \in [WorkersOf(x) -> Pcs] /\ epoch \in [WorkersOf(x) -> Nat]
  /\ Over(quorumSigs, WorkersOf(x))
  /\ Over(signingKeys, WorkersOf(x)) /\ Over(keyChans, WorkersOf(x))
  /\ Over(heap, RefsOf(x))
  /\ Over(breaks, QuorumsOf(x)) /\ Over(apks, QuorumsOf(x))
  /\ Over(sigs, 1 .. x.length) /\ Over(multiSigs, 1 .. x.length)
  /\ \A q \in QuorumsOf(x) : apks[q] \in {NoKeys, Apk(q)}

\* Where a worker is, and what it has signed of the current round.
InPlace(x) ==
  \A k \in WorkersOf(x) :
    /\ pc[k] = "keys" =>
         /\ epoch[k] % x.periodLength = 0 /\ FirstBreakIn(x, k) <= epoch[k]
         /\ signingKeys[k] = <<>>
    /\ pc[k] = "sign" => epoch[k] \in Start(x, k) .. Start(x, k + 1) - 1
    /\ pc[k] = "report" => epoch[k] \in Start(x, k) .. Start(x, k + 1)
    /\ pc[k] \in {"done", "exited"} => epoch[k] = Start(x, k + 1)
    /\ pc[k] # "sign" => quorumSigs[k] = <<>>
    /\ Len(quorumSigs[k]) \in 0 .. Quorum
    /\ quorumSigs[k] = Signed(x, epoch[k], Len(quorumSigs[k]))

\* The quorums that worker k has drawn are in privKeys and in the chain.
Drawn(x) ==
  \A k \in WorkersOf(x) : \A i \in BreaksOf(x, k) :
    pc[k] # "keys" \/ i < epoch[k] =>
      LET q == i \div x.periodLength + 1
      IN  /\ heap[PrivRef(k, Index(x, k, i))] = KeysOfQuorum(q)
          /\ apks[q] = Apk(q) /\ breaks[q] = BreakEpoch(i)

\* Worker k has put a slice into its channel.
PassedOn(x, k) ==
  pc[k] # "keys" \/ (HasBreakIn(x, k) /\ epoch[k] >= Start(x, k + 1))

\* The slice for worker k is the copy that the last worker before it with a
\* break has sent; the workers in between have passed it on.
Lent(x, k, ref) ==
  IF k = 0 THEN ref = GenesisRef
  ELSE \E l \in 0 .. k - 1 :
         /\ HasBreakIn(x, l) /\ \A y \in l + 1 .. k - 1 : ~HasBreakIn(x, y)
         /\ ref = SentRef(l) /\ PassedOn(x, l)

\* A slice in a channel holds the keys that the next worker starts with, and
\* that worker has yet to take it.
InChannel(x) ==
  \A k \in WorkersOf(x) :
    keyChans[k] # <<>> =>
      /\ keyChans[k] = <<keyChans[k][1]>>
      /\ Lent(x, k + 1, keyChans[k][1])
      /\ heap[keyChans[k][1]] = KeysOfQuorum(Turn(x, Start(x, k + 1)))
      /\ PassedOn(x, k)
      /\ k + 1 \in WorkersOf(x) => pc[k + 1] = "keys"

\* The slice a worker signs with is as far as its own signatures.
InHands(x) ==
  \A k \in WorkersOf(x) :
    pc[k] # "keys" =>
      /\ Lent(x, k, signingKeys[k])
      /\ heap[signingKeys[k]] = Held(x, epoch[k], Len(quorumSigs[k]))
      /\ k > 0 => PassedOn(x, k - 1)

GenesisKept(x) == pc[0] = "keys" => heap[GenesisRef] = KeysOfQuorum(0)

\* The rounds behind a worker are in the chain.
StoredSoFar(x) ==
  \A k \in WorkersOf(x) :
    pc[k] # "keys" =>
      \A i \in Start(x, k) .. epoch[k] - 1 :
        /\ sigs[i + 1] = Signed(x, i, Quorum)
        /\ multiSigs[i + 1] = Signed(x, i, Quorum)

Counted(x) == finished = Cardinality({k \in WorkersOf(x) : pc[k] = "exited"})

Inv(x) ==
  /\ TypeOK(x) /\ InPlace(x) /\ Drawn(x) /\ InChannel(x) /\ InHands(x)
  /\ GenesisKept(x) /\ StoredSoFar(x) /\ Counted(x)

IInv == args \in Args /\ Inv(args)

-----------------------------------------------------------------------------
(* Slices.                                                                 *)

LEMMA Distinct ==
  ASSUME NEW k, NEW l, NEW a, NEW b
  PROVE  /\ GenesisRef # SentRef(k) /\ GenesisRef # PrivRef(k, a)
         /\ SentRef(k) # PrivRef(l, a)
         /\ SentRef(k) = SentRef(l) => k = l
         /\ PrivRef(k, a) = PrivRef(l, b) => k = l /\ a = b
<1>1. GenesisRef[1] = "genesis" /\ SentRef(k)[1] = "toSend" /\ SentRef(k)[2] = k
  BY DEF GenesisRef, SentRef
<1>2. SentRef(l)[2] = l
  BY DEF SentRef
<1>3. PrivRef(k, a)[1] = "privKeys" /\ PrivRef(l, a)[1] = "privKeys"
  BY DEF PrivRef
<1>4. PrivRef(k, a)[2] = k /\ PrivRef(k, a)[3] = a /\ PrivRef(l, b)[2] = l /\ PrivRef(l, b)[3] = b
  BY DEF PrivRef
<1> QED
  BY <1>1, <1>2, <1>3, <1>4

LEMMA LentIsRef ==
  ASSUME NEW x \in Args, NEW k \in 0 .. Number(x), NEW ref, Lent(x, k, ref)
  PROVE  ref \in RefsOf(x) /\ (k = 0 => ref = GenesisRef)
<1>1. Number(x) \in Nat \ {0}
  BY NumberFacts
<1>2. CASE k = 0
  BY <1>2 DEF Lent, RefsOf
<1>3. CASE k # 0
  <2>1. PICK l \in 0 .. k - 1 : ref = SentRef(l)
    BY <1>3 DEF Lent
  <2>2. l \in WorkersOf(x)
    BY <1>1, <2>1 DEF WorkersOf
  <2> QED
    BY <1>3, <2>1, <2>2 DEF RefsOf
<1> QED
  BY <1>2, <1>3

\* A worker with a break has the slice that its predecessor has copied for it.
LEMMA OwnSlice ==
  ASSUME NEW x \in Args, NEW k \in WorkersOf(x), HasBreakIn(x, k), NEW ref, Lent(x, k, ref)
  PROVE  ref = IF k = 0 THEN GenesisRef ELSE SentRef(k - 1)
<1>1. Number(x) \in Nat \ {0} /\ k \in 0 .. Number(x) - 1
  BY NumberFacts DEF WorkersOf
<1>2. CASE k = 0
  BY <1>2 DEF Lent
<1>3. CASE k # 0
  <2>1. PICK l \in 0 .. k - 1 :
          ref = SentRef(l) /\ \A y \in l + 1 .. k - 1 : ~HasBreakIn(x, y)
    BY <1>3 DEF Lent
  <2>2. k - 1 \in 0 .. Number(x) - 1 /\ k - 1 < k
    BY <1>1, <1>3
  <2>3. HasBreakIn(x, k - 1)
    BY <1>1, <2>2, GapAssumption DEF NoBreakAfterGap
  <2>4. ~(k - 1 \in l + 1 .. k - 1)
    BY <2>1, <2>3
  <2>5. l = k - 1
    BY <1>1, <1>3, <2>1, <2>4
  <2> QED
    BY <1>3, <2>1, <2>5
<1> QED
  BY <1>2, <1>3

\* Nobody else has it, or gets it.
LEMMA Exclusive ==
  ASSUME NEW x \in Args, NEW k \in WorkersOf(x), HasBreakIn(x, k),
         NEW w \in 0 .. Number(x), w # k,
         NEW ref, Lent(x, k, ref), Lent(x, w, ref)
  PROVE  FALSE
<1>1. Number(x) \in Nat \ {0} /\ k \in 0 .. Number(x) - 1
  BY NumberFacts DEF WorkersOf
<1>2. ref = IF k = 0 THEN GenesisRef ELSE SentRef(k - 1)
  BY OwnSlice
<1>3. CASE w = 0
  BY <1>2, <1>3, Distinct DEF Lent
<1>4. CASE w # 0
  <2>1. PICK l \in 0 .. w - 1 :
          ref = SentRef(l) /\ \A y \in l + 1 .. w - 1 : ~HasBreakIn(x, y)
    BY <1>4 DEF Lent
  <2>2. k # 0 /\ l = k - 1
    BY <1>2, <2>1, Distinct
  <2>3. k \in l + 1 .. w - 1
    BY <1>1, <2>1, <2>2
  <2> QED
    BY <2>1, <2>3
<1> QED
  BY <1>3, <1>4

\* What has been passed on and lent stays so while workers go forward.
LEMMA Forward ==
  ASSUME NEW x \in Args,
         \A l \in WorkersOf(x) :
           /\ epoch[l] \in Nat /\ epoch'[l] \in Nat
           /\ pc[l] # "keys" => pc'[l] # "keys"
           /\ pc[l] = "keys" => pc'[l] # "keys" \/ epoch'[l] >= epoch[l]
  PROVE  /\ \A l \in WorkersOf(x) : PassedOn(x, l) => PassedOn(x, l)'
         /\ \A k \in 0 .. Number(x) : \A ref : Lent(x, k, ref) => Lent(x, k, ref)'
<1>1. ASSUME NEW l \in WorkersOf(x), PassedOn(x, l)
      PROVE  PassedOn(x, l)'
  <2>1. Start(x, l + 1) \in Nat
    BY BreakFacts
  <2> QED
    BY <1>1, <2>1 DEF PassedOn
<1>2. ASSUME NEW k \in 0 .. Number(x), NEW ref, Lent(x, k, ref)
      PROVE  Lent(x, k, ref)'
  <2>1. CASE k = 0
    BY <1>2, <2>1 DEF Lent
  <2>2. CASE k # 0
    <3>1. PICK l \in 0 .. k - 1 :
            /\ HasBreakIn(x, l) /\ \A y \in l + 1 .. k - 1 : ~HasBreakIn(x, y)
            /\ ref = SentRef(l) /\ PassedOn(x, l)
      BY <1>2, <2>2 DEF Lent
    <3>2. l \in WorkersOf(x)
      BY NumberFacts, <3>1 DEF WorkersOf
    <3>3. PassedOn(x, l)'
      BY <1>1, <3>1, <3>2
    <3> QED
      BY <2>2, <3>1, <3>3 DEF Lent
  <2> QED
    BY <2>1, <2>2
<1> QED
  BY <1>1, <1>2

LEMMA NoneSigned ==
  ASSUME NEW x \in Args, NEW i \in Nat
  PROVE  Signed(x, i, 0) = <<>> /\ Held(x, i, 0) = KeysOfQuorum(Turn(x, i))
<1>1. \A j \in 1 .. Quorum : ~(j <= 0)
  BY QuorumAssumption
<1> QED
  BY <1>1 DEF Signed, Held, KeysOfQuorum

LEMMA OneMoreSigned ==
  ASSUME NEW x \in Args, NEW i \in Nat, NEW m \in Nat
  PROVE  /\ Len(Signed(x, i, m)) = m
         /\ Append(Signed(x, i, m), SignatureOf(x, i, m + 1)) = Signed(x, i, m + 1)
<1>1. Len(Signed(x, i, m)) = m /\ DOMAIN Signed(x, i, m) = 1 .. m
  BY DEF Signed
<1>2. Append(Signed(x, i, m), SignatureOf(x, i, m + 1))
        = [j \in 1 .. m + 1 |-> IF j = m + 1 THEN SignatureOf(x, i, m + 1)
                                ELSE Signed(x, i, m)[j]]
  BY <1>1
<1> QED
  BY <1>1, <1>2 DEF Signed

LEMMA AllSigned ==
  ASSUME NEW x \in Args, NEW i \in Nat
  PROVE  Held(x, i, Quorum) = KeysOfQuorum(Turn(x, i + 1))
<1>1. \A j \in 1 .. Quorum : j <= Quorum
  BY QuorumAssumption
<1>2. Turn(x, i + 1) = IF i % x.periodLength = 0 THEN Turn(x, i) + 1 ELSE Turn(x, i)
  BY TurnAtBreak, TurnOtherwise
<1> QED
  BY <1>1, <1>2 DEF Held, KeysOfQuorum

-----------------------------------------------------------------------------
(* A worker draws the keys of a quorum.                                    *)

LEMMA CreateStep ==
  ASSUME NEW x \in Args, args = x, Inv(x), NEW k \in WorkersOf(x), CreateCommittee(k)
  PROVE  Inv(x)'
<1> DEFINE W == WorkersOf(x)
           p == x.periodLength
           i == epoch[k]
           q == i \div p + 1
           last == i + p >= Start(x, k + 1)
           priv == PrivRef(k, Index(x, k, i))
<1>1. /\ pc[k] = "keys" /\ i < Start(x, k + 1)
      /\ heap' = [ref \in RefsOf(x) |->
                    IF ref \in {priv} \cup (IF last THEN {SentRef(k)} ELSE {})
                      THEN KeysOfQuorum(q) ELSE heap[ref]]
      /\ apks' = [apks EXCEPT ![q] = @ \cup Apk(q)]
      /\ breaks' = [breaks EXCEPT ![q] = BreakEpoch(i)]
      /\ last => keyChans[k] = <<>> /\ keyChans' = [keyChans EXCEPT ![k] = <<SentRef(k)>>]
      /\ ~last => keyChans' = keyChans
      /\ epoch' = [epoch EXCEPT ![k] = i + p]
      /\ pc' = pc /\ quorumSigs' = quorumSigs /\ signingKeys' = signingKeys
      /\ sigs' = sigs /\ multiSigs' = multiSigs /\ finished' = finished
  BY DEF CreateCommittee, ToSend, IsLastBreak, IndexOf, Index, Refs, RefsOf, Workers, WorkersOf,
         BreaksIn, BreaksOf, StartOf, EndOf, FirstBreakOf, IsBreak, n, periodLength
<1>2. TypeOK(x) /\ InPlace(x) /\ Drawn(x) /\ InChannel(x) /\ InHands(x)
      /\ GenesisKept(x) /\ StoredSoFar(x) /\ Counted(x)
  BY DEF Inv
<1>3. /\ p \in Nat \ {0} /\ k \in Nat /\ i \in Nat /\ i % p = 0 /\ FirstBreakIn(x, k) <= i
      /\ pc \in [W -> Pcs] /\ epoch \in [W -> Nat] /\ k \in W
  BY <1>1, <1>2, NumberFacts, BreakFacts DEF TypeOK, InPlace
<1>4. /\ i \in BreaksOf(x, k) /\ HasBreakIn(x, k) /\ q \in QuorumsOf(x)
      /\ Start(x, k + 1) \in Nat
  BY <1>1, <1>3, BreakBack, BreakIn, BreakFacts, TurnRange
<1>5. ~PassedOn(x, k)
  BY <1>1, <1>3, <1>4 DEF PassedOn
<1>6. /\ \A l \in W : PassedOn(x, l) => PassedOn(x, l)'
      /\ \A w \in 0 .. Number(x) : \A ref : Lent(x, w, ref) => Lent(x, w, ref)'
  <2>1. \A l \in W : /\ epoch[l] \in Nat /\ epoch'[l] \in Nat /\ epoch'[l] >= epoch[l]
                     /\ pc'[l] = pc[l]
    BY <1>1, <1>3
  <2> QED
    BY <2>1, Forward
<1>7. \A w \in 0 .. Number(x) : \A ref : Lent(x, w, ref) => heap'[ref] = heap[ref]
  <2> SUFFICES ASSUME NEW w \in 0 .. Number(x), NEW ref, Lent(x, w, ref)
               PROVE  heap'[ref] = heap[ref]
    OBVIOUS
  <2>1. ref \in RefsOf(x)
    BY LentIsRef
  <2>2. ref = GenesisRef \/ \E l \in 0 .. w - 1 : ref = SentRef(l) /\ PassedOn(x, l)
    BY DEF Lent
  <2>3. ref # priv /\ ref # SentRef(k)
    BY <1>5, <2>2, Distinct
  <2> QED
    BY <1>1, <2>1, <2>3
<1>8. heap'[priv] = KeysOfQuorum(q) /\ (last => heap'[SentRef(k)] = KeysOfQuorum(q))
  BY <1>1, <1>4 DEF RefsOf
<1>9. \A l \in W : \A b \in BreaksOf(x, l) :
        l # k \/ b # i => heap'[PrivRef(l, Index(x, l, b))] = heap[PrivRef(l, Index(x, l, b))]
  <2> SUFFICES ASSUME NEW l \in W, NEW b \in BreaksOf(x, l), l # k \/ b # i
               PROVE  heap'[PrivRef(l, Index(x, l, b))] = heap[PrivRef(l, Index(x, l, b))]
    OBVIOUS
  <2>1. PrivRef(l, Index(x, l, b)) \in RefsOf(x)
    BY DEF RefsOf
  <2>2. PrivRef(l, Index(x, l, b)) # priv /\ PrivRef(l, Index(x, l, b)) # SentRef(k)
    BY <1>4, Distinct, IndexInjective
  <2> QED
    BY <1>1, <2>1, <2>2
<1> HIDE DEF W, p, i, q, last, priv
<1>10. TypeOK(x)'
  <2>1. Over(heap', RefsOf(x))
    BY <1>1 DEF Over
  <2>2. Over(keyChans', W)
    BY <1>1, <1>2 DEF Over, TypeOK, W
  <2>3. Over(breaks', QuorumsOf(x)) /\ Over(apks', QuorumsOf(x))
    BY <1>1, <1>2 DEF Over, TypeOK
  <2>4. \A c \in QuorumsOf(x) : apks'[c] \in {NoKeys, Apk(c)}
    BY <1>1, <1>2, <1>4 DEF Over, TypeOK, NoKeys
  <2>5. epoch' \in [W -> Nat]
    <3>1. i + p \in Nat
      BY <1>3
    <3> QED
      BY <1>1, <1>3, <3>1
  <2> QED
    BY <1>1, <1>2, <2>1, <2>2, <2>3, <2>4, <2>5 DEF TypeOK, W
<1>11. InPlace(x)'
  <2> SUFFICES ASSUME NEW l \in W
               PROVE  /\ pc'[l] = "keys" =>
                           /\ epoch'[l] % p = 0 /\ FirstBreakIn(x, l) <= epoch'[l]
                           /\ signingKeys'[l] = <<>>
                      /\ pc'[l] = "sign" => epoch'[l] \in Start(x, l) .. Start(x, l + 1) - 1
                      /\ pc'[l] = "report" => epoch'[l] \in Start(x, l) .. Start(x, l + 1)
                      /\ pc'[l] \in {"done", "exited"} => epoch'[l] = Start(x, l + 1)
                      /\ pc'[l] # "sign" => quorumSigs'[l] = <<>>
                      /\ Len(quorumSigs'[l]) \in 0 .. Quorum
                      /\ quorumSigs'[l] = Signed(x, epoch'[l], Len(quorumSigs'[l]))
    BY DEF InPlace, W, p
  <2>1. CASE l = k
    <3>1. (i + p) % p = 0 /\ FirstBreakIn(x, k) <= i + p /\ i + p \in Nat
      <4>1. (i + p) % p = 0
        BY <1>3, MultiplePlus
      <4>2. FirstBreakIn(x, k) \in Nat
        BY BreakFacts
      <4> QED
        BY <1>3, <4>1, <4>2
    <3>2. epoch'[k] = i + p /\ pc'[k] = "keys" /\ quorumSigs'[k] = <<>> /\ signingKeys'[k] = <<>>
      BY <1>1, <1>2, <1>3 DEF InPlace, W
    <3>3. Len(<<>>) = 0 /\ 0 \in 0 .. Quorum /\ Signed(x, i + p, 0) = <<>>
      BY <3>1, NoneSigned, QuorumAssumption
    <3> QED
      BY <2>1, <3>1, <3>2, <3>3
  <2>2. CASE l # k
    <3>1. epoch'[l] = epoch[l] /\ pc'[l] = pc[l] /\ quorumSigs'[l] = quorumSigs[l]
          /\ signingKeys'[l] = signingKeys[l]
      BY <1>1, <1>3, <2>2
    <3> QED
      BY <1>2, <3>1 DEF InPlace, W, p
  <2> QED
    BY <2>1, <2>2
<1>12. Drawn(x)'
  <2> SUFFICES ASSUME NEW l \in W, NEW b \in BreaksOf(x, l), pc'[l] # "keys" \/ b < epoch'[l]
               PROVE  /\ heap'[PrivRef(l, Index(x, l, b))] = KeysOfQuorum(b \div p + 1)
                      /\ apks'[b \div p + 1] = Apk(b \div p + 1)
                      /\ breaks'[b \div p + 1] = BreakEpoch(b)
    BY DEF Drawn, W, p
  <2>1. b \in Nat /\ b % p = 0 /\ b \div p + 1 \in QuorumsOf(x)
    BY BreakIn, NumberFacts, TurnRange DEF W, p
  <2>2. CASE l = k /\ b = i
    <3>1. apks[q] \in {NoKeys, Apk(q)} /\ DOMAIN apks = QuorumsOf(x) /\ DOMAIN breaks = QuorumsOf(x)
      BY <1>2, <1>4 DEF TypeOK, Over
    <3>2. b \div p + 1 = q /\ PrivRef(l, Index(x, l, b)) = priv
      BY <2>2 DEF q, priv
    <3> QED
      BY <1>1, <1>4, <1>8, <2>2, <3>1, <3>2 DEF NoKeys
  <2>3. CASE ~(l = k /\ b = i)
    <3>1. pc[l] # "keys" \/ b < epoch[l]
      <4>1. CASE l # k
        BY <1>1, <1>3, <4>1
      <4>2. CASE l = k /\ b # i
        <5>1. epoch'[l] = i + p /\ pc'[l] = "keys"
          BY <1>1, <1>3, <4>2
        <5>2. b < i + p
          BY <5>1
        <5>3. i < b => i + p <= b
          BY <1>3, <2>1, NextMultiple
        <5>4. ~(i < b)
          BY <1>3, <2>1, <5>2, <5>3
        <5> QED
          BY <1>3, <2>1, <4>2, <5>4 DEF i
      <4> QED
        BY <2>3, <4>1, <4>2
    <3>2. /\ heap[PrivRef(l, Index(x, l, b))] = KeysOfQuorum(b \div p + 1)
          /\ apks[b \div p + 1] = Apk(b \div p + 1)
          /\ breaks[b \div p + 1] = BreakEpoch(b)
      BY <1>2, <3>1 DEF Drawn, W, p
    <3>3. heap'[PrivRef(l, Index(x, l, b))] = heap[PrivRef(l, Index(x, l, b))]
      BY <1>9, <2>3
    <3>4. DOMAIN apks = QuorumsOf(x) /\ DOMAIN breaks = QuorumsOf(x)
      BY <1>2 DEF TypeOK, Over
    <3>5. b \div p + 1 = q => b = i
      <4>1. /\ i \div p \in Nat /\ i = (i \div p) * p
            /\ b \div p \in Nat /\ b = (b \div p) * p
        BY <1>3, <2>1, Divisible
      <4>2. b \div p + 1 = q => b \div p = i \div p
        BY <4>1 DEF q
      <4> QED
        BY <4>1, <4>2
    <3>6. apks'[b \div p + 1] = Apk(b \div p + 1)
      BY <1>1, <1>4, <2>1, <3>2, <3>4
    <3>7. breaks'[b \div p + 1] = BreakEpoch(b)
      BY <1>1, <1>4, <2>1, <3>2, <3>4, <3>5
    <3> QED
      BY <3>2, <3>3, <3>6, <3>7
  <2> QED
    BY <2>2, <2>3
<1>13. InChannel(x)'
  <2> SUFFICES ASSUME NEW l \in W, keyChans'[l] # <<>>
               PROVE  /\ keyChans'[l] = <<keyChans'[l][1]>>
                      /\ Lent(x, l + 1, keyChans[l][1])'
                      /\ heap'[keyChans'[l][1]] = KeysOfQuorum(Turn(x, Start(x, l + 1)))
                      /\ PassedOn(x, l)'
                      /\ l + 1 \in W => pc'[l + 1] = "keys"
    BY DEF InChannel, W
  <2>1. l \in Nat /\ l + 1 \in 0 .. Number(x) /\ DOMAIN keyChans = W
    BY <1>2, NumberFacts DEF WorkersOf, W, TypeOK, Over
  <2>2. CASE last /\ l = k
    <3>1. keyChans'[l] = <<SentRef(k)>> /\ keyChans'[l][1] = SentRef(k)
      BY <1>1, <2>1, <2>2
    <3>2. PassedOn(x, k)'
      BY <1>1, <1>3, <1>4, <2>2 DEF PassedOn, last
    <3>3. Lent(x, k + 1, SentRef(k))'
      BY <1>3, <1>4, <3>2 DEF Lent
    <3>4. KeysOfQuorum(Turn(x, Start(x, k + 1))) = KeysOfQuorum(q)
      BY <1>1, <1>3, <2>2, TurnAfterLast DEF last, q, p
    <3>5. k + 1 \in W => pc'[k + 1] = "keys"
      BY <1>1, <1>2, <1>3, <1>5 DEF InHands, W
    <3> QED
      BY <1>8, <2>2, <3>1, <3>2, <3>3, <3>4, <3>5
  <2>3. CASE ~(last /\ l = k)
    <3>1. keyChans'[l] = keyChans[l]
      BY <1>1, <2>1, <2>3
    <3> HIDE <2>3
    <3>2. /\ keyChans[l] = <<keyChans[l][1]>>
          /\ Lent(x, l + 1, keyChans[l][1])
          /\ heap[keyChans[l][1]] = KeysOfQuorum(Turn(x, Start(x, l + 1)))
          /\ PassedOn(x, l)
          /\ l + 1 \in W => pc[l + 1] = "keys"
      BY <1>2, <3>1 DEF InChannel, W
    <3> DEFINE ref == keyChans[l][1]
    <3>3. PICK r : r = ref
      OBVIOUS
    <3>4. Lent(x, l + 1, r)' /\ heap'[r] = heap[r]
      BY <1>6, <1>7, <2>1, <3>2, <3>3
    <3>5. Lent(x, l + 1, keyChans[l][1])'
      BY <3>1, <3>3, <3>4
    <3> QED
      BY <1>1, <1>6, <3>1, <3>2, <3>3, <3>4, <3>5
  <2> QED
    BY <2>2, <2>3
<1>14. InHands(x)'
  <2> SUFFICES ASSUME NEW l \in W, pc'[l] # "keys"
               PROVE  /\ Lent(x, l, signingKeys[l])'
                      /\ heap'[signingKeys'[l]] = Held(x, epoch'[l], Len(quorumSigs'[l]))
                      /\ l > 0 => PassedOn(x, l - 1)'
    BY DEF InHands, W
  <2>1. l \in 0 .. Number(x) /\ (l > 0 => l - 1 \in W)
    BY NumberFacts DEF WorkersOf, W
  <2>2. l # k /\ pc[l] # "keys" /\ epoch'[l] = epoch[l]
    BY <1>1, <1>3
  <2>3. /\ Lent(x, l, signingKeys[l])
        /\ heap[signingKeys[l]] = Held(x, epoch[l], Len(quorumSigs[l]))
        /\ l > 0 => PassedOn(x, l - 1)
    BY <1>2, <2>2 DEF InHands, W
  <2>4. PICK r : r = signingKeys[l]
    OBVIOUS
  <2>5. Lent(x, l, r)' /\ heap'[r] = heap[r]
    BY <1>6, <1>7, <2>1, <2>3, <2>4
  <2>6. signingKeys'[l] = r
    BY <1>1, <2>4
  <2>7. Lent(x, l, signingKeys[l])'
    BY <2>5, <2>6
  <2> QED
    BY <1>1, <1>6, <2>1, <2>2, <2>3, <2>4, <2>5, <2>6, <2>7
<1>15. GenesisKept(x)'
  <2>1. Lent(x, 0, GenesisRef) /\ 0 \in 0 .. Number(x)
    BY NumberFacts DEF Lent
  <2> QED
    BY <1>1, <1>2, <1>7, <2>1 DEF GenesisKept
<1>16. StoredSoFar(x)'
  <2>1. \A l \in W : pc'[l] # "keys" => l # k /\ epoch'[l] = epoch[l]
    BY <1>1, <1>3
  <2> QED
    BY <1>1, <1>2, <2>1 DEF StoredSoFar, W
<1>17. Counted(x)'
  BY <1>1, <1>2 DEF Counted
<1> QED
  BY <1>10, <1>11, <1>12, <1>13, <1>14, <1>15, <1>16, <1>17 DEF Inv

-----------------------------------------------------------------------------
(* A worker takes the slice it will sign with, and may pass it on.         *)

LEMMA TakeStep ==
  ASSUME NEW x \in Args, args = x, Inv(x), NEW k \in WorkersOf(x), TakeKeys(k)
  PROVE  Inv(x)'
<1> DEFINE W == WorkersOf(x)
<1>1. PICK ref : ref = IF k = 0 THEN GenesisRef ELSE keyChans[k - 1][1]
  OBVIOUS
<1>2. PICK taken : taken = IF k = 0 THEN keyChans ELSE [keyChans EXCEPT ![k - 1] = <<>>]
  OBVIOUS
<1>3. /\ pc[k] = "keys" /\ epoch[k] >= Start(x, k + 1)
      /\ k > 0 => keyChans[k - 1] # <<>>
      /\ signingKeys' = [signingKeys EXCEPT ![k] = ref]
      /\ HasBreakIn(x, k) => keyChans' = taken
      /\ ~HasBreakIn(x, k) => keyChans' = [taken EXCEPT ![k] = <<ref>>]
      /\ pc' = [pc EXCEPT ![k] = "sign"]
      /\ epoch' = [epoch EXCEPT ![k] = Start(x, k)]
      /\ quorumSigs' = quorumSigs /\ heap' = heap /\ breaks' = breaks /\ apks' = apks
      /\ sigs' = sigs /\ multiSigs' = multiSigs /\ finished' = finished
  BY <1>1, <1>2 DEF TakeKeys, StartOf, EndOf, HasBreak
<1>4. TypeOK(x) /\ InPlace(x) /\ Drawn(x) /\ InChannel(x) /\ InHands(x)
      /\ GenesisKept(x) /\ StoredSoFar(x) /\ Counted(x)
  BY DEF Inv
<1>5. /\ pc \in [W -> Pcs] /\ epoch \in [W -> Nat] /\ k \in W /\ k \in Nat
      /\ DOMAIN keyChans = W /\ DOMAIN signingKeys = W
      /\ Start(x, k) \in Nat /\ Start(x, k + 1) \in Nat /\ Start(x, k) < Start(x, k + 1)
      /\ k \in 0 .. Number(x) /\ k + 1 \in 0 .. Number(x) /\ (k > 0 => k - 1 \in W)
      /\ (k - 1) + 1 = k
  <2>1. /\ pc \in [W -> Pcs] /\ epoch \in [W -> Nat]
        /\ DOMAIN keyChans = W /\ DOMAIN signingKeys = W
    BY <1>4 DEF TypeOK, Over
  <2>2. /\ Start(x, k) \in Nat /\ Start(x, k + 1) \in Nat /\ k \in Nat
        /\ Start(x, k) < Start(x, k + 1)
    BY BreakFacts, StartFacts
  <2>3. Number(x) \in Nat \ {0} /\ k \in 0 .. Number(x) - 1
    BY NumberFacts DEF WorkersOf
  <2>4. k \in 0 .. Number(x) /\ k + 1 \in 0 .. Number(x) /\ (k > 0 => k - 1 \in W)
        /\ (k - 1) + 1 = k
    BY <2>3 DEF WorkersOf
  <2> QED
    BY <2>1, <2>2, <2>4
<1>6. /\ \A l \in W : PassedOn(x, l) => PassedOn(x, l)'
      /\ \A w \in 0 .. Number(x) : \A r : Lent(x, w, r) => Lent(x, w, r)'
  <2>1. \A l \in W : /\ epoch[l] \in Nat /\ epoch'[l] \in Nat
                     /\ pc[l] # "keys" => pc'[l] # "keys"
                     /\ pc[l] = "keys" => pc'[l] # "keys" \/ epoch'[l] >= epoch[l]
    BY <1>3, <1>5
  <2> QED
    BY <2>1, Forward
<1>7. Lent(x, k, ref) /\ heap[ref] = KeysOfQuorum(Turn(x, Start(x, k)))
      /\ (k > 0 => PassedOn(x, k - 1))
  <2>1. CASE k = 0
    <3>1. Turn(x, 0) = 0 /\ Start(x, 0) = 0
      <4>1. 0 <= 0 * x.periodLength /\ 0 * x.periodLength < 0 + x.periodLength
        BY NumberFacts, SMT
      <4> QED
        BY <4>1, NumberFacts, CeilUnique, StartFacts DEF Turn
    <3>2. heap[GenesisRef] = KeysOfQuorum(0)
      BY <1>3, <1>4, <2>1 DEF GenesisKept
    <3> QED
      BY <1>1, <2>1, <3>1, <3>2 DEF Lent
  <2>2. CASE k # 0
    <3>1. k - 1 \in W /\ keyChans[k - 1] # <<>> /\ ref = keyChans[k - 1][1]
      BY <1>1, <1>3, <1>5, <2>2
    <3>2. /\ Lent(x, (k - 1) + 1, keyChans[k - 1][1])
          /\ heap[keyChans[k - 1][1]] = KeysOfQuorum(Turn(x, Start(x, (k - 1) + 1)))
          /\ PassedOn(x, k - 1)
      BY <1>4, <3>1 DEF InChannel
    <3> QED
      BY <1>5, <3>1, <3>2
  <2> QED
    BY <2>1, <2>2
<1>8. /\ \A l \in W : l # k => pc'[l] = pc[l] /\ epoch'[l] = epoch[l]
                               /\ signingKeys'[l] = signingKeys[l]
      /\ pc'[k] = "sign" /\ epoch'[k] = Start(x, k) /\ signingKeys'[k] = ref
  BY <1>3, <1>5
<1> HIDE DEF W
<1>9. TypeOK(x)'
  <2>1. Over(signingKeys', W)
    BY <1>3, <1>4 DEF Over, TypeOK, W
  <2>2. Over(taken, W)
    BY <1>2, <1>4 DEF Over, TypeOK, W
  <2>3. Over(keyChans', W)
    BY <1>3, <2>2 DEF Over
  <2>4. pc' \in [W -> Pcs] /\ epoch' \in [W -> Nat]
    BY <1>3, <1>5 DEF Pcs
  <2> QED
    BY <1>3, <1>4, <2>1, <2>3, <2>4 DEF TypeOK, W
<1>10. InPlace(x)'
  <2>1. quorumSigs[k] = <<>>
    BY <1>3, <1>4, <1>5 DEF InPlace, W
  <2>2. Len(<<>>) = 0 /\ 0 \in 0 .. Quorum /\ Signed(x, Start(x, k), 0) = <<>>
    BY <1>5, NoneSigned, QuorumAssumption
  <2>3. Start(x, k) \in Start(x, k) .. Start(x, k + 1) - 1
    BY <1>5
  <2> SUFFICES ASSUME NEW l \in W
               PROVE  /\ pc'[l] = "keys" =>
                           /\ epoch'[l] % x.periodLength = 0 /\ FirstBreakIn(x, l) <= epoch'[l]
                           /\ signingKeys'[l] = <<>>
                      /\ pc'[l] = "sign" => epoch'[l] \in Start(x, l) .. Start(x, l + 1) - 1
                      /\ pc'[l] = "report" => epoch'[l] \in Start(x, l) .. Start(x, l + 1)
                      /\ pc'[l] \in {"done", "exited"} => epoch'[l] = Start(x, l + 1)
                      /\ pc'[l] # "sign" => quorumSigs'[l] = <<>>
                      /\ Len(quorumSigs'[l]) \in 0 .. Quorum
                      /\ quorumSigs'[l] = Signed(x, epoch'[l], Len(quorumSigs'[l]))
    BY DEF InPlace, W
  <2>4. CASE l = k
    BY <1>3, <1>8, <2>1, <2>2, <2>3, <2>4
  <2>5. CASE l # k
    BY <1>3, <1>4, <1>8, <2>5 DEF InPlace, W
  <2> QED
    BY <2>4, <2>5
<1>11. Drawn(x)'
  <2> SUFFICES ASSUME NEW l \in W, NEW b \in BreaksOf(x, l), pc'[l] # "keys" \/ b < epoch'[l]
               PROVE  /\ heap[PrivRef(l, Index(x, l, b))] = KeysOfQuorum(b \div x.periodLength + 1)
                      /\ apks[b \div x.periodLength + 1] = Apk(b \div x.periodLength + 1)
                      /\ breaks[b \div x.periodLength + 1] = BreakEpoch(b)
    BY <1>3 DEF Drawn, W
  <2>1. b \in Nat /\ b < Start(x, l + 1)
    BY BreakIn, NumberFacts DEF W
  <2>2. pc[l] # "keys" \/ b < epoch[l]
    BY <1>3, <1>5, <1>8, <2>1
  <2> QED
    BY <1>4, <2>2 DEF Drawn, W
<1>12. InChannel(x)'
  <2> SUFFICES ASSUME NEW l \in W, keyChans'[l] # <<>>
               PROVE  /\ keyChans'[l] = <<keyChans'[l][1]>>
                      /\ Lent(x, l + 1, keyChans[l][1])'
                      /\ heap[keyChans'[l][1]] = KeysOfQuorum(Turn(x, Start(x, l + 1)))
                      /\ PassedOn(x, l)'
                      /\ l + 1 \in W => pc'[l + 1] = "keys"
    BY <1>3 DEF InChannel, W
  <2>1. l \in Nat /\ l + 1 \in 0 .. Number(x)
    BY NumberFacts DEF WorkersOf, W
  <2>2. CASE l = k /\ ~HasBreakIn(x, k)
    <3>1. keyChans'[l] = <<ref>> /\ keyChans'[l][1] = ref
      <4>1. DOMAIN taken = W
        BY <1>2, <1>5
      <4> QED
        BY <1>3, <1>5, <2>2, <4>1
    <3>2. PassedOn(x, k)'
      BY <1>8 DEF PassedOn
    <3>3. k # 0
      BY <2>2, FirstHasBreak
    <3>4. Lent(x, k, ref)'
      BY <1>5, <1>6, <1>7
    <3>5. PICK m \in 0 .. k - 1 :
            /\ HasBreakIn(x, m) /\ \A y \in m + 1 .. k - 1 : ~HasBreakIn(x, y)
            /\ ref = SentRef(m) /\ PassedOn(x, m)'
      BY <3>3, <3>4 DEF Lent
    <3>6. m \in 0 .. (k + 1) - 1 /\ \A y \in m + 1 .. (k + 1) - 1 : ~HasBreakIn(x, y)
      BY <1>5, <2>2, <3>5
    <3>7. Lent(x, k + 1, ref)'
      BY <1>5, <3>5, <3>6 DEF Lent
    <3>8. KeysOfQuorum(Turn(x, Start(x, k + 1))) = KeysOfQuorum(Turn(x, Start(x, k)))
      BY <2>2, TurnInGap
    <3>9. k + 1 \in W => pc'[k + 1] = "keys"
      <4>1. ~PassedOn(x, k)
        BY <1>3, <2>2 DEF PassedOn
      <4>2. k + 1 \in W => pc[k + 1] = "keys" /\ k + 1 # k
        BY <1>4, <1>5, <4>1 DEF InHands, W
      <4> QED
        BY <1>8, <4>2
    <3>10. Lent(x, k + 1, keyChans[l][1])'
      BY <3>1, <3>7
    <3> QED
      BY <1>7, <2>2, <3>1, <3>2, <3>8, <3>9, <3>10
  <2>3. CASE ~(l = k /\ ~HasBreakIn(x, k))
    <3>1. keyChans'[l] = keyChans[l] /\ l + 1 # k
      <4>1. taken[l] = IF l + 1 = k THEN <<>> ELSE keyChans[l]
        BY <1>2, <1>5, <2>1
      <4>2. keyChans'[l] = taken[l]
        <5>1. DOMAIN taken = W
          BY <1>2, <1>5
        <5> QED
          BY <1>3, <1>5, <2>3, <5>1
      <4> QED
        BY <4>1, <4>2
    <3> HIDE <2>3
    <3>2. /\ keyChans[l] = <<keyChans[l][1]>>
          /\ Lent(x, l + 1, keyChans[l][1])
          /\ heap[keyChans[l][1]] = KeysOfQuorum(Turn(x, Start(x, l + 1)))
          /\ PassedOn(x, l)
          /\ l + 1 \in W => pc[l + 1] = "keys"
      BY <1>4, <3>1 DEF InChannel, W
    <3>3. PICK r : r = keyChans[l][1]
      OBVIOUS
    <3>4. Lent(x, l + 1, r)'
      BY <1>6, <2>1, <3>2, <3>3
    <3>5. Lent(x, l + 1, keyChans[l][1])'
      BY <3>1, <3>3, <3>4
    <3> QED
      BY <1>6, <1>8, <3>1, <3>2, <3>5
  <2> QED
    BY <2>2, <2>3
<1>13. InHands(x)'
  <2> SUFFICES ASSUME NEW l \in W, pc'[l] # "keys"
               PROVE  /\ Lent(x, l, signingKeys[l])'
                      /\ heap[signingKeys'[l]] = Held(x, epoch'[l], Len(quorumSigs[l]))
                      /\ l > 0 => PassedOn(x, l - 1)'
    BY <1>3 DEF InHands, W
  <2>1. l \in 0 .. Number(x) /\ (l > 0 => l - 1 \in W)
    BY NumberFacts DEF WorkersOf, W
  <2>2. CASE l = k
    <3>1. Lent(x, k, ref)'
      BY <1>5, <1>6, <1>7
    <3>2. quorumSigs[k] = <<>> /\ Len(<<>>) = 0
      BY <1>3, <1>4, <1>5 DEF InPlace, W
    <3>3. Held(x, Start(x, k), 0) = KeysOfQuorum(Turn(x, Start(x, k)))
      BY <1>5, NoneSigned
    <3>4. Lent(x, l, signingKeys[l])'
      BY <1>8, <2>2, <3>1
    <3> QED
      BY <1>6, <1>7, <1>8, <2>1, <2>2, <3>2, <3>3, <3>4
  <2>3. CASE l # k
    <3>1. pc[l] # "keys" /\ epoch'[l] = epoch[l] /\ signingKeys'[l] = signingKeys[l]
      BY <1>8, <2>3
    <3>2. /\ Lent(x, l, signingKeys[l])
          /\ heap[signingKeys[l]] = Held(x, epoch[l], Len(quorumSigs[l]))
          /\ l > 0 => PassedOn(x, l - 1)
      BY <1>4, <3>1 DEF InHands, W
    <3>3. PICK r : r = signingKeys[l]
      OBVIOUS
    <3>4. Lent(x, l, r)'
      BY <1>6, <2>1, <3>2, <3>3
    <3>5. Lent(x, l, signingKeys[l])'
      BY <3>1, <3>3, <3>4
    <3> QED
      BY <1>6, <2>1, <3>1, <3>2, <3>5
  <2> QED
    BY <2>2, <2>3
<1>14. GenesisKept(x)'
  <2>1. pc'[0] = "keys" => pc[0] = "keys"
    BY <1>3, <1>5, <1>8, FirstHasBreak DEF W
  <2> QED
    BY <1>3, <1>4, <2>1 DEF GenesisKept
<1>15. StoredSoFar(x)'
  <2>1. \A i \in Start(x, k) .. epoch'[k] - 1 : FALSE
    BY <1>5, <1>8
  <2> QED
    BY <1>3, <1>4, <1>8, <2>1 DEF StoredSoFar, W
<1>16. Counted(x)'
  <2>1. {l \in W : pc'[l] = "exited"} = {l \in W : pc[l] = "exited"}
    BY <1>3, <1>8
  <2> QED
    BY <1>3, <1>4, <2>1 DEF Counted, W
<1> QED
  BY <1>9, <1>10, <1>11, <1>12, <1>13, <1>14, <1>15, <1>16 DEF Inv

-----------------------------------------------------------------------------
(* A worker that has its slice.  It may change that slice, when its        *)
(* interval has a break: nobody else's keys are in it.                     *)

LEMMA AfterKeys ==
  ASSUME NEW x \in Args, Inv(x), NEW k \in WorkersOf(x), pc[k] # "keys",
         pc' \in [WorkersOf(x) -> Pcs], epoch' \in [WorkersOf(x) -> Nat], pc'[k] # "keys",
         \A l \in WorkersOf(x) : l # k => /\ pc'[l] = pc[l] /\ epoch'[l] = epoch[l]
                                          /\ quorumSigs'[l] = quorumSigs[l],
         signingKeys' = signingKeys, keyChans' = keyChans, breaks' = breaks, apks' = apks,
         \A ref \in RefsOf(x) :
           heap'[ref] # heap[ref] => ref = signingKeys[k] /\ HasBreakIn(x, k),
         heap'[signingKeys[k]] = Held(x, epoch'[k], Len(quorumSigs'[k]))
  PROVE  Drawn(x)' /\ InChannel(x)' /\ InHands(x)' /\ GenesisKept(x)'
<1> DEFINE W == WorkersOf(x)
<1>1. TypeOK(x) /\ Drawn(x) /\ InChannel(x) /\ InHands(x) /\ GenesisKept(x)
  BY DEF Inv
<1>2. /\ k \in W /\ epoch \in [W -> Nat] /\ pc \in [W -> Pcs]
      /\ Number(x) \in Nat \ {0} /\ \A l \in W : l \in Nat /\ l \in 0 .. Number(x) - 1
  BY <1>1, NumberFacts DEF TypeOK, WorkersOf
<1>3. /\ \A l \in W : PassedOn(x, l) => PassedOn(x, l)'
      /\ \A w \in 0 .. Number(x) : \A r : Lent(x, w, r) => Lent(x, w, r)'
  <2>1. \A l \in W : /\ epoch[l] \in Nat /\ epoch'[l] \in Nat
                     /\ pc[l] # "keys" => pc'[l] # "keys"
                     /\ pc[l] = "keys" => pc'[l] # "keys" \/ epoch'[l] >= epoch[l]
    <3> TAKE l \in W
    <3>1. epoch[l] \in Nat /\ epoch'[l] \in Nat
      BY <1>2
    <3>2. CASE l = k
      BY <3>1, <3>2
    <3>3. CASE l # k
      BY <3>1, <3>3
    <3> QED
      BY <3>2, <3>3
  <2> QED
    BY <2>1, Forward
<1>4. PICK own : own = signingKeys[k]
  OBVIOUS
<1>5. /\ Lent(x, k, own)
      /\ k > 0 => PassedOn(x, k - 1)
  BY <1>1, <1>4 DEF InHands
<1>6. k \in 0 .. Number(x) /\ own \in RefsOf(x)
  BY <1>2, <1>5, LentIsRef
<1>7. \A w \in 0 .. Number(x) : \A r : w # k /\ Lent(x, w, r) => heap'[r] = heap[r]
  <2> SUFFICES ASSUME NEW w \in 0 .. Number(x), NEW r, w # k, Lent(x, w, r),
                      heap'[r] # heap[r]
               PROVE  FALSE
    OBVIOUS
  <2>1. r \in RefsOf(x)
    BY LentIsRef
  <2>2. r = own /\ HasBreakIn(x, k)
    BY <1>4, <2>1
  <2> QED
    BY <1>5, <2>2, Exclusive
<1> HIDE DEF W
<1>8. Drawn(x)'
  <2> SUFFICES ASSUME NEW l \in W, NEW b \in BreaksOf(x, l), pc'[l] # "keys" \/ b < epoch'[l]
               PROVE  /\ heap'[PrivRef(l, Index(x, l, b))] = KeysOfQuorum(b \div x.periodLength + 1)
                      /\ apks[b \div x.periodLength + 1] = Apk(b \div x.periodLength + 1)
                      /\ breaks[b \div x.periodLength + 1] = BreakEpoch(b)
    BY DEF Drawn, W
  <2>1. PrivRef(l, Index(x, l, b)) \in RefsOf(x)
    BY DEF RefsOf, W
  <2>2. own = GenesisRef \/ \E y : own = SentRef(y)
    BY <1>5 DEF Lent
  <2>3. heap'[PrivRef(l, Index(x, l, b))] = heap[PrivRef(l, Index(x, l, b))]
    BY <1>4, <2>1, <2>2, Distinct
  <2>4. pc[l] # "keys" \/ b < epoch[l]
    BY DEF W
  <2> QED
    BY <1>1, <2>3, <2>4 DEF Drawn, W
<1>9. InChannel(x)'
  <2> SUFFICES ASSUME NEW l \in W, keyChans[l] # <<>>
               PROVE  /\ keyChans[l] = <<keyChans[l][1]>>
                      /\ Lent(x, l + 1, keyChans[l][1])'
                      /\ heap'[keyChans[l][1]] = KeysOfQuorum(Turn(x, Start(x, l + 1)))
                      /\ PassedOn(x, l)'
                      /\ l + 1 \in W => pc'[l + 1] = "keys"
    BY DEF InChannel, W
  <2>1. /\ keyChans[l] = <<keyChans[l][1]>>
        /\ Lent(x, l + 1, keyChans[l][1])
        /\ heap[keyChans[l][1]] = KeysOfQuorum(Turn(x, Start(x, l + 1)))
        /\ PassedOn(x, l)
        /\ l + 1 \in W => pc[l + 1] = "keys"
    BY <1>1 DEF InChannel, W
  <2>2. l + 1 \in 0 .. Number(x) /\ l + 1 # k
    BY <1>2, <2>1
  <2>3. PICK r : r = keyChans[l][1]
    OBVIOUS
  <2>4. Lent(x, l + 1, r)' /\ heap'[r] = heap[r]
    BY <1>3, <1>7, <2>1, <2>2, <2>3
  <2>5. Lent(x, l + 1, keyChans[l][1])'
    BY <2>3, <2>4
  <2> QED
    BY <1>3, <2>1, <2>2, <2>3, <2>4, <2>5 DEF W
<1>10. InHands(x)'
  <2> SUFFICES ASSUME NEW l \in W, pc'[l] # "keys"
               PROVE  /\ Lent(x, l, signingKeys[l])'
                      /\ heap'[signingKeys[l]] = Held(x, epoch'[l], Len(quorumSigs'[l]))
                      /\ l > 0 => PassedOn(x, l - 1)'
    BY DEF InHands, W
  <2>1. l \in 0 .. Number(x) /\ (l > 0 => l - 1 \in W)
    BY NumberFacts DEF WorkersOf, W
  <2>2. pc[l] # "keys"
    BY DEF W
  <2>3. /\ Lent(x, l, signingKeys[l])
        /\ heap[signingKeys[l]] = Held(x, epoch[l], Len(quorumSigs[l]))
        /\ l > 0 => PassedOn(x, l - 1)
    BY <1>1, <2>2 DEF InHands, W
  <2>4. PICK r : r = signingKeys[l]
    OBVIOUS
  <2>5. Lent(x, l, r)'
    BY <1>3, <2>1, <2>3, <2>4
  <2>6. Lent(x, l, signingKeys[l])'
    BY <2>4, <2>5
  <2>7. heap'[signingKeys[l]] = Held(x, epoch'[l], Len(quorumSigs'[l]))
    <3>1. CASE l = k
      BY <3>1
    <3>2. CASE l # k
      BY <1>7, <2>1, <2>3, <2>4, <3>2 DEF W
    <3> QED
      BY <3>1, <3>2
  <2> QED
    BY <1>3, <2>1, <2>3, <2>6, <2>7
<1>11. GenesisKept(x)'
  <2> SUFFICES ASSUME pc'[0] = "keys" PROVE heap'[GenesisRef] = KeysOfQuorum(0)
    BY DEF GenesisKept
  <2>1. 0 \in W /\ 0 # k /\ pc[0] = "keys"
    BY FirstHasBreak DEF W
  <2>2. 0 \in 0 .. Number(x) /\ Lent(x, 0, GenesisRef)
    BY <1>2 DEF Lent
  <2> QED
    BY <1>1, <1>7, <2>1, <2>2 DEF GenesisKept
<1> QED
  BY <1>8, <1>9, <1>10, <1>11

-----------------------------------------------------------------------------
(* The next slot signs.                                                    *)

LEMMA SignStep ==
  ASSUME NEW x \in Args, args = x, Inv(x), NEW k \in WorkersOf(x), SignSlot(k)
  PROVE  Inv(x)'
<1> DEFINE W == WorkersOf(x)
           p == x.periodLength
<1>1. PICK i : i = epoch[k]
  OBVIOUS
<1>2. PICK ref : ref = signingKeys[k]
  OBVIOUS
<1>3. PICK m : m = Len(quorumSigs[k])
  OBVIOUS
<1>4. TypeOK(x) /\ InPlace(x) /\ Drawn(x) /\ InChannel(x) /\ InHands(x)
      /\ GenesisKept(x) /\ StoredSoFar(x) /\ Counted(x)
  BY DEF Inv
<1>5. /\ pc[k] = "sign" /\ m + 1 <= Quorum
      /\ i % p = 0 =>
           /\ quorumSigs' = [quorumSigs EXCEPT ![k] =
                Append(@, SignBreak(heap[ref][m + 1], i + 1, apks[i \div p + 1]))]
           /\ heap' = [heap EXCEPT ![ref][m + 1] = heap[PrivRef(k, Index(x, k, i))][m + 1]]
      /\ i % p # 0 =>
           /\ quorumSigs' = [quorumSigs EXCEPT ![k] = Append(@, SignNoBreak(heap[ref][m + 1], i + 1))]
           /\ heap' = heap
      /\ pc' = pc /\ epoch' = epoch /\ signingKeys' = signingKeys /\ keyChans' = keyChans
      /\ breaks' = breaks /\ apks' = apks /\ sigs' = sigs /\ multiSigs' = multiSigs
      /\ finished' = finished
  BY <1>1, <1>2, <1>3
     DEF SignSlot, NextKey, IsBreak, IndexOf, Index, FirstBreakOf, periodLength
<1>6. /\ k \in W /\ pc \in [W -> Pcs] /\ epoch \in [W -> Nat]
      /\ DOMAIN quorumSigs = W /\ DOMAIN heap = RefsOf(x)
      /\ Over(quorumSigs, W) /\ Over(heap, RefsOf(x))
  BY <1>4 DEF TypeOK, Over
<1>7. /\ i \in Start(x, k) .. Start(x, k + 1) - 1 /\ i \in 0 .. x.length - 1
      /\ m \in 0 .. Quorum /\ quorumSigs[k] = Signed(x, i, m)
  <2>1. /\ i \in Start(x, k) .. Start(x, k + 1) - 1
        /\ m \in 0 .. Quorum /\ quorumSigs[k] = Signed(x, i, m)
    BY <1>1, <1>3, <1>4, <1>5, <1>6 DEF InPlace
  <2>2. /\ Start(x, k) \in Nat /\ Start(x, k + 1) \in Nat /\ Start(x, k + 1) <= x.length
        /\ x.length \in Nat
    BY BreakFacts, StartFacts, NumberFacts
  <2> QED
    BY <2>1, <2>2
<1>8. /\ Lent(x, k, ref) /\ heap[ref] = Held(x, i, m)
  BY <1>1, <1>2, <1>3, <1>4, <1>5, <1>6 DEF InHands
<1>9. ref \in RefsOf(x)
  BY <1>6, <1>8, LentIsRef, NumberFacts DEF WorkersOf
<1>10. m + 1 \in 1 .. Quorum /\ m \in Nat /\ ~(m + 1 <= m) /\ i \in Nat
  BY <1>5, <1>7, QuorumAssumption, NumberFacts
<1>11. heap[ref][m + 1] = <<Turn(x, i), m + 1>>
  BY <1>8, <1>10 DEF Held
<1>12. /\ quorumSigs' = [quorumSigs EXCEPT ![k] = Signed(x, i, m + 1)]
       /\ heap'[ref] = Held(x, i, m + 1)
       /\ Over(heap', RefsOf(x))
       /\ \A r \in RefsOf(x) : heap'[r] # heap[r] => r = ref /\ HasBreakIn(x, k)
  <2>1. Append(Signed(x, i, m), SignatureOf(x, i, m + 1)) = Signed(x, i, m + 1)
    BY <1>10, OneMoreSigned
  <2>2. CASE i % p = 0
    <3>1. i \in BreaksOf(x, k)
      BY <1>7, <2>2 DEF BreaksOf
    <3>2. HasBreakIn(x, k)
      BY <3>1, BreakIn
    <3>3. Turn(x, i) = i \div p
      BY <1>10, <2>2, TurnAtBreak
    <3>4. /\ heap[PrivRef(k, Index(x, k, i))] = KeysOfQuorum(Turn(x, i) + 1)
          /\ apks[i \div p + 1] = Apk(Turn(x, i) + 1)
      BY <1>4, <1>5, <1>6, <3>1, <3>3 DEF Drawn
    <3>5. heap[PrivRef(k, Index(x, k, i))][m + 1] = <<Turn(x, i) + 1, m + 1>>
      BY <1>10, <3>4 DEF KeysOfQuorum
    <3>6. SignBreak(heap[ref][m + 1], i + 1, apks[i \div p + 1]) = SignatureOf(x, i, m + 1)
      BY <1>11, <2>2, <3>4 DEF SignatureOf
    <3>7. quorumSigs' = [quorumSigs EXCEPT ![k] = Signed(x, i, m + 1)]
      BY <1>5, <1>7, <2>1, <2>2, <3>6
    <3>8. heap' = [heap EXCEPT ![ref] = [Held(x, i, m) EXCEPT ![m + 1] = <<Turn(x, i) + 1, m + 1>>]]
      BY <1>5, <1>8, <2>2, <3>5
    <3>9. [Held(x, i, m) EXCEPT ![m + 1] = <<Turn(x, i) + 1, m + 1>>] = Held(x, i, m + 1)
      <4>1. \A j \in 1 .. Quorum : j <= m + 1 <=> j <= m \/ j = m + 1
        BY <1>10, QuorumAssumption
      <4> QED
        BY <1>10, <2>2, <4>1 DEF Held
    <3>10. heap' = [heap EXCEPT ![ref] = Held(x, i, m + 1)]
      BY <3>8, <3>9
    <3> QED
      BY <1>6, <1>9, <3>2, <3>7, <3>10 DEF Over
  <2>3. CASE i % p # 0
    <3>1. SignNoBreak(heap[ref][m + 1], i + 1) = SignatureOf(x, i, m + 1)
      BY <1>11, <2>3 DEF SignatureOf
    <3>2. Held(x, i, m + 1) = Held(x, i, m)
      BY <2>3 DEF Held
    <3>3. quorumSigs' = [quorumSigs EXCEPT ![k] = Signed(x, i, m + 1)]
      BY <1>5, <1>7, <2>1, <2>3, <3>1
    <3> QED
      BY <1>5, <1>6, <1>8, <2>3, <3>2, <3>3
  <2> QED
    BY <2>2, <2>3
<1>13. /\ quorumSigs'[k] = Signed(x, i, m + 1) /\ Len(quorumSigs'[k]) = m + 1
       /\ \A l \in W : l # k => quorumSigs'[l] = quorumSigs[l]
  BY <1>6, <1>10, <1>12, OneMoreSigned
<1>14. Drawn(x)' /\ InChannel(x)' /\ InHands(x)' /\ GenesisKept(x)'
  <2>1. heap'[signingKeys[k]] = Held(x, epoch'[k], Len(quorumSigs'[k]))
    BY <1>1, <1>2, <1>5, <1>12, <1>13
  <2> QED
    BY <1>2, <1>5, <1>6, <1>12, <1>13, <2>1, AfterKeys
<1>15. TypeOK(x)'
  <2>1. Over(quorumSigs', W)
    BY <1>6, <1>12 DEF Over
  <2> QED
    BY <1>4, <1>5, <1>12, <2>1 DEF TypeOK
<1>16. InPlace(x)'
  BY <1>1, <1>4, <1>5, <1>6, <1>10, <1>13 DEF InPlace
<1>17. StoredSoFar(x)'
  BY <1>4, <1>5 DEF StoredSoFar
<1>18. Counted(x)'
  BY <1>4, <1>5 DEF Counted
<1> QED
  BY <1>14, <1>15, <1>16, <1>17, <1>18 DEF Inv

-----------------------------------------------------------------------------
(* All slots have signed.                                                  *)

LEMMA StoreStep ==
  ASSUME NEW x \in Args, args = x, Inv(x), NEW k \in WorkersOf(x), StoreSignatures(k)
  PROVE  Inv(x)'
<1> DEFINE W == WorkersOf(x)
<1>1. PICK i : i = epoch[k]
  OBVIOUS
<1>2. TypeOK(x) /\ InPlace(x) /\ Drawn(x) /\ InChannel(x) /\ InHands(x)
      /\ GenesisKept(x) /\ StoredSoFar(x) /\ Counted(x)
  BY DEF Inv
<1>3. PICK after : after = IF ReportDue(k, i) THEN "report"
                           ELSE IF i + 1 < Start(x, k + 1) THEN "sign" ELSE "done"
  OBVIOUS
<1>4. /\ pc[k] = "sign" /\ Len(quorumSigs[k]) = Quorum
      /\ sigs' = [sigs EXCEPT ![i + 1] = quorumSigs[k]]
      /\ multiSigs' = [multiSigs EXCEPT ![i + 1] = quorumSigs[k]]
      /\ quorumSigs' = [quorumSigs EXCEPT ![k] = <<>>]
      /\ epoch' = [epoch EXCEPT ![k] = i + 1]
      /\ pc' = [pc EXCEPT ![k] = after]
      /\ signingKeys' = signingKeys /\ keyChans' = keyChans /\ heap' = heap
      /\ breaks' = breaks /\ apks' = apks /\ finished' = finished
  BY <1>1, <1>3 DEF StoreSignatures, EndOf
<1>5. /\ k \in W /\ pc \in [W -> Pcs] /\ epoch \in [W -> Nat]
      /\ DOMAIN quorumSigs = W /\ DOMAIN heap = RefsOf(x)
      /\ DOMAIN sigs = 1 .. x.length /\ DOMAIN multiSigs = 1 .. x.length
  BY <1>2 DEF TypeOK, Over
<1>6. i \in Start(x, k) .. Start(x, k + 1) - 1 /\ quorumSigs[k] = Signed(x, i, Quorum)
  BY <1>1, <1>2, <1>4, <1>5 DEF InPlace
<1>7. /\ Start(x, k) \in Nat /\ Start(x, k + 1) \in Nat /\ Start(x, k + 1) <= x.length
      /\ x.length \in Nat
  BY BreakFacts, StartFacts, NumberFacts
<1>8. i \in Nat /\ i + 1 \in Nat /\ i + 1 \in 1 .. x.length
  BY <1>6, <1>7
<1>9. /\ after \in {"report", "sign", "done"}
      /\ after = "sign" => i + 1 < Start(x, k + 1)
      /\ after = "done" => i + 1 = Start(x, k + 1)
  BY <1>3, <1>6, <1>7
<1>10. /\ pc'[k] = after /\ epoch'[k] = i + 1 /\ quorumSigs'[k] = <<>>
       /\ \A l \in W : l # k => /\ pc'[l] = pc[l] /\ epoch'[l] = epoch[l]
                                /\ quorumSigs'[l] = quorumSigs[l]
       /\ pc' \in [W -> Pcs] /\ epoch' \in [W -> Nat]
  BY <1>4, <1>5, <1>8, <1>9 DEF Pcs
<1>11. Len(<<>>) = 0 /\ 0 \in 0 .. Quorum /\ Signed(x, i + 1, 0) = <<>>
  BY <1>8, NoneSigned, QuorumAssumption
<1>12. Drawn(x)' /\ InChannel(x)' /\ InHands(x)' /\ GenesisKept(x)'
  <2>1. heap[signingKeys[k]] = Held(x, i, Quorum)
    BY <1>1, <1>2, <1>4, <1>5 DEF InHands
  <2>2. Held(x, i, Quorum) = Held(x, i + 1, 0)
    BY <1>8, AllSigned, NoneSigned
  <2>3. heap'[signingKeys[k]] = Held(x, epoch'[k], Len(quorumSigs'[k]))
    BY <1>4, <1>10, <1>11, <2>1, <2>2
  <2>4. pc'[k] # "keys" /\ pc[k] # "keys"
    BY <1>4, <1>9, <1>10
  <2> QED
    BY <1>4, <1>10, <2>3, <2>4, AfterKeys
<1> HIDE DEF W
<1>13. TypeOK(x)'
  <2>1. Over(quorumSigs', W) /\ Over(sigs', 1 .. x.length) /\ Over(multiSigs', 1 .. x.length)
    BY <1>2, <1>4 DEF Over, TypeOK, W
  <2> QED
    BY <1>2, <1>4, <1>10, <2>1 DEF TypeOK, W
<1>14. InPlace(x)'
  <2> SUFFICES ASSUME NEW l \in W
               PROVE  /\ pc'[l] = "keys" =>
                           /\ epoch'[l] % x.periodLength = 0 /\ FirstBreakIn(x, l) <= epoch'[l]
                           /\ signingKeys'[l] = <<>>
                      /\ pc'[l] = "sign" => epoch'[l] \in Start(x, l) .. Start(x, l + 1) - 1
                      /\ pc'[l] = "report" => epoch'[l] \in Start(x, l) .. Start(x, l + 1)
                      /\ pc'[l] \in {"done", "exited"} => epoch'[l] = Start(x, l + 1)
                      /\ pc'[l] # "sign" => quorumSigs'[l] = <<>>
                      /\ Len(quorumSigs'[l]) \in 0 .. Quorum
                      /\ quorumSigs'[l] = Signed(x, epoch'[l], Len(quorumSigs'[l]))
    BY DEF InPlace, W
  <2>1. CASE l = k
    <3>1. /\ i + 1 \in Start(x, k) .. Start(x, k + 1)
          /\ after = "sign" => i + 1 \in Start(x, k) .. Start(x, k + 1) - 1
      BY <1>6, <1>7, <1>9
    <3> QED
      BY <1>9, <1>10, <1>11, <2>1, <3>1
  <2>2. CASE l # k
    BY <1>2, <1>4, <1>10, <2>2 DEF InPlace, W
  <2> QED
    BY <2>1, <2>2
<1>15. StoredSoFar(x)'
  <2> SUFFICES ASSUME NEW l \in W, pc'[l] # "keys", NEW e \in Start(x, l) .. epoch'[l] - 1
               PROVE  sigs'[e + 1] = Signed(x, e, Quorum) /\ multiSigs'[e + 1] = Signed(x, e, Quorum)
    BY DEF StoredSoFar, W
  <2>1. e \in Nat
    <3>1. Start(x, l) \in Nat /\ epoch'[l] \in Nat
      BY <1>10, BreakFacts DEF W
    <3> QED
      BY <3>1
  <2>2. CASE e = i
    BY <1>4, <1>5, <1>6, <1>8, <2>2
  <2>3. CASE e # i
    <3>1. pc[l] # "keys" /\ e \in Start(x, l) .. epoch[l] - 1
      <4>1. CASE l = k
        BY <1>1, <1>4, <1>7, <1>8, <1>10, <2>1, <2>3, <4>1
      <4>2. CASE l # k
        BY <1>10, <4>2
      <4> QED
        BY <4>1, <4>2
    <3>2. sigs[e + 1] = Signed(x, e, Quorum) /\ multiSigs[e + 1] = Signed(x, e, Quorum)
      BY <1>2, <3>1 DEF StoredSoFar, W
    <3>3. e + 1 # i + 1
      BY <1>8, <2>1, <2>3
    <3> QED
      BY <1>4, <3>2, <3>3
  <2> QED
    BY <2>2, <2>3
<1>16. Counted(x)'
  <2>1. {l \in W : pc'[l] = "exited"} = {l \in W : pc[l] = "exited"}
    BY <1>4, <1>9, <1>10
  <2> QED
    BY <1>2, <1>4, <2>1 DEF Counted, W
<1> QED
  BY <1>12, <1>13, <1>14, <1>15, <1>16 DEF Inv

-----------------------------------------------------------------------------
(* The main goroutine receives a report or a completion.                   *)

LEMMA ReceiveStep ==
  ASSUME NEW x \in Args, args = x, Inv(x), NEW k \in WorkersOf(x),
         ReceiveBatch(k) \/ ReceiveDone(k)
  PROVE  Inv(x)'
<1> DEFINE W == WorkersOf(x)
<1>1. PICK i : i = epoch[k]
  OBVIOUS
<1>2. TypeOK(x) /\ InPlace(x) /\ Drawn(x) /\ InChannel(x) /\ InHands(x)
      /\ GenesisKept(x) /\ StoredSoFar(x) /\ Counted(x)
  BY DEF Inv
<1>3. PICK after : after = IF ReceiveDone(k) THEN "exited"
                           ELSE IF i < Start(x, k + 1) THEN "sign" ELSE "done"
  OBVIOUS
<1>4. /\ pc[k] = (IF after = "exited" THEN "done" ELSE "report")
      /\ finished' = (IF after = "exited" THEN finished + 1 ELSE finished)
      /\ pc' = [pc EXCEPT ![k] = after]
      /\ epoch' = epoch /\ quorumSigs' = quorumSigs
      /\ signingKeys' = signingKeys /\ keyChans' = keyChans /\ heap' = heap
      /\ breaks' = breaks /\ apks' = apks /\ sigs' = sigs /\ multiSigs' = multiSigs
  <2>1. CASE ReceiveDone(k)
    BY <1>3, <2>1 DEF ReceiveDone
  <2>2. CASE ~ReceiveDone(k)
    BY <1>1, <1>3, <2>2 DEF ReceiveBatch, EndOf
  <2> QED
    BY <2>1, <2>2
<1>5. /\ k \in W /\ pc \in [W -> Pcs] /\ epoch \in [W -> Nat] /\ i \in Nat
      /\ Start(x, k) \in Nat /\ Start(x, k + 1) \in Nat
  BY <1>1, <1>2, BreakFacts DEF TypeOK
<1>6. /\ i \in Start(x, k) .. Start(x, k + 1)
      /\ after \in {"exited", "sign", "done"}
      /\ after = "sign" => i < Start(x, k + 1)
      /\ after # "sign" => i = Start(x, k + 1)
  <2>1. Start(x, k) < Start(x, k + 1)
    BY StartFacts, BreakFacts
  <2>2. /\ pc[k] = "report" => i \in Start(x, k) .. Start(x, k + 1)
        /\ pc[k] = "done" => i = Start(x, k + 1)
    BY <1>1, <1>2 DEF InPlace
  <2>3. CASE after = "exited"
    BY <1>4, <1>5, <2>1, <2>2, <2>3
  <2>4. CASE after # "exited"
    BY <1>3, <1>4, <1>5, <2>2, <2>4
  <2> QED
    BY <2>3, <2>4
<1>7. /\ pc'[k] = after /\ \A l \in W : l # k => pc'[l] = pc[l]
      /\ pc' \in [W -> Pcs]
      /\ pc[k] # "keys" /\ pc[k] # "sign" /\ pc[k] # "exited" /\ pc'[k] # "keys"
  BY <1>4, <1>5, <1>6 DEF Pcs
<1>8. Drawn(x)' /\ InChannel(x)' /\ InHands(x)' /\ GenesisKept(x)'
  <2>1. heap'[signingKeys[k]] = Held(x, epoch'[k], Len(quorumSigs'[k]))
    BY <1>2, <1>4, <1>5, <1>7 DEF InHands
  <2> QED
    BY <1>4, <1>5, <1>7, <2>1, AfterKeys
<1>9. TypeOK(x)'
  BY <1>2, <1>4, <1>7 DEF TypeOK
<1>10. InPlace(x)'
  <2> SUFFICES ASSUME NEW l \in W
               PROVE  /\ pc'[l] = "keys" =>
                           /\ epoch[l] % x.periodLength = 0 /\ FirstBreakIn(x, l) <= epoch[l]
                           /\ signingKeys[l] = <<>>
                      /\ pc'[l] = "sign" => epoch[l] \in Start(x, l) .. Start(x, l + 1) - 1
                      /\ pc'[l] = "report" => epoch[l] \in Start(x, l) .. Start(x, l + 1)
                      /\ pc'[l] \in {"done", "exited"} => epoch[l] = Start(x, l + 1)
                      /\ pc'[l] # "sign" => quorumSigs[l] = <<>>
                      /\ Len(quorumSigs[l]) \in 0 .. Quorum
                      /\ quorumSigs[l] = Signed(x, epoch[l], Len(quorumSigs[l]))
    BY <1>4 DEF InPlace
  <2> HIDE DEF W
  <2>1. CASE l = k
    <3>1. after = "sign" => i \in Start(x, k) .. Start(x, k + 1) - 1
      BY <1>5, <1>6
    <3> QED
      BY <1>1, <1>2, <1>5, <1>6, <1>7, <2>1, <3>1 DEF InPlace, W
  <2>2. CASE l # k
    BY <1>2, <1>7, <2>2 DEF InPlace, W
  <2> QED
    BY <2>1, <2>2
<1>11. StoredSoFar(x)'
  <2>1. \A l \in W : pc'[l] # "keys" => pc[l] # "keys"
    BY <1>7
  <2> QED
    BY <1>2, <1>4, <2>1 DEF StoredSoFar
<1>12. Counted(x)'
  <2> DEFINE Exited == {l \in W : pc[l] = "exited"}
  <2>1. IsFiniteSet(W)
    BY NumberFacts, FS_Interval DEF WorkersOf
  <2>2. IsFiniteSet(Exited) /\ k \notin Exited
    BY <1>7, <2>1, FS_Subset
  <2>3. finished = Cardinality(Exited)
    BY <1>2 DEF Counted
  <2>4. CASE after = "exited"
    <3>1. {l \in W : pc'[l] = "exited"} = Exited \cup {k}
      BY <1>5, <1>7, <2>4
    <3>2. Cardinality(Exited \cup {k}) = Cardinality(Exited) + 1
      BY <2>2, FS_AddElement
    <3> QED
      BY <1>4, <2>3, <2>4, <3>1, <3>2 DEF Counted
  <2>5. CASE after # "exited"
    <3>1. {l \in W : pc'[l] = "exited"} = Exited
      BY <1>7, <2>5
    <3> QED
      BY <1>4, <2>3, <2>5, <3>1 DEF Counted
  <2> QED
    BY <2>4, <2>5
<1> QED
  BY <1>8, <1>9, <1>10, <1>11, <1>12 DEF Inv

-----------------------------------------------------------------------------
(* Theorems.                                                               *)

LEMMA InitEstablishesInv ==
  ASSUME NEW x \in Args, args = x, Init
  PROVE  Inv(x)
<1> DEFINE W == WorkersOf(x)
<1>1. Workers = W /\ Refs = RefsOf(x) /\ CeilDiv(length, periodLength) = Turn(x, x.length)
      /\ length = x.length
  BY DEF Workers, WorkersOf, n, Refs, RefsOf, length, periodLength, Turn, BreaksIn, BreaksOf,
         StartOf, EndOf, IsBreak, IndexOf, Index, FirstBreakOf
<1>2. /\ pc = [k \in W |-> "keys"]
      /\ epoch = [k \in W |-> FirstBreakIn(x, k)]
      /\ quorumSigs = [k \in W |-> <<>>]
      /\ signingKeys = [k \in W |-> <<>>]
      /\ keyChans = [k \in W |-> <<>>]
      /\ heap = [ref \in RefsOf(x) |-> IF ref = GenesisRef THEN KeysOfQuorum(0) ELSE <<>>]
      /\ breaks = [q \in QuorumsOf(x) |-> NoBreakYet]
      /\ apks = [q \in QuorumsOf(x) |-> NoKeys]
      /\ sigs = [e \in 1 .. x.length |-> Unsigned]
      /\ multiSigs = [e \in 1 .. x.length |-> Unsigned]
      /\ finished = 0
  BY <1>1 DEF Init, FirstBreakOf, QuorumsOf
<1>3. \A k \in W : FirstBreakIn(x, k) \in Nat /\ FirstBreakIn(x, k) % x.periodLength = 0
  BY BreakFacts
<1>4. TypeOK(x)
  BY <1>2, <1>3 DEF TypeOK, Over, Pcs
<1>5. InPlace(x)
  <2>1. \A k \in W : Signed(x, FirstBreakIn(x, k), 0) = <<>>
    BY <1>3, NoneSigned
  <2>2. Len(<<>>) = 0 /\ 0 \in 0 .. Quorum
    BY QuorumAssumption
  <2> QED
    BY <1>2, <1>3, <2>1, <2>2 DEF InPlace
<1>6. Drawn(x)
  <2>1. \A k \in W : \A i \in BreaksOf(x, k) : ~(i < FirstBreakIn(x, k))
    BY BreakIn, BreakFacts, NumberFacts
  <2> QED
    BY <1>2, <2>1 DEF Drawn
<1>7. InChannel(x)
  BY <1>2 DEF InChannel
<1>8. InHands(x) /\ StoredSoFar(x)
  BY <1>2 DEF InHands, StoredSoFar
<1>9. GenesisKept(x)
  BY <1>2 DEF GenesisKept, RefsOf
<1>10. Counted(x)
  <2>1. {k \in W : pc[k] = "exited"} = {}
    BY <1>2
  <2> QED
    BY <1>2, <2>1, FS_EmptySet DEF Counted
<1> QED
  BY <1>4, <1>5, <1>6, <1>7, <1>8, <1>9, <1>10 DEF Inv

LEMMA StutterKeepsInv ==
  ASSUME NEW x \in Args, Inv(x), UNCHANGED vars
  PROVE  Inv(x)'
<1> USE DEF vars
<1>1. \A k, ref : Lent(x, k, ref) => Lent(x, k, ref)'
  BY DEF Lent, PassedOn
<1>2. \A k : PassedOn(x, k) => PassedOn(x, k)'
  BY DEF PassedOn
<1>3. InChannel(x)'
  <2> SUFFICES ASSUME NEW k \in WorkersOf(x), keyChans[k] # <<>>
               PROVE  /\ keyChans[k] = <<keyChans[k][1]>>
                      /\ Lent(x, k + 1, keyChans[k][1])'
                      /\ heap[keyChans[k][1]] = KeysOfQuorum(Turn(x, Start(x, k + 1)))
                      /\ PassedOn(x, k)'
                      /\ k + 1 \in WorkersOf(x) => pc[k + 1] = "keys"
    BY DEF InChannel
  <2>1. PICK ref : ref = keyChans[k][1]
    OBVIOUS
  <2>2. Lent(x, k + 1, ref)'
    BY <1>1, <2>1 DEF Inv, InChannel
  <2>3. Lent(x, k + 1, keyChans[k][1])'
    BY <2>1, <2>2
  <2> QED
    BY <1>2, <2>3 DEF Inv, InChannel
<1>4. InHands(x)'
  <2> SUFFICES ASSUME NEW k \in WorkersOf(x), pc[k] # "keys"
               PROVE  /\ Lent(x, k, signingKeys[k])'
                      /\ heap[signingKeys[k]] = Held(x, epoch[k], Len(quorumSigs[k]))
                      /\ k > 0 => PassedOn(x, k - 1)'
    BY DEF InHands
  <2>1. PICK ref : ref = signingKeys[k]
    OBVIOUS
  <2>2. Lent(x, k, ref)'
    BY <1>1, <2>1 DEF Inv, InHands
  <2>3. Lent(x, k, signingKeys[k])'
    BY <2>1, <2>2
  <2> QED
    BY <1>2, <2>3 DEF Inv, InHands
<1>5. TypeOK(x)' /\ InPlace(x)'
  BY DEF Inv, TypeOK, Over, InPlace
<1>6. Drawn(x)' /\ GenesisKept(x)' /\ StoredSoFar(x)' /\ Counted(x)'
  BY DEF Inv, Drawn, GenesisKept, StoredSoFar, Counted
<1> QED
  BY <1>3, <1>4, <1>5, <1>6 DEF Inv

LEMMA NextKeepsIInv ==
  ASSUME IInv, [Next]_vars
  PROVE  IInv'
<1>1. PICK x \in Args : args = x
  BY DEF IInv
<1>2. Inv(x)
  BY <1>1 DEF IInv
<1>3. \A k \in Workers : k \in WorkersOf(x)
  BY <1>1 DEF Workers, WorkersOf, n
<1>4. args' = x /\ Inv(x)'
  <2>1. ASSUME NEW k \in Workers, CreateCommittee(k) PROVE args' = x /\ Inv(x)'
    BY <1>1, <1>2, <1>3, <2>1, CreateStep DEF CreateCommittee
  <2>2. ASSUME NEW k \in Workers, TakeKeys(k) PROVE args' = x /\ Inv(x)'
    BY <1>1, <1>2, <1>3, <2>2, TakeStep DEF TakeKeys
  <2>3. ASSUME NEW k \in Workers, SignSlot(k) PROVE args' = x /\ Inv(x)'
    BY <1>1, <1>2, <1>3, <2>3, SignStep DEF SignSlot
  <2>4. ASSUME NEW k \in Workers, StoreSignatures(k) PROVE args' = x /\ Inv(x)'
    BY <1>1, <1>2, <1>3, <2>4, StoreStep DEF StoreSignatures
  <2>5. ASSUME NEW k \in Workers, ReceiveBatch(k) \/ ReceiveDone(k) PROVE args' = x /\ Inv(x)'
    BY <1>1, <1>2, <1>3, <2>5, ReceiveStep DEF ReceiveBatch, ReceiveDone
  <2>6. CASE UNCHANGED vars
    <3>1. args' = x
      BY <1>1, <2>6 DEF vars
    <3> QED
      BY <1>2, <2>6, <3>1, StutterKeepsInv
  <2> QED
    BY <2>1, <2>2, <2>3, <2>4, <2>5, <2>6 DEF Next, Worker, Returned
<1>5. PICK y \in Args : y = args'
  BY <1>4
<1> QED
  BY <1>4 DEF IInv

\* The inductive invariant: of every worker, where its keys come from and how
\* far slice, signatures and the chain's arrays have got.
THEOREM CreationInvariance == Spec => []IInv
<1>1. Init => IInv
  <2> SUFFICES ASSUME Init PROVE IInv
    OBVIOUS
  <2>1. PICK x \in Args : args = x
    BY DEF Init
  <2>2. Inv(x)
    BY <2>1, InitEstablishesInv
  <2> QED
    BY <2>1, <2>2 DEF IInv
<1>2. IInv /\ [Next]_vars => IInv'
  BY NextKeepsIInv
<1> QED
  BY <1>1, <1>2, PTL DEF Spec

\* The key in each slot that is about to sign is that of the quorum in force
\* ("The static quora sign the apks", main.go:99), whoever else holds the slice.
THEOREM SlotsSignInForce == Spec => []SlotInForce
<1>1. IInv => SlotInForce
  <2> SUFFICES ASSUME IInv, NEW k \in Workers, pc[k] = "sign", Len(quorumSigs[k]) < Quorum
               PROVE  LET j == Len(quorumSigs[k]) + 1
                          key == heap[signingKeys[k]][j]
                      IN  key[2] = j /\ InForce([y \in DOMAIN breaks |-> (y - 1) * periodLength + 1],
                                                key[1], epoch[k] + 1)
    BY DEF SlotInForce
  <2>1. PICK x \in Args : args = x
    BY DEF IInv
  <2>2. Inv(x) /\ k \in WorkersOf(x) /\ periodLength = x.periodLength
    BY <2>1 DEF IInv, Workers, WorkersOf, n, periodLength
  <2>3. PICK i : i = epoch[k]
    OBVIOUS
  <2>4. PICK m : m = Len(quorumSigs[k])
    OBVIOUS
  <2>5. m \in 0 .. Quorum /\ i \in Start(x, k) .. Start(x, k + 1) - 1
    BY <2>2, <2>3, <2>4 DEF Inv, InPlace
  <2>6. m + 1 \in 1 .. Quorum /\ ~(m + 1 <= m)
    BY <2>4, <2>5, QuorumAssumption
  <2>7. heap[signingKeys[k]] = Held(x, i, m)
    BY <2>2, <2>3, <2>4 DEF Inv, InHands
  <2>8. heap[signingKeys[k]][m + 1] = <<Turn(x, i), m + 1>>
    BY <2>6, <2>7 DEF Held
  <2>9. i \in 0 .. x.length - 1
    <3>1. /\ Start(x, k) \in Nat /\ Start(x, k + 1) \in Nat /\ Start(x, k + 1) <= x.length
          /\ x.length \in Nat
      BY <2>2, BreakFacts, StartFacts, NumberFacts
    <3> QED
      BY <2>5, <3>1
  <2>10. [y \in DOMAIN breaks |-> (y - 1) * periodLength + 1] = BreaksBuilt(x)
    BY <2>2 DEF Inv, TypeOK, Over, BreaksBuilt
  <2>11. InForce(BreaksBuilt(x), Turn(x, i), i + 1)
    BY <2>9, TurnInForce
  <2> QED
    BY <2>3, <2>4, <2>8, <2>10, <2>11
<1> QED
  BY <1>1, CreationInvariance, PTL

\* The slice that a worker will still overwrite is in nobody else's hands,
\* which is what the TODO of main.go:50 is about.
THEOREM SlicesPrivate == Spec => []OverwrittenSliceIsPrivate
<1>1. IInv => OverwrittenSliceIsPrivate
  <2> SUFFICES ASSUME IInv, NEW k \in Workers, NEW l \in Workers, k # l, pc[k] = "sign",
                      pc[l] \in {"keys", "sign", "report"},
                      NEW b \in BreaksIn(k), b >= epoch[k]
               PROVE  /\ signingKeys[l] # signingKeys[k]
                      /\ \A i \in BreaksIn(l) : PrivRef(l, IndexOf(l, i)) # signingKeys[k]
    BY DEF OverwrittenSliceIsPrivate
  <2>1. PICK x \in Args : args = x
    BY DEF IInv
  <2>2. Inv(x) /\ k \in WorkersOf(x) /\ l \in WorkersOf(x)
    BY <2>1 DEF IInv, Workers, WorkersOf, n
  <2>3. b \in BreaksOf(x, k)
    BY <2>1 DEF BreaksIn, BreaksOf, StartOf, EndOf, IsBreak, periodLength
  <2>4. HasBreakIn(x, k)
    BY <2>2, <2>3, BreakIn
  <2>5. PICK ref : ref = signingKeys[k]
    OBVIOUS
  <2>6. Lent(x, k, ref)
    BY <2>2, <2>5 DEF Inv, InHands
  <2>7. ref = GenesisRef \/ \E y : ref = SentRef(y)
    BY <2>6 DEF Lent
  <2>8. signingKeys[l] # ref
    <3>1. CASE pc[l] = "keys"
      <4>1. signingKeys[l] = <<>>
        BY <2>2, <3>1 DEF Inv, InPlace
      <4>2. GenesisRef # <<>> /\ \A y : SentRef(y) # <<>>
        BY DEF GenesisRef, SentRef
      <4> QED
        BY <2>7, <4>1, <4>2
    <3>2. CASE pc[l] # "keys"
      <4> SUFFICES ASSUME signingKeys[l] = ref PROVE FALSE
        OBVIOUS
      <4>1. Lent(x, l, ref)
        BY <2>2, <3>2 DEF Inv, InHands
      <4>2. l \in 0 .. Number(x)
        BY <2>2, NumberFacts DEF WorkersOf
      <4> QED
        BY <2>2, <2>4, <2>6, <4>1, <4>2, Exclusive
    <3> QED
      BY <3>1, <3>2
  <2> QED
    BY <2>5, <2>7, <2>8, Distinct
<1> QED
  BY <1>1, CreationInvariance, PTL
LEMMA AllExited ==
  ASSUME NEW x \in Args, Inv(x), finished = Number(x)
  PROVE  \A k \in WorkersOf(x) : pc[k] = "exited" /\ epoch[k] = Start(x, k + 1)
<1> DEFINE W == WorkersOf(x)
           Exited == {k \in W : pc[k] = "exited"}
<1>1. Number(x) \in Nat \ {0}
  BY NumberFacts
<1>2. IsFiniteSet(W) /\ Cardinality(W) = Number(x)
  BY <1>1, FS_Interval DEF WorkersOf
<1>3. Cardinality(Exited) = Number(x)
  BY DEF Inv, Counted
<1> HIDE DEF W
<1>4. Exited = W
  <2>1. Exited \subseteq W
    OBVIOUS
  <2> HIDE DEF Exited
  <2> QED
    BY <1>2, <1>3, <2>1, FS_Subset
<1> QED
  BY <1>4 DEF Inv, InPlace, W

\* What newTestProver returns is the well-formed chain that the answers of the
\* full node, and all theorems about LightClient, start from.
THEOREM CreatesWellFormedChain == Spec => []ChainWellFormed
<1>1. IInv => ChainWellFormed
  <2> SUFFICES ASSUME IInv, finished = n PROVE WellFormed(Built)
    BY DEF ChainWellFormed
  <2>1. PICK x \in Args : args = x
    BY DEF IInv
  <2>2. Inv(x) /\ finished = Number(x)
    BY <2>1 DEF IInv, n
  <2>3. \A k \in WorkersOf(x) : pc[k] = "exited" /\ epoch[k] = Start(x, k + 1)
    BY <2>2, AllExited
  <2>4. /\ x.length \in Nat \ {0} /\ x.periodLength \in Nat \ {0}
        /\ Turn(x, x.length) \in Nat
    BY NumberFacts, CeilBounds DEF Turn
  <2>5. \A i \in 0 .. x.length - 1 :
          sigs[i + 1] = Signed(x, i, Quorum) /\ multiSigs[i + 1] = Signed(x, i, Quorum)
    BY <2>2, <2>3, Owner DEF Inv, StoredSoFar
  <2>6. \A q \in QuorumsOf(x) :
          apks[q] = Apk(q) /\ breaks[q] = (q - 1) * x.periodLength + 1
    <3> TAKE q \in QuorumsOf(x)
    <3>1. PICK i \in 0 .. x.length - 1 : i = (q - 1) * x.periodLength
      BY QuorumBreak
    <3>2. i % x.periodLength = 0 /\ i \div x.periodLength = q - 1 /\ q \in Nat
      BY <2>4, <3>1, QuorumBreak DEF QuorumsOf
    <3>3. PICK k \in WorkersOf(x) : i \in Start(x, k) .. Start(x, k + 1) - 1
      BY Owner
    <3>4. i \in BreaksOf(x, k)
      BY <3>2, <3>3 DEF BreaksOf
    <3>5. /\ apks[i \div x.periodLength + 1] = Apk(i \div x.periodLength + 1)
          /\ breaks[i \div x.periodLength + 1] = BreakEpoch(i)
      BY <2>2, <2>3, <3>4 DEF Inv, Drawn
    <3>6. i \div x.periodLength + 1 = q
      BY <3>2
    <3> QED
      BY <3>1, <3>5, <3>6 DEF BreakEpoch
  <2>7. breaks = BreaksBuilt(x) /\ apks = [q \in QuorumsOf(x) |-> Apk(q)]
    BY <2>2, <2>6 DEF Inv, TypeOK, Over, BreaksBuilt
  <2>8. DOMAIN sigs = 1 .. x.length /\ DOMAIN multiSigs = 1 .. x.length
    BY <2>2 DEF Inv, TypeOK, Over
  <2>9. sigs = [e \in 1 .. x.length |-> sigs[e]] /\ multiSigs = [e \in 1 .. x.length |-> multiSigs[e]]
    BY <2>2 DEF Inv, TypeOK, Over
  <2>10. Len(sigs) = x.length /\ Len(multiSigs) = x.length
    BY <2>4, <2>8, <2>9
  <2>11. /\ DOMAIN breaks = QuorumsOf(x) /\ DOMAIN breaks = 1 .. Len(breaks)
         /\ Len(breaks) = Turn(x, x.length)
    BY <2>4, <2>7 DEF BreaksBuilt, QuorumsOf
  <2>12. \A q \in QuorumsOf(x) : breaks[q] \in 1 .. x.length
    <3> TAKE q \in QuorumsOf(x)
    <3>1. (q - 1) * x.periodLength \in 0 .. x.length - 1
      BY QuorumBreak
    <3> QED
      BY <2>4, <2>6, <3>1
  <2>13. breaks \in Seq(Nat)
    <3>1. breaks \in [1 .. Turn(x, x.length) -> Nat]
      BY <2>4, <2>7, <2>12 DEF BreaksBuilt, QuorumsOf
    <3> QED
      BY <2>4, <3>1
  <2>14. 1 \in QuorumsOf(x) /\ breaks # <<>> /\ breaks[1] = 1
    <3>1. 0 \in 0 .. x.length - 1 /\ 0 % x.periodLength = 0 /\ 0 \div x.periodLength = 0
      <4>1. 0 % x.periodLength = 0 /\ 0 \div x.periodLength = 0
        BY <2>4, ZeroMultiple
      <4> QED
        BY <2>4, <4>1
    <3>2. 1 \in QuorumsOf(x)
      BY <3>1, TurnRange
    <3>3. (1 - 1) * x.periodLength = 0
      BY <2>4, SMT
    <3>4. breaks[1] = (1 - 1) * x.periodLength + 1
      BY <2>6, <3>2
    <3> QED
      BY <2>11, <3>2, <3>3, <3>4
  <2>15. \A a, b \in DOMAIN breaks : a < b => breaks[a] < breaks[b]
    <3> SUFFICES ASSUME NEW a \in QuorumsOf(x), NEW b \in QuorumsOf(x), a < b
                 PROVE  breaks[a] < breaks[b]
      BY <2>11
    <3>1. a - 1 \in Nat /\ b - 1 \in Nat /\ a - 1 < b - 1
      BY <2>4 DEF QuorumsOf
    <3>2. /\ (a - 1) * x.periodLength + x.periodLength <= (b - 1) * x.periodLength
          /\ (a - 1) * x.periodLength \in Nat /\ (b - 1) * x.periodLength \in Nat
      BY <2>4, <3>1, MulStep
    <3>3. /\ breaks[a] = (a - 1) * x.periodLength + 1
          /\ breaks[b] = (b - 1) * x.periodLength + 1
      BY <2>6
    <3> QED
      BY <2>4, <3>2, <3>3
  <2>16. ASSUME NEW e \in DOMAIN sigs
         PROVE  /\ multiSigs[e] = sigs[e]
                /\ \E q \in 0 .. Len(breaks) :
                     /\ InForce(breaks, q, e)
                     /\ sigs[e] = [j \in 1 .. Quorum |-> ExpectedSignature(breaks, q, j, e)]
    <3>1. e - 1 \in 0 .. x.length - 1 /\ (e - 1) + 1 = e
      BY <2>4, <2>8
    <3>2. sigs[e] = Signed(x, e - 1, Quorum) /\ multiSigs[e] = Signed(x, e - 1, Quorum)
      BY <2>5, <3>1
    <3>3. Turn(x, e - 1) \in 0 .. Len(breaks)
      BY <2>11, <3>1, TurnRange
    <3>4. InForce(breaks, Turn(x, e - 1), e)
      BY <2>7, <3>1, TurnInForce
    <3>5. sigs[e] = [j \in 1 .. Quorum |-> ExpectedSignature(breaks, Turn(x, e - 1), j, e)]
      BY <2>7, <3>1, <3>2, SignedAsExpected
    <3> QED
      BY <3>2, <3>3, <3>4, <3>5
  <2>17. Built.GenesisApk = Apk(0) /\ Built.Breaks = breaks /\ Built.Apks = apks
         /\ Built.Signatures = sigs /\ Built.Multisigs = multiSigs
    BY DEF Built
  <2>18. apks = [q \in 1 .. Len(breaks) |-> Apk(q)]
    BY <2>7, <2>11 DEF QuorumsOf
  <2>19. PICK p : p = Built
    OBVIOUS
  <2>20. /\ p.GenesisApk = Apk(0) /\ p.Breaks = breaks /\ p.Apks = apks
         /\ p.Signatures = sigs /\ p.Multisigs = multiSigs
    BY <2>17, <2>19
  <2>21. /\ p.Breaks \in Seq(Nat) /\ p.Breaks # <<>> /\ p.Breaks[1] = 1
         /\ \A a, b \in DOMAIN p.Breaks : a < b => p.Breaks[a] < p.Breaks[b]
    BY <2>13, <2>14, <2>15, <2>20
  <2>22. \A q \in DOMAIN p.Breaks : p.Breaks[q] \in 1 .. Len(p.Signatures)
    BY <2>10, <2>11, <2>12, <2>20
  <2>23. /\ p.GenesisApk = Apk(0) /\ p.Apks = [q \in 1 .. Len(p.Breaks) |-> Apk(q)]
         /\ Len(p.Signatures) \in Nat /\ DOMAIN p.Signatures = 1 .. Len(p.Signatures)
         /\ Len(p.Multisigs) = Len(p.Signatures)
    BY <2>4, <2>8, <2>10, <2>18, <2>20
  <2>24. \A e \in DOMAIN p.Signatures :
           /\ p.Multisigs[e] = p.Signatures[e]
           /\ \E q \in 0 .. Len(p.Breaks) :
                /\ InForce(p.Breaks, q, e)
                /\ p.Signatures[e] =
                     [j \in 1 .. Quorum |-> ExpectedSignature(p.Breaks, q, j, e)]
    BY <2>16, <2>20
  <2>25. WellFormed(p)
    BY <2>21, <2>22, <2>23, <2>24 DEF WellFormed
  <2> QED
    BY <2>19, <2>25
<1> QED
  BY <1>1, CreationInvariance, PTL
=============================================================================
