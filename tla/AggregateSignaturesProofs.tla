--------------------- MODULE AggregateSignaturesProofs ---------------------
(***************************************************************************)
(* Proofs about AggregateSignatures, for every number of signatures, every *)
(* number of CPUs, every set of inputs that decode and every order in      *)
(* which the goroutines work and deliver.                                  *)
(***************************************************************************)
EXTENDS AggregateSignatures, FiniteSetTheorems, WellFoundedInduction, TLAPS

USE LenAssumption, CPUAssumption

-----------------------------------------------------------------------------
(* Induction over the natural numbers, for sets.                           *)

Less == {pair \in Nat \X Nat : pair[1] < pair[2]}

LEMMA LessWellFounded == IsWellFoundedOn(Less, Nat)
<1>1. Less = OpToRel(<, Nat)
  BY DEF Less, OpToRel
<1> QED
  BY <1>1, NatLessThanWellFounded

LEMMA SetInduction ==
  ASSUME NEW S, 0 \in S, \A k \in Nat : k \in S => k + 1 \in S
  PROVE  Nat \subseteq S
<1> DEFINE T == Nat \ S
<1> SUFFICES ASSUME T # {} PROVE FALSE
  OBVIOUS
<1>1. PICK x \in T : \A y \in T : ~ (<<y, x>> \in Less)
  <2> HIDE DEF T
  <2>1. T \subseteq Nat
    BY DEF T
  <2> QED
    BY <2>1, LessWellFounded, WFMin
<1>2. x \in Nat /\ x # 0
  BY <1>1
<1>3. x - 1 \in T
  BY <1>2
<1>4. <<x - 1, x>> \in Less
  BY <1>2, <1>3 DEF Less
<1> QED
  BY <1>1, <1>3, <1>4

-----------------------------------------------------------------------------
(* How the signatures are divided.                                         *)

LEMMA Division ==
  ASSUME NEW a \in Nat, NEW b \in Nat \ {0}
  PROVE  /\ a \div b \in Nat
         /\ b * (a \div b) <= a
         /\ a < b * (a \div b) + b
OBVIOUS

\* What len and NumCPU may be.
SizesOK == len \in Nat /\ numCPU \in Nat \ {0}

\* The end of the source, exclusive there.
ChunkEnd(g) == ChunkStart(g) + ChunkSize(g)

LEMMA Shares ==
  ASSUME SizesOK
  PROVE  /\ n \in Nat \ {0}
         /\ perCPU \in Nat
         /\ leftover \in 0 .. n - 1
         /\ len = n * perCPU + leftover
<1>1. n \in Nat \ {0}
  BY DEF SizesOK, n, minPerCPU
<1>2. perCPU \in Nat /\ n * perCPU <= len /\ len < n * perCPU + n
  BY <1>1, Division DEF SizesOK, perCPU
<1>3. n * perCPU \in Nat
  BY <1>1, <1>2
<1>4. leftover \in 0 .. n - 1 /\ len = n * perCPU + leftover
  BY <1>1, <1>2, <1>3 DEF leftover, SizesOK
<1> QED
  BY <1>1, <1>2, <1>4

LEMMA ChunksMeet ==
  ASSUME SizesOK
  PROVE  /\ \A g \in Nat : ChunkStart(g) \in Nat /\ ChunkEnd(g) \in Nat
         /\ \A g \in Nat : ChunkStart(g) <= ChunkEnd(g)
         /\ \A g \in Nat : ChunkEnd(g) = ChunkStart(g + 1)
         /\ ChunkStart(0) = 0
         /\ ChunkStart(n) = len
<1>1. /\ n \in Nat \ {0} /\ perCPU \in Nat
      /\ leftover \in 0 .. n - 1 /\ len = n * perCPU + leftover
  BY Shares
<1>2. ASSUME NEW g \in Nat
      PROVE  /\ ChunkStart(g) \in Nat /\ ChunkEnd(g) \in Nat
             /\ ChunkStart(g) <= ChunkEnd(g) /\ ChunkEnd(g) = ChunkStart(g + 1)
  <2>1. g * perCPU \in Nat /\ (g + 1) * perCPU = g * perCPU + perCPU
    BY <1>1
  <2> QED
    BY <1>1, <2>1 DEF ChunkStart, ChunkSize, ChunkEnd
<1>3. ChunkStart(0) = 0
  BY <1>1 DEF ChunkStart
<1>4. ChunkStart(n) = len
  BY <1>1 DEF ChunkStart
<1> QED
  BY <1>2, <1>3, <1>4

LEMMA ChunksMonotone ==
  ASSUME SizesOK, NEW g \in Nat, NEW h \in Nat, g <= h
  PROVE  ChunkStart(g) <= ChunkStart(h)
<1> DEFINE S == {d \in Nat : ChunkStart(g) <= ChunkStart(g + d)}
<1>1. 0 \in S
  BY ChunksMeet
<1>2. ASSUME NEW d \in Nat, d \in S PROVE d + 1 \in S
  <2>1. ChunkStart(g + d) <= ChunkStart(g + d + 1)
    BY ChunksMeet
  <2>2. g + d + 1 = g + (d + 1) /\ g + d \in Nat /\ g + (d + 1) \in Nat
    OBVIOUS
  <2>3. ChunkStart(g + d) \in Nat /\ ChunkStart(g + (d + 1)) \in Nat /\ ChunkStart(g) \in Nat
    BY <2>2, ChunksMeet
  <2> QED
    BY <1>2, <2>1, <2>2, <2>3
<1>3. Nat \subseteq S
  <2> HIDE DEF S
  <2> QED
    BY <1>1, <1>2, SetInduction
<1>4. h - g \in S
  BY <1>3
<1> QED
  BY <1>4

InChunk(x, g) == ChunkStart(g) < x /\ x <= ChunkEnd(g)

LEMMA OneChunk ==
  ASSUME SizesOK, NEW x \in Inputs, NEW g \in Nat, NEW h \in Nat, InChunk(x, g), InChunk(x, h)
  PROVE  g = h
<1>1. /\ ChunkStart(g) \in Nat /\ ChunkStart(h) \in Nat
      /\ ChunkEnd(g) = ChunkStart(g + 1) /\ ChunkEnd(h) = ChunkStart(h + 1)
      /\ ChunkStart(g + 1) \in Nat /\ ChunkStart(h + 1) \in Nat
  BY ChunksMeet
<1>2. x \in Nat
  BY DEF Inputs, SizesOK
<1>3. CASE g < h
  <2>1. ChunkStart(g + 1) <= ChunkStart(h)
    BY <1>3, ChunksMonotone
  <2> QED
    BY <1>1, <1>2, <2>1 DEF InChunk
<1>4. CASE h < g
  <2>1. ChunkStart(h + 1) <= ChunkStart(g)
    BY <1>4, ChunksMonotone
  <2> QED
    BY <1>1, <1>2, <2>1 DEF InChunk
<1> QED
  BY <1>3, <1>4

LEMMA SomeChunk ==
  ASSUME SizesOK, NEW x \in Inputs
  PROVE  \E g \in Goroutines : InChunk(x, g)
<1> DEFINE S == {k \in Nat : ChunkStart(k) < x \/ \E g \in 0 .. k - 1 : InChunk(x, g)}
<1>1. x \in Nat \ {0} /\ x <= len /\ n \in Nat
  BY Shares DEF Inputs, SizesOK
<1>2. 0 \in S
  BY <1>1, ChunksMeet
<1>3. ASSUME NEW k \in Nat, k \in S PROVE k + 1 \in S
  <2>1. ChunkStart(k) \in Nat /\ ChunkEnd(k) = ChunkStart(k + 1) /\ ChunkStart(k + 1) \in Nat
    BY ChunksMeet
  <2>2. CASE \E g \in 0 .. k - 1 : InChunk(x, g)
    BY <2>2
  <2>3. CASE ChunkStart(k) < x
    <3>1. ChunkStart(k + 1) < x \/ InChunk(x, k)
      BY <1>1, <2>1, <2>3 DEF InChunk
    <3> QED
      BY <3>1
  <2> QED
    BY <1>3, <2>2, <2>3
<1>4. n \in S
  <2>1. Nat \subseteq S
    <3> HIDE DEF S
    <3> QED
      BY <1>2, <1>3, SetInduction
  <2> QED
    BY <1>1, <2>1
<1>5. ~(ChunkStart(n) < x)
  BY <1>1, ChunksMeet DEF SizesOK
<1> QED
  BY <1>4, <1>5 DEF Goroutines

LEMMA ChunksWithinInputs ==
  ASSUME SizesOK, NEW g \in Goroutines
  PROVE  g \in Nat /\ ChunkEnd(g) <= len
<1>1. n \in Nat /\ g \in Nat /\ g + 1 <= n
  BY Shares DEF Goroutines
<1>2. ChunkStart(g + 1) <= ChunkStart(n)
  BY <1>1, ChunksMonotone
<1> QED
  BY <1>1, <1>2, ChunksMeet

-----------------------------------------------------------------------------
(* The inductive invariant.                                                *)

TypeOK ==
  /\ SizesOK /\ decodable \subseteq Inputs
  /\ pc \in [Goroutines -> {"add", "send", "exited"}]
  /\ i \in [Goroutines -> Nat]
  /\ p \in [Goroutines -> [Inputs -> Nat]]
  /\ temp \in [Goroutines -> 0 .. len]
  /\ asig \in [Inputs -> Nat]

\* Each goroutine is within its chunk, and at its end when it delivers.
WithinChunk ==
  \A g \in Goroutines :
    /\ ChunkStart(g) < i[g] /\ i[g] <= ChunkEnd(g) + 1
    /\ pc[g] # "add" => i[g] = ChunkEnd(g) + 1

\* temp is the last input of the chunk so far that decodes.
LastDecoded ==
  \A g \in Goroutines :
    \/ temp[g] = 0 /\ \A z \in ChunkStart(g) + 1 .. i[g] - 1 : z \notin decodable
    \/ /\ temp[g] \in decodable /\ ChunkStart(g) < temp[g] /\ temp[g] < i[g]
       /\ \A z \in temp[g] + 1 .. i[g] - 1 : z \notin decodable

\* The inputs before `upto` in whose place x is added again.
Repeats(x, upto) ==
  {y \in Inputs \ decodable :
     x < y /\ y < upto /\ \A z \in x + 1 .. y : z \notin decodable}

\* What a goroutine has added up.
PartialSums ==
  \A g \in Goroutines : \A x \in Inputs :
    p[g][x] = IF x \in decodable /\ ChunkStart(g) < x /\ x < i[g]
              THEN 1 + Cardinality(Repeats(x, i[g])) ELSE 0

\* The caller has the sums of the goroutines that have exited.
SumOfDelivered ==
  \A x \in Inputs : \A g \in Goroutines :
    InChunk(x, g) => asig[x] = IF pc[g] = "exited" THEN p[g][x] ELSE 0

Exited == {g \in Goroutines : pc[g] = "exited"}

ReceivedExited == received = Cardinality(Exited)

IInv ==
  /\ TypeOK /\ WithinChunk /\ LastDecoded /\ PartialSums
  /\ SumOfDelivered /\ ReceivedExited

\* The division depends on nothing that changes.
LEMMA SameDivision ==
  ASSUME UNCHANGED <<len, decodable, numCPU>>
  PROVE  /\ UNCHANGED <<n, Goroutines, Inputs, SizesOK>>
         /\ \A g : ChunkStart(g)' = ChunkStart(g) /\ ChunkEnd(g)' = ChunkEnd(g)
         /\ \A x, g : InChunk(x, g)' = InChunk(x, g)
         /\ \A x, y : Repeats(x, y)' = Repeats(x, y)
BY DEF n, Goroutines, Inputs, SizesOK, ChunkStart, ChunkEnd, ChunkSize, perCPU, leftover,
       minPerCPU, InChunk, Repeats

LEMMA RepeatsGrow ==
  ASSUME SizesOK, decodable \subseteq Inputs, NEW x \in Inputs, NEW y \in Inputs
  PROVE  /\ IsFiniteSet(Repeats(x, y)) /\ Cardinality(Repeats(x, y)) \in Nat
         /\ Repeats(x, y + 1) =
              IF x < y /\ \A z \in x + 1 .. y : z \notin decodable
              THEN Repeats(x, y) \cup {y} ELSE Repeats(x, y)
         /\ y \notin Repeats(x, y)
         /\ Repeats(x, x + 1) = {}
<1>1. len \in Nat /\ Inputs = 1 .. len
  BY DEF SizesOK, Inputs
<1>2. IsFiniteSet(Inputs)
  BY <1>1, FS_Interval
<1>3. IsFiniteSet(Repeats(x, y))
  BY <1>2, FS_Subset DEF Repeats
<1>4. \A k \in Inputs : k < y + 1 <=> k < y \/ k = y
  BY <1>1
<1>5. y \notin Repeats(x, y)
  BY <1>1 DEF Repeats
<1>6. Repeats(x, x + 1) = {}
  BY <1>1 DEF Repeats
<1>7. CASE x < y /\ \A z \in x + 1 .. y : z \notin decodable
  <2>1. y \in Inputs \ decodable
    BY <1>1, <1>7
  <2> QED
    BY <1>3, <1>4, <1>5, <1>6, <1>7, <2>1, FS_CardinalityType DEF Repeats
<1>8. CASE ~(x < y /\ \A z \in x + 1 .. y : z \notin decodable)
  BY <1>3, <1>4, <1>5, <1>6, <1>8, FS_CardinalityType DEF Repeats
<1> QED
  BY <1>7, <1>8

LEMMA InitIInv == Init => IInv
<1> SUFFICES ASSUME Init PROVE IInv
  OBVIOUS
<1>1. SizesOK
  BY DEF Init, SizesOK
<1>2. \A g \in Goroutines : g \in Nat /\ ChunkStart(g) \in Nat /\ ChunkStart(g) <= ChunkEnd(g)
  BY <1>1, ChunksWithinInputs, ChunksMeet
<1>3. TypeOK
  BY <1>1, <1>2 DEF Init, TypeOK, Inputs, Zero, SizesOK
<1>4. WithinChunk
  <2>1. \A g \in Goroutines : ChunkEnd(g) \in Nat
    BY <1>1, <1>2, ChunksMeet
  <2> QED
    BY <1>2, <2>1 DEF Init, WithinChunk
<1>5. LastDecoded
  BY <1>2 DEF Init, LastDecoded
<1>6. PartialSums
  <2>1. \A x \in Inputs, s \in Nat : ~(s < x /\ x < s + 1)
    BY <1>1 DEF Inputs, SizesOK
  <2> QED
    BY <1>2, <2>1 DEF Init, PartialSums, Zero
<1>7. SumOfDelivered
  BY DEF Init, SumOfDelivered, Zero
<1>8. ReceivedExited
  <2>1. Exited = {}
    BY DEF Init, Exited
  <2> QED
    BY <2>1, FS_EmptySet DEF Init, ReceivedExited
<1> QED
  BY <1>3, <1>4, <1>5, <1>6, <1>7, <1>8 DEF IInv

\* Adding the next input of a chunk.
LEMMA AddIInv == ASSUME IInv, NEW g \in Goroutines, Add(g) PROVE IInv'
<1> DEFINE y == i[g]
           t == Decoded(g)
<1>1. /\ TypeOK /\ WithinChunk /\ LastDecoded /\ PartialSums /\ SizesOK
      /\ len \in Nat /\ Inputs = 1 .. len
  BY DEF IInv, TypeOK, SizesOK, Inputs
<1>2. /\ pc[g] = "add" /\ y <= ChunkEnd(g)
      /\ temp' = [temp EXCEPT ![g] = t]
      /\ p' = [p EXCEPT ![g] = Plus(@, t)]
      /\ i' = [i EXCEPT ![g] = y + 1]
      /\ UNCHANGED <<len, decodable, numCPU, pc, asig, received>>
  BY DEF Add, ChunkEnd
<1>3. /\ UNCHANGED <<n, Goroutines, Inputs, SizesOK>>
      /\ \A h : ChunkStart(h)' = ChunkStart(h) /\ ChunkEnd(h)' = ChunkEnd(h)
      /\ \A x, h : InChunk(x, h)' = InChunk(x, h)
      /\ \A x, z : Repeats(x, z)' = Repeats(x, z)
  BY <1>2, SameDivision
<1>4. /\ g \in Nat /\ ChunkStart(g) \in Nat /\ ChunkEnd(g) \in Nat /\ ChunkEnd(g) <= len
      /\ y \in Nat /\ ChunkStart(g) < y /\ y \in Inputs
  <2>1. g \in Nat /\ ChunkStart(g) \in Nat /\ ChunkEnd(g) \in Nat /\ ChunkEnd(g) <= len
    BY <1>1, ChunksWithinInputs, ChunksMeet
  <2>2. y \in Nat /\ ChunkStart(g) < y
    BY <1>1 DEF TypeOK, WithinChunk
  <2> QED
    BY <1>1, <1>2, <2>1, <2>2
<1>5. t \in 0 .. len /\ (t # 0 => t \in Inputs)
  BY <1>1, <1>4 DEF Decoded, TypeOK
<1> HIDE DEF t
<1>6. TypeOK'
  <2>1. len' = len /\ Goroutines' = Goroutines /\ Inputs' = Inputs /\ SizesOK'
    BY <1>1, <1>2, <1>3
  <2>2. p[g] \in [Inputs -> Nat] /\ Plus(p[g], t) \in [Inputs -> Nat]
    BY <1>1, <1>5 DEF TypeOK, Plus
  <2>3. p' \in [Goroutines -> [Inputs -> Nat]]
    <3>1. p \in [Goroutines -> [Inputs -> Nat]] /\ p' = [p EXCEPT ![g] = Plus(p[g], t)]
      BY <1>1, <1>2 DEF TypeOK
    <3> QED
      BY <2>2, <3>1
  <2>5. i' \in [Goroutines -> Nat]
    <3>1. i \in [Goroutines -> Nat] /\ i' = [i EXCEPT ![g] = y + 1] /\ y + 1 \in Nat
      BY <1>1, <1>2, <1>4 DEF TypeOK
    <3> QED
      BY <3>1
  <2>6. temp' \in [Goroutines -> 0 .. len]
    <3>1. temp \in [Goroutines -> 0 .. len] /\ temp' = [temp EXCEPT ![g] = t]
      BY <1>1, <1>2 DEF TypeOK
    <3> QED
      BY <1>5, <3>1
  <2>4. decodable' \subseteq Inputs /\ pc' \in [Goroutines -> {"add", "send", "exited"}]
        /\ asig' \in [Inputs -> Nat]
    BY <1>1, <1>2 DEF TypeOK
  <2> QED
    BY <2>1, <2>3, <2>4, <2>5, <2>6 DEF TypeOK
<1>7. WithinChunk'
  <2> SUFFICES ASSUME NEW h \in Goroutines
               PROVE  /\ ChunkStart(h) < i'[h] /\ i'[h] <= ChunkEnd(h) + 1
                      /\ pc[h] # "add" => i'[h] = ChunkEnd(h) + 1
    BY <1>2, <1>3 DEF WithinChunk
  <2>1. i'[h] = IF h = g THEN y + 1 ELSE i[h]
    BY <1>1, <1>2 DEF TypeOK
  <2> QED
    BY <1>1, <1>2, <1>4, <2>1 DEF WithinChunk
<1>8. LastDecoded'
  <2> SUFFICES ASSUME NEW h \in Goroutines
               PROVE  \/ /\ temp'[h] = 0
                         /\ \A z \in ChunkStart(h) + 1 .. i'[h] - 1 : z \notin decodable
                      \/ /\ temp'[h] \in decodable /\ ChunkStart(h) < temp'[h]
                         /\ temp'[h] < i'[h]
                         /\ \A z \in temp'[h] + 1 .. i'[h] - 1 : z \notin decodable
    BY <1>2, <1>3 DEF LastDecoded
  <2>1. CASE h # g
    BY <1>1, <1>2, <2>1 DEF LastDecoded, TypeOK
  <2>2. CASE h = g
    <3>1. temp'[g] = t /\ i'[g] = y + 1
      BY <1>1, <1>2 DEF TypeOK
    <3>2. \A b \in Nat : \A z \in b .. (y + 1) - 1 : z \in b .. y - 1 \/ z = y
      BY <1>4
    <3>3. CASE y \in decodable
      BY <1>4, <2>2, <3>1, <3>3 DEF t, Decoded
    <3>4. CASE y \notin decodable
      <4>1. t = temp[g] /\ temp[g] \in Nat
        BY <1>1, <3>4 DEF t, Decoded, TypeOK
      <4> QED
        BY <1>1, <1>4, <2>2, <3>1, <3>2, <3>4, <4>1 DEF LastDecoded
    <3> QED
      BY <3>3, <3>4
  <2> QED
    BY <2>1, <2>2
<1>9. PartialSums'
  <2> SUFFICES ASSUME NEW h \in Goroutines, NEW x \in Inputs
               PROVE  p'[h][x] = IF x \in decodable /\ ChunkStart(h) < x /\ x < i'[h]
                                 THEN 1 + Cardinality(Repeats(x, i'[h])) ELSE 0
    BY <1>2, <1>3 DEF PartialSums
  <2>1. CASE h # g
    BY <1>1, <1>2, <2>1 DEF PartialSums, TypeOK
  <2>2. CASE h = g
    <3>1. i'[g] = y + 1 /\ p'[g] = Plus(p[g], t) /\ p[g] \in [Inputs -> Nat]
      BY <1>1, <1>2 DEF TypeOK
    <3>2. p[g][x] = IF x \in decodable /\ ChunkStart(g) < x /\ x < y
                    THEN 1 + Cardinality(Repeats(x, y)) ELSE 0
      BY <1>1 DEF PartialSums
    <3>3. /\ IsFiniteSet(Repeats(x, y)) /\ Cardinality(Repeats(x, y)) \in Nat
          /\ Repeats(x, y + 1) =
               IF x < y /\ \A z \in x + 1 .. y : z \notin decodable
               THEN Repeats(x, y) \cup {y} ELSE Repeats(x, y)
          /\ y \notin Repeats(x, y)
          /\ Repeats(x, x + 1) = {}
      BY <1>1, <1>4, RepeatsGrow DEF TypeOK
    <3>4. p'[g][x] = IF x = t THEN p[g][x] + 1 ELSE p[g][x]
      BY <1>1, <1>5, <3>1 DEF Plus
    <3>5. x \in Nat \ {0}
      BY <1>1
    <3>6. CASE y \in decodable
      <4>1. t = y
        BY <3>6 DEF t, Decoded
      <4>2. CASE x = y
        <5>1. Cardinality(Repeats(x, y + 1)) = 0
          BY <3>3, <4>2, FS_EmptySet
        <5> QED
          BY <1>4, <2>2, <3>1, <3>2, <3>4, <3>6, <4>1, <4>2, <5>1
      <4>3. CASE x # y
        <5>1. Repeats(x, y + 1) = Repeats(x, y)
          <6>1. x < y => y \in x + 1 .. y
            BY <1>4, <3>5
          <6> QED
            BY <3>3, <3>6, <6>1
        <5>2. x < y + 1 <=> x < y
          BY <1>4, <3>5, <4>3
        <5> QED
          BY <2>2, <3>1, <3>2, <3>4, <4>1, <4>3, <5>1, <5>2
      <4> QED
        BY <4>2, <4>3
    <3>7. CASE y \notin decodable /\ temp[g] = 0
      <4>1. t = 0 /\ p'[g][x] = p[g][x]
        BY <3>4, <3>5, <3>7 DEF t, Decoded
      <4>2. \A z \in ChunkStart(g) + 1 .. y - 1 : z \notin decodable
        BY <1>1, <3>7 DEF LastDecoded, TypeOK, SizesOK, Inputs
      <4>3. ~(x \in decodable /\ ChunkStart(g) < x /\ x < y + 1)
        BY <1>4, <3>5, <3>7, <4>2
      <4> QED
        BY <1>4, <2>2, <3>1, <3>2, <3>5, <4>1, <4>3
    <3>8. CASE y \notin decodable /\ temp[g] # 0
      <4>1. t = temp[g]
        BY <3>8 DEF t, Decoded
      <4>2. /\ t \in decodable /\ ChunkStart(g) < t /\ t < y
            /\ \A z \in t + 1 .. y - 1 : z \notin decodable
        BY <1>1, <3>8, <4>1 DEF LastDecoded
      <4>3. t \in Nat
        BY <1>1, <1>5
      <4>4. CASE x = t
        <5>1. \A z \in x + 1 .. y : z \notin decodable
          BY <1>4, <3>8, <4>2, <4>3, <4>4
        <5>2. Repeats(x, y + 1) = Repeats(x, y) \cup {y}
          BY <3>3, <4>2, <4>4, <5>1
        <5>3. Cardinality(Repeats(x, y + 1)) = Cardinality(Repeats(x, y)) + 1
          BY <3>3, <5>2, FS_AddElement
        <5> QED
          BY <1>4, <2>2, <3>1, <3>2, <3>3, <3>4, <3>5, <4>2, <4>4, <5>3
      <4>5. CASE x # t /\ x \in decodable /\ ChunkStart(g) < x /\ x < y + 1
        <5>1. x < t /\ x < y
          BY <1>4, <3>5, <3>8, <4>2, <4>3, <4>5
        <5>2. t \in x + 1 .. y
          BY <1>4, <3>5, <4>2, <4>3, <5>1
        <5>3. Repeats(x, y + 1) = Repeats(x, y)
          BY <3>3, <4>2, <5>2
        <5> QED
          BY <2>2, <3>1, <3>2, <3>4, <4>5, <5>1, <5>3
      <4>6. CASE x # t /\ ~(x \in decodable /\ ChunkStart(g) < x /\ x < y + 1)
        <5>1. ~(x \in decodable /\ ChunkStart(g) < x /\ x < y)
          BY <1>4, <3>5, <4>6
        <5> QED
          BY <2>2, <3>1, <3>2, <3>4, <4>6, <5>1
      <4> QED
        BY <4>4, <4>5, <4>6
    <3> QED
      BY <3>6, <3>7, <3>8
  <2> QED
    BY <2>1, <2>2
<1>10. SumOfDelivered'
  <2> SUFFICES ASSUME NEW x \in Inputs, NEW h \in Goroutines, InChunk(x, h)
               PROVE  asig[x] = IF pc[h] = "exited" THEN p'[h][x] ELSE 0
    BY <1>2, <1>3 DEF SumOfDelivered
  <2>1. asig[x] = IF pc[h] = "exited" THEN p[h][x] ELSE 0
    BY DEF IInv, SumOfDelivered
  <2>2. h # g => p'[h] = p[h]
    BY <1>1, <1>2 DEF TypeOK
  <2> QED
    BY <1>2, <2>1, <2>2
<1>11. ReceivedExited'
  BY <1>2, <1>3 DEF IInv, ReceivedExited, Exited
<1> QED
  BY <1>6, <1>7, <1>8, <1>9, <1>10, <1>11 DEF IInv

LEMMA ChunkDoneIInv == ASSUME IInv, NEW g \in Goroutines, ChunkDone(g) PROVE IInv'
<1>1. /\ TypeOK /\ WithinChunk /\ SizesOK
      /\ pc[g] = "add" /\ i[g] > ChunkEnd(g) /\ pc' = [pc EXCEPT ![g] = "send"]
      /\ UNCHANGED <<len, decodable, numCPU, i, p, temp, asig, received>>
  BY DEF IInv, TypeOK, ChunkDone, ChunkEnd
<1>2. /\ UNCHANGED <<n, Goroutines, Inputs, SizesOK>>
      /\ \A h : ChunkStart(h)' = ChunkStart(h) /\ ChunkEnd(h)' = ChunkEnd(h)
      /\ \A x, h : InChunk(x, h)' = InChunk(x, h)
      /\ \A x, z : Repeats(x, z)' = Repeats(x, z)
  BY <1>1, SameDivision
<1>3. pc' \in [Goroutines -> {"add", "send", "exited"}]
      /\ \A h \in Goroutines : pc'[h] = IF h = g THEN "send" ELSE pc[h]
  BY <1>1 DEF TypeOK
<1>4. TypeOK'
  BY <1>1, <1>2, <1>3 DEF TypeOK
<1>5. WithinChunk'
  <2>1. i[g] = ChunkEnd(g) + 1
    <3>1. i[g] \in Nat /\ ChunkEnd(g) \in Nat /\ i[g] <= ChunkEnd(g) + 1
      BY <1>1, ChunksWithinInputs, ChunksMeet DEF TypeOK, WithinChunk
    <3> QED
      BY <1>1, <3>1
  <2> QED
    BY <1>1, <1>2, <1>3, <2>1 DEF WithinChunk
<1>6. LastDecoded' /\ PartialSums'
  BY <1>1, <1>2 DEF IInv, LastDecoded, PartialSums
<1>7. SumOfDelivered'
  BY <1>1, <1>2, <1>3 DEF IInv, SumOfDelivered
<1>8. ReceivedExited'
  <2>1. Exited' = Exited
    BY <1>1, <1>2, <1>3 DEF Exited
  <2> QED
    BY <1>1, <2>1 DEF IInv, ReceivedExited
<1> QED
  BY <1>4, <1>5, <1>6, <1>7, <1>8 DEF IInv

LEMMA GoroutinesFinite ==
  ASSUME SizesOK
  PROVE  IsFiniteSet(Goroutines) /\ Cardinality(Goroutines) = n
BY Shares, FS_Interval DEF Goroutines

\* The sum of a goroutine adds to the caller's inputs of its own chunk only.
LEMMA ReceiveIInv == ASSUME IInv, NEW g \in Goroutines, Receive(g) PROVE IInv'
<1>1. /\ TypeOK /\ WithinChunk /\ PartialSums /\ SizesOK /\ len \in Nat /\ Inputs = 1 .. len
      /\ pc[g] = "send" /\ pc' = [pc EXCEPT ![g] = "exited"]
      /\ asig' = [x \in Inputs |-> asig[x] + p[g][x]] /\ received' = received + 1
      /\ UNCHANGED <<len, decodable, numCPU, i, p, temp>>
  BY DEF IInv, TypeOK, SizesOK, Inputs, Receive
<1>2. /\ UNCHANGED <<n, Goroutines, Inputs, SizesOK>>
      /\ \A h : ChunkStart(h)' = ChunkStart(h) /\ ChunkEnd(h)' = ChunkEnd(h)
      /\ \A x, h : InChunk(x, h)' = InChunk(x, h)
      /\ \A x, z : Repeats(x, z)' = Repeats(x, z)
  BY <1>1, SameDivision
<1>3. pc' \in [Goroutines -> {"add", "send", "exited"}]
      /\ \A h \in Goroutines : pc'[h] = IF h = g THEN "exited" ELSE pc[h]
  BY <1>1 DEF TypeOK
<1>4. \A x \in Inputs : asig[x] \in Nat /\ p[g][x] \in Nat
  BY <1>1 DEF TypeOK
<1>5. TypeOK'
  <2>1. asig' \in [Inputs -> Nat]
    BY <1>1, <1>4
  <2> QED
    BY <1>1, <1>2, <1>3, <2>1 DEF TypeOK
<1>6. WithinChunk' /\ LastDecoded' /\ PartialSums'
  BY <1>1, <1>2, <1>3 DEF IInv, WithinChunk, LastDecoded, PartialSums
<1>7. SumOfDelivered'
  <2> SUFFICES ASSUME NEW x \in Inputs, NEW h \in Goroutines, InChunk(x, h)
               PROVE  asig'[x] = IF pc'[h] = "exited" THEN p[h][x] ELSE 0
    BY <1>1, <1>2 DEF SumOfDelivered
  <2>1. asig'[x] = asig[x] + p[g][x] /\ asig[x] = IF pc[h] = "exited" THEN p[h][x] ELSE 0
    BY <1>1 DEF IInv, SumOfDelivered
  <2>2. CASE h = g
    BY <1>1, <1>3, <1>4, <2>1, <2>2
  <2>3. CASE h # g
    <3>1. h \in Nat /\ g \in Nat
      BY <1>1, ChunksWithinInputs
    <3>2. ~InChunk(x, g)
      BY <1>1, <2>3, <3>1, OneChunk
    <3>3. ~(ChunkStart(g) < x /\ x < i[g])
      <4>1. i[g] = ChunkEnd(g) + 1
        BY <1>1 DEF WithinChunk
      <4>2. ChunkEnd(g) \in Nat /\ x \in Nat
        <5>1. x \in 1 .. len /\ len \in Nat
          BY <1>1 DEF IInv, TypeOK, Inputs, SizesOK
        <5>2. x \in Nat
          BY <5>1
        <5>3. SizesOK
          BY <1>1 DEF IInv, TypeOK
        <5>4. ChunkEnd(g) \in Nat
          BY <3>1, <5>3, ChunksMeet
        <5> QED
          BY <5>2, <5>4
      <4> QED
        BY <3>2, <4>1, <4>2 DEF InChunk
    <3>4. p[g][x] = 0
      BY <1>1, <3>3 DEF PartialSums
    <3> QED
      BY <1>3, <1>4, <2>1, <2>3, <3>4
  <2> QED
    BY <2>2, <2>3
<1>8. ReceivedExited'
  <2>1. Exited' = Exited \cup {g} /\ g \notin Exited
    BY <1>1, <1>2, <1>3 DEF Exited
  <2>2. IsFiniteSet(Exited)
    BY <1>1, GoroutinesFinite, FS_Subset DEF Exited
  <2>3. Cardinality(Exited') = Cardinality(Exited) + 1
    BY <2>1, <2>2, FS_AddElement
  <2> QED
    BY <1>1, <2>3 DEF IInv, ReceivedExited
<1> QED
  BY <1>5, <1>6, <1>7, <1>8 DEF IInv

LEMMA NextIInv == IInv /\ [Next]_vars => IInv'
<1> SUFFICES ASSUME IInv, [Next]_vars PROVE IInv'
  OBVIOUS
<1>1. CASE UNCHANGED vars
  <2>1. /\ UNCHANGED <<n, Goroutines, Inputs, SizesOK>>
        /\ \A h : ChunkStart(h)' = ChunkStart(h) /\ ChunkEnd(h)' = ChunkEnd(h)
        /\ \A x, h : InChunk(x, h)' = InChunk(x, h)
        /\ \A x, z : Repeats(x, z)' = Repeats(x, z)
    BY <1>1, SameDivision DEF vars
  <2>2. UNCHANGED <<len, decodable, pc, i, p, temp, asig, received>>
    BY <1>1 DEF vars
  <2>3. TypeOK' /\ WithinChunk' /\ LastDecoded' /\ PartialSums'
    BY <2>1, <2>2 DEF IInv, TypeOK, WithinChunk, LastDecoded, PartialSums
  <2>4. SumOfDelivered' /\ ReceivedExited'
    BY <2>1, <2>2 DEF IInv, SumOfDelivered, ReceivedExited, Exited
  <2> QED
    BY <2>3, <2>4 DEF IInv
<1>2. CASE \E g \in Goroutines : Add(g) \/ ChunkDone(g) \/ Receive(g)
  BY <1>2, AddIInv, ChunkDoneIInv, ReceiveIInv
<1> QED
  BY <1>1, <1>2 DEF Next, Returned

-----------------------------------------------------------------------------
(* The theorems.                                                           *)

\* The inductive invariant of AggregateSignatures.
THEOREM AggregationInvariance == Spec => []IInv
BY InitIInv, NextIInv, PTL DEF Spec

\* When the caller has all sums it has that of every goroutine.
LEMMA AllExited ==
  ASSUME IInv, received = n
  PROVE  \A g \in Goroutines : pc[g] = "exited"
<1>1. IsFiniteSet(Goroutines) /\ Cardinality(Goroutines) = n
  BY GoroutinesFinite DEF IInv, TypeOK
<1>2. Exited \in SUBSET Goroutines /\ Cardinality(Exited) = n
  BY DEF IInv, ReceivedExited, Exited
<1>3. Exited = Goroutines
  BY <1>1, <1>2, FS_Subset
<1> QED
  BY <1>3 DEF Exited

\* What the caller then has of an input in a chunk.
LEMMA SumOfInput ==
  ASSUME IInv, received = n, NEW x \in Inputs, NEW g \in Goroutines, InChunk(x, g)
  PROVE  asig[x] = IF x \in decodable THEN 1 + Cardinality(Repeats(x, ChunkEnd(g) + 1)) ELSE 0
<1>1. SizesOK /\ x \in Nat /\ ChunkEnd(g) \in Nat
  BY ChunksWithinInputs, ChunksMeet DEF IInv, TypeOK, Inputs
<1>2. pc[g] = "exited"
  BY AllExited
<1>3. asig[x] = p[g][x] /\ i[g] = ChunkEnd(g) + 1
  BY <1>2 DEF IInv, SumOfDelivered, WithinChunk
<1>4. ChunkStart(g) < x /\ x < i[g]
  BY <1>1, <1>3 DEF InChunk
<1> QED
  BY <1>3, <1>4 DEF IInv, PartialSums

LEMMA IInvContains == IInv => BadInputsContained
<1> SUFFICES ASSUME IInv, received = n PROVE BadInputsContained
  BY DEF BadInputsContained
<1>1. SizesOK /\ decodable \subseteq Inputs /\ len \in Nat /\ Inputs = 1 .. len
  BY DEF IInv, TypeOK, SizesOK, Inputs
<1> DEFINE AgainFor(x) ==
      {y \in Inputs \ decodable :
         /\ x < y
         /\ \A z \in x + 1 .. y : z \notin decodable
         /\ \E g \in Goroutines : /\ ChunkStart(g) < x
                                  /\ y <= ChunkStart(g) + ChunkSize(g)}
<1>2. ASSUME NEW x \in Inputs
      PROVE  /\ asig[x] > 0 <=> x \in decodable
             /\ x \in decodable => asig[x] = 1 + Cardinality(AgainFor(x))
  <2>1. PICK g \in Goroutines : InChunk(x, g)
    BY <1>1, SomeChunk
  <2>2. asig[x] = IF x \in decodable THEN 1 + Cardinality(Repeats(x, ChunkEnd(g) + 1)) ELSE 0
    BY <2>1, SumOfInput
  <2>3. g \in Nat /\ ChunkEnd(g) \in Nat /\ ChunkEnd(g) <= len /\ x \in Nat
    BY <1>1, ChunksWithinInputs, ChunksMeet
  <2>4. Repeats(x, ChunkEnd(g) + 1) = AgainFor(x)
    <3>1. ASSUME NEW y \in Inputs, x < y
          PROVE  y < ChunkEnd(g) + 1 <=>
                   \E h \in Goroutines : ChunkStart(h) < x /\ y <= ChunkEnd(h)
      <4>1. y < ChunkEnd(g) + 1 => ChunkStart(g) < x /\ y <= ChunkEnd(g)
        BY <1>1, <2>1, <2>3 DEF InChunk
      <4>2. ASSUME NEW h \in Goroutines, ChunkStart(h) < x, y <= ChunkEnd(h)
            PROVE  y < ChunkEnd(g) + 1
        <5>1. h \in Nat /\ ChunkEnd(h) \in Nat
          BY <1>1, ChunksWithinInputs, ChunksMeet
        <5>2. InChunk(x, h)
          BY <1>1, <2>3, <3>1, <4>2, <5>1 DEF InChunk
        <5>3. h = g
          BY <1>1, <2>1, <2>3, <5>1, <5>2, OneChunk
        <5> QED
          BY <1>1, <2>3, <4>2, <5>3
      <4> QED
        BY <4>1, <4>2
    <3> QED
      BY <3>1 DEF Repeats, ChunkEnd
  <2>5. Cardinality(Repeats(x, ChunkEnd(g) + 1)) \in Nat
    <3>1. Repeats(x, ChunkEnd(g) + 1) \in SUBSET Inputs /\ IsFiniteSet(Inputs)
      BY <1>1, FS_Interval DEF Repeats
    <3> QED
      BY <3>1, FS_Subset, FS_CardinalityType
  <2> QED
    BY <2>2, <2>4, <2>5
<1> QED
  BY <1>1, <1>2 DEF BadInputsContained

\* An input that does not decode does no more harm than to count the one
\* before it in its chunk once more, however the signatures are divided.
THEOREM BadInputsStayContained == Spec => []BadInputsContained
BY AggregationInvariance, IInvContains, PTL

LEMMA ContainedOnce == IInv /\ BadInputsContained => EachOnce
<1> SUFFICES ASSUME BadInputsContained, received = n, decodable = Inputs, NEW x \in Inputs
             PROVE  asig[x] = 1
  BY DEF EachOnce
<1>1. Inputs \ decodable = {}
  OBVIOUS
<1> QED
  BY <1>1, FS_EmptySet DEF BadInputsContained

\* Every signature is in the result exactly once, for every number of
\* signatures and CPUs and every order in which the chunks finish.
THEOREM EachExactlyOnce == Spec => []EachOnce
BY AggregationInvariance, BadInputsStayContained, ContainedOnce, PTL
=============================================================================
