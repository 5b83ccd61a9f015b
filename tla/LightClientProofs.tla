------------------------- MODULE LightClientProofs -------------------------
(***************************************************************************)
(* Proofs about LightClient for every quorum size and every well-formed    *)
(* chain.                                                                  *)
(***************************************************************************)
EXTENDS LightClient, FiniteSetTheorems, TLAPS

USE QuorumAssumption

-----------------------------------------------------------------------------
(* The chain.                                                              *)

\* The fields of a well-formed prover that the other lemmas compute with.
LEMMA ChainTypes ==
  ASSUME NEW p, WellFormed(p)
  PROVE  /\ p.Breaks \in Seq(Nat)
         /\ Len(p.Breaks) \in Nat \ {0}
         /\ DOMAIN p.Breaks = 1 .. Len(p.Breaks)
         /\ Len(p.Signatures) \in Nat \ {0}
         /\ p.Breaks[1] = 1
         /\ \A i \in 1 .. Len(p.Breaks) : p.Breaks[i] \in 1 .. Len(p.Signatures)
         /\ \A i, k \in 1 .. Len(p.Breaks) : i < k => p.Breaks[i] < p.Breaks[k]
         /\ p.Apks \in Seq({Apk(q) : q \in 0 .. Len(p.Breaks)})
         /\ Len(p.Apks) = Len(p.Breaks)
         /\ \A i \in 1 .. Len(p.Breaks) : p.Apks[i] = Apk(i)
<1>1. /\ p.Breaks \in Seq(Nat)
      /\ Len(p.Breaks) \in Nat \ {0}
      /\ DOMAIN p.Breaks = 1 .. Len(p.Breaks)
  BY DEF WellFormed
<1>2. /\ p.Breaks[1] = 1
      /\ \A i \in 1 .. Len(p.Breaks) : p.Breaks[i] \in 1 .. Len(p.Signatures)
      /\ \A i, k \in 1 .. Len(p.Breaks) : i < k => p.Breaks[i] < p.Breaks[k]
  BY <1>1 DEF WellFormed
<1>3. Len(p.Signatures) \in Nat \ {0}
  BY <1>1, <1>2 DEF WellFormed
<1>4. p.Apks = [i \in 1 .. Len(p.Breaks) |-> Apk(i)]
  BY DEF WellFormed
<1> QED
  BY <1>1, <1>2, <1>3, <1>4

\* Different quorums have different keys.
LEMMA ApkInjective ==
  ASSUME NEW q \in Nat, NEW r \in Nat, Apk(q) = Apk(r)
  PROVE  q = r
<1>1. <<q, 1>> \in Apk(q)
  BY DEF Apk
<1> QED
  BY <1>1 DEF Apk

\* What the search and the epochs' quorums need to know of the breaks.
Ascending(B, L) ==
  /\ B \in Seq(Nat)
  /\ Len(B) \in Nat \ {0}
  /\ L \in Nat \ {0}
  /\ \A i \in 1 .. Len(B) : B[i] \in 1 .. L
  /\ \A i, k \in 1 .. Len(B) : i < k => B[i] < B[k]

LEMMA ChainAscending ==
  ASSUME NEW p, WellFormed(p)
  PROVE  /\ Ascending(p.Breaks, Len(p.Signatures))
         /\ DOMAIN p.Breaks = 1 .. Len(p.Breaks)
         /\ Len(p.Breaks) \in Nat
         /\ \A i \in 1 .. Len(p.Breaks) : p.Breaks[i] \in Int
<1>1. Ascending(p.Breaks, Len(p.Signatures))
  BY ChainTypes DEF Ascending
<1>2. /\ DOMAIN p.Breaks = 1 .. Len(p.Breaks)
      /\ Len(p.Breaks) \in Nat
      /\ p.Breaks \in Seq(Nat)
  BY ChainTypes
<1> QED
  BY <1>1, <1>2

\* Seen from an epoch, the breaks up to its quorum's are behind, the others not.
LEMMA InForceSplits ==
  ASSUME NEW B, NEW L, Ascending(B, L), NEW e \in Int, NEW q, InForce(B, q, e),
         NEW i \in 1 .. Len(B)
  PROVE  /\ i <= q => B[i] < e
         /\ i > q => e <= B[i]
<1>1. q \in 0 .. Len(B) /\ Len(B) \in Nat
  BY DEF InForce, Ascending
<1>2. ASSUME i <= q PROVE B[i] < e
  <2>1. q \in 1 .. Len(B) /\ B[q] < e
    BY <1>1, <1>2 DEF InForce
  <2>2. B[i] <= B[q] /\ B[i] \in Int /\ B[q] \in Int
    BY <1>1, <1>2, <2>1 DEF Ascending
  <2> QED
    BY <2>1, <2>2
<1>3. ASSUME i > q PROVE e <= B[i]
  <2>1. q + 1 \in 1 .. Len(B) /\ e <= B[q + 1]
    BY <1>1, <1>3 DEF InForce
  <2>2. B[q + 1] <= B[i] /\ B[i] \in Int /\ B[q + 1] \in Int
    BY <1>1, <1>3, <2>1 DEF Ascending
  <2> QED
    BY <2>1, <2>2
<1> QED
  BY <1>2, <1>3

\* The same, seen from the epoch after an end.
LEMMA EndSplits ==
  ASSUME NEW B, NEW L, Ascending(B, L), NEW end \in Int, NEW d, InForce(B, d, end + 1),
         NEW i \in 1 .. Len(B)
  PROVE  /\ i <= d => B[i] <= end
         /\ i > d => B[i] > end
<1> DEFINE e == end + 1
<1>1. e \in Int /\ InForce(B, d, e) /\ B[i] \in Int
  BY DEF Ascending
<1> HIDE DEF e
<1>2. /\ i <= d => B[i] < e
      /\ i > d => e <= B[i]
  BY <1>1, InForceSplits
<1> QED
  BY <1>1, <1>2 DEF e

\* Only one quorum is in force at an epoch.
LEMMA InForceUnique ==
  ASSUME NEW B, NEW L, Ascending(B, L), NEW e \in Int, NEW q, NEW r,
         InForce(B, q, e), InForce(B, r, e)
  PROVE  q = r
<1>1. q \in 0 .. Len(B) /\ r \in 0 .. Len(B) /\ Len(B) \in Nat
  BY DEF InForce, Ascending
<1>2. ASSUME q < r PROVE FALSE
  <2>1. r \in 1 .. Len(B) /\ r > q
    BY <1>1, <1>2
  <2>2. B[r] < e /\ e <= B[r]
    BY <2>1, InForceSplits
  <2>3. B[r] \in Int
    BY <2>1 DEF Ascending
  <2> QED
    BY <2>2, <2>3
<1>3. ASSUME r < q PROVE FALSE
  <2>1. q \in 1 .. Len(B) /\ q > r
    BY <1>1, <1>3
  <2>2. B[q] < e /\ e <= B[q]
    BY <2>1, InForceSplits
  <2>3. B[q] \in Int
    BY <2>1 DEF Ascending
  <2> QED
    BY <2>2, <2>3
<1> QED
  BY <1>1, <1>2, <1>3

\* Every epoch up to the one after the last has a quorum in force.
LEMMA InForceExists ==
  ASSUME NEW p, WellFormed(p), NEW e \in 1 .. Len(p.Signatures) + 1
  PROVE  \E q \in 0 .. Len(p.Breaks) : InForce(p.Breaks, q, e)
<1>1. /\ Len(p.Breaks) \in Nat \ {0}
      /\ Len(p.Signatures) \in Nat \ {0}
      /\ \A i \in 1 .. Len(p.Breaks) : p.Breaks[i] \in 1 .. Len(p.Signatures)
  BY ChainTypes
<1>2. CASE e \in 1 .. Len(p.Signatures)
  BY <1>2 DEF WellFormed
<1>3. CASE e = Len(p.Signatures) + 1
  <2>1. InForce(p.Breaks, Len(p.Breaks), e)
    BY <1>1, <1>3 DEF InForce
  <2> QED
    BY <1>1, <2>1
<1> QED
  BY <1>1, <1>2, <1>3

-----------------------------------------------------------------------------
(* The search loop of update.                                              *)

\* `last` is the number of breaks up to the end.
LEMMA LastBreakCounts ==
  ASSUME NEW p, WellFormed(p), NEW end \in Int, NEW d, InForce(p.Breaks, d, end + 1)
  PROVE  LastBreak(p, end) = d
<1> DEFINE Beyond == {i \in Visited(p, end) : p.Breaks[i] > end}
<1>0. d \in 0 .. Len(p.Breaks)
  BY DEF InForce
<1>1. /\ Ascending(p.Breaks, Len(p.Signatures))
      /\ DOMAIN p.Breaks = 1 .. Len(p.Breaks)
      /\ Len(p.Breaks) \in Nat
      /\ \A i \in 1 .. Len(p.Breaks) : p.Breaks[i] \in Int
      /\ d \in 0 .. Len(p.Breaks)
  BY <1>0, ChainAscending
<1>2. \A i \in 1 .. Len(p.Breaks) : IF i <= d THEN p.Breaks[i] <= end ELSE p.Breaks[i] > end
  BY <1>1, EndSplits
<1>3. CASE d = Len(p.Breaks)
  <2>1. Beyond = {}
    BY <1>1, <1>2, <1>3 DEF Visited
  <2> QED
    BY <1>3, <2>1 DEF LastBreak
<1>4. CASE d < Len(p.Breaks)
  <2>1. d + 1 \in Beyond
    BY <1>1, <1>2, <1>4 DEF Visited
  <2>2. ASSUME NEW i \in Beyond
        PROVE  i = d + 1
    <3>1. i \in 1 .. Len(p.Breaks) /\ i > d
      BY <1>1, <1>2 DEF Visited
    <3>2. d + 1 \in 1 .. Len(p.Breaks) /\ p.Breaks[d + 1] > end
      BY <1>1, <1>2, <1>4
    <3>3. ~(d + 1 < i)
      BY <1>1, <3>2 DEF Visited
    <3> QED
      BY <1>1, <3>1, <3>3
  <2>3. (CHOOSE i \in Beyond : TRUE) \in Beyond
    BY <2>1
  <2>4. (CHOOSE i \in Beyond : TRUE) = d + 1
    BY <2>2, <2>3
  <2>5. LastBreak(p, end) = (d + 1) - 1
    BY <2>1, <2>4 DEF LastBreak
  <2> QED
    BY <1>1, <2>5
<1> QED
  BY <1>1, <1>3, <1>4

\* `first` when the break after the client's quorum is among the visited ones.
LEMMA FirstBreakFound ==
  ASSUME NEW p, WellFormed(p), NEW start \in Int, NEW end \in Int,
         NEW c, InForce(p.Breaks, c, start), c < Len(p.Breaks),
         NEW d, InForce(p.Breaks, d, end + 1), c <= d
  PROVE  FirstBreak(p, start, end) = c + 1
<1> DEFINE Found == {i \in Visited(p, end) : p.Breaks[i] >= start}
<1>0. c \in 0 .. Len(p.Breaks) /\ d \in 0 .. Len(p.Breaks)
  BY DEF InForce
<1>1. /\ Ascending(p.Breaks, Len(p.Signatures))
      /\ DOMAIN p.Breaks = 1 .. Len(p.Breaks)
      /\ Len(p.Breaks) \in Nat
      /\ \A i \in 1 .. Len(p.Breaks) : p.Breaks[i] \in Int
      /\ c \in 0 .. Len(p.Breaks) /\ d \in 0 .. Len(p.Breaks)
  BY <1>0, ChainAscending
<1>2. \A i \in 1 .. Len(p.Breaks) : i <= d => p.Breaks[i] <= end
  BY <1>1, EndSplits
<1>3. \A i \in 1 .. Len(p.Breaks) : IF i <= c THEN p.Breaks[i] < start ELSE p.Breaks[i] >= start
  BY <1>1, InForceSplits
<1>4. c + 1 \in Found
  BY <1>1, <1>2, <1>3 DEF Visited
<1>5. \A i \in Found : i \in 1 .. Len(p.Breaks) /\ c + 1 <= i
  BY <1>1, <1>3 DEF Visited
<1>6. (CHOOSE i \in Found : \A k \in Found : i <= k) = c + 1
  <2> DEFINE chosen == CHOOSE i \in Found : \A k \in Found : i <= k
  <2>1. chosen \in Found /\ \A k \in Found : chosen <= k
    BY <1>4, <1>5
  <2>2. chosen <= c + 1 /\ c + 1 <= chosen /\ chosen \in Int
    BY <1>1, <1>4, <1>5, <2>1
  <2> HIDE DEF chosen
  <2> QED
    BY <1>1, <2>2 DEF chosen
<1> QED
  BY <1>4, <1>6 DEF FirstBreak

\* ... and when there is none: `first` keeps its initial value.
LEMMA FirstBreakNotFound ==
  ASSUME NEW p, WellFormed(p), NEW start \in Int, NEW end \in Int,
         NEW c, InForce(p.Breaks, c, start),
         NEW d, InForce(p.Breaks, d, end + 1), c = Len(p.Breaks) \/ d < c
  PROVE  FirstBreak(p, start, end) = 1
<1> DEFINE Found == {i \in Visited(p, end) : p.Breaks[i] >= start}
<1>0. c \in 0 .. Len(p.Breaks) /\ d \in 0 .. Len(p.Breaks)
  BY DEF InForce
<1>1. /\ Ascending(p.Breaks, Len(p.Signatures))
      /\ DOMAIN p.Breaks = 1 .. Len(p.Breaks)
      /\ Len(p.Breaks) \in Nat
      /\ \A i \in 1 .. Len(p.Breaks) : p.Breaks[i] \in Int
      /\ c \in 0 .. Len(p.Breaks) /\ d \in 0 .. Len(p.Breaks)
  BY <1>0, ChainAscending
<1>2. \A i \in 1 .. Len(p.Breaks) : i > d => p.Breaks[i] > end
  BY <1>1, EndSplits
<1>3. \A i \in 1 .. Len(p.Breaks) : i <= c => p.Breaks[i] < start
  BY <1>1, InForceSplits
<1>4. ASSUME NEW i \in Found
      PROVE  FALSE
  <2>1. i \in 1 .. Len(p.Breaks) /\ i > c
    BY <1>1, <1>3 DEF Visited
  <2>2. d + 1 \in 1 .. Len(p.Breaks) /\ d + 1 < i
    BY <1>1, <2>1
  <2>3. p.Breaks[d + 1] > end
    BY <1>1, <1>2, <2>2
  <2> QED
    BY <1>1, <2>2, <2>3 DEF Visited
<1> QED
  BY <1>4 DEF FirstBreak

\* A slice s[f:d] of a sequence of length n, and the slice with one more element.
LEMMA SliceShape ==
  ASSUME NEW S, NEW s \in Seq(S), NEW n \in Nat, Len(s) = n,
         NEW f \in Nat, NEW d \in 0 .. n, f <= d
  PROVE  /\ SubSeq(s, f + 1, d) \in Seq(S)
         /\ Len(SubSeq(s, f + 1, d)) = d - f
         /\ \A i \in 1 .. d - f : SubSeq(s, f + 1, d)[i] = s[f + i]
OBVIOUS

LEMMA SliceAppendShape ==
  ASSUME NEW s \in Seq(Int), NEW n \in Nat, Len(s) = n,
         NEW f \in Nat, NEW d \in 0 .. n, f <= d, NEW x \in Int,
         NEW r, r = Append(SubSeq(s, f + 1, d), x)
  PROVE  /\ r \in Seq(Int)
         /\ Len(r) = d - f + 1
         /\ \A i \in 1 .. d - f : r[i] = s[f + i]
         /\ r[d - f + 1] = x
<1> DEFINE slice == SubSeq(s, f + 1, d)
<1>1. /\ slice \in Seq(Int)
      /\ Len(slice) = d - f
      /\ \A i \in 1 .. d - f : slice[i] = s[f + i]
  BY SliceShape
<1> HIDE DEF slice
<1>2. r = Append(slice, x)
  BY DEF slice
<1>3. r \in Seq(Int) /\ Len(r) = Len(slice) + 1
  BY <1>1, <1>2
<1>4. \A i \in 1 .. Len(slice) : r[i] = slice[i]
  BY <1>1, <1>2
<1>5. r[Len(slice) + 1] = x
  BY <1>1, <1>2
<1> QED
  BY <1>1, <1>3, <1>4, <1>5

\* pi is a proof with the keys of quorums f+1..d that ends at end.
Answer(p, pi, f, d, end) ==
  /\ pi.NextApks \in Seq({Apk(q) : q \in 0 .. Len(p.Breaks)})
  /\ Len(pi.NextApks) = d - f
  /\ \A i \in 1 .. d - f : pi.NextApks[i] = Apk(f + i)
  /\ pi.Breaks \in Seq(Int)
  /\ Len(pi.Breaks) = d - f + 1
  /\ \A i \in 1 .. d - f : pi.Breaks[i] = p.Breaks[f + i]
  /\ pi.Breaks[d - f + 1] = end

\* The proof that update returns, from the values of `first` and `last`.
LEMMA UpdateShape ==
  ASSUME NEW p, WellFormed(p), NEW withPrecomp, NEW start \in Int, NEW end \in Int,
         NEW f \in Nat, NEW d \in 0 .. Len(p.Breaks), f <= d,
         FirstBreak(p, start, end) = f + 1, LastBreak(p, end) = d,
         NEW pi, pi = Update(p, withPrecomp, start, end)
  PROVE  Answer(p, pi, f, d, end)
<1> DEFINE QuorumApks == {Apk(q) : q \in 0 .. Len(p.Breaks)}
<1>1. /\ pi.NextApks = SubSeq(p.Apks, f + 1, d)
      /\ pi.Breaks = Append(SubSeq(p.Breaks, f + 1, d), end)
  BY DEF Update
<1>2. /\ p.Apks \in Seq(QuorumApks)
      /\ Len(p.Breaks) \in Nat
      /\ Len(p.Apks) = Len(p.Breaks)
      /\ \A i \in 1 .. Len(p.Breaks) : p.Apks[i] = Apk(i)
      /\ p.Breaks \in Seq(Nat)
  BY ChainTypes
<1>3. p.Breaks \in Seq(Int)
  BY <1>2
<1> HIDE DEF QuorumApks
<1>4. /\ pi.NextApks \in Seq(QuorumApks)
      /\ Len(pi.NextApks) = d - f
      /\ \A i \in 1 .. d - f : pi.NextApks[i] = p.Apks[f + i]
  <2>1. pi.NextApks = SubSeq(p.Apks, f + 1, d) /\ p.Apks \in Seq(QuorumApks)
    BY <1>1, <1>2
  <2>2. pi.NextApks \in Seq(QuorumApks)
    BY <1>2, <2>1, SliceShape
  <2>3. Len(pi.NextApks) = d - f
    BY <1>2, <2>1, SliceShape
  <2>4. \A i \in 1 .. d - f : pi.NextApks[i] = p.Apks[f + i]
    BY <1>2, <2>1, SliceShape
  <2> QED
    BY <2>2, <2>3, <2>4
<1>5. \A i \in 1 .. d - f : f + i \in 1 .. Len(p.Breaks)
  BY <1>2
<1>6. \A i \in 1 .. d - f : pi.NextApks[i] = Apk(f + i)
  BY <1>2, <1>4, <1>5
<1>7. p.Breaks \in Seq(Int) /\ pi.Breaks = Append(SubSeq(p.Breaks, f + 1, d), end)
  BY <1>1, <1>3
<1>8. pi.Breaks \in Seq(Int)
  BY <1>2, <1>7, SliceAppendShape
<1>9. Len(pi.Breaks) = d - f + 1
  BY <1>2, <1>7, SliceAppendShape
<1>10. \A i \in 1 .. d - f : pi.Breaks[i] = p.Breaks[f + i]
  BY <1>2, <1>7, SliceAppendShape
<1>11. pi.Breaks[d - f + 1] = end
  BY <1>2, <1>7, SliceAppendShape
<1>12. pi.NextApks \in Seq({Apk(q) : q \in 0 .. Len(p.Breaks)})
  BY <1>4, Zenon DEF QuorumApks
<1> QED
  BY <1>1, <1>4, <1>6, <1>8, <1>9, <1>10, <1>11, <1>12, Zenon DEF Answer

-----------------------------------------------------------------------------
(* What the node answers, in terms of the quorums c in force at the start  *)
(* and d in force after the end.                                           *)

\* The index of the first break of the answer, minus one: c if the search
\* finds a break, 0 if `first` keeps its initial value.
Origin(B, c, d) == IF c < Len(B) /\ c <= d THEN c ELSE 0

LEMMA AnswerShape ==
  ASSUME NEW p, WellFormed(p), NEW withPrecomp, NEW start \in Int, NEW end \in Int,
         NEW c, InForce(p.Breaks, c, start), NEW d, InForce(p.Breaks, d, end + 1),
         NEW pi, pi = Update(p, withPrecomp, start, end)
  PROVE  /\ Origin(p.Breaks, c, d) \in 0 .. d
         /\ Answer(p, pi, Origin(p.Breaks, c, d), d, end)
         /\ pi.Signature = Aggregate(p, withPrecomp, start, end)
<1> DEFINE f == Origin(p.Breaks, c, d)
<1>1. Len(p.Breaks) \in Nat
  BY ChainTypes
<1>2. c \in 0 .. Len(p.Breaks) /\ d \in 0 .. Len(p.Breaks)
  BY DEF InForce
<1>3. f \in 0 .. d
  BY <1>1, <1>2 DEF Origin
<1>4. FirstBreak(p, start, end) = f + 1
  <2>1. CASE c < Len(p.Breaks) /\ c <= d
    <3>1. FirstBreak(p, start, end) = c + 1
      BY <2>1, FirstBreakFound
    <3> QED
      BY <2>1, <3>1 DEF Origin
  <2>2. CASE ~(c < Len(p.Breaks) /\ c <= d)
    <3>1. c = Len(p.Breaks) \/ d < c
      BY <1>1, <1>2, <2>2
    <3>2. FirstBreak(p, start, end) = 1
      BY <3>1, FirstBreakNotFound
    <3> QED
      BY <2>2, <3>2 DEF Origin
  <2> QED
    BY <2>1, <2>2
<1>5. LastBreak(p, end) = d
  BY LastBreakCounts
<1>6. f \in Nat /\ f <= d
  BY <1>1, <1>2, <1>3
<1> HIDE DEF f
<1>7. d \in 0 .. Len(p.Breaks)
  BY <1>2
<1>8. Answer(p, pi, f, d, end)
  BY <1>4, <1>5, <1>6, <1>7, UpdateShape
<1>9. pi.Signature = Aggregate(p, withPrecomp, start, end)
  BY DEF Update
<1> QED
  BY <1>3, <1>8, <1>9 DEF f

-----------------------------------------------------------------------------
(* The inductive invariant.                                                *)

\* An answer is what update returned for the client's present epoch: the
\* client does not move while it waits.
AnswerIsCurrent ==
  call.phase = "answered" =>
    \E withPrecomp \in BOOLEAN, end \in 1 .. Len(prover.Signatures) :
      call.pi = Update(prover, withPrecomp, lc.Epoch, end)

RequestIsCurrent ==
  call.phase = "requested" =>
    /\ call.ns \in DOMAIN limits
    /\ call.withPrecomp \in BOOLEAN
    /\ call.start = lc.Epoch

IInv ==
  /\ prover \in Provers
  /\ limits \in [Namespaces(prover) -> 1 .. Len(prover.Signatures)]
  /\ lc \in [Epoch : Epochs, QuorumApk : QuorumKeys]
  /\ ClientInForce
  /\ call.phase \in {"idle", "requested", "answered", "panicked"}
  /\ RequestIsCurrent
  /\ AnswerIsCurrent

\* A client that starts from genesis satisfies its part of the invariant.
LEMMA FreshClientInForce ==
  ASSUME NEW p, WellFormed(p)
  PROVE  /\ NewLightClient(p.GenesisApk) \in
              [Epoch : 1 .. Len(p.Signatures) + 1,
               QuorumApk : {Apk(q) : q \in 0 .. Len(p.Breaks)}]
         /\ InForce(p.Breaks, 0, NewLightClient(p.GenesisApk).Epoch)
         /\ NewLightClient(p.GenesisApk).QuorumApk = Apk(0)
<1>1. /\ Len(p.Breaks) \in Nat \ {0} /\ Len(p.Signatures) \in Nat \ {0}
      /\ p.Breaks[1] = 1 /\ p.GenesisApk = Apk(0)
  <2>1. p.GenesisApk = Apk(0)
    BY DEF WellFormed
  <2> QED
    BY <2>1, ChainTypes
<1>2. InForce(p.Breaks, 0, 1)
  BY <1>1 DEF InForce
<1> QED
  BY <1>1, <1>2 DEF NewLightClient

LEMMA InitIInv == Init => IInv
<1> SUFFICES ASSUME Init PROVE IInv
  OBVIOUS
<1>1. prover \in Provers /\ WellFormed(prover)
  BY ProversAssumption DEF Init
<1>2. limits \in [Namespaces(prover) -> 1 .. Len(prover.Signatures)]
  BY DEF Init, StartRPC, Namespaces
<1>3. lc \in [Epoch : Epochs, QuorumApk : QuorumKeys]
  BY <1>1, FreshClientInForce DEF Init, Epochs, QuorumKeys
<1>4. ClientInForce
  <2>1. 0 \in 0 .. Len(prover.Breaks)
    BY <1>1, ChainTypes
  <2> QED
    BY <1>1, <2>1, FreshClientInForce DEF Init, ClientInForce
<1>5. call.phase = "idle"
  BY DEF Init, Idle
<1> QED
  BY <1>1, <1>2, <1>3, <1>4, <1>5 DEF IInv, RequestIsCurrent, AnswerIsCurrent

\* What Accept makes of an answer: the epoch after its end, and the key of
\* the quorum in force there.
LEMMA UpdatedClient ==
  ASSUME NEW p, NEW pi, NEW d \in Nat, NEW f \in 0 .. d, NEW end \in Int,
         Answer(p, pi, f, d, end), pi.NextApks # <<>>
  PROVE  Updated(pi) = [Epoch |-> end + 1, QuorumApk |-> Apk(d)]
<1>1. /\ Len(pi.NextApks) = d - f /\ Len(pi.Breaks) = d - f + 1
      /\ pi.Breaks[d - f + 1] = end
  BY DEF Answer
<1>2. d - f \in Nat /\ d - f # 0
  BY DEF Answer
<1>3. pi.NextApks[d - f] = Apk(f + (d - f))
  <2>1. \A i \in 1 .. d - f : pi.NextApks[i] = Apk(f + i)
    BY DEF Answer
  <2>2. d - f \in 1 .. d - f
    BY <1>2
  <2> QED
    BY <2>1, <2>2
<1>4. f + (d - f) = d
  BY <1>2
<1> QED
  BY <1>1, <1>3, <1>4 DEF Updated

LEMMA NextIInv == IInv /\ [Next]_vars => IInv'
<1> SUFFICES ASSUME IInv, [Next]_vars
             PROVE  IInv'
  OBVIOUS
<1> USE DEF RequestIsCurrent, AnswerIsCurrent
<1>1. /\ WellFormed(prover)
      /\ Len(prover.Signatures) \in Nat
      /\ Len(prover.Breaks) \in Nat
  BY ProversAssumption, ChainTypes DEF IInv
<1>2. CASE FreshClient
  <2>1. /\ prover' = prover /\ limits' = limits
        /\ lc' = NewLightClient(prover.GenesisApk) /\ call'.phase = "idle"
    BY <1>2 DEF FreshClient, Idle
  <2>2. lc' \in [Epoch : Epochs', QuorumApk : QuorumKeys']
    BY <1>1, <2>1, FreshClientInForce DEF Epochs, QuorumKeys
  <2>3. ClientInForce'
    <3>1. 0 \in 0 .. Len(prover'.Breaks)
      BY <1>1, <2>1
    <3> QED
      BY <1>1, <2>1, <3>1, FreshClientInForce DEF ClientInForce
  <2> QED
    BY <2>1, <2>2, <2>3 DEF IInv
<1>3. ASSUME NEW ns \in DOMAIN limits, NEW withPrecomp \in BOOLEAN,
             Request(ns, withPrecomp)
      PROVE  IInv'
  BY <1>3 DEF Request, IInv, ClientInForce, Epochs, QuorumKeys
<1>4. CASE Serve
  <2> DEFINE end == limits'[call.ns]
  <2>1. /\ prover' = prover /\ lc' = lc /\ call'.phase = "answered"
        /\ call'.pi = Update(prover, call.withPrecomp, lc.Epoch, end)
    BY <1>4 DEF Serve, IInv
  <2>2. limits' \in [Namespaces(prover) -> 1 .. Len(prover.Signatures)]
    BY <1>1, <1>4 DEF Serve, ClampedEnd, IInv
  <2>3. end \in 1 .. Len(prover.Signatures) /\ call.withPrecomp \in BOOLEAN
    BY <1>4, <2>2 DEF Serve, IInv
  <2> HIDE DEF end
  <2>4. AnswerIsCurrent'
    BY <2>1, <2>3
  <2> QED
    BY <2>1, <2>2, <2>4 DEF IInv, ClientInForce, Epochs, QuorumKeys
<1>5. CASE TransportError
  BY <1>5 DEF TransportError, Idle, IInv, ClientInForce, Epochs, QuorumKeys
<1>6. CASE Reject
  BY <1>6 DEF Reject, Idle, IInv, ClientInForce, Epochs, QuorumKeys
<1>7. CASE Accept
  <2>1. PICK withPrecomp \in BOOLEAN, end \in 1 .. Len(prover.Signatures) :
          call.pi = Update(prover, withPrecomp, lc.Epoch, end)
    BY <1>7 DEF Accept, IInv
  <2>2. PICK c \in 0 .. Len(prover.Breaks) : InForce(prover.Breaks, c, lc.Epoch)
    BY DEF IInv, ClientInForce
  <2>3. end + 1 \in 1 .. Len(prover.Signatures) + 1 /\ end \in Int /\ lc.Epoch \in Int
    BY <1>1 DEF IInv, Epochs
  <2>4. PICK d \in 0 .. Len(prover.Breaks) : InForce(prover.Breaks, d, end + 1)
    BY <1>1, <2>3, InForceExists
  <2>5. PICK f \in 0 .. d : Answer(prover, call.pi, f, d, end)
    BY <1>1, <2>1, <2>2, <2>3, <2>4, AnswerShape
  <2>6. lc' = [Epoch |-> end + 1, QuorumApk |-> Apk(d)]
    <3>1. d \in Nat /\ call.pi.NextApks # <<>> /\ lc' = Updated(call.pi)
      BY <1>1, <1>7 DEF Accept
    <3> QED
      BY <2>3, <2>5, <3>1, UpdatedClient
  <2>7. prover' = prover /\ limits' = limits /\ call'.phase = "idle"
    BY <1>7 DEF Accept, Idle
  <2>8. lc' \in [Epoch : Epochs', QuorumApk : QuorumKeys']
    BY <2>3, <2>4, <2>6, <2>7 DEF Epochs, QuorumKeys
  <2>9. ClientInForce'
    BY <2>4, <2>6, <2>7 DEF ClientInForce
  <2> QED
    BY <2>7, <2>8, <2>9 DEF IInv
<1>8. CASE Panic
  BY <1>8 DEF Panic, IInv, ClientInForce, Epochs, QuorumKeys
<1>9. CASE UNCHANGED vars
  BY <1>9 DEF vars, IInv, ClientInForce, Epochs, QuorumKeys
<1> QED
  BY <1>2, <1>3, <1>4, <1>5, <1>6, <1>7, <1>8, <1>9 DEF Next

\* The invariant holds throughout: the other theorems about Spec follow from it.
THEOREM Invariance == Spec => []IInv
BY InitIInv, NextIInv, PTL DEF Spec

\* TypeOK: the shapes of the client's state and of the node's answers.
THEOREM TypeCorrect == Spec => []TypeOK
<1>1. ASSUME IInv PROVE TypeOK
  <2>1. prover \in Provers /\ WellFormed(prover)
    BY <1>1, ProversAssumption DEF IInv
  <2>2. limits \in [Namespaces(prover) -> Nat]
    BY <1>1, <2>1, ChainTypes DEF IInv
  <2>3. ASSUME call.phase = "answered"
        PROVE  /\ call.pi.NextApks \in Seq(QuorumKeys)
               /\ Len(call.pi.Breaks) = Len(call.pi.NextApks) + 1
    <3>1. PICK withPrecomp \in BOOLEAN, end \in 1 .. Len(prover.Signatures) :
            call.pi = Update(prover, withPrecomp, lc.Epoch, end)
      BY <1>1, <2>3 DEF IInv, AnswerIsCurrent
    <3>2. PICK c \in 0 .. Len(prover.Breaks) : InForce(prover.Breaks, c, lc.Epoch)
      BY <1>1 DEF IInv, ClientInForce
    <3>3. Len(prover.Signatures) \in Nat
      BY <2>1, ChainTypes
    <3>4. end + 1 \in 1 .. Len(prover.Signatures) + 1 /\ end \in Int /\ lc.Epoch \in Int
      BY <1>1, <3>3 DEF IInv, Epochs
    <3>5. PICK d \in 0 .. Len(prover.Breaks) : InForce(prover.Breaks, d, end + 1)
      BY <2>1, <3>4, InForceExists
    <3>6. PICK f \in 0 .. d : Answer(prover, call.pi, f, d, end)
      BY <2>1, <3>1, <3>2, <3>4, <3>5, AnswerShape
    <3>7. Len(call.pi.NextApks) = d - f /\ Len(call.pi.Breaks) = d - f + 1
      BY <3>6 DEF Answer
    <3>8. call.pi.NextApks \in Seq(QuorumKeys)
      BY <3>6, Zenon DEF Answer, QuorumKeys
    <3> QED
      BY <3>7, <3>8
  <2> QED
    BY <1>1, <2>1, <2>2, <2>3 DEF IInv, TypeOK, RequestIsCurrent
<1> QED
  BY <1>1, Invariance, PTL

\* ClientInForce: after any updates, from any limits, the client's key is that
\* of the quorum that signs the end of its epoch.
THEOREM ClientSafe == Spec => []ClientInForce
<1>1. IInv => ClientInForce
  BY DEF IInv
<1> QED
  BY <1>1, Invariance, PTL

\* LimitsStable: no request changes the limit of a later one, although update
\* clamps the shared *big.Int in place; every namespace's limit lies within
\* the chain.
THEOREM LimitsUnchanged == Spec => LimitsStable
<1>1. ASSUME IInv, [Next]_vars
      PROVE  UNCHANGED limits
  <2>1. CASE Serve
    <3>1. limits \in [Namespaces(prover) -> 1 .. Len(prover.Signatures)]
      BY <1>1 DEF IInv
    <3>2. WellFormed(prover)
      BY <1>1, ProversAssumption DEF IInv
    <3>3. Len(prover.Signatures) \in Nat
      BY <3>2, ChainTypes
    <3>4. call.ns \in Namespaces(prover)
      BY <1>1, <2>1, <3>1 DEF Serve, IInv, RequestIsCurrent
    <3>5. ClampedEnd(prover, limits[call.ns]) = limits[call.ns]
      BY <3>1, <3>3, <3>4 DEF ClampedEnd
    <3> QED
      BY <2>1, <3>1, <3>5 DEF Serve
  <2> QED
    BY <1>1, <2>1 DEF Next, FreshClient, Request, TransportError, Reject, Accept, Panic, vars
<1> QED
  BY <1>1, Invariance, PTL DEF Spec, LimitsStable

-----------------------------------------------------------------------------
(* Which answers of the node pass VerifyPeriods, for every well-formed     *)
(* chain and every quorum size, and what follows for the client: it        *)
(* accepts exactly the answers AcceptedExactly describes, and it           *)
(* implements AbstractLightClient.                                         *)
(*                                                                         *)
(* Throughout, c is the quorum in force at the client's epoch `start` and  *)
(* d the one in force after the `end` of the answer.                       *)

-----------------------------------------------------------------------------
(* Points and coefficients.                                                *)

Indicator(b) == IF b THEN 1 ELSE 0

\* Hashes of different epochs, or under different tags, are different points.
LEMMA DistinctHashes ==
  ASSUME NEW x \in Nat, NEW y \in Nat, NEW a, NEW b
  PROVE  /\ HashEpoch(x) = HashEpoch(y) => x = y
         /\ HashEpoch(x) # HashEpochKeys(y, a)
         /\ HashEpochKeys(x, a) = HashEpochKeys(y, b) => x = y
BY DEF HashEpoch, HashEpochKeys, Bytes

LEMMA AtMostOne ==
  ASSUME NEW S, \A x, y \in S : x = y
  PROVE  Cardinality(S) = Indicator(S # {})
<1>1. CASE S = {}
  BY <1>1, FS_EmptySet DEF Indicator
<1>2. CASE S # {}
  <2>1. PICK x \in S : TRUE
    BY <1>2
  <2>2. S = {x}
    BY <2>1
  <2>3. Cardinality({x}) = 1
    BY FS_Singleton
  <2> QED
    BY <1>2, <2>2, <2>3 DEF Indicator
<1> QED
  BY <1>1, <1>2

-----------------------------------------------------------------------------
(* The pairing sum of the verifier, for n segments.                        *)

\* The point that the hash of segment i is positive in.
SegmentEnd(apks, breaks, n, i) ==
  IF i = n THEN HashEpoch(breaks[n + 1]) ELSE HashEpochKeys(breaks[i + 1], apks[i + 1])

LEMMA SegmentHashShape ==
  ASSUME NEW apks, NEW breaks, NEW n \in Nat \ {0}, Len(apks) = n, Len(breaks) = n + 1,
         NEW i \in 1 .. n, breaks[i] \in Int, breaks[i + 1] \in Int
  PROVE  /\ SegmentHash(apks, breaks, i).pos = SegmentEnd(apks, breaks, n, i)
         /\ SegmentHash(apks, breaks, i).neg = HashEpoch(breaks[i])
<1> DEFINE inc == breaks[i] + 1
           diff == breaks[i + 1] - breaks[i]
<1>1. inc - 1 + diff = breaks[i + 1] /\ inc - 1 = breaks[i]
  OBVIOUS
<1>2. CASE i = n
  <2>1. SegmentHash(apks, breaks, i) = ChainHash(inc, diff)
    BY <1>2 DEF SegmentHash
  <2>2. ChainHash(inc, diff) =
          [pos |-> HashEpoch(inc - 1 + diff), neg |-> HashEpoch(inc - 1)]
    BY DEF ChainHash
  <2> HIDE DEF inc, diff
  <2> QED
    BY <1>1, <1>2, <2>1, <2>2 DEF SegmentEnd
<1>3. CASE i # n
  <2>1. SegmentHash(apks, breaks, i) = ChainHashKeys(inc, diff, apks[i + 1])
    BY <1>3 DEF SegmentHash
  <2>2. ChainHashKeys(inc, diff, apks[i + 1]) =
          [pos |-> HashEpochKeys(inc - 1 + diff, apks[i + 1]), neg |-> HashEpoch(inc - 1)]
    BY DEF ChainHashKeys
  <2> HIDE DEF inc, diff
  <2> QED
    BY <1>1, <1>3, <2>1, <2>2 DEF SegmentEnd
<1> QED
  BY <1>2, <1>3

\* S has one term per segment and member of its quorum.
SegmentTerms(apks, breaks, n, S) ==
  /\ \A x \in DOMAIN S : x = <<x[1], x[2]>> /\ x[1] \in 1 .. n /\ x[2] \in apks[x[1]]
  /\ \A i \in 1 .. n : \A key \in apks[i] :
       /\ <<i, key>> \in DOMAIN S
       /\ S[<<i, key>>].key = key
       /\ S[<<i, key>>].hash = SegmentHash(apks, breaks, i)

LEMMA PairingTerms ==
  ASSUME NEW apks, NEW breaks, NEW n \in Nat \ {0}, Len(breaks) = n + 1,
         NEW S, S = PairingSum(apks, breaks)
  PROVE  SegmentTerms(apks, breaks, n, S)
<1> DEFINE Members == UNION {apks[i] : i \in 1 .. n}
<1>1. S = [x \in {y \in (1 .. n) \X Members : y[2] \in apks[y[1]]} |->
             [key |-> x[2], hash |-> SegmentHash(apks, breaks, x[1])]]
  <2>1. Len(breaks) - 1 = n
    OBVIOUS
  <2> QED
    BY <2>1 DEF PairingSum
<1>2. \A i \in 1 .. n : \A key \in apks[i] : key \in Members
  OBVIOUS
<1> HIDE DEF Members
<1>3. DOMAIN S = {y \in (1 .. n) \X Members : y[2] \in apks[y[1]]}
  BY <1>1
<1>4. ASSUME NEW i \in 1 .. n, NEW key \in apks[i]
      PROVE  /\ <<i, key>> \in DOMAIN S
             /\ S[<<i, key>>].key = key
             /\ S[<<i, key>>].hash = SegmentHash(apks, breaks, i)
  <2>1. <<i, key>> \in DOMAIN S
    BY <1>2, <1>3
  <2>2. S[<<i, key>>] = [key |-> key, hash |-> SegmentHash(apks, breaks, i)]
    BY <1>1, <1>3, <2>1
  <2> QED
    BY <2>1, <2>2
<1>5. \A x \in DOMAIN S : x = <<x[1], x[2]>> /\ x[1] \in 1 .. n /\ x[2] \in apks[x[1]]
  BY <1>3
<1> QED
  BY <1>4, <1>5 DEF SegmentTerms

\* The coefficient of a key that belongs to one segment only.
LEMMA PairingCoefficient ==
  ASSUME NEW apks, NEW breaks, NEW n \in Nat \ {0}, Len(apks) = n, Len(breaks) = n + 1,
         NEW i \in 1 .. n, breaks[i] \in Int, breaks[i + 1] \in Int,
         NEW key \in apks[i], \A k \in 1 .. n : key \in apks[k] => k = i,
         NEW point
  PROVE  Coefficient(PairingSum(apks, breaks), key, point) =
           Indicator(SegmentEnd(apks, breaks, n, i) = point)
             - Indicator(HashEpoch(breaks[i]) = point)
<1> DEFINE S == PairingSum(apks, breaks)
           Plus == {x \in DOMAIN S : S[x].key = key /\ S[x].hash.pos = point}
           Minus == {x \in DOMAIN S : S[x].key = key /\ S[x].hash.neg = point}
<1>0. SegmentTerms(apks, breaks, n, S)
  BY PairingTerms
<1>2. /\ SegmentHash(apks, breaks, i).pos = SegmentEnd(apks, breaks, n, i)
      /\ SegmentHash(apks, breaks, i).neg = HashEpoch(breaks[i])
  BY SegmentHashShape
<1> HIDE DEF S
<1>1. /\ \A x \in DOMAIN S : x = <<x[1], x[2]>> /\ x[1] \in 1 .. n /\ x[2] \in apks[x[1]]
      /\ \A k \in 1 .. n : \A m \in apks[k] :
           /\ <<k, m>> \in DOMAIN S
           /\ S[<<k, m>>].key = m
           /\ S[<<k, m>>].hash = SegmentHash(apks, breaks, k)
  BY <1>0 DEF SegmentTerms
<1>3. \A x \in DOMAIN S : S[x].key = key => x = <<i, key>>
  <2> SUFFICES ASSUME NEW x \in DOMAIN S, S[x].key = key PROVE x = <<i, key>>
    OBVIOUS
  <2>1. x = <<x[1], x[2]>> /\ x[1] \in 1 .. n /\ x[2] \in apks[x[1]]
    BY <1>1
  <2>2. S[<<x[1], x[2]>>].key = x[2]
    BY <1>1, <2>1
  <2>3. x[2] = key
    BY <2>1, <2>2
  <2> QED
    BY <2>1, <2>3
<1>4. /\ <<i, key>> \in DOMAIN S /\ S[<<i, key>>].key = key
      /\ S[<<i, key>>].hash.pos = SegmentEnd(apks, breaks, n, i)
      /\ S[<<i, key>>].hash.neg = HashEpoch(breaks[i])
  BY <1>1, <1>2
<1>5. Cardinality(Plus) = Indicator(SegmentEnd(apks, breaks, n, i) = point)
  <2>1. Cardinality(Plus) = Indicator(Plus # {})
    BY <1>3, AtMostOne
  <2>2. Plus # {} <=> SegmentEnd(apks, breaks, n, i) = point
    BY <1>3, <1>4
  <2> QED
    BY <2>1, <2>2 DEF Indicator
<1>6. Cardinality(Minus) = Indicator(HashEpoch(breaks[i]) = point)
  <2>1. Cardinality(Minus) = Indicator(Minus # {})
    BY <1>3, AtMostOne
  <2>2. Minus # {} <=> HashEpoch(breaks[i]) = point
    BY <1>3, <1>4
  <2> QED
    BY <2>1, <2>2 DEF Indicator
<1> QED
  BY <1>5, <1>6 DEF Coefficient, S

-----------------------------------------------------------------------------
(* The aggregate signature of the node.                                    *)

\* What the members of quorum r sign at the end of epoch e is positive in.
SignedPoint(B, r, e) ==
  IF r < Len(B) /\ B[r + 1] = e THEN HashEpochKeys(e, Apk(r + 1)) ELSE HashEpoch(e)

LEMMA SignedTerm ==
  ASSUME NEW B, NEW r \in Int, NEW m, NEW e \in Int
  PROVE  /\ ExpectedSignature(B, r, m, e).key = <<r, m>>
         /\ ExpectedSignature(B, r, m, e).hash.pos = SignedPoint(B, r, e)
         /\ ExpectedSignature(B, r, m, e).hash.neg = HashEpoch(e - 1)
<1>1. e - 1 + 1 = e
  OBVIOUS
<1>2. CASE r < Len(B) /\ B[r + 1] = e
  <2>1. ExpectedSignature(B, r, m, e) =
          [key |-> <<r, m>>,
           hash |-> [pos |-> HashEpochKeys(e, Apk(r + 1)), neg |-> HashEpoch(e - 1)]]
    BY <1>1, <1>2 DEF ExpectedSignature, SignBreak, ChainHashKeys
  <2> QED
    BY <1>2, <2>1 DEF SignedPoint
<1>3. CASE ~(r < Len(B) /\ B[r + 1] = e)
  <2>1. ExpectedSignature(B, r, m, e) =
          [key |-> <<r, m>>, hash |-> [pos |-> HashEpoch(e), neg |-> HashEpoch(e - 1)]]
    BY <1>1, <1>3 DEF ExpectedSignature, SignNoBreak, ChainHash
  <2> QED
    BY <1>3, <2>1 DEF SignedPoint
<1> QED
  BY <1>2, <1>3

\* S has one signature per epoch and member, of the quorum in force.
SignedTerms(B, start, end, S) ==
  /\ DOMAIN S = (start .. end) \X (1 .. Quorum)
  /\ \A x \in DOMAIN S :
       /\ x = <<x[1], x[2]>> /\ x[1] \in start .. end /\ x[2] \in 1 .. Quorum
       /\ \E r \in 0 .. Len(B) :
            /\ InForce(B, r, x[1])
            /\ S[x].key = <<r, x[2]>>
            /\ S[x].hash.pos = SignedPoint(B, r, x[1])
            /\ S[x].hash.neg = HashEpoch(x[1] - 1)

\* Precomputed or not, the aggregate is one signature per epoch and member.
LEMMA AggregateTerms ==
  ASSUME NEW p, WellFormed(p), NEW withPrecomp \in BOOLEAN,
         NEW start \in 1 .. Len(p.Signatures) + 1, NEW end \in 1 .. Len(p.Signatures),
         NEW S, S = Aggregate(p, withPrecomp, start, end)
  PROVE  SignedTerms(p.Breaks, start, end, S)
<1>1. DOMAIN S = (start .. end) \X (1 .. Quorum)
  BY DEF Aggregate
<1>2. ASSUME NEW x \in DOMAIN S
      PROVE  /\ x = <<x[1], x[2]>> /\ x[1] \in start .. end /\ x[2] \in 1 .. Quorum
             /\ \E r \in 0 .. Len(p.Breaks) :
                  /\ InForce(p.Breaks, r, x[1])
                  /\ S[x].key = <<r, x[2]>>
                  /\ S[x].hash.pos = SignedPoint(p.Breaks, r, x[1])
                  /\ S[x].hash.neg = HashEpoch(x[1] - 1)
  <2>1. x = <<x[1], x[2]>> /\ x[1] \in start .. end /\ x[2] \in 1 .. Quorum
    BY <1>1
  <2>2. Len(p.Signatures) \in Nat /\ Len(p.Breaks) \in Nat
    BY ChainTypes
  <2>3. x[1] \in 1 .. Len(p.Signatures) /\ x[1] \in Int
    BY <2>1, <2>2
  <2>4. PICK r \in 0 .. Len(p.Breaks) :
          /\ InForce(p.Breaks, r, x[1])
          /\ p.Signatures[x[1]] =
               [j \in 1 .. Quorum |-> ExpectedSignature(p.Breaks, r, j, x[1])]
    BY <2>3 DEF WellFormed
  <2>5. p.Multisigs[x[1]] = p.Signatures[x[1]]
    BY <2>3 DEF WellFormed
  <2>6. S[x] = p.Signatures[x[1]][x[2]]
    <3>1. S[x] = IF withPrecomp THEN p.Multisigs[x[1]][x[2]]
                                ELSE p.Signatures[x[1]][x[2]]
      BY <1>1 DEF Aggregate
    <3> QED
      BY <2>5, <3>1
  <2>7. S[x] = ExpectedSignature(p.Breaks, r, x[2], x[1])
    BY <2>1, <2>4, <2>6
  <2>8. r \in Int
    BY <2>2
  <2>9. /\ S[x].key = <<r, x[2]>>
        /\ S[x].hash.pos = SignedPoint(p.Breaks, r, x[1])
        /\ S[x].hash.neg = HashEpoch(x[1] - 1)
    BY <2>3, <2>7, <2>8, SignedTerm
  <2> QED
    BY <2>1, <2>4, <2>9
<1> QED
  BY <1>1, <1>2 DEF SignedTerms

-----------------------------------------------------------------------------
(* Answers that do not verify.                                             *)

\* The client's aggregate key comes first, its epoch's predecessor too.
LEMMA VerifyInput ==
  ASSUME NEW S, NEW s \in Seq(S), NEW n \in Nat, Len(s) = n, NEW x \in S,
         NEW r, r = <<x>> \o s
  PROVE  /\ Len(r) = n + 1
         /\ r[1] = x
         /\ \A i \in 1 .. n : r[i + 1] = s[i]
OBVIOUS

\* apks and breaks as verify passes them to VerifyPeriods.
Arguments(p, c, f, d, start, end, apks, breaks) ==
  /\ Len(apks) = d - f + 1
  /\ apks[1] = Apk(c)
  /\ \A i \in 2 .. d - f + 1 : apks[i] = Apk(f + i - 1)
  /\ Len(breaks) = d - f + 2
  /\ breaks[1] = start - 1
  /\ \A i \in 2 .. d - f + 1 : breaks[i] = p.Breaks[f + i - 1]
  /\ breaks[d - f + 2] = end

LEMMA VerifyArguments ==
  ASSUME NEW p, WellFormed(p), NEW pi, NEW d \in 0 .. Len(p.Breaks), NEW f \in 0 .. d,
         NEW end \in Int, Answer(p, pi, f, d, end),
         NEW start \in Int, NEW c \in 0 .. Len(p.Breaks),
         NEW apks, apks = <<Apk(c)>> \o pi.NextApks,
         NEW breaks, breaks = <<start - 1>> \o pi.Breaks
  PROVE  Arguments(p, c, f, d, start, end, apks, breaks)
<1> DEFINE QuorumApks == {Apk(q) : q \in 0 .. Len(p.Breaks)}
           n == d - f
<1>1. Apk(c) \in QuorumApks
  OBVIOUS
<1>2. pi.NextApks \in Seq(QuorumApks)
  BY DEF Answer
<1> HIDE DEF QuorumApks
<1>3. n \in Nat /\ Len(pi.NextApks) = n
  BY ChainTypes DEF Answer
<1>4. pi.Breaks \in Seq(Int) /\ Len(pi.Breaks) = n + 1 /\ n + 1 \in Nat /\ start - 1 \in Int
  BY <1>3 DEF Answer
<1>5. /\ \A i \in 1 .. n : pi.NextApks[i] = Apk(f + i)
      /\ \A i \in 1 .. n : pi.Breaks[i] = p.Breaks[f + i]
      /\ pi.Breaks[n + 1] = end
  BY DEF Answer
<1> HIDE DEF n
<1>6. Len(apks) = n + 1
  BY <1>1, <1>2, <1>3, VerifyInput
<1>7. apks[1] = Apk(c)
  BY <1>1, <1>2, <1>3, VerifyInput
<1>8. \A i \in 1 .. n : apks[i + 1] = pi.NextApks[i]
  BY <1>1, <1>2, <1>3, VerifyInput
<1>9. Len(breaks) = n + 2
  BY <1>3, <1>4, VerifyInput
<1>10. breaks[1] = start - 1
  BY <1>4, VerifyInput
<1>11. \A i \in 1 .. n + 1 : breaks[i + 1] = pi.Breaks[i]
  BY <1>4, VerifyInput
<1>12. \A i \in 2 .. n + 1 : apks[i] = Apk(f + i - 1)
  <2> SUFFICES ASSUME NEW i \in 2 .. n + 1 PROVE apks[i] = Apk(f + i - 1)
    OBVIOUS
  <2>1. i - 1 \in 1 .. n /\ (i - 1) + 1 = i /\ f + (i - 1) = f + i - 1
    BY <1>3
  <2> QED
    BY <1>5, <1>8, <2>1
<1>13. \A i \in 2 .. n + 1 : breaks[i] = p.Breaks[f + i - 1]
  <2> SUFFICES ASSUME NEW i \in 2 .. n + 1 PROVE breaks[i] = p.Breaks[f + i - 1]
    OBVIOUS
  <2>1. /\ i - 1 \in 1 .. n /\ i - 1 \in 1 .. n + 1
        /\ (i - 1) + 1 = i /\ f + (i - 1) = f + i - 1
    BY <1>3
  <2> QED
    BY <1>5, <1>11, <2>1
<1>14. breaks[n + 2] = end
  <2>1. n + 1 \in 1 .. n + 1 /\ (n + 1) + 1 = n + 2
    BY <1>3
  <2> QED
    BY <1>5, <1>11, <2>1
<1> QED
  BY <1>3, <1>6, <1>7, <1>9, <1>10, <1>12, <1>13, <1>14 DEF n, Arguments

\* The context of an answer: chain, request, answer and what verify makes of it.
Served(p, withPrecomp, start, end, c, d, pi, apks, breaks) ==
  /\ WellFormed(p)
  /\ withPrecomp \in BOOLEAN
  /\ start \in 1 .. Len(p.Signatures) + 1
  /\ end \in 1 .. Len(p.Signatures)
  /\ InForce(p.Breaks, c, start)
  /\ InForce(p.Breaks, d, end + 1)
  /\ pi = Update(p, withPrecomp, start, end)
  /\ apks = <<Apk(c)>> \o pi.NextApks
  /\ breaks = <<start - 1>> \o pi.Breaks

LEMMA ServedFacts ==
  ASSUME NEW p, NEW withPrecomp, NEW start, NEW end, NEW c, NEW d, NEW pi, NEW apks,
         NEW breaks, Served(p, withPrecomp, start, end, c, d, pi, apks, breaks)
  PROVE  /\ WellFormed(p)
         /\ Ascending(p.Breaks, Len(p.Signatures))
         /\ Len(p.Signatures) \in Nat /\ Len(p.Breaks) \in Nat \ {0}
         /\ p.Breaks[1] = 1
         /\ \A i \in 1 .. Len(p.Breaks) : p.Breaks[i] \in 1 .. Len(p.Signatures)
         /\ start \in Nat \ {0} /\ end \in Nat \ {0}
         /\ c \in 0 .. Len(p.Breaks) /\ d \in 1 .. Len(p.Breaks)
         /\ pi.Signature = Aggregate(p, withPrecomp, start, end)
         /\ Origin(p.Breaks, c, d) \in 0 .. d
         /\ Answer(p, pi, Origin(p.Breaks, c, d), d, end)
<1>1. WellFormed(p)
  BY DEF Served
<1>2. Ascending(p.Breaks, Len(p.Signatures))
  BY <1>1, ChainAscending
<1>3. /\ Len(p.Signatures) \in Nat /\ Len(p.Breaks) \in Nat \ {0}
      /\ p.Breaks[1] = 1
      /\ \A i \in 1 .. Len(p.Breaks) : p.Breaks[i] \in 1 .. Len(p.Signatures)
  BY <1>1, ChainTypes
<1>4. start \in Nat \ {0} /\ end \in Nat \ {0}
  BY <1>3 DEF Served
<1>5. c \in 0 .. Len(p.Breaks) /\ d \in 1 .. Len(p.Breaks)
  <2>1. c \in 0 .. Len(p.Breaks) /\ d \in 0 .. Len(p.Breaks)
    BY DEF Served, InForce
  <2>2. d # 0
    BY <1>3, <1>4 DEF Served, InForce
  <2> QED
    BY <1>3, <2>1, <2>2
<1>6. /\ start \in Int /\ end \in Int
      /\ InForce(p.Breaks, c, start) /\ InForce(p.Breaks, d, end + 1)
      /\ pi = Update(p, withPrecomp, start, end)
  BY <1>4 DEF Served
<1>7. pi.Signature = Aggregate(p, withPrecomp, start, end)
  BY <1>6 DEF Update
<1>8. Origin(p.Breaks, c, d) \in 0 .. d
  BY <1>1, <1>6, AnswerShape
<1>9. Answer(p, pi, Origin(p.Breaks, c, d), d, end)
  BY <1>1, <1>6, AnswerShape
<1> QED
  BY <1>1, <1>2, <1>3, <1>4, <1>5, <1>7, <1>8, <1>9

\* Without a break at or after the client's epoch among the visited ones,
\* `first` stays 0 and the answer starts with the key of quorum 1: the client
\* hashes its key together with that one at epoch 1, which quorum c never
\* signed.
LEMMA NoBreakRejected ==
  ASSUME NEW p, NEW withPrecomp, NEW start, NEW end, NEW c, NEW d, NEW pi, NEW apks,
         NEW breaks, Served(p, withPrecomp, start, end, c, d, pi, apks, breaks),
         c = Len(p.Breaks) \/ d < c
  PROVE  ~VerifyPeriods(apks, pi.Signature, breaks)
<1> DEFINE S == PairingSum(apks, breaks)
           T == Aggregate(p, withPrecomp, start, end)
           key == <<c, 1>>
           point == HashEpochKeys(1, Apk(1))
           n == d + 1
<1>1. /\ WellFormed(p)
      /\ Ascending(p.Breaks, Len(p.Signatures))
      /\ Len(p.Signatures) \in Nat /\ Len(p.Breaks) \in Nat \ {0}
      /\ p.Breaks[1] = 1
      /\ \A i \in 1 .. Len(p.Breaks) : p.Breaks[i] \in 1 .. Len(p.Signatures)
      /\ start \in Nat \ {0} /\ end \in Nat \ {0}
      /\ c \in 1 .. Len(p.Breaks) /\ d \in 1 .. Len(p.Breaks) /\ d <= c
      /\ pi.Signature = T
  <2>1. c \in 0 .. Len(p.Breaks) /\ d \in 1 .. Len(p.Breaks) /\ Len(p.Breaks) \in Nat \ {0}
    BY ServedFacts
  <2>2. c \in 1 .. Len(p.Breaks) /\ d <= c
    BY <2>1
  <2> QED
    BY <2>1, <2>2, ServedFacts
<1>2. Answer(p, pi, 0, d, end)
  <2>1. Origin(p.Breaks, c, d) = 0
    BY <1>1 DEF Origin
  <2> QED
    BY <2>1, ServedFacts
<1>3. /\ Len(apks) = n
      /\ apks[1] = Apk(c)
      /\ \A i \in 2 .. n : apks[i] = Apk(i - 1)
      /\ Len(breaks) = n + 1
      /\ breaks[1] = start - 1
      /\ \A i \in 2 .. n : breaks[i] = p.Breaks[i - 1]
      /\ breaks[n + 1] = end
  <2>1. /\ apks = <<Apk(c)>> \o pi.NextApks /\ breaks = <<start - 1>> \o pi.Breaks
        /\ start \in Int /\ end \in Int /\ c \in 0 .. Len(p.Breaks)
        /\ d \in 0 .. Len(p.Breaks) /\ 0 \in 0 .. d
    BY <1>1 DEF Served
  <2>2. Arguments(p, c, 0, d, start, end, apks, breaks)
    BY <1>1, <1>2, <2>1, VerifyArguments
  <2>3. d - 0 + 1 = n /\ d - 0 + 2 = n + 1 /\ \A i \in Int : 0 + i - 1 = i - 1
    BY <1>1
  <2> HIDE DEF n
  <2> QED
    BY <2>2, <2>3 DEF Arguments
<1>4. n \in Nat \ {0} /\ n \in 2 .. n /\ 2 \in 2 .. n /\ 1 \in 1 .. n
  BY <1>1
<1>5. Coefficient(S, key, point) = 1 /\ key \in KeysOf(S) /\ point \in PointsOf(S)
  <2> DEFINE Plus == {x \in DOMAIN S : S[x].key = key /\ S[x].hash.pos = point}
             Minus == {x \in DOMAIN S : S[x].key = key /\ S[x].hash.neg = point}
  <2>1. \A i \in 1 .. n + 1 : breaks[i] \in Nat
    <3> SUFFICES ASSUME NEW i \in 1 .. n + 1 PROVE breaks[i] \in Nat
      OBVIOUS
    <3>1. CASE i = 1
      BY <1>1, <1>3, <3>1
    <3>2. CASE i \in 2 .. n
      <4>1. i - 1 \in 1 .. Len(p.Breaks)
        BY <1>1, <3>2
      <4>2. p.Breaks[i - 1] \in 1 .. Len(p.Signatures)
        BY <1>1, <4>1
      <4>3. breaks[i] = p.Breaks[i - 1]
        BY <1>3, <3>2
      <4> QED
        BY <4>2, <4>3
    <3>3. CASE i = n + 1
      BY <1>1, <1>3, <3>3
    <3> QED
      BY <1>4, <3>1, <3>2, <3>3
  <2>2. \A i \in 1 .. n : /\ SegmentHash(apks, breaks, i).pos = SegmentEnd(apks, breaks, n, i)
                          /\ SegmentHash(apks, breaks, i).neg = HashEpoch(breaks[i])
    <3> SUFFICES ASSUME NEW i \in 1 .. n
                 PROVE  /\ SegmentHash(apks, breaks, i).pos = SegmentEnd(apks, breaks, n, i)
                        /\ SegmentHash(apks, breaks, i).neg = HashEpoch(breaks[i])
      OBVIOUS
    <3>1. breaks[i] \in Int /\ breaks[i + 1] \in Int
      <4>1. i \in 1 .. n + 1 /\ i + 1 \in 1 .. n + 1
        BY <1>4
      <4> QED
        BY <2>1, <4>1
    <3> QED
      BY <1>3, <1>4, <3>1, SegmentHashShape
  <2>3. /\ \A x \in DOMAIN S : x = <<x[1], x[2]>> /\ x[1] \in 1 .. n /\ x[2] \in apks[x[1]]
        /\ \A k \in 1 .. n : \A m \in apks[k] :
             /\ <<k, m>> \in DOMAIN S
             /\ S[<<k, m>>].key = m
             /\ S[<<k, m>>].hash = SegmentHash(apks, breaks, k)
    <3>1. SegmentTerms(apks, breaks, n, S)
      BY <1>3, <1>4, PairingTerms
    <3> HIDE DEF S
    <3> QED
      BY <3>1 DEF SegmentTerms
  <2>4. point = SegmentEnd(apks, breaks, n, 1)
    <3>1. breaks[2] = 1 /\ apks[2] = Apk(1) /\ n # 1
      BY <1>1, <1>3, <1>4
    <3> QED
      BY <3>1 DEF SegmentEnd
  <2>5. key \in apks[1]
    <3>1. key \in Apk(c)
      BY DEF Apk
    <3> QED
      BY <1>3, <3>1
  <2> HIDE DEF S
  <2>6. <<1, key>> \in Plus
    BY <1>4, <2>2, <2>3, <2>4, <2>5
  <2>7. ASSUME NEW x \in Plus
        PROVE  x = <<1, key>>
    <3>1. /\ x = <<x[1], x[2]>> /\ x[1] \in 1 .. n /\ x[2] \in apks[x[1]]
          /\ S[x].key = key /\ S[x].hash.pos = point
      BY <2>3
    <3>2. /\ x[2] = key
          /\ S[x].hash = SegmentHash(apks, breaks, x[1])
      <4>1. /\ S[<<x[1], x[2]>>].key = x[2]
            /\ S[<<x[1], x[2]>>].hash = SegmentHash(apks, breaks, x[1])
        BY <2>3, <3>1
      <4> QED
        BY <3>1, <4>1
    <3>3. SegmentEnd(apks, breaks, n, x[1]) = point
      BY <2>2, <3>1, <3>2
    <3>4. x[1] # n
      <4>1. HashEpoch(end) # point
        BY <1>1, DistinctHashes
      <4> QED
        BY <1>3, <3>3, <4>1 DEF SegmentEnd
    <3>5. ASSUME x[1] # 1 PROVE FALSE
      <4>1. apks[x[1]] = Apk(x[1] - 1)
        BY <1>3, <3>1, <3>5
      <4>2. key \in Apk(x[1] - 1)
        BY <3>1, <3>2, <4>1
      <4>3. x[1] - 1 = c
        BY <4>2 DEF Apk
      <4> QED
        BY <1>1, <3>1, <3>4, <4>3
    <3> QED
      BY <3>1, <3>2, <3>5
  <2>8. Cardinality(Plus) = 1
    <3>1. Plus = {<<1, key>>}
      BY <2>6, <2>7
    <3> QED
      BY <3>1, FS_Singleton
  <2>9. Minus = {}
    <3> SUFFICES ASSUME NEW x \in DOMAIN S, S[x].hash.neg = point PROVE FALSE
      OBVIOUS
    <3>1. x = <<x[1], x[2]>> /\ x[1] \in 1 .. n /\ x[2] \in apks[x[1]]
      BY <2>3
    <3>2. S[x].hash = SegmentHash(apks, breaks, x[1])
      BY <2>3, <3>1
    <3>3. HashEpoch(breaks[x[1]]) = point
      BY <2>2, <3>1, <3>2
    <3>4. breaks[x[1]] \in Nat
      BY <1>4, <2>1, <3>1
    <3> QED
      BY <3>3, <3>4, DistinctHashes
  <2>10. Coefficient(S, key, point) = Cardinality(Plus) - Cardinality(Minus)
    BY DEF Coefficient
  <2>11. key \in KeysOf(S) /\ point \in PointsOf(S)
    BY <2>6 DEF KeysOf, PointsOf
  <2> HIDE DEF Plus, Minus
  <2> QED
    BY <2>8, <2>9, <2>10, <2>11, FS_EmptySet
<1>6. Coefficient(T, key, point) = 0
  <2> DEFINE Plus == {x \in DOMAIN T : T[x].key = key /\ T[x].hash.pos = point}
             Minus == {x \in DOMAIN T : T[x].key = key /\ T[x].hash.neg = point}
  <2>1. \A x \in DOMAIN T :
          /\ x = <<x[1], x[2]>> /\ x[1] \in start .. end /\ x[2] \in 1 .. Quorum
          /\ \E r \in 0 .. Len(p.Breaks) :
               /\ InForce(p.Breaks, r, x[1])
               /\ T[x].key = <<r, x[2]>>
               /\ T[x].hash.pos = SignedPoint(p.Breaks, r, x[1])
               /\ T[x].hash.neg = HashEpoch(x[1] - 1)
    <3>1. /\ withPrecomp \in BOOLEAN
          /\ start \in 1 .. Len(p.Signatures) + 1 /\ end \in 1 .. Len(p.Signatures)
      BY DEF Served
    <3>2. SignedTerms(p.Breaks, start, end, T)
      BY <1>1, <3>1, AggregateTerms
    <3> HIDE DEF T
    <3> QED
      BY <3>2 DEF SignedTerms
  <2> HIDE DEF T
  <2>2. Plus = {}
    <3> SUFFICES ASSUME NEW x \in DOMAIN T, T[x].key = key, T[x].hash.pos = point
                 PROVE  FALSE
      OBVIOUS
    <3>1. PICK r \in 0 .. Len(p.Breaks) :
               /\ InForce(p.Breaks, r, x[1])
               /\ T[x].key = <<r, x[2]>>
               /\ T[x].hash.pos = SignedPoint(p.Breaks, r, x[1])
      BY <2>1
    <3>2. r = c /\ x[1] \in Nat
      BY <1>1, <2>1, <3>1
    <3>3. SignedPoint(p.Breaks, r, x[1]) = point
      BY <3>1
    <3>4. x[1] = 1
      BY <3>2, <3>3, DistinctHashes DEF SignedPoint
    <3>5. p.Breaks[c] < 1
      BY <1>1, <3>1, <3>2, <3>4 DEF InForce
    <3> QED
      BY <1>1, <3>5
  <2>3. Minus = {}
    <3> SUFFICES ASSUME NEW x \in DOMAIN T, T[x].hash.neg = point PROVE FALSE
      OBVIOUS
    <3>1. T[x].hash.neg = HashEpoch(x[1] - 1) /\ x[1] - 1 \in Nat
      BY <1>1, <2>1
    <3> QED
      BY <3>1, DistinctHashes
  <2>4. Coefficient(T, key, point) = Cardinality(Plus) - Cardinality(Minus)
    BY DEF Coefficient
  <2> HIDE DEF Plus, Minus
  <2> QED
    BY <2>2, <2>3, <2>4, FS_EmptySet
<1> HIDE DEF S, T, key, point
<1>7. ~SameElement(S, T)
  BY <1>5, <1>6 DEF SameElement
<1> QED
  BY <1>1, <1>7 DEF VerifyPeriods, S

-----------------------------------------------------------------------------
(* Answers with a break at or after the client's epoch: `first` is c, and  *)
(* the segments are those of the quorums c..d.                             *)

\* Quorum q signed the epochs after Lo up to Hi, and handed over at Hi
\* unless the answer ends there.
Lo(B, c, start, q) == IF q = c THEN start - 1 ELSE B[q]
Hi(B, d, end, q) == IF q = d THEN end ELSE B[q + 1]
Takeover(B, d, end, q) ==
  IF q = d THEN HashEpoch(end) ELSE HashEpochKeys(B[q + 1], Apk(q + 1))

LEMMA ForwardArguments ==
  ASSUME NEW p, NEW withPrecomp, NEW start, NEW end, NEW c, NEW d, NEW pi, NEW apks,
         NEW breaks, Served(p, withPrecomp, start, end, c, d, pi, apks, breaks),
         c < Len(p.Breaks), c <= d
  PROVE  /\ Len(apks) = d - c + 1
         /\ Len(breaks) = d - c + 2
         /\ \A q \in c .. d :
              /\ apks[q - c + 1] = Apk(q)
              /\ breaks[q - c + 1] = Lo(p.Breaks, c, start, q)
              /\ breaks[q - c + 2] = Hi(p.Breaks, d, end, q)
<1>1. /\ WellFormed(p) /\ start \in Int /\ end \in Int
      /\ c \in 0 .. Len(p.Breaks) /\ d \in 0 .. Len(p.Breaks) /\ c \in 0 .. d
      /\ c \in Int /\ d \in Int
  <2>1. /\ Len(p.Breaks) \in Nat
        /\ c \in 0 .. Len(p.Breaks) /\ d \in 1 .. Len(p.Breaks)
        /\ start \in Nat \ {0} /\ end \in Nat \ {0}
    BY ServedFacts
  <2>2. WellFormed(p)
    BY DEF Served
  <2> QED
    BY <2>1, <2>2
<1>2. Answer(p, pi, c, d, end)
  <2>1. Origin(p.Breaks, c, d) = c
    BY DEF Origin
  <2> QED
    BY <2>1, ServedFacts
<1>3. Arguments(p, c, c, d, start, end, apks, breaks)
  <2>1. apks = <<Apk(c)>> \o pi.NextApks /\ breaks = <<start - 1>> \o pi.Breaks
    BY DEF Served
  <2> QED
    BY <1>1, <1>2, <2>1, VerifyArguments
<1>4. /\ Len(apks) = d - c + 1
      /\ apks[1] = Apk(c)
      /\ \A i \in 2 .. d - c + 1 : apks[i] = Apk(c + i - 1)
      /\ Len(breaks) = d - c + 2
      /\ breaks[1] = start - 1
      /\ \A i \in 2 .. d - c + 1 : breaks[i] = p.Breaks[c + i - 1]
      /\ breaks[d - c + 2] = end
  BY <1>3 DEF Arguments
<1>5. ASSUME NEW q \in c .. d
      PROVE  /\ apks[q - c + 1] = Apk(q)
             /\ breaks[q - c + 1] = Lo(p.Breaks, c, start, q)
             /\ breaks[q - c + 2] = Hi(p.Breaks, d, end, q)
  <2>1. q \in Int
    BY <1>1
  <2>2. apks[q - c + 1] = Apk(q) /\ breaks[q - c + 1] = Lo(p.Breaks, c, start, q)
    <3>1. CASE q = c
      <4>1. q - c + 1 = 1
        BY <1>1, <3>1
      <4> QED
        BY <1>4, <3>1, <4>1 DEF Lo
    <3>2. CASE q # c
      <4>1. /\ q - c + 1 \in 2 .. d - c + 1
            /\ c + (q - c + 1) - 1 = q
        BY <1>1, <3>2
      <4> QED
        BY <1>4, <3>2, <4>1 DEF Lo
    <3> QED
      BY <3>1, <3>2
  <2>3. breaks[q - c + 2] = Hi(p.Breaks, d, end, q)
    <3>1. CASE q = d
      BY <1>4, <3>1 DEF Hi
    <3>2. CASE q # d
      <4>1. /\ q - c + 2 \in 2 .. d - c + 1
            /\ c + (q - c + 2) - 1 = q + 1
        BY <1>1, <3>2
      <4> QED
        BY <1>4, <3>2, <4>1 DEF Hi
    <3> QED
      BY <3>1, <3>2
  <2> QED
    BY <2>2, <2>3
<1> QED
  BY <1>4, <1>5

\* The epochs of the request in which quorum q signs.
LEMMA SigningInterval ==
  ASSUME NEW B, NEW L, Ascending(B, L), NEW start \in Nat \ {0}, NEW end \in Nat \ {0},
         NEW c, InForce(B, c, start), NEW d, InForce(B, d, end + 1), c <= d,
         start <= end + 1, NEW q \in c .. d
  PROVE  /\ Lo(B, c, start, q) \in Nat
         /\ Hi(B, d, end, q) \in Nat
         /\ Lo(B, c, start, q) <= Hi(B, d, end, q)
         /\ q # d => Lo(B, c, start, q) < Hi(B, d, end, q)
         /\ \A e \in Int :
              e \in Lo(B, c, start, q) + 1 .. Hi(B, d, end, q)
                <=> e \in start .. end /\ InForce(B, q, e)
<1>1. /\ Len(B) \in Nat
      /\ \A i \in 1 .. Len(B) : B[i] \in Nat
      /\ \A i, k \in 1 .. Len(B) : i < k => B[i] < B[k]
  BY DEF Ascending
<1>2. c \in 0 .. Len(B) /\ d \in 0 .. Len(B)
  BY DEF InForce
<1>3. q \in 0 .. Len(B) /\ q \in Int /\ c \in Int /\ d \in Int
  BY <1>1, <1>2
<1>4. q # c => q \in 1 .. Len(B) /\ B[q] \in Nat /\ start <= B[q] /\ B[q] <= end
  <2> SUFFICES ASSUME q # c PROVE q \in 1 .. Len(B) /\ B[q] \in Nat /\ start <= B[q] /\ B[q] <= end
    OBVIOUS
  <2>1. q \in 1 .. Len(B) /\ q > c /\ q <= d
    BY <1>2, <1>3
  <2>2. start <= B[q]
    BY <2>1, InForceSplits
  <2>3. B[q] <= end
    BY <2>1, EndSplits
  <2> QED
    BY <1>1, <2>1, <2>2, <2>3
<1>5. q # d => /\ q + 1 \in 1 .. Len(B) /\ B[q + 1] \in Nat
               /\ start <= B[q + 1] /\ B[q + 1] <= end
  <2> SUFFICES ASSUME q # d
               PROVE  /\ q + 1 \in 1 .. Len(B) /\ B[q + 1] \in Nat
                      /\ start <= B[q + 1] /\ B[q + 1] <= end
    OBVIOUS
  <2>1. q + 1 \in 1 .. Len(B) /\ q + 1 > c /\ q + 1 <= d
    BY <1>2, <1>3
  <2>2. start <= B[q + 1]
    BY <2>1, InForceSplits
  <2>3. B[q + 1] <= end
    BY <2>1, EndSplits
  <2> QED
    BY <1>1, <2>1, <2>2, <2>3
<1>6. q = d /\ q < Len(B) => B[q + 1] \in Nat /\ end + 1 <= B[q + 1]
  BY <1>1, <1>3 DEF InForce
<1>7. q = c /\ q > 0 => B[q] \in Nat /\ B[q] < start
  BY <1>1, <1>3 DEF InForce
<1>8. q # c /\ q # d => B[q] < B[q + 1]
  BY <1>1, <1>3, <1>4, <1>5
<1>9. /\ Lo(B, c, start, q) \in Nat
      /\ Hi(B, d, end, q) \in Nat
      /\ Lo(B, c, start, q) <= Hi(B, d, end, q)
      /\ q # d => Lo(B, c, start, q) < Hi(B, d, end, q)
  BY <1>4, <1>5, <1>8 DEF Lo, Hi
<1>10. ASSUME NEW e \in Int, e \in Lo(B, c, start, q) + 1 .. Hi(B, d, end, q)
       PROVE  e \in start .. end /\ InForce(B, q, e)
  <2>1. Lo(B, c, start, q) < e /\ e <= Hi(B, d, end, q)
    BY <1>9, <1>10
  <2>2. e \in start .. end
    BY <1>4, <1>5, <2>1 DEF Lo, Hi
  <2>3. q > 0 => B[q] < e
    BY <1>3, <1>4, <1>7, <2>1, <2>2 DEF Lo
  <2>4. q < Len(B) => e <= B[q + 1]
    BY <1>3, <1>5, <1>6, <2>1, <2>2 DEF Hi
  <2> QED
    BY <1>3, <2>2, <2>3, <2>4 DEF InForce
<1>11. ASSUME NEW e \in Int, e \in start .. end, InForce(B, q, e)
       PROVE  e \in Lo(B, c, start, q) + 1 .. Hi(B, d, end, q)
  <2>1. Lo(B, c, start, q) < e
    BY <1>3, <1>4, <1>11 DEF Lo, InForce
  <2>2. e <= Hi(B, d, end, q)
    BY <1>1, <1>2, <1>3, <1>5, <1>11 DEF Hi, InForce
  <2> QED
    BY <1>9, <2>1, <2>2
<1> QED
  BY <1>9, <1>10, <1>11

\* The verifier's sum over the segments c..d: one term per key, from Lo to
\* the handover.
LEMMA ForwardPairing ==
  ASSUME NEW p, NEW withPrecomp, NEW start, NEW end, NEW c, NEW d, NEW pi, NEW apks,
         NEW breaks, Served(p, withPrecomp, start, end, c, d, pi, apks, breaks),
         c < Len(p.Breaks), c <= d, NEW q \in c .. d, NEW j \in 1 .. Quorum, NEW point
  PROVE  /\ <<q, j>> \in KeysOf(PairingSum(apks, breaks))
         /\ Takeover(p.Breaks, d, end, q) \in PointsOf(PairingSum(apks, breaks))
         /\ Coefficient(PairingSum(apks, breaks), <<q, j>>, point) =
              Indicator(Takeover(p.Breaks, d, end, q) = point)
                - Indicator(HashEpoch(Lo(p.Breaks, c, start, q)) = point)
<1> DEFINE n == d - c + 1
           i == q - c + 1
           key == <<q, j>>
<1>1. /\ c \in Nat /\ d \in Nat /\ q \in Nat /\ n \in Nat \ {0} /\ i \in 1 .. n
      /\ d <= Len(p.Breaks)
  <2>1. /\ c \in 0 .. Len(p.Breaks) /\ d \in 1 .. Len(p.Breaks)
        /\ Len(p.Breaks) \in Nat \ {0}
    BY ServedFacts
  <2> QED
    BY <2>1
<1>2. /\ Len(apks) = n
      /\ Len(breaks) = n + 1
      /\ \A r \in c .. d :
           /\ apks[r - c + 1] = Apk(r)
           /\ breaks[r - c + 1] = Lo(p.Breaks, c, start, r)
           /\ breaks[r - c + 2] = Hi(p.Breaks, d, end, r)
  <2>1. Len(apks) = d - c + 1
    BY ForwardArguments
  <2>2. Len(breaks) = d - c + 2
    BY ForwardArguments
  <2>3. \A r \in c .. d :
           /\ apks[r - c + 1] = Apk(r)
           /\ breaks[r - c + 1] = Lo(p.Breaks, c, start, r)
           /\ breaks[r - c + 2] = Hi(p.Breaks, d, end, r)
    BY ForwardArguments
  <2>4. n + 1 = d - c + 2
    BY <1>1
  <2> QED
    BY <2>1, <2>2, <2>3, <2>4
<1>3. /\ Lo(p.Breaks, c, start, q) \in Int
      /\ Hi(p.Breaks, d, end, q) \in Int
  <2>1. /\ \A k \in 1 .. Len(p.Breaks) : p.Breaks[k] \in 1 .. Len(p.Signatures)
        /\ start \in Nat \ {0} /\ end \in Nat \ {0} /\ Len(p.Breaks) \in Nat
    BY ServedFacts
  <2>2. q # c => q \in 1 .. Len(p.Breaks)
    BY <1>1, <2>1
  <2>3. q # d => q + 1 \in 1 .. Len(p.Breaks)
    BY <1>1, <2>1
  <2> QED
    BY <2>1, <2>2, <2>3 DEF Lo, Hi
<1>4. /\ apks[i] = Apk(q)
      /\ breaks[i] = Lo(p.Breaks, c, start, q)
      /\ breaks[i + 1] = Hi(p.Breaks, d, end, q)
  <2>1. i + 1 = q - c + 2
    BY <1>1
  <2> QED
    BY <1>2, <2>1
<1>5. key \in apks[i]
  <2>1. key \in Apk(q)
    BY DEF Apk
  <2> QED
    BY <1>4, <2>1
<1>6. ASSUME NEW k \in 1 .. n, key \in apks[k]
      PROVE  k = i
  <2> DEFINE r == k + c - 1
  <2>1. r \in c .. d /\ r - c + 1 = k /\ r \in Nat
    BY <1>1
  <2>2. apks[k] = Apk(r)
    BY <1>2, <2>1
  <2>3. key \in Apk(r)
    BY <1>6, <2>2
  <2> HIDE DEF r
  <2>4. q = r
    BY <2>3 DEF Apk
  <2> QED
    BY <2>1, <2>4
<1>7. SegmentEnd(apks, breaks, n, i) = Takeover(p.Breaks, d, end, q)
  <2>1. CASE q = d
    <3>1. i = n
      BY <2>1
    <3>2. breaks[n + 1] = end
      BY <1>4, <2>1, <3>1 DEF Hi
    <3> QED
      BY <2>1, <3>1, <3>2 DEF SegmentEnd, Takeover
  <2>2. CASE q # d
    <3>1. i # n /\ q + 1 \in c .. d /\ (q + 1) - c + 1 = i + 1
      BY <1>1, <2>2
    <3>2. apks[i + 1] = Apk(q + 1)
      BY <1>2, <3>1
    <3>3. breaks[i + 1] = p.Breaks[q + 1]
      BY <1>4, <2>2 DEF Hi
    <3> QED
      BY <2>2, <3>1, <3>2, <3>3 DEF SegmentEnd, Takeover
  <2> QED
    BY <2>1, <2>2
<1> HIDE DEF n, i, key
<1>8. Coefficient(PairingSum(apks, breaks), key, point) =
        Indicator(SegmentEnd(apks, breaks, n, i) = point)
          - Indicator(HashEpoch(breaks[i]) = point)
  <2>1. breaks[i] \in Int /\ breaks[i + 1] \in Int
    BY <1>3, <1>4
  <2> QED
    BY <1>1, <1>2, <1>5, <1>6, <2>1, PairingCoefficient
<1>9. /\ key \in KeysOf(PairingSum(apks, breaks))
      /\ SegmentEnd(apks, breaks, n, i) \in PointsOf(PairingSum(apks, breaks))
  <2> DEFINE S == PairingSum(apks, breaks)
  <2>1. \A k \in 1 .. n : \A m \in apks[k] :
          /\ <<k, m>> \in DOMAIN S
          /\ S[<<k, m>>].key = m
          /\ S[<<k, m>>].hash = SegmentHash(apks, breaks, k)
    <3>1. SegmentTerms(apks, breaks, n, S)
      BY <1>1, <1>2, PairingTerms
    <3> HIDE DEF S
    <3> QED
      BY <3>1 DEF SegmentTerms
  <2> HIDE DEF S
  <2>2. /\ <<i, key>> \in DOMAIN S /\ S[<<i, key>>].key = key
        /\ S[<<i, key>>].hash = SegmentHash(apks, breaks, i)
    BY <1>1, <1>5, <2>1
  <2>3. SegmentHash(apks, breaks, i).pos = SegmentEnd(apks, breaks, n, i)
    <3>1. breaks[i] \in Int /\ breaks[i + 1] \in Int
      BY <1>3, <1>4
    <3> QED
      BY <1>1, <1>2, <3>1, SegmentHashShape
  <2>4. key \in KeysOf(S)
    BY <2>2 DEF KeysOf
  <2>5. SegmentEnd(apks, breaks, n, i) \in PointsOf(S)
    BY <2>2, <2>3 DEF PointsOf
  <2> QED
    BY <2>4, <2>5 DEF S
<1> QED
  BY <1>4, <1>7, <1>8, <1>9 DEF key

\* It has no other keys.
LEMMA ForwardPairingKeys ==
  ASSUME NEW p, NEW withPrecomp, NEW start, NEW end, NEW c, NEW d, NEW pi, NEW apks,
         NEW breaks, Served(p, withPrecomp, start, end, c, d, pi, apks, breaks),
         c < Len(p.Breaks), c <= d, NEW key \in KeysOf(PairingSum(apks, breaks))
  PROVE  \E q \in c .. d, j \in 1 .. Quorum : key = <<q, j>>
<1> DEFINE n == d - c + 1
           S == PairingSum(apks, breaks)
<1>1. c \in Nat /\ d \in Nat /\ n \in Nat \ {0}
  <2>1. /\ c \in 0 .. Len(p.Breaks) /\ d \in 1 .. Len(p.Breaks)
        /\ Len(p.Breaks) \in Nat \ {0}
    BY ServedFacts
  <2> QED
    BY <2>1
<1>2. Len(breaks) = n + 1
  <2>1. Len(breaks) = d - c + 2
    BY ForwardArguments
  <2> QED
    BY <1>1, <2>1
<1>3. \A r \in c .. d : apks[r - c + 1] = Apk(r)
  BY ForwardArguments
<1>4. /\ \A x \in DOMAIN S : x = <<x[1], x[2]>> /\ x[1] \in 1 .. n /\ x[2] \in apks[x[1]]
      /\ \A k \in 1 .. n : \A m \in apks[k] : S[<<k, m>>].key = m
  <2>1. SegmentTerms(apks, breaks, n, S)
    BY <1>1, <1>2, PairingTerms
  <2> HIDE DEF S
  <2> QED
    BY <2>1 DEF SegmentTerms
<1>5. PICK x \in DOMAIN S : key = S[x].key
  BY DEF KeysOf
<1> HIDE DEF S
<1>6. x = <<x[1], x[2]>> /\ x[1] \in 1 .. n /\ x[2] \in apks[x[1]]
  BY <1>4
<1>7. key = x[2]
  BY <1>4, <1>5, <1>6
<1> DEFINE q == x[1] + c - 1
<1>8. q \in c .. d /\ q - c + 1 = x[1]
  BY <1>1, <1>6
<1>9. key \in Apk(q)
  BY <1>3, <1>6, <1>7, <1>8
<1> HIDE DEF q
<1> QED
  BY <1>8, <1>9 DEF Apk

\* The coefficient of a key that signed the epochs after lo up to hi, the
\* last one on t.
SignedCoefficient(lo, hi, t, point) ==
  Indicator(\E e \in lo + 1 .. hi : (IF e = hi THEN t ELSE HashEpoch(e)) = point)
    - Indicator(\E e \in lo + 1 .. hi : HashEpoch(e - 1) = point)

\* The node's aggregate has, for member j of quorum q, the signatures from
\* Lo + 1 to Hi, the last one on the handover.
LEMMA ForwardAggregate ==
  ASSUME NEW p, NEW withPrecomp, NEW start, NEW end, NEW c, NEW d, NEW pi, NEW apks,
         NEW breaks, Served(p, withPrecomp, start, end, c, d, pi, apks, breaks),
         c <= d, start <= end + 1,
         NEW q \in c .. d, NEW j \in 1 .. Quorum, NEW point,
         NEW lo, lo = Lo(p.Breaks, c, start, q), NEW hi, hi = Hi(p.Breaks, d, end, q),
         NEW t, t = Takeover(p.Breaks, d, end, q)
  PROVE  Coefficient(Aggregate(p, withPrecomp, start, end), <<q, j>>, point) =
           SignedCoefficient(lo, hi, t, point)
<1> DEFINE T == Aggregate(p, withPrecomp, start, end)
           key == <<q, j>>
           Signed(e) == IF e = hi THEN t ELSE HashEpoch(e)
           Plus == {x \in DOMAIN T : T[x].key = key /\ T[x].hash.pos = point}
           Minus == {x \in DOMAIN T : T[x].key = key /\ T[x].hash.neg = point}
<1>1. /\ WellFormed(p)
      /\ Ascending(p.Breaks, Len(p.Signatures))
      /\ Len(p.Signatures) \in Nat /\ Len(p.Breaks) \in Nat \ {0}
      /\ \A i \in 1 .. Len(p.Breaks) : p.Breaks[i] \in 1 .. Len(p.Signatures)
      /\ start \in Nat \ {0} /\ end \in Nat \ {0}
      /\ c \in 0 .. Len(p.Breaks) /\ d \in 1 .. Len(p.Breaks)
  BY ServedFacts
<1>2. /\ withPrecomp \in BOOLEAN
      /\ start \in 1 .. Len(p.Signatures) + 1 /\ end \in 1 .. Len(p.Signatures)
      /\ InForce(p.Breaks, c, start) /\ InForce(p.Breaks, d, end + 1)
  BY DEF Served
<1>3. q \in Nat /\ q <= Len(p.Breaks)
  BY <1>1
<1>4. /\ lo \in Nat /\ hi \in Nat /\ lo <= hi
      /\ q # d => lo < hi
      /\ \A e \in Int : e \in lo + 1 .. hi <=> e \in start .. end /\ InForce(p.Breaks, q, e)
  BY <1>1, <1>2, SigningInterval
<1>5. SignedTerms(p.Breaks, start, end, T)
  BY <1>1, <1>2, AggregateTerms
<1> HIDE DEF T
<1>6. /\ DOMAIN T = (start .. end) \X (1 .. Quorum)
      /\ \A x \in DOMAIN T :
           /\ x = <<x[1], x[2]>> /\ x[1] \in start .. end /\ x[2] \in 1 .. Quorum
           /\ \E r \in 0 .. Len(p.Breaks) :
                /\ InForce(p.Breaks, r, x[1])
                /\ T[x].key = <<r, x[2]>>
                /\ T[x].hash.pos = SignedPoint(p.Breaks, r, x[1])
                /\ T[x].hash.neg = HashEpoch(x[1] - 1)
  BY <1>5 DEF SignedTerms
<1>7. \A e \in lo + 1 .. hi : SignedPoint(p.Breaks, q, e) = Signed(e)
  <2> SUFFICES ASSUME NEW e \in lo + 1 .. hi
               PROVE  SignedPoint(p.Breaks, q, e) = Signed(e)
    OBVIOUS
  <2>1. e \in Int /\ e <= hi /\ e \in start .. end
    BY <1>4
  <2>2. CASE q = d
    <3>1. hi = end /\ t = HashEpoch(end)
      BY <2>2 DEF Hi, Takeover
    <3>2. q < Len(p.Breaks) => p.Breaks[q + 1] > end
      BY <1>1, <1>2, <2>2, EndSplits
    <3>3. ~(q < Len(p.Breaks) /\ p.Breaks[q + 1] = e)
      BY <1>1, <2>1, <3>2
    <3>4. SignedPoint(p.Breaks, q, e) = HashEpoch(e)
      BY <3>3 DEF SignedPoint
    <3> QED
      BY <3>1, <3>4
  <2>3. CASE q # d
    <3>1. /\ hi = p.Breaks[q + 1] /\ t = HashEpochKeys(p.Breaks[q + 1], Apk(q + 1))
      BY <2>3 DEF Hi, Takeover
    <3>2. q < Len(p.Breaks)
      BY <1>1, <1>3, <2>3
    <3> QED
      BY <3>1, <3>2 DEF SignedPoint
  <2> QED
    BY <2>2, <2>3
<1>8. \A x \in DOMAIN T : T[x].key = key =>
        /\ x = <<x[1], j>> /\ x[1] \in lo + 1 .. hi
        /\ T[x].hash.pos = Signed(x[1])
        /\ T[x].hash.neg = HashEpoch(x[1] - 1)
  <2> SUFFICES ASSUME NEW x \in DOMAIN T, T[x].key = key
               PROVE  /\ x = <<x[1], j>> /\ x[1] \in lo + 1 .. hi
                      /\ T[x].hash.pos = Signed(x[1])
                      /\ T[x].hash.neg = HashEpoch(x[1] - 1)
    OBVIOUS
  <2>1. x = <<x[1], x[2]>> /\ x[1] \in start .. end /\ x[2] \in 1 .. Quorum
    BY <1>6
  <2>2. PICK r \in 0 .. Len(p.Breaks) :
                /\ InForce(p.Breaks, r, x[1])
                /\ T[x].key = <<r, x[2]>>
                /\ T[x].hash.pos = SignedPoint(p.Breaks, r, x[1])
                /\ T[x].hash.neg = HashEpoch(x[1] - 1)
    BY <1>6
  <2>3. r = q /\ x[2] = j
    BY <2>2
  <2>4. x[1] \in lo + 1 .. hi
    BY <1>1, <1>4, <2>1, <2>2, <2>3
  <2> HIDE DEF Signed
  <2> QED
    BY <1>7, <2>1, <2>2, <2>3, <2>4
<1>9. \A e \in lo + 1 .. hi :
        /\ <<e, j>> \in DOMAIN T
        /\ T[<<e, j>>].key = key
        /\ T[<<e, j>>].hash.pos = Signed(e)
        /\ T[<<e, j>>].hash.neg = HashEpoch(e - 1)
  <2> SUFFICES ASSUME NEW e \in lo + 1 .. hi
               PROVE  /\ <<e, j>> \in DOMAIN T
                      /\ T[<<e, j>>].key = key
                      /\ T[<<e, j>>].hash.pos = Signed(e)
                      /\ T[<<e, j>>].hash.neg = HashEpoch(e - 1)
    OBVIOUS
  <2>1. e \in Int /\ e \in start .. end /\ InForce(p.Breaks, q, e)
    BY <1>4
  <2>2. <<e, j>> \in DOMAIN T
    BY <1>6, <2>1
  <2>3. PICK r \in 0 .. Len(p.Breaks) :
                /\ InForce(p.Breaks, r, e)
                /\ T[<<e, j>>].key = <<r, j>>
                /\ T[<<e, j>>].hash.pos = SignedPoint(p.Breaks, r, e)
                /\ T[<<e, j>>].hash.neg = HashEpoch(e - 1)
    <3>1. <<e, j>>[1] = e /\ <<e, j>>[2] = j
      OBVIOUS
    <3> QED
      BY <1>6, <2>2, <3>1
  <2>4. r = q
    BY <1>1, <2>1, <2>3, InForceUnique
  <2> HIDE DEF Signed
  <2> QED
    BY <1>7, <2>2, <2>3, <2>4
<1>10. \A x, y \in lo + 1 .. hi : Signed(x) = Signed(y) => x = y
  <2> SUFFICES ASSUME NEW x \in lo + 1 .. hi, NEW y \in lo + 1 .. hi, Signed(x) = Signed(y)
               PROVE  x = y
    OBVIOUS
  <2>1. x \in Nat /\ y \in Nat /\ hi \in Nat
    BY <1>4
  <2>2. \A z \in Nat : z # hi => HashEpoch(z) # t
    <3>1. CASE q = d
      <4>1. t = HashEpoch(hi)
        BY <3>1 DEF Takeover, Hi
      <4> QED
        BY <2>1, <4>1, DistinctHashes
    <3>2. CASE q # d
      <4>1. t = HashEpochKeys(hi, Apk(q + 1))
        BY <3>2 DEF Takeover, Hi
      <4> QED
        BY <2>1, <4>1, DistinctHashes
    <3> QED
      BY <3>1, <3>2
  <2> QED
    BY <2>1, <2>2, DistinctHashes
<1>11. \A x, y \in lo + 1 .. hi : HashEpoch(x - 1) = HashEpoch(y - 1) => x = y
  <2> SUFFICES ASSUME NEW x \in lo + 1 .. hi, NEW y \in lo + 1 .. hi,
                      HashEpoch(x - 1) = HashEpoch(y - 1)
               PROVE  x = y
    OBVIOUS
  <2>1. x - 1 \in Nat /\ y - 1 \in Nat
    BY <1>4
  <2>2. x - 1 = y - 1
    BY <2>1, DistinctHashes
  <2> QED
    BY <1>4, <2>2
<1> HIDE DEF key, Signed
<1>12. Cardinality(Plus) = Indicator(\E e \in lo + 1 .. hi : Signed(e) = point)
  <2>1. \A x, y \in Plus : x = y
    BY <1>8, <1>10
  <2>2. Cardinality(Plus) = Indicator(Plus # {})
    BY <2>1, AtMostOne
  <2>3. ASSUME NEW x \in Plus PROVE \E e \in lo + 1 .. hi : Signed(e) = point
    BY <1>8
  <2>4. ASSUME NEW e \in lo + 1 .. hi, Signed(e) = point PROVE <<e, j>> \in Plus
    BY <1>9, <2>4
  <2> HIDE DEF Plus
  <2> QED
    BY <2>2, <2>3, <2>4 DEF Indicator
<1>13. Cardinality(Minus) = Indicator(\E e \in lo + 1 .. hi : HashEpoch(e - 1) = point)
  <2>1. \A x, y \in Minus : x = y
    BY <1>8, <1>11
  <2>2. Cardinality(Minus) = Indicator(Minus # {})
    BY <2>1, AtMostOne
  <2>3. ASSUME NEW x \in Minus PROVE \E e \in lo + 1 .. hi : HashEpoch(e - 1) = point
    BY <1>8
  <2>4. ASSUME NEW e \in lo + 1 .. hi, HashEpoch(e - 1) = point PROVE <<e, j>> \in Minus
    BY <1>9, <2>4
  <2> HIDE DEF Minus
  <2> QED
    BY <2>2, <2>3, <2>4 DEF Indicator
<1>14. Coefficient(T, key, point) = Cardinality(Plus) - Cardinality(Minus)
  BY DEF Coefficient
<1> HIDE DEF Plus, Minus
<1> QED
  BY <1>12, <1>13, <1>14 DEF T, key, Signed, SignedCoefficient

LEMMA ForwardAggregateKeys ==
  ASSUME NEW p, NEW withPrecomp, NEW start, NEW end, NEW c, NEW d, NEW pi, NEW apks,
         NEW breaks, Served(p, withPrecomp, start, end, c, d, pi, apks, breaks),
         c <= d, start <= end + 1,
         NEW key \in KeysOf(Aggregate(p, withPrecomp, start, end))
  PROVE  \E q \in c .. d, j \in 1 .. Quorum : key = <<q, j>>
<1> DEFINE T == Aggregate(p, withPrecomp, start, end)
<1>1. /\ WellFormed(p)
      /\ Ascending(p.Breaks, Len(p.Signatures))
      /\ Len(p.Signatures) \in Nat /\ Len(p.Breaks) \in Nat \ {0}
      /\ \A i \in 1 .. Len(p.Breaks) : p.Breaks[i] \in 1 .. Len(p.Signatures)
      /\ start \in Nat \ {0} /\ end \in Nat \ {0}
      /\ c \in 0 .. Len(p.Breaks) /\ d \in 1 .. Len(p.Breaks)
  BY ServedFacts
<1>2. /\ withPrecomp \in BOOLEAN
      /\ start \in 1 .. Len(p.Signatures) + 1 /\ end \in 1 .. Len(p.Signatures)
      /\ InForce(p.Breaks, c, start) /\ InForce(p.Breaks, d, end + 1)
  BY DEF Served
<1>3. SignedTerms(p.Breaks, start, end, T)
  BY <1>1, <1>2, AggregateTerms
<1>4. PICK x \in DOMAIN T : key = T[x].key
  BY DEF KeysOf
<1> HIDE DEF T
<1>5. PICK r \in 0 .. Len(p.Breaks) : InForce(p.Breaks, r, x[1]) /\ T[x].key = <<r, x[2]>>
  BY <1>3 DEF SignedTerms
<1>6. x[1] \in start .. end /\ x[1] \in Int /\ x[2] \in 1 .. Quorum
  BY <1>1, <1>3 DEF SignedTerms
<1>7. c <= r
  <2> SUFFICES ASSUME r < c PROVE FALSE
    BY <1>1
  <2>1. c \in 1 .. Len(p.Breaks) /\ start \in Int
    BY <1>1
  <2>2. p.Breaks[c] < start
    BY <1>1, <1>2, <2>1, InForceSplits
  <2>3. x[1] <= p.Breaks[c]
    BY <1>1, <1>5, <1>6, <2>1, InForceSplits
  <2>4. p.Breaks[c] \in Int /\ start <= x[1]
    BY <1>1, <1>6, <2>1
  <2> QED
    BY <1>6, <2>1, <2>2, <2>3, <2>4
<1>8. r <= d
  <2> SUFFICES ASSUME d < r PROVE FALSE
    BY <1>1
  <2>1. r \in 1 .. Len(p.Breaks) /\ end \in Int
    BY <1>1
  <2>2. p.Breaks[r] > end
    BY <1>1, <1>2, <2>1, EndSplits
  <2>3. p.Breaks[r] < x[1]
    BY <1>1, <1>5, <1>6, <2>1, InForceSplits
  <2>4. p.Breaks[r] \in Int /\ x[1] <= end
    BY <1>1, <1>6, <2>1
  <2> QED
    BY <1>6, <2>1, <2>2, <2>3, <2>4
<1>9. r \in c .. d
  BY <1>1, <1>7, <1>8
<1> QED
  BY <1>4, <1>5, <1>6, <1>9

\* A key's signatures telescope: between Lo and the handover every point
\* occurs once with either sign.
LEMMA Telescopes ==
  ASSUME NEW lo \in Nat, NEW hi \in Nat, lo <= hi, NEW t, NEW point,
         lo = hi => t = HashEpoch(hi),
         \A z \in Nat : z # hi => HashEpoch(z) # t
  PROVE  Indicator(t = point) - Indicator(HashEpoch(lo) = point) =
           SignedCoefficient(lo, hi, t, point)
<1> DEFINE Plus == \E e \in lo + 1 .. hi : (IF e = hi THEN t ELSE HashEpoch(e)) = point
           Minus == \E e \in lo + 1 .. hi : HashEpoch(e - 1) = point
<1> SUFFICES Indicator(t = point) - Indicator(HashEpoch(lo) = point)
               = Indicator(Plus) - Indicator(Minus)
  BY DEF SignedCoefficient
<1>1. CASE lo = hi
  <2>1. ~Plus /\ ~Minus
    BY <1>1
  <2>2. t = HashEpoch(lo)
    BY <1>1
  <2> HIDE DEF Plus, Minus
  <2> QED
    BY <2>1, <2>2 DEF Indicator
<1>2. CASE lo < hi /\ t = point
  <2>1. Plus
    <3>1. hi \in lo + 1 .. hi
      BY <1>2
    <3> QED
      BY <1>2, <3>1
  <2>2. ~Minus
    <3> SUFFICES ASSUME NEW e \in lo + 1 .. hi, HashEpoch(e - 1) = point PROVE FALSE
      OBVIOUS
    <3>1. e - 1 \in Nat /\ e - 1 # hi
      OBVIOUS
    <3> QED
      BY <1>2, <3>1
  <2>3. HashEpoch(lo) # point
    BY <1>2
  <2> HIDE DEF Plus, Minus
  <2> QED
    BY <1>2, <2>1, <2>2, <2>3 DEF Indicator
<1>3. CASE lo < hi /\ t # point /\ HashEpoch(lo) = point
  <2>1. ~Plus
    <3> SUFFICES ASSUME NEW e \in lo + 1 .. hi, (IF e = hi THEN t ELSE HashEpoch(e)) = point
                 PROVE  FALSE
      OBVIOUS
    <3>1. e \in Nat /\ HashEpoch(e) = HashEpoch(lo)
      BY <1>3
    <3>2. e = lo
      BY <3>1, DistinctHashes
    <3> QED
      BY <3>2
  <2>2. Minus
    <3>1. lo + 1 \in lo + 1 .. hi /\ (lo + 1) - 1 = lo
      BY <1>3
    <3> QED
      BY <1>3, <3>1
  <2> HIDE DEF Plus, Minus
  <2> QED
    BY <1>3, <2>1, <2>2 DEF Indicator
<1>4. CASE lo < hi /\ t # point /\ HashEpoch(lo) # point
  <2>1. ASSUME Plus PROVE Minus
    <3>1. PICK e \in lo + 1 .. hi : (IF e = hi THEN t ELSE HashEpoch(e)) = point
      BY <2>1
    <3>2. e # hi /\ HashEpoch(e) = point
      BY <1>4, <3>1
    <3>3. e + 1 \in lo + 1 .. hi /\ (e + 1) - 1 = e
      BY <3>2
    <3> QED
      BY <3>2, <3>3
  <2>2. ASSUME Minus PROVE Plus
    <3>1. PICK e \in lo + 1 .. hi : HashEpoch(e - 1) = point
      BY <2>2
    <3>2. e - 1 # lo
      BY <1>4, <3>1
    <3>3. e - 1 \in lo + 1 .. hi /\ e - 1 # hi
      BY <3>2
    <3> QED
      BY <3>1, <3>3
  <2> HIDE DEF Plus, Minus
  <2> QED
    BY <1>4, <2>1, <2>2 DEF Indicator
<1> HIDE DEF Plus, Minus
<1> QED
  BY <1>1, <1>2, <1>3, <1>4

\* Every proof the node makes for an epoch up to the one after the end, with
\* a break at or after it, verifies.
LEMMA ForwardAccepted ==
  ASSUME NEW p, NEW withPrecomp, NEW start, NEW end, NEW c, NEW d, NEW pi, NEW apks,
         NEW breaks, Served(p, withPrecomp, start, end, c, d, pi, apks, breaks),
         c < Len(p.Breaks), c <= d, start <= end + 1
  PROVE  VerifyPeriods(apks, pi.Signature, breaks)
<1> DEFINE S == PairingSum(apks, breaks)
           T == Aggregate(p, withPrecomp, start, end)
<1>1. /\ Ascending(p.Breaks, Len(p.Signatures))
      /\ start \in Nat \ {0} /\ end \in Nat \ {0}
      /\ InForce(p.Breaks, c, start) /\ InForce(p.Breaks, d, end + 1)
      /\ c \in Nat /\ d \in Nat
      /\ pi.Signature = T
  <2>1. InForce(p.Breaks, c, start) /\ InForce(p.Breaks, d, end + 1)
    BY DEF Served
  <2>2. c \in 0 .. Len(p.Breaks) /\ d \in 1 .. Len(p.Breaks) /\ Len(p.Breaks) \in Nat \ {0}
    BY ServedFacts
  <2> QED
    BY <2>1, <2>2, ServedFacts
<1>2. ASSUME NEW q \in c .. d, NEW j \in 1 .. Quorum, NEW point
      PROVE  Coefficient(S, <<q, j>>, point) = Coefficient(T, <<q, j>>, point)
  <2> DEFINE lo == Lo(p.Breaks, c, start, q)
             hi == Hi(p.Breaks, d, end, q)
             t == Takeover(p.Breaks, d, end, q)
  <2>1. /\ lo \in Nat /\ hi \in Nat /\ lo <= hi
        /\ q # d => lo < hi
    BY <1>1, SigningInterval
  <2>2. t = HashEpoch(hi) \/ (q # d /\ t = HashEpochKeys(hi, Apk(q + 1)))
    BY DEF Takeover, Hi
  <2>3. q = d => t = HashEpoch(hi)
    BY DEF Takeover, Hi
  <2>4. Coefficient(S, <<q, j>>, point) =
          Indicator(t = point) - Indicator(HashEpoch(lo) = point)
    BY ForwardPairing
  <2>5. Coefficient(T, <<q, j>>, point) =
          SignedCoefficient(lo, hi, t, point)
    BY ForwardAggregate
  <2> HIDE DEF lo, hi, t, S, T
  <2>6. lo = hi => t = HashEpoch(hi)
    BY <2>1, <2>3
  <2>7. \A z \in Nat : z # hi => HashEpoch(z) # t
    BY <2>1, <2>2, DistinctHashes
  <2>8. Indicator(t = point) - Indicator(HashEpoch(lo) = point) =
          SignedCoefficient(lo, hi, t, point)
    BY <2>1, <2>6, <2>7, Telescopes
  <2> QED
    BY <2>4, <2>5, <2>8
<1>3. \A key \in KeysOf(S) : \E q \in c .. d, j \in 1 .. Quorum : key = <<q, j>>
  BY ForwardPairingKeys
<1>4. \A key \in KeysOf(T) : \E q \in c .. d, j \in 1 .. Quorum : key = <<q, j>>
  BY ForwardAggregateKeys
<1>5. Len(apks) = Len(breaks) - 1
  <2>1. Len(apks) = d - c + 1
    BY ForwardArguments
  <2>2. Len(breaks) = d - c + 2
    BY ForwardArguments
  <2> QED
    BY <1>1, <2>1, <2>2
<1> HIDE DEF S, T
<1>6. SameElement(S, T)
  <2> SUFFICES ASSUME NEW key \in KeysOf(S) \cup KeysOf(T), NEW point
               PROVE  Coefficient(S, key, point) = Coefficient(T, key, point)
    BY DEF SameElement
  <2>1. PICK q \in c .. d, j \in 1 .. Quorum : key = <<q, j>>
    BY <1>3, <1>4
  <2> QED
    BY <1>2, <2>1
<1> QED
  BY <1>1, <1>5, <1>6 DEF VerifyPeriods, S

\* A proof that ends before the client's epoch verifies only if it ends just
\* before it: there is nothing signed, and the client's key would have to
\* sign the way back.
LEMMA PastEndRejected ==
  ASSUME NEW p, NEW withPrecomp, NEW start, NEW end, NEW c, NEW d, NEW pi, NEW apks,
         NEW breaks, Served(p, withPrecomp, start, end, c, d, pi, apks, breaks),
         c < Len(p.Breaks), c <= d, start > end + 1
  PROVE  ~VerifyPeriods(apks, pi.Signature, breaks)
<1> DEFINE S == PairingSum(apks, breaks)
           T == Aggregate(p, withPrecomp, start, end)
           point == HashEpoch(end)
           key == <<c, 1>>
<1>1. /\ Ascending(p.Breaks, Len(p.Signatures))
      /\ start \in Nat \ {0} /\ end \in Nat \ {0}
      /\ InForce(p.Breaks, c, start) /\ InForce(p.Breaks, d, end + 1)
      /\ c \in Nat /\ d \in Nat /\ d <= Len(p.Breaks) /\ Len(p.Breaks) \in Nat
      /\ pi.Signature = T
  <2>1. InForce(p.Breaks, c, start) /\ InForce(p.Breaks, d, end + 1)
    BY DEF Served
  <2>2. c \in 0 .. Len(p.Breaks) /\ d \in 1 .. Len(p.Breaks) /\ Len(p.Breaks) \in Nat \ {0}
    BY ServedFacts
  <2>3. c \in Nat /\ d \in Nat /\ d <= Len(p.Breaks) /\ Len(p.Breaks) \in Nat
    BY <2>2
  <2> QED
    BY <2>1, <2>3, ServedFacts
<1>2. c = d
  <2> SUFFICES ASSUME c < d PROVE FALSE
    BY <1>1
  <2>1. c + 1 \in 1 .. Len(p.Breaks) /\ c + 1 > c /\ c + 1 <= d
    BY <1>1
  <2>2. start <= p.Breaks[c + 1]
    BY <1>1, <2>1, InForceSplits
  <2>3. p.Breaks[c + 1] <= end
    BY <1>1, <2>1, EndSplits
  <2>4. p.Breaks[c + 1] \in Nat
    BY <1>1, <2>1 DEF Ascending
  <2> QED
    BY <1>1, <2>2, <2>3, <2>4
<1>3. c \in c .. d /\ 1 \in 1 .. Quorum
  BY <1>1
<1>4. Takeover(p.Breaks, d, end, c) = point /\ Lo(p.Breaks, c, start, c) = start - 1
  BY <1>2 DEF Takeover, Lo
<1>5. Coefficient(S, key, point) = 1
  <2>1. Coefficient(S, key, point) =
          Indicator(Takeover(p.Breaks, d, end, c) = point)
            - Indicator(HashEpoch(Lo(p.Breaks, c, start, c)) = point)
    BY <1>3, ForwardPairing
  <2>2. HashEpoch(start - 1) # point
    <3>1. start - 1 \in Nat /\ start - 1 # end
      BY <1>1
    <3> QED
      BY <1>1, <3>1, DistinctHashes
  <2> HIDE DEF S, key, point
  <2> QED
    BY <1>4, <2>1, <2>2 DEF Indicator
<1>6. key \in KeysOf(S)
  BY <1>3, ForwardPairing
<1>7. point \in PointsOf(S)
  <2>1. Takeover(p.Breaks, d, end, c) \in PointsOf(S)
    BY <1>3, ForwardPairing
  <2> QED
    BY <1>4, <2>1
<1>8. Coefficient(T, key, point) = 0
  <2>1. DOMAIN T = {}
    <3>1. start .. end = {}
      BY <1>1
    <3> QED
      BY <3>1 DEF Aggregate
  <2> HIDE DEF T
  <2>2. /\ {x \in DOMAIN T : T[x].key = key /\ T[x].hash.pos = point} = {}
        /\ {x \in DOMAIN T : T[x].key = key /\ T[x].hash.neg = point} = {}
    BY <2>1
  <2>3. Coefficient(T, key, point) = Cardinality({}) - Cardinality({})
    BY <2>2 DEF Coefficient
  <2> QED
    BY <2>3, FS_EmptySet
<1> HIDE DEF S, T, key, point
<1>9. ~SameElement(S, T)
  BY <1>5, <1>6, <1>7, <1>8 DEF SameElement
<1> QED
  BY <1>1, <1>9 DEF VerifyPeriods, S

-----------------------------------------------------------------------------
(* What the client does with the node's answers.                           *)

\* What the node answers verifies exactly in the cases of AcceptedExactly.
LEMMA VerifiesExactly ==
  ASSUME NEW p, NEW withPrecomp, NEW start, NEW end, NEW c, NEW d, NEW pi, NEW apks,
         NEW breaks, Served(p, withPrecomp, start, end, c, d, pi, apks, breaks)
  PROVE  /\ VerifyPeriods(apks, pi.Signature, breaks) <=>
              /\ start <= end + 1
              /\ \E i \in DOMAIN p.Breaks : p.Breaks[i] >= start
         /\ pi.Breaks[Len(pi.Breaks)] = end
<1>1. /\ WellFormed(p) /\ Ascending(p.Breaks, Len(p.Signatures))
      /\ Len(p.Breaks) \in Nat \ {0}
      /\ start \in Nat \ {0} /\ end \in Nat \ {0}
      /\ c \in 0 .. Len(p.Breaks) /\ d \in 1 .. Len(p.Breaks)
      /\ \A i \in 1 .. Len(p.Breaks) : p.Breaks[i] \in 1 .. Len(p.Signatures)
  BY ServedFacts
<1>2. InForce(p.Breaks, c, start) /\ InForce(p.Breaks, d, end + 1)
  BY DEF Served
<1>3. DOMAIN p.Breaks = 1 .. Len(p.Breaks) /\ \A i \in 1 .. Len(p.Breaks) : p.Breaks[i] \in Int
  BY <1>1, ChainAscending
<1>4. (\E i \in DOMAIN p.Breaks : p.Breaks[i] >= start) <=> c < Len(p.Breaks)
  <2>1. ASSUME c < Len(p.Breaks)
        PROVE  \E i \in DOMAIN p.Breaks : p.Breaks[i] >= start
    <3>1. c + 1 \in 1 .. Len(p.Breaks) /\ c + 1 > c
      BY <1>1, <2>1
    <3>2. start <= p.Breaks[c + 1]
      BY <1>1, <1>2, <3>1, InForceSplits
    <3> QED
      BY <1>1, <1>3, <3>1, <3>2
  <2>2. ASSUME NEW i \in 1 .. Len(p.Breaks), p.Breaks[i] >= start, c >= Len(p.Breaks)
        PROVE  FALSE
    <3>1. i <= c
      BY <1>1, <2>2
    <3>2. p.Breaks[i] < start
      BY <1>1, <1>2, <3>1, InForceSplits
    <3> QED
      BY <1>1, <1>3, <2>2, <3>2
  <2> QED
    BY <1>1, <1>3, <2>1, <2>2
<1>5. start <= end + 1 => c <= d
  <2> SUFFICES ASSUME start <= end + 1, d < c PROVE FALSE
    BY <1>1
  <2>1. c \in 1 .. Len(p.Breaks) /\ c > d
    BY <1>1
  <2>2. p.Breaks[c] < start
    BY <1>1, <1>2, <2>1, InForceSplits
  <2>3. p.Breaks[c] > end
    BY <1>1, <1>2, <2>1, EndSplits
  <2> QED
    BY <1>1, <1>3, <2>1, <2>2, <2>3
<1>6. ASSUME c < Len(p.Breaks), start <= end + 1
      PROVE  VerifyPeriods(apks, pi.Signature, breaks)
  BY <1>5, <1>6, ForwardAccepted
<1>7. ASSUME c < Len(p.Breaks), start > end + 1
      PROVE  ~VerifyPeriods(apks, pi.Signature, breaks)
  <2>1. CASE c <= d
    BY <1>7, <2>1, PastEndRejected
  <2>2. CASE d < c
    BY <2>2, NoBreakRejected
  <2> QED
    BY <1>1, <2>1, <2>2
<1>8. ASSUME c = Len(p.Breaks)
      PROVE  ~VerifyPeriods(apks, pi.Signature, breaks)
  BY <1>8, NoBreakRejected
<1>9. c < Len(p.Breaks) \/ c = Len(p.Breaks)
  BY <1>1
<1>10. VerifyPeriods(apks, pi.Signature, breaks) <=>
         /\ start <= end + 1
         /\ \E i \in DOMAIN p.Breaks : p.Breaks[i] >= start
  <2>1. start <= end + 1 \/ start > end + 1
    BY <1>1
  <2>2. ASSUME VerifyPeriods(apks, pi.Signature, breaks)
        PROVE  c < Len(p.Breaks) /\ start <= end + 1
    BY <1>7, <1>8, <1>9, <2>1, <2>2, Zenon
  <2> QED
    BY <1>4, <1>6, <2>2, Zenon
<1>11. pi.Breaks[Len(pi.Breaks)] = end
  <2> DEFINE f == Origin(p.Breaks, c, d)
  <2>1. Answer(p, pi, f, d, end)
    BY ServedFacts
  <2> HIDE DEF f
  <2>2. Len(pi.Breaks) = d - f + 1 /\ pi.Breaks[d - f + 1] = end
    BY <2>1 DEF Answer
  <2> QED
    BY <2>2
<1> QED
  BY <1>10, <1>11

\* The answers of the specification are such answers.
LEMMA AnswersAreServed ==
  ASSUME IInv, call.phase = "answered"
  PROVE  \E withPrecomp \in BOOLEAN, end \in 1 .. Len(prover.Signatures),
            c \in 0 .. Len(prover.Breaks), d \in 0 .. Len(prover.Breaks) :
           /\ lc.QuorumApk = Apk(c)
           /\ Served(prover, withPrecomp, lc.Epoch, end, c, d, call.pi,
                     <<lc.QuorumApk>> \o call.pi.NextApks,
                     <<lc.Epoch - 1>> \o call.pi.Breaks)
<1>1. WellFormed(prover) /\ lc.Epoch \in 1 .. Len(prover.Signatures) + 1
  BY ProversAssumption DEF IInv, Epochs
<1>2. PICK withPrecomp \in BOOLEAN, end \in 1 .. Len(prover.Signatures) :
        call.pi = Update(prover, withPrecomp, lc.Epoch, end)
  BY DEF IInv, AnswerIsCurrent
<1>3. PICK c \in 0 .. Len(prover.Breaks) :
        InForce(prover.Breaks, c, lc.Epoch) /\ lc.QuorumApk = Apk(c)
  BY DEF IInv, ClientInForce
<1>4. Len(prover.Signatures) \in Nat
  BY <1>1, ChainTypes
<1>5. end + 1 \in 1 .. Len(prover.Signatures) + 1
  BY <1>4
<1>6. PICK d \in 0 .. Len(prover.Breaks) : InForce(prover.Breaks, d, end + 1)
  BY <1>1, <1>5, InForceExists
<1>7. Served(prover, withPrecomp, lc.Epoch, end, c, d, call.pi,
             <<lc.QuorumApk>> \o call.pi.NextApks, <<lc.Epoch - 1>> \o call.pi.Breaks)
  BY <1>1, <1>2, <1>3, <1>6 DEF Served
<1> QED
  BY <1>2, <1>3, <1>6, <1>7

\* AcceptedExactly: in any reachable state, VerifyPeriods passes the node's
\* answer exactly when the requested epoch is at most the one after the limit
\* and a break at or after it is left.
THEOREM AcceptsExactly == Spec => []AcceptedExactly
<1>1. ASSUME IInv PROVE AcceptedExactly
  <2> SUFFICES ASSUME call.phase = "answered"
               PROVE  LET end == call.pi.Breaks[Len(call.pi.Breaks)]
                      IN  Verify(lc, call.pi) <=>
                            /\ lc.Epoch <= end + 1
                            /\ \E i \in DOMAIN prover.Breaks : prover.Breaks[i] >= lc.Epoch
    BY DEF AcceptedExactly
  <2> DEFINE apks == <<lc.QuorumApk>> \o call.pi.NextApks
             breaks == <<lc.Epoch - 1>> \o call.pi.Breaks
  <2>1. PICK withPrecomp \in BOOLEAN, end \in 1 .. Len(prover.Signatures),
             c \in 0 .. Len(prover.Breaks), d \in 0 .. Len(prover.Breaks) :
          Served(prover, withPrecomp, lc.Epoch, end, c, d, call.pi, apks, breaks)
    BY <1>1, AnswersAreServed
  <2>2. Verify(lc, call.pi) <=> VerifyPeriods(apks, call.pi.Signature, breaks)
    BY DEF Verify
  <2> HIDE DEF apks, breaks
  <2>3. VerifyPeriods(apks, call.pi.Signature, breaks) <=>
          /\ lc.Epoch <= end + 1
          /\ \E i \in DOMAIN prover.Breaks : prover.Breaks[i] >= lc.Epoch
    BY <2>1, VerifiesExactly
  <2>4. call.pi.Breaks[Len(call.pi.Breaks)] = end
    BY <2>1, VerifiesExactly
  <2> QED
    BY <2>2, <2>3, <2>4
<1> QED
  BY <1>1, Invariance, PTL

-----------------------------------------------------------------------------
(* Refinement.                                                             *)

\* The abstract chain has the key of the quorum in force at every epoch.
LEMMA QuorumAtInForce ==
  ASSUME prover \in Provers
  PROVE  /\ Len(QuorumAt) = Len(prover.Signatures) + 1
         /\ \A e \in 1 .. Len(prover.Signatures) + 1 : \A q :
              InForce(prover.Breaks, q, e) => QuorumAt[e] = Apk(q)
<1>1. WellFormed(prover)
  BY ProversAssumption
<1>2. Ascending(prover.Breaks, Len(prover.Signatures)) /\ Len(prover.Signatures) \in Nat
  BY <1>1, ChainAscending, ChainTypes
<1>3. ASSUME NEW e \in 1 .. Len(prover.Signatures) + 1, NEW q, InForce(prover.Breaks, q, e)
      PROVE  QuorumAt[e] = Apk(q)
  <2> DEFINE chosen == CHOOSE r \in 0 .. Len(prover.Breaks) : InForce(prover.Breaks, r, e)
  <2>1. q \in 0 .. Len(prover.Breaks) /\ e \in Int
    BY <1>2, <1>3 DEF InForce
  <2>2. InForce(prover.Breaks, chosen, e)
    BY <1>3, <2>1
  <2>3. chosen = q
    BY <1>2, <1>3, <2>1, <2>2, InForceUnique
  <2>4. QuorumAt[e] = Apk(chosen)
    BY DEF QuorumAt, Epochs
  <2> QED
    BY <2>3, <2>4
<1>4. Len(QuorumAt) = Len(prover.Signatures) + 1
  <2> DEFINE N == Len(prover.Signatures) + 1
  <2>1. N \in Nat /\ DOMAIN QuorumAt = 1 .. N
    BY <1>2 DEF QuorumAt, Epochs
  <2>2. QuorumAt \in Seq({QuorumAt[e] : e \in 1 .. N})
    <3>1. QuorumAt = [e \in 1 .. N |-> QuorumAt[e]]
      BY DEF QuorumAt, Epochs
    <3> QED
      BY <2>1, <3>1
  <2> HIDE DEF N
  <2>3. Len(QuorumAt) \in Nat /\ DOMAIN QuorumAt = 1 .. Len(QuorumAt)
    BY <2>2
  <2> QED
    BY <2>1, <2>3 DEF N
<1> QED
  BY <1>3, <1>4

\* A new client is at genesis.
LEMMA FreshIsRestart ==
  ASSUME prover \in Provers
  PROVE  /\ NewLightClient(prover.GenesisApk).Epoch = 1
         /\ NewLightClient(prover.GenesisApk).QuorumApk = QuorumAt[1]
<1>1. WellFormed(prover)
  BY ProversAssumption
<1>2. /\ InForce(prover.Breaks, 0, NewLightClient(prover.GenesisApk).Epoch)
      /\ NewLightClient(prover.GenesisApk).QuorumApk = Apk(0)
  BY <1>1, FreshClientInForce
<1>3. NewLightClient(prover.GenesisApk).Epoch = 1
  BY DEF NewLightClient
<1>4. 1 \in 1 .. Len(prover.Signatures) + 1
  BY <1>1, ChainTypes
<1> QED
  BY <1>2, <1>3, <1>4, QuorumAtInForce

\* An accepted update skips to the epoch after a head at or after the client's
\* epoch.
LEMMA AcceptAdvances ==
  ASSUME IInv, Accept
  PROVE  Abstract!Advance
<1>1. prover \in Provers /\ WellFormed(prover) /\ prover' = prover
  BY ProversAssumption DEF IInv, Accept
<1> DEFINE apks == <<lc.QuorumApk>> \o call.pi.NextApks
           breaks == <<lc.Epoch - 1>> \o call.pi.Breaks
<1>2. /\ call.phase = "answered" /\ call.pi.NextApks # <<>> /\ lc' = Updated(call.pi)
      /\ VerifyPeriods(apks, call.pi.Signature, breaks)
  BY DEF Accept, Verify
<1>3. PICK withPrecomp \in BOOLEAN, end \in 1 .. Len(prover.Signatures),
           c \in 0 .. Len(prover.Breaks), d \in 0 .. Len(prover.Breaks) :
        Served(prover, withPrecomp, lc.Epoch, end, c, d, call.pi, apks, breaks)
  BY <1>2, AnswersAreServed
<1> HIDE DEF apks, breaks
<1>4. /\ lc.Epoch \in Nat \ {0} /\ end \in Nat \ {0}
      /\ Len(prover.Signatures) \in Nat /\ Len(prover.Breaks) \in Nat \ {0}
      /\ c \in 0 .. Len(prover.Breaks) /\ d \in 1 .. Len(prover.Breaks)
      /\ Origin(prover.Breaks, c, d) \in 0 .. d
      /\ Answer(prover, call.pi, Origin(prover.Breaks, c, d), d, end)
  BY <1>3, ServedFacts
<1>5. lc' = [Epoch |-> end + 1, QuorumApk |-> Apk(d)]
  <2>1. d \in Nat /\ end \in Int
    BY <1>4
  <2> QED
    BY <1>2, <1>4, <2>1, UpdatedClient
<1>6. lc.Epoch <= end + 1 /\ c < Len(prover.Breaks)
  <2>1. lc.Epoch <= end + 1
    BY <1>2, <1>3, VerifiesExactly
  <2>2. c # Len(prover.Breaks)
    BY <1>2, <1>3, NoBreakRejected
  <2> QED
    BY <1>4, <2>1, <2>2
<1>7. lc.Epoch <= end
  <2> SUFFICES ASSUME lc.Epoch = end + 1 PROVE FALSE
    BY <1>4, <1>6
  <2>1. InForce(prover.Breaks, c, lc.Epoch) /\ InForce(prover.Breaks, d, end + 1)
    BY <1>3 DEF Served
  <2>2. c = d
    <3>1. Ascending(prover.Breaks, Len(prover.Signatures)) /\ lc.Epoch \in Int
      BY <1>1, <1>4, ChainAscending
    <3> QED
      BY <2>1, <3>1, InForceUnique
  <2>3. Origin(prover.Breaks, c, d) = d
    BY <1>4, <1>6, <2>2 DEF Origin
  <2>4. Len(call.pi.NextApks) = 0
    BY <1>4, <2>3 DEF Answer
  <2>5. call.pi.NextApks \in Seq({Apk(q) : q \in 0 .. Len(prover.Breaks)})
    BY <1>4 DEF Answer
  <2> QED
    BY <1>2, <2>4, <2>5
<1>8. QuorumAt[end + 1] = Apk(d) /\ Len(QuorumAt) = Len(prover.Signatures) + 1
  <2>1. InForce(prover.Breaks, d, end + 1) /\ end + 1 \in 1 .. Len(prover.Signatures) + 1
    BY <1>3, <1>4 DEF Served
  <2> QED
    BY <1>1, <2>1, QuorumAtInForce
<1>9. end \in lc.Epoch .. Len(QuorumAt) - 1
  BY <1>4, <1>7, <1>8
<1>10. QuorumAt' = QuorumAt
  BY <1>1 DEF QuorumAt, Epochs
<1>11. lc'.Epoch = end + 1 /\ lc'.QuorumApk = QuorumAt[end + 1]
  BY <1>5, <1>8
<1> QED
  BY <1>9, <1>10, <1>11 DEF Abstract!Advance

\* ImplementsAbstract: whatever the node serves and however updates, failures
\* and fresh clients interleave, the client only skips forward along the
\* chain or starts afresh.
THEOREM Refinement == Spec => ImplementsAbstract
<1>1. Init => Abstract!Init
  <2> SUFFICES ASSUME Init PROVE Abstract!Init
    OBVIOUS
  <2>1. prover \in Provers /\ lc = NewLightClient(prover.GenesisApk)
    BY DEF Init
  <2> QED
    BY <2>1, FreshIsRestart DEF Abstract!Init
<1>2. ASSUME IInv, [Next]_vars
      PROVE  [Abstract!Next]_(Abstract!vars)
  <2>1. prover \in Provers
    BY <1>2 DEF IInv
  <2>2. prover' = prover => QuorumAt' = QuorumAt
    BY DEF QuorumAt, Epochs
  <2>3. CASE FreshClient
    <3>1. prover' = prover /\ lc' = NewLightClient(prover.GenesisApk)
      BY <2>3 DEF FreshClient
    <3>2. Abstract!Restart
      BY <2>1, <2>2, <3>1, FreshIsRestart DEF Abstract!Restart
    <3> QED
      BY <3>2 DEF Abstract!Next
  <2>4. CASE Accept
    BY <1>2, <2>4, AcceptAdvances DEF Abstract!Next
  <2>5. ASSUME prover' = prover, lc' = lc
        PROVE  UNCHANGED Abstract!vars
    BY <2>2, <2>5 DEF Abstract!vars
  <2>6. [Next]_vars => FreshClient \/ Accept \/ (prover' = prover /\ lc' = lc)
    BY DEF Next, Request, Serve, TransportError, Reject, Panic, vars
  <2> QED
    BY <1>2, <2>3, <2>4, <2>5, <2>6
<1> QED
  BY <1>1, <1>2, Invariance, PTL DEF Spec, ImplementsAbstract, Abstract!Spec

=============================================================================
