--------------------------- MODULE TransitiveSig ---------------------------
(***************************************************************************)
(* The transitive signature scheme of implementation/signature.go, at the  *)
(* level of the group equations it evaluates.                              *)
(*                                                                         *)
(* Hashes to G2 are symbolic points: two points are equal exactly when     *)
(* they are hashes of the same bytes under the same domain separation tag. *)
(* The secret keys of the validators are independent symbols, so an        *)
(* element of G2 that the program can compute is a formal sum of terms     *)
(* "key times (H(pos) - H(neg))".  A sum is a function from any finite     *)
(* index set to such terms; two sums are the same group element when every *)
(* key has the same coefficient at every point.                            *)
(*                                                                         *)
(* A quorum's aggregate public key (apk) is the set of its members' keys;  *)
(* pairing it with a hash gives one term per member.                       *)
(***************************************************************************)
EXTENDS Integers, Sequences, FiniteSets

\* big.Int.Bytes() is the absolute value: the sign of an epoch is not hashed.
Bytes(epoch) == IF epoch < 0 THEN -epoch ELSE epoch

\* curve.HashToG2 under the two domain separation tags "0x01" and "0x02".
HashEpoch(epoch) == [dst |-> 1, epoch |-> Bytes(epoch), apk |-> {}]
HashEpochKeys(epoch, apk) == [dst |-> 2, epoch |-> Bytes(epoch), apk |-> apk]

\* H(i+m-1) - H(i-1)
ChainHash(i, m) ==
  [pos |-> HashEpoch(i - 1 + m), neg |-> HashEpoch(i - 1)]

\* H(i+m-1, apk) - H(i-1)
ChainHashKeys(i, m, apk) ==
  [pos |-> HashEpochKeys(i - 1 + m, apk), neg |-> HashEpoch(i - 1)]

\* The signatures of one validator on the end of epoch i.
SignNoBreak(key, i) == [key |-> key, hash |-> ChainHash(i, 1)]
SignBreak(key, i, nextApk) == [key |-> key, hash |-> ChainHashKeys(i, 1, nextApk)]

-----------------------------------------------------------------------------
(* Equality of formal sums.                                                *)

\* How often `key` multiplies `point` in the sum S, with sign.
Coefficient(S, key, point) ==
  Cardinality({x \in DOMAIN S : S[x].key = key /\ S[x].hash.pos = point})
    - Cardinality({x \in DOMAIN S : S[x].key = key /\ S[x].hash.neg = point})

KeysOf(S) == {S[x].key : x \in DOMAIN S}
PointsOf(S) == {S[x].hash.pos : x \in DOMAIN S} \cup {S[x].hash.neg : x \in DOMAIN S}

SameElement(S, T) ==
  \A key \in KeysOf(S) \cup KeysOf(T), point \in PointsOf(S) \cup PointsOf(T) :
    Coefficient(S, key, point) = Coefficient(T, key, point)

-----------------------------------------------------------------------------
(* VerifyPeriods.  Sequences are 1-based here: apks[i], breaks[i] are the  *)
(* source's apks[i-1], breaks[i-1].                                        *)

\* The hash checked against apks[i]: the last one carries no next key when
\* there is no apk left for it.
SegmentHash(apks, breaks, i) ==
  LET inc == breaks[i] + 1
      diff == breaks[i + 1] - breaks[i]
  IN  IF i = Len(breaks) - 1 /\ Len(apks) = Len(breaks) - 1
        THEN ChainHash(inc, diff)
        ELSE ChainHashKeys(inc, diff, apks[i + 1])

\* The left-hand side of the pairing equation: sum of e(apks[i], hashes[i]).
\* The index set is the members of apks[i] for every segment i.
PairingSum(apks, breaks) ==
  LET Segments == 1 .. Len(breaks) - 1
      Members == UNION {apks[i] : i \in Segments}
  IN  [x \in {y \in Segments \X Members : y[2] \in apks[y[1]]} |->
         [key |-> x[2], hash |-> SegmentHash(apks, breaks, x[1])]]

\* TRUE when VerifyPeriods returns no error.
VerifyPeriods(apks, sig, breaks) ==
  /\ Len(apks) \in {Len(breaks), Len(breaks) - 1}
  /\ SameElement(PairingSum(apks, breaks), sig)
=============================================================================
