----------------------- MODULE MCMerkleMountainRange -----------------------
(***************************************************************************)
(* Mountain ranges of every size and degree in bounds, and a proof that is *)
(* presented for every leaf at every index: the algorithms of a prover     *)
(* against those of a client.                                              *)
(***************************************************************************)
EXTENDS MerkleMountainRange

CONSTANTS MaxLeaves, MaxDegree

ASSUME BoundsAssumption == MaxLeaves \in Nat /\ MaxDegree \in Nat

VARIABLES
  degree,       \* the degree of trees
  leafCount,    \* the number of leaves
  proofOf,      \* the index the proof was generated for
  leafOf,       \* the leaf that is presented
  verifiedAt    \* the index it is verified at

rangeVars == <<degree, leafCount, proofOf, leafOf, verifiedAt>>

RangeLeaf(i) == LeafHash(i)
Leaves == [i \in 1 .. leafCount |-> RangeLeaf(i - 1)]

RangeInit ==
  /\ degree \in 2 .. MaxDegree
  /\ leafCount \in 1 .. MaxLeaves
  /\ proofOf \in 0 .. leafCount - 1
  /\ leafOf = proofOf
  /\ verifiedAt = proofOf

\* Present another leaf, or present it at another index.
PresentLeaf == leafOf' \in 0 .. leafCount - 1 /\ UNCHANGED <<degree, leafCount, proofOf, verifiedAt>>
PresentIndex == verifiedAt' \in 0 .. leafCount - 1 /\ UNCHANGED <<degree, leafCount, proofOf, leafOf>>

RangeNext == PresentLeaf \/ PresentIndex

RangeSpec == RangeInit /\ [][RangeNext]_rangeVars

\* generateProof against verify: a leaf is accepted at an index exactly when
\* it is the leaf of that index and comes with the siblings of that index.
\* (Trees of one leaf have no siblings, and share the empty proof.)
ProofsFit ==
  LeafVerify(RangeLeaf(leafOf), verifiedAt, Peaks(Leaves, degree),
             RangeProof(Leaves, proofOf, degree), degree)
    <=> /\ leafOf = verifiedAt
        /\ RangeProof(Leaves, proofOf, degree) = RangeProof(Leaves, verifiedAt, degree)

\* getMMRInfo against MerkleMountainVerify.verify: the range of size leaves
\* passes for that size, and for no other size is it accepted.
RangesFit ==
  LET peaks == Peaks(Leaves, degree)
  IN  \A other \in 1 .. MaxLeaves :
        RangeVerify(RangeRoot(peaks), peaks, other, degree) = "valid" <=> other = leafCount
=============================================================================
