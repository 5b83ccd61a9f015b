------------------------ MODULE MerkleMountainRange ------------------------
(***************************************************************************)
(* Merkle trees of degree n and mountain ranges of such trees, as the      *)
(* PoPoS baseline builds and verifies them (merkle-tree.ts and             *)
(* merkle-mountain-range.ts).                                              *)
(*                                                                         *)
(* The hash function is injective here: a hash is its own preimage, and    *)
(* that of a leaf (a committee's keys) is never that of an inner node (its *)
(* children's hashes).  Indices of leaves count from 0, as in the source.  *)
(***************************************************************************)
EXTENDS Integers, SequencesExt

Digest(children) == [children |-> children]
LeafHash(data) == [data |-> data]

\* n ** k
Power(n, k) ==
  LET power[j \in 0 .. k] == IF j = 0 THEN 1 ELSE n * power[j - 1]
  IN  power[k]

\* utils.ts logFloor
LogFloor(x, n) == CHOOSE k \in 0 .. x : Power(n, k) <= x /\ x < Power(n, k + 1)

-----------------------------------------------------------------------------
(* MerkleTree, for n ** k leaves.                                          *)

\* Layer k of the tree: the leaves, then the digests of n nodes each.
Layers(leaves, n) ==
  LET layer[k \in 0 .. LogFloor(Len(leaves), n)] ==
        IF k = 0 THEN leaves
        ELSE LET below == layer[k - 1]
             IN  [i \in 1 .. Len(below) \div n |->
                    Digest(SubSeq(below, (i - 1) * n + 1, i * n))]
  IN  layer

TreeRoot(leaves, n) == Layers(leaves, n)[LogFloor(Len(leaves), n)][1]

\* The nodes that lookupMap holds.
TreeNodes(leaves, n) ==
  LET layer == Layers(leaves, n)
  IN  UNION {{layer[k][i] : i \in DOMAIN layer[k]} : k \in DOMAIN layer}

\* Variant for mutation: the position among the siblings is that of the leaf
\* on every layer.
TreeProofByLeafPosition(leaves, index, n) ==
  LET layer == Layers(leaves, n)
  IN  [k \in 1 .. LogFloor(Len(leaves), n) |->
         LET at == index \div Power(n, k - 1)
             children == SubSeq(layer[k - 1], (at \div n) * n + 1, (at \div n + 1) * n)
         IN  RemoveAt(children, (index % n) + 1)]

\* generateProof: the siblings on the way from a leaf to the root.
TreeProof(leaves, index, n) ==
  LET layer == Layers(leaves, n)
  IN  [k \in 1 .. LogFloor(Len(leaves), n) |->
         LET at == index \div Power(n, k - 1)
             children == SubSeq(layer[k - 1], (at \div n) * n + 1, (at \div n + 1) * n)
         IN  RemoveAt(children, (at % n) + 1)]

\* MerkleVerify.verify: put the value among its siblings, hash, repeat.
TreeVerify(leaf, index, root, proof, n) ==
  LET value[k \in 0 .. Len(proof)] ==
        IF k = 0 THEN leaf
        ELSE Digest(InsertAt(proof[k], ((index \div Power(n, k - 1)) % n) + 1, value[k - 1]))
  IN  value[Len(proof)] = root

-----------------------------------------------------------------------------
(* MerkleMountainRange: trees of decreasing size, the largest first.       *)

\* The sizes of the trees for l leaves.
PeakSizes(l, n) ==
  LET sizes[m \in 0 .. l] ==
        IF m = 0 THEN <<>>
        ELSE LET size == Power(n, LogFloor(m, n)) IN <<size>> \o sizes[m - size]
  IN  sizes[l]

\* The number of leaves before the k-th tree.
Offset(sizes, k) ==
  LET before[j \in 0 .. Len(sizes)] == IF j = 0 THEN 0 ELSE before[j - 1] + sizes[j]
  IN  before[k - 1]

TreeLeaves(leaves, n, k) ==
  LET sizes == PeakSizes(Len(leaves), n)
  IN  SubSeq(leaves, Offset(sizes, k) + 1, Offset(sizes, k) + sizes[k])

Peaks(leaves, n) ==
  LET sizes == PeakSizes(Len(leaves), n)
  IN  [k \in DOMAIN sizes |->
         [rootHash |-> TreeRoot(TreeLeaves(leaves, n, k), n), size |-> sizes[k]]]

RootHashes(peaks) == [k \in DOMAIN peaks |-> peaks[k].rootHash]
RangeRoot(peaks) == Digest(RootHashes(peaks))

\* The tree that holds the leaf at index, and the leaf's index in it, for a
\* prover (generateProof) and for a client (getPeakAndIndex).
PeakOf(sizes, index) ==
  CHOOSE k \in DOMAIN sizes :
    Offset(sizes, k) <= index /\ index < Offset(sizes, k) + sizes[k]

Sizes(peaks) == [k \in DOMAIN peaks |-> peaks[k].size]

\* MerkleMountainRange.generateProof
RangeProof(leaves, index, n) ==
  LET sizes == PeakSizes(Len(leaves), n)
      k == PeakOf(sizes, index)
  IN  TreeProof(TreeLeaves(leaves, n, k), index - Offset(sizes, k), n)

\* getPeakAndIndex followed by MerkleVerify.verify
LeafVerify(leaf, index, peaks, proof, n) ==
  LET k == PeakOf(Sizes(peaks), index)
  IN  TreeVerify(leaf, index - Offset(Sizes(peaks), k), peaks[k].rootHash, proof, n)

\* Variant for mutation: further peaks are not noticed.
RangePrefixVerify(root, peaks, size, n) ==
  LET sizes == PeakSizes(size, n)
      Differs == {k \in DOMAIN sizes \cap DOMAIN peaks : peaks[k].size # sizes[k]}
  IN  IF Differs # {} THEN "invalid"
      ELSE IF Len(peaks) < Len(sizes) THEN "exception"
      ELSE IF root = RangeRoot(peaks) THEN "valid" ELSE "invalid"

\* MerkleMountainVerify.verify: FALSE at the first size that differs, and an
\* exception when the peaks run out before that.
RangeVerify(root, peaks, size, n) ==
  LET sizes == PeakSizes(size, n)
      Differs == {k \in DOMAIN sizes \cap DOMAIN peaks : peaks[k].size # sizes[k]}
  IN  IF Differs # {} THEN "invalid"
      ELSE IF Len(peaks) < Len(sizes) THEN "exception"
      ELSE IF Len(peaks) = Len(sizes) /\ root = RangeRoot(peaks) THEN "valid" ELSE "invalid"
=============================================================================
