---------------------------- MODULE PoposProver ----------------------------
(***************************************************************************)
(* A prover of the PoPoS baseline (prover.ts), behind its HTTP server      *)
(* (router.ts): a store and the configuration that /config changes.        *)
(*                                                                         *)
(* An answer is a value, or Failure: the handler threw, or the client      *)
(* cannot decode what it was sent instead.                                 *)
(***************************************************************************)
EXTENDS PoposStore

CONSTANT None     \* undefined, or a local that is not set yet

Failure == [ok |-> FALSE]
Answer(value) == [ok |-> TRUE, value |-> value]
AnswerIf(condition, value) == IF condition THEN Answer(value) ELSE Failure

\* The Prover that the server constructs when it has started.
NewProver(store, treeDegree) ==
  [store |-> store, chainSize |-> store.maxChainSize, treeDegree |-> treeDegree]

\* POST /config: the provers that setConfig may leave; none if it is refused.
SetConfig(prover, chainSize, treeDegree) ==
  IF treeDegree > chainSize \/ chainSize > prover.store.maxChainSize THEN {}
  ELSE {[store |-> store, chainSize |-> chainSize, treeDegree |-> treeDegree] :
          store \in UpdateChainSize(prover.store, chainSize)}

\* The leaves of the prover's mountain range.
MMRLeaves(prover) ==
  SubSeq(SyncCommitteeHashes(prover.store), 1, prover.chainSize + 1)

GetMMRInfo(prover) ==
  LET peaks == Peaks(MMRLeaves(prover), prover.treeDegree)
  IN  Answer([rootHash |-> RangeRoot(peaks), peaks |-> peaks])

\* The tree and the node are looked up by their hashes; an unknown one is
\* undefined, and reading its members throws.
GetNode(prover, treeRoot, nodeHash) ==
  LET leaves == MMRLeaves(prover)
      Trees == {k \in DOMAIN PeakSizes(Len(leaves), prover.treeDegree) :
                  TreeRoot(TreeLeaves(leaves, prover.treeDegree, k), prover.treeDegree) = treeRoot}
      Known(k) == nodeHash \in TreeNodes(TreeLeaves(leaves, prover.treeDegree, k), prover.treeDegree)
  IN  AnswerIf(\E k \in Trees : Known(k),
               IF "children" \in DOMAIN nodeHash THEN nodeHash.children ELSE <<>>)

Latest == -1     \* 'latest' in place of a period

PeriodOf(prover, period) == IF period = Latest THEN prover.chainSize ELSE period

GetLeaf(prover, period) ==
  LET p == PeriodOf(prover, period)
  IN  AnswerIf(p <= prover.store.maxChainSize, GetSyncCommittee(prover.store, p))

GetLeafWithProof(prover, period) ==
  LET p == PeriodOf(prover, period)
  IN  AnswerIf(p <= prover.chainSize,
               [syncCommittee |-> GetSyncCommittee(prover.store, p),
                proof |-> RangeProof(MMRLeaves(prover), p, prover.treeDegree)])

\* _getSyncUpdates: a prover answers maxCount updates, those that are left
\* when there are fewer, and throws when its chain ends before the start.
GetSyncUpdates(prover, start, maxCount) ==
  LET count == IF start + maxCount - 1 >= prover.chainSize
               THEN prover.chainSize - start ELSE maxCount
  IN  AnswerIf(count >= 0, [i \in 1 .. count |-> GetSyncUpdate(prover.store, start + i - 1)])

\* _getLeafHashes: slice, whose end may lie beyond the hashes.
GetLeafHashes(prover, start, maxCount) ==
  LET hashes == SyncCommitteeHashes(prover.store)
      end == IF start + maxCount < Len(hashes) THEN start + maxCount ELSE Len(hashes)
  IN  Answer(SubSeq(hashes, start + 1, end))

\* What the client holds after asking for maxCount values from start on:
\* undefined where the answer was shorter, and what it held before.
Held(before, start, values, maxCount) ==
  [p \in DOMAIN before \cup start .. start + maxCount - 1 |->
     IF p \notin start .. start + maxCount - 1 THEN before[p]
     ELSE IF p - start + 1 \in DOMAIN values THEN values[p - start + 1] ELSE None]
=============================================================================
