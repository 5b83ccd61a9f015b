------------------------ MODULE AbstractLightClient ------------------------
(***************************************************************************)
(* What the light client promises, without signatures, proofs or a         *)
(* prover: it holds an epoch and the key of the quorum in force at that    *)
(* epoch, and it only ever skips forward to the epoch after a head of the  *)
(* chain, or starts afresh from genesis.                                   *)
(***************************************************************************)
EXTENDS Integers, Sequences

VARIABLES
  quorumAt,     \* the chain: quorumAt[e] is the key of the quorum of epoch e
  Epoch,        \* the client's current epoch
  QuorumApk     \* the client's current quorum key

vars == <<quorumAt, Epoch, QuorumApk>>

Init == Epoch = 1 /\ QuorumApk = quorumAt[1]

\* Skip to the epoch after the head, whatever lies in between.
Advance ==
  \E head \in Epoch .. Len(quorumAt) - 1 :
    /\ Epoch' = head + 1
    /\ QuorumApk' = quorumAt[head + 1]
    /\ UNCHANGED quorumAt

Restart ==
  /\ Epoch' = 1
  /\ QuorumApk' = quorumAt[1]
  /\ UNCHANGED quorumAt

Next == Advance \/ Restart

Spec == Init /\ [][Next]_vars
=============================================================================
