----------------------------- MODULE CssvProofs -----------------------------
(***************************************************************************)
(* Proofs about the CSSV baseline: about RecursiveLightClient, for every   *)
(* size of the validator sets, every number of eras and every number of    *)
(* lost and duplicated approvals; and about the transcripts and the        *)
(* bitmasks of ApkProtocol, for every field, every width of the limbs,     *)
(* every statement and every set of challenges.                            *)
(***************************************************************************)
EXTENDS RecursiveLightClient, ApkProtocol, FiniteSetTheorems, SequenceTheorems,
        WellFoundedInduction, TLAPS

-----------------------------------------------------------------------------
(* The recursive light client.                                             *)

USE SizesAssumption, ErasAssumption, NoneAssumption

\* What an approval is, whoever signs it.
Approvals ==
  [comm : Sets, sig : [signer : Sets \X Nat, message : Sets], pk : Sets \X Nat]

\* The approvals of the era, in the order of the validators: each is for
\* the new set, as the cache holds no other.
IssuedInOrder ==
  /\ issued \in Seq(Approvals)
  /\ pc \in {"approve", "aggregate", "verify"} =>
       \A k \in DOMAIN issued :
         k \in 1 .. keyset_size /\ issued[k] = Approval(new_set, Key(client, k))
  /\ pc \in {"rotate", "done"} => \A k \in DOMAIN issued : issued[k].comm # client + 1
  /\ pc = "approve" => cache \in {None, new_set}

\* What reaches the helper was issued, and finds it where the client is.
DeliveredWasIssued ==
  /\ approvals \in Seq(Approvals)
  /\ pc = "aggregate" =>
       \A k \in DOMAIN approvals : \E j \in DOMAIN issued : approvals[k] = issued[j]
  /\ pc \in {"approve", "aggregate"} =>
       helper_set = client /\ prover = [keyset |-> client, comm |-> client]

\* The statement names validators that signed, and the helper is one ahead.
StatementIsSigned ==
  pc = "verify" =>
    /\ helper_set = new_set
    /\ prover = [keyset |-> new_set, comm |-> new_set]
    /\ statement.comm = new_set
    /\ Signers \subseteq Endorsers

EraIsLeft == pc = "rotate" => client < NEras

IInv ==
  /\ TypeOK /\ InStep /\ IssuedInOrder /\ DeliveredWasIssued
  /\ StatementIsSigned /\ EraIsLeft

USE DEF Sets

LEMMA ApprovalType ==
  ASSUME NEW c \in Sets, NEW s \in Sets, NEW i \in Nat
  PROVE  Approval(c, Key(s, i)) \in Approvals
BY DEF Approval, Signature, Key, Approvals

LEMMA ApprovalComm == \A c, key : Approval(c, key).comm = c
BY DEF Approval

LEMMA InitIInv == Init => IInv
<1> SUFFICES ASSUME Init PROVE IInv
  OBVIOUS
<1>1. TypeOK /\ InStep /\ StatementIsSigned /\ EraIsLeft
  BY DEF Init, TypeOK, InStep, StatementIsSigned, EraIsLeft
<1>2. IssuedInOrder /\ DeliveredWasIssued
  BY DEF Init, IssuedInOrder, DeliveredWasIssued
<1> QED
  BY <1>1, <1>2 DEF IInv

LEMMA RotateIInv == IInv /\ Rotate => IInv'
<1> SUFFICES ASSUME IInv, Rotate PROVE IInv'
  OBVIOUS
<1> USE DEF Rotate, helper, IInv
<1>1. new_set' \in Sets /\ client + 1 = new_set'
  BY DEF InStep, EraIsLeft, TypeOK
<1>2. TypeOK'
  BY <1>1 DEF TypeOK
<1>3. InStep'
  BY <1>1 DEF InStep
<1>4. IssuedInOrder' /\ DeliveredWasIssued'
  BY DEF IssuedInOrder, DeliveredWasIssued, InStep
<1>5. StatementIsSigned' /\ EraIsLeft'
  BY DEF StatementIsSigned, EraIsLeft
<1> QED
  BY <1>2, <1>3, <1>4, <1>5

LEMMA ApproveIInv == IInv /\ Approve => IInv'
<1> SUFFICES ASSUME IInv, Approve PROVE IInv'
  OBVIOUS
<1> USE DEF Approve, helper, IInv
<1> DEFINE i == Len(issued) + 1
<1>1. i \in 1 .. keyset_size /\ issued \in Seq(Approvals)
  BY DEF Approvers, IssuedInOrder
<1>2. cache' = new_set /\ issued' = Append(issued, Approval(new_set, Key(client, i)))
  BY DEF IssuedInOrder, InStep
<1>3. TypeOK'
  BY <1>2 DEF TypeOK
<1>4. Approval(new_set, Key(client, i)) \in Approvals
  <2>1. i \in Nat
    BY <1>1
  <2> QED
    BY <2>1, ApprovalType DEF TypeOK
<1>5. issued' \in Seq(Approvals) /\ DOMAIN issued' = 1 .. i
  BY <1>1, <1>2, <1>4
<1>6. \A k \in DOMAIN issued' :
        k \in 1 .. keyset_size /\ issued'[k] = Approval(new_set, Key(client, k))
  <2> SUFFICES ASSUME NEW k \in 1 .. i
               PROVE  k \in 1 .. keyset_size /\ issued'[k] = Approval(new_set, Key(client, k))
    BY <1>5
  <2>1. CASE k = i
    BY <2>1, <1>1, <1>2, <1>4
  <2>2. CASE k # i
    <3>1. k \in DOMAIN issued /\ issued'[k] = issued[k]
      BY <2>2, <1>1, <1>2, <1>4
    <3> QED
      BY <3>1 DEF IssuedInOrder
  <2> QED
    BY <2>1, <2>2
<1>7. IssuedInOrder'
  BY <1>2, <1>5, <1>6 DEF IssuedInOrder
<1>8. InStep'
  <2>1. \A k \in DOMAIN issued' : issued'[k].comm = new_set
    BY <1>6, ApprovalComm
  <2> QED
    BY <2>1 DEF InStep
<1>9. DeliveredWasIssued' /\ StatementIsSigned' /\ EraIsLeft'
  BY DEF DeliveredWasIssued, StatementIsSigned, EraIsLeft
<1> QED
  BY <1>3, <1>7, <1>8, <1>9

LEMMA CollectIInv == IInv /\ Collect => IInv'
<1> SUFFICES ASSUME IInv, Collect PROVE IInv'
  OBVIOUS
<1> USE DEF Collect, chain, helper, IInv
<1>1. TypeOK' /\ InStep' /\ StatementIsSigned' /\ EraIsLeft'
  BY DEF TypeOK, InStep, StatementIsSigned, EraIsLeft
<1>2. IssuedInOrder' /\ DeliveredWasIssued'
  BY DEF IssuedInOrder, DeliveredWasIssued
<1> QED
  BY <1>1, <1>2

LEMMA FaultIInv == IInv /\ (Lose \/ Duplicate) => IInv'
<1> SUFFICES ASSUME IInv, Lose \/ Duplicate PROVE IInv'
  OBVIOUS
<1> USE DEF chain, helper, IInv
<1>1. faults < MaxFaults /\ faults' = faults + 1 /\ pc = "aggregate"
  BY DEF Lose, Duplicate
<1>2. UNCHANGED <<pc, chain, helper, client>>
  BY DEF Lose, Duplicate
<1>3. TypeOK' /\ InStep' /\ StatementIsSigned' /\ EraIsLeft' /\ IssuedInOrder'
  BY <1>1, <1>2 DEF TypeOK, InStep, StatementIsSigned, EraIsLeft, IssuedInOrder
<1>4. /\ approvals' \in Seq(Approvals)
      /\ \A k \in DOMAIN approvals' : \E j \in DOMAIN approvals : approvals'[k] = approvals[j]
  <2>1. CASE Lose
    <3>1. PICK lost \in DOMAIN approvals :
            approvals' = [k \in 1 .. Len(approvals) - 1 |->
                            approvals[IF k < lost THEN k ELSE k + 1]]
      BY <2>1 DEF Lose
    <3>2. approvals \in Seq(Approvals) /\ DOMAIN approvals = 1 .. Len(approvals)
      BY DEF DeliveredWasIssued
    <3>3. Len(approvals) - 1 \in Nat
      BY <3>2
    <3>4. \A k \in 1 .. Len(approvals) - 1 :
            (IF k < lost THEN k ELSE k + 1) \in DOMAIN approvals
      BY <3>2
    <3>5. \A k \in 1 .. Len(approvals) - 1 :
            approvals[IF k < lost THEN k ELSE k + 1] \in Approvals
      BY <3>2, <3>4
    <3> QED
      BY <3>1, <3>2, <3>3, <3>4, <3>5
  <2>2. CASE Duplicate
    <3>1. PICK again \in DOMAIN approvals : approvals' = Append(approvals, approvals[again])
      BY <2>2 DEF Duplicate
    <3>2. approvals \in Seq(Approvals) /\ DOMAIN approvals = 1 .. Len(approvals)
      BY DEF DeliveredWasIssued
    <3> QED
      BY <3>1, <3>2
  <2> QED
    BY <2>1, <2>2
<1>5. DeliveredWasIssued'
  BY <1>1, <1>2, <1>4 DEF DeliveredWasIssued
<1> QED
  BY <1>3, <1>5

\* Panicking changes nothing but pc.
LEMMA PanicIInv == IInv /\ Panic => IInv'
BY DEF Panic, chain, helper, IInv, TypeOK, InStep, IssuedInOrder, DeliveredWasIssued,
       StatementIsSigned, EraIsLeft

\* The helper's bitmask names validators whose approvals it has.
LEMMA BitmaskIsSigned ==
  ASSUME IInv, pc = "aggregate"
  PROVE  ActualSignersBitmask \subseteq Endorsers
<1> SUFFICES ASSUME NEW i \in ActualSignersBitmask
             PROVE  i \in Endorsers
  OBVIOUS
<1>1. i \in 1 .. keyset_size /\ helper_set = client /\ new_set = client + 1
  BY DEF ActualSignersBitmask, IInv, DeliveredWasIssued, InStep
<1>2. PICK k \in DOMAIN approvals : approvals[k].pk = Key(client, i)
  BY <1>1 DEF ActualSignersBitmask, ActualSigners
<1>3. PICK j \in DOMAIN issued : approvals[k] = issued[j]
  BY DEF IInv, DeliveredWasIssued
<1>4. issued[j] = Approval(client + 1, Key(client, j))
  BY <1>1 DEF IInv, IssuedInOrder
<1>5. Key(client, j) = Key(client, i)
  BY <1>2, <1>3, <1>4 DEF Approval
<1>6. approvals[k] = Approval(client + 1, Key(client, i))
  BY <1>3, <1>4, <1>5
<1> QED
  BY <1>1, <1>6 DEF Endorsers

LEMMA AggregateIInv == IInv /\ AggregateApprovals => IInv'
<1> SUFFICES ASSUME IInv, AggregateApprovals PROVE IInv'
  OBVIOUS
<1>1. CASE Panic
  BY <1>1, PanicIInv
<1>2. CASE ~Panic
  <2> DEFINE mask == ActualSignersBitmask
  <2>1. /\ approvals # << >> /\ pc = "aggregate"
        /\ statement'.public_input = ProveSimple(mask).public_input
        /\ statement'.comm = approvals[1].comm
        /\ helper_set' = new_set
        /\ prover' = [keyset |-> new_set, comm |-> approvals[1].comm]
        /\ pc' = "verify"
        /\ UNCHANGED <<chain, approvals, faults, client>>
    BY <1>2 DEF AggregateApprovals
  <2>2. approvals[1].comm = new_set
    <3>1. 1 \in DOMAIN approvals
      BY <2>1 DEF IInv, DeliveredWasIssued
    <3>2. PICK j \in DOMAIN issued : approvals[1] = issued[j]
      BY <2>1, <3>1 DEF IInv, DeliveredWasIssued
    <3> QED
      BY <2>1, <3>2 DEF IInv, InStep
  <2>3. TypeOK' /\ InStep' /\ IssuedInOrder' /\ DeliveredWasIssued' /\ EraIsLeft'
    BY <2>1, <2>2
    DEF chain, IInv, TypeOK, InStep, IssuedInOrder, DeliveredWasIssued, EraIsLeft
  <2>4. Signers' = mask
    BY <2>1 DEF Signers, ProveSimple
  <2>5. Endorsers' = Endorsers
    BY <2>1 DEF Endorsers, chain
  <2>6. StatementIsSigned'
    BY <2>1, <2>2, <2>4, <2>5, BitmaskIsSigned DEF StatementIsSigned, chain
  <2> QED
    BY <2>3, <2>6 DEF IInv
<1> QED
  BY <1>1, <1>2

LEMMA VerifyIInv == IInv /\ VerifyAggregates => IInv'
<1> SUFFICES ASSUME IInv, VerifyAggregates PROVE IInv'
  OBVIOUS
<1>1. CASE Panic
  BY <1>1, PanicIInv
<1>2. CASE ~Panic
  <2>1. /\ pc = "verify"
        /\ client' = statement.comm
        /\ current_set' = new_set
        /\ pc' = IF new_set = NEras THEN "done" ELSE "rotate"
        /\ UNCHANGED <<keyset_size, new_set, cache, issued, approvals, faults, helper>>
    BY <1>2 DEF VerifyAggregates
  <2>2. client' = new_set
    BY <2>1 DEF IInv, StatementIsSigned
  <2>3. TypeOK' /\ InStep' /\ EraIsLeft'
    BY <2>1, <2>2 DEF helper, IInv, TypeOK, InStep, EraIsLeft, StatementIsSigned
  <2>4. \A k \in DOMAIN issued : issued[k].comm # client' + 1
    BY <2>1, <2>2 DEF IInv, InStep, TypeOK
  <2>5. IssuedInOrder' /\ DeliveredWasIssued' /\ StatementIsSigned'
    BY <2>1, <2>4 DEF IInv, IssuedInOrder, DeliveredWasIssued, StatementIsSigned
  <2> QED
    BY <2>3, <2>5 DEF IInv
<1> QED
  BY <1>1, <1>2

LEMMA NextIInv == IInv /\ [Next]_vars => IInv'
<1> SUFFICES ASSUME IInv, [Next]_vars PROVE IInv'
  OBVIOUS
<1>1. CASE UNCHANGED vars
  BY <1>1 DEF vars, IInv, TypeOK, InStep, IssuedInOrder, DeliveredWasIssued,
              StatementIsSigned, EraIsLeft, Signers, Endorsers
<1>2. CASE Next /\ ~UNCHANGED vars
  BY <1>2, RotateIInv, ApproveIInv, CollectIInv, FaultIInv, AggregateIInv, VerifyIInv
  DEF Next
<1> QED
  BY <1>1, <1>2

\* The client, the helper, its prover and the validators in charge are in
\* step, and approvals are never for a stale commitment.
THEOREM StaysInStep == Spec => [](TypeOK /\ InStep)
<1>1. IInv => TypeOK /\ InStep
  BY DEF IInv
<1> QED
  BY <1>1, InitIInv, NextIInv, PTL DEF Spec

-----------------------------------------------------------------------------
LEMMA SignersFinite ==
  ASSUME TypeOK
  PROVE  IsFiniteSet(SignersOfNext) /\ SignersOfNext \in SUBSET (1 .. keyset_size)
<1>1. keyset_size \in Nat
  BY DEF TypeOK
<1>2. IsFiniteSet(1 .. keyset_size)
  BY <1>1, FS_Interval
<1> QED
  BY <1>2, FS_Subset DEF SignersOfNext, Endorsers

\* Whatever is no step of the light client is a step of validators that
\* sign, or none at all.
LEMMA OthersSign ==
  ASSUME UNCHANGED <<keyset_size, client>>, SignersOfNext \subseteq SignersOfNext'
  PROVE  Chain!Sign
BY DEF SignersOfNext, Endorsers, Chain!Sign

\* Until the helper is done the client knows of no signer.
LEMMA PreparingFollows ==
  Rotate \/ Approve \/ Collect \/ Lose \/ Duplicate => Chain!Sign
<1> SUFFICES ASSUME Rotate \/ Approve \/ Collect \/ Lose \/ Duplicate PROVE Chain!Sign
  OBVIOUS
<1>1. UNCHANGED <<keyset_size, client>> /\ pc \notin {"verify", "panicked"}
  BY DEF Rotate, Approve, Collect, Lose, Duplicate, chain
<1>2. SignersOfNext = {}
  BY <1>1 DEF SignersOfNext
<1> QED
  BY <1>1, <1>2, OthersSign

LEMMA AggregateFollows == AggregateApprovals => Chain!Sign
<1> SUFFICES ASSUME AggregateApprovals PROVE Chain!Sign
  OBVIOUS
<1>1. UNCHANGED <<keyset_size, client>> /\ pc = "aggregate"
  BY DEF AggregateApprovals, Panic, chain
<1>2. SignersOfNext = {}
  BY <1>1 DEF SignersOfNext
<1> QED
  BY <1>1, <1>2, OthersSign

LEMMA ChainCardinality == Chain!Cardinality(SignersOfNext) = Cardinality(SignersOfNext)
BY DEF Chain!Cardinality, Cardinality, Chain!IsFiniteSet, IsFiniteSet

LEMMA VerifyFollows ==
  IInv /\ IInv' /\ VerifyAggregates => Chain!Advance \/ Chain!Sign
<1> SUFFICES ASSUME IInv, IInv', VerifyAggregates PROVE Chain!Advance \/ Chain!Sign
  OBVIOUS
<1>1. CASE Panic
  <2>1. UNCHANGED <<keyset_size, client>> /\ SignersOfNext' = SignersOfNext
    BY <1>1 DEF VerifyAggregates, Panic, chain, SignersOfNext, Endorsers
  <2> QED
    BY <2>1, OthersSign
<1>2. CASE ~Panic
  <2>1. /\ Accepted /\ pc = "verify" /\ client' = statement.comm
        /\ pc' \in {"done", "rotate"}
        /\ UNCHANGED keyset_size
    BY <1>2 DEF VerifyAggregates
  <2>2. client' = client + 1
    BY <2>1 DEF IInv, StatementIsSigned, InStep
  <2>3. SignersOfNext' = {}
    BY <2>1 DEF SignersOfNext
  <2>4. Signers \subseteq SignersOfNext /\ IsFiniteSet(SignersOfNext)
    BY <2>1, SignersFinite DEF IInv, StatementIsSigned, SignersOfNext
  <2>5. IsFiniteSet(Signers) /\ Cardinality(Signers) <= Cardinality(SignersOfNext)
    BY <2>4, FS_Subset
  <2>6. Cardinality(Signers) \in Nat /\ Cardinality(SignersOfNext) \in Nat
    BY <2>4, <2>5, FS_CardinalityType
  <2>7. Cardinality(Signers) >= Chain!Quorum(keyset_size)
    BY <2>1 DEF Accepted, quorum, Chain!Quorum
  <2>8. Chain!Quorum(keyset_size) \in Int
    BY DEF Chain!Quorum, IInv, TypeOK
  <2>9. Cardinality(SignersOfNext) >= Chain!Quorum(keyset_size)
    BY <2>5, <2>6, <2>7, <2>8
  <2>10. keyset_size' = keyset_size
    BY <2>1
  <2> QED
    BY <2>2, <2>3, <2>9, <2>10, ChainCardinality DEF Chain!Advance
<1> QED
  BY <1>1, <1>2

LEMMA NextFollows == IInv /\ IInv' /\ [Next]_vars => [Chain!Next]_(Chain!vars)
<1> SUFFICES ASSUME IInv, IInv', [Next]_vars PROVE [Chain!Next]_(Chain!vars)
  OBVIOUS
<1>1. CASE UNCHANGED vars
  BY <1>1 DEF vars, Chain!vars, SignersOfNext, Endorsers
<1>2. CASE Rotate \/ Approve \/ Collect \/ Lose \/ Duplicate
  BY <1>2, PreparingFollows DEF Chain!Next
<1>3. CASE VerifyAggregates
  BY <1>3, VerifyFollows DEF Chain!Next
<1>4. CASE AggregateApprovals
  BY <1>4, AggregateFollows DEF Chain!Next
<1> QED
  BY <1>1, <1>2, <1>3, <1>4 DEF Next

\* The light client follows the chain of validator sets, one set at a time,
\* each signed by a quorum of the one before.
THEOREM FollowsChain == Spec => ClientFollowsChain
<1>1. Init => Chain!Init
  BY DEF Init, Chain!Init, SignersOfNext
<1> QED
  BY <1>1, InitIInv, NextIInv, NextFollows, PTL DEF Spec, ClientFollowsChain, Chain!Spec

-----------------------------------------------------------------------------
(* What a panic says about the approvals.                                  *)

\* The era's quorum approves, and no one else.
IssuedByQuorum ==
  /\ pc = "approve" => Len(issued) <= quorum
  /\ pc \in {"aggregate", "verify"} => DOMAIN issued = 1 .. quorum

Delivered == {i \in 1 .. keyset_size : Key(client, i) \in ActualSigners}

DeliveredSigs == [k \in DOMAIN approvals |-> approvals[k].sig]

\* The statement is made of the approvals the helper has, with the prover
\* of the set the client trusts.
StatementOfApprovals ==
  pc = "verify" =>
    /\ statement.public_input = [apk |-> AggregateKey(client, Delivered), bitmask |-> Delivered]
    /\ statement.proof = [keyset |-> client, comm |-> client, bitmask |-> Delivered]
    /\ statement.asig = AggregateSignature(DeliveredSigs)
    /\ statement.comm = new_set

PInv == IInv /\ IssuedByQuorum /\ StatementOfApprovals /\ PanicsOnlyOnFaults

Unharmed == AggregateSignature(approvals) = AggregateSignature(issued)

\* A quorum of a set is not empty and no larger than the set.
LEMMA QuorumFits == TypeOK => quorum \in 1 .. keyset_size /\ Approvers = 1 .. quorum
<1> SUFFICES ASSUME TypeOK PROVE quorum \in 1 .. keyset_size /\ Approvers = 1 .. quorum
  OBVIOUS
<1>1. keyset_size \in Nat \ {0}
  BY DEF TypeOK
<1>2. quorum \in 1 .. keyset_size
  BY <1>1 DEF quorum
<1> QED
  BY <1>1, <1>2 DEF Approvers

\* Two sums are the same when they have the same terms as often.
LEMMA SameTerms ==
  ASSUME NEW a, NEW b, AggregateSignature(a) = AggregateSignature(b)
  PROVE  /\ {a[k] : k \in DOMAIN a} = {b[k] : k \in DOMAIN b}
         /\ \A s \in {b[k] : k \in DOMAIN b} :
              Cardinality({k \in DOMAIN a : a[k] = s}) = Cardinality({k \in DOMAIN b : b[k] = s})
<1>1. /\ DOMAIN AggregateSignature(a) = {a[k] : k \in DOMAIN a}
      /\ DOMAIN AggregateSignature(b) = {b[k] : k \in DOMAIN b}
  BY DEF AggregateSignature
<1>2. {a[k] : k \in DOMAIN a} = {b[k] : k \in DOMAIN b}
  BY <1>1
<1>3. ASSUME NEW s \in {b[k] : k \in DOMAIN b}
      PROVE  Cardinality({k \in DOMAIN a : a[k] = s}) = Cardinality({k \in DOMAIN b : b[k] = s})
  <2>1. /\ AggregateSignature(a)[s] = Cardinality({k \in DOMAIN a : a[k] = s})
        /\ AggregateSignature(b)[s] = Cardinality({k \in DOMAIN b : b[k] = s})
    BY <1>2, <1>3 DEF AggregateSignature
  <2> QED
    BY <2>1
<1> QED
  BY <1>2, <1>3

\* Approvals that arrive as they were issued are one of each of the quorum.
LEMMA UnharmedIsQuorum ==
  ASSUME PInv, Unharmed, pc \in {"aggregate", "verify"}
  PROVE  /\ {approvals[k] : k \in DOMAIN approvals}
              = {Approval(new_set, Key(client, i)) : i \in 1 .. quorum}
         /\ \A i \in 1 .. quorum :
              Cardinality({k \in DOMAIN approvals :
                             approvals[k] = Approval(new_set, Key(client, i))}) = 1
         /\ Delivered = 1 .. quorum
<1>1. /\ DOMAIN issued = 1 .. quorum
      /\ \A i \in 1 .. quorum : issued[i] = Approval(new_set, Key(client, i))
  BY DEF PInv, IInv, IssuedByQuorum, IssuedInOrder
<1>2. {issued[k] : k \in DOMAIN issued} = {Approval(new_set, Key(client, i)) : i \in 1 .. quorum}
  BY <1>1
<1>3. {approvals[k] : k \in DOMAIN approvals} = {issued[k] : k \in DOMAIN issued}
  BY SameTerms DEF Unharmed
<1>4. ASSUME NEW i \in 1 .. quorum
      PROVE  Cardinality({k \in DOMAIN approvals :
                            approvals[k] = Approval(new_set, Key(client, i))}) = 1
  <2> DEFINE a == Approval(new_set, Key(client, i))
  <2>1. a \in {issued[k] : k \in DOMAIN issued}
    BY <1>2
  <2>2. Cardinality({k \in DOMAIN approvals : approvals[k] = a})
          = Cardinality({k \in DOMAIN issued : issued[k] = a})
    BY <2>1, SameTerms DEF Unharmed
  <2>3. {k \in DOMAIN issued : issued[k] = a} = {i}
    <3>1. \A x, y : Approval(new_set, x) = Approval(new_set, y) => x = y
      BY DEF Approval
    <3>2. \A k \in 1 .. quorum : issued[k] = a => Key(client, k) = Key(client, i)
      BY <1>1, <3>1
    <3>3. \A k \in 1 .. quorum : issued[k] = a => k = i
      BY <3>2 DEF Key
    <3> QED
      BY <1>1, <3>3
  <2> QED
    BY <2>2, <2>3, FS_Singleton
<1>5. ActualSigners = {Key(client, i) : i \in 1 .. quorum}
  <2>1. ActualSigners = {a.pk : a \in {approvals[k] : k \in DOMAIN approvals}}
    BY DEF ActualSigners
  <2>2. {approvals[k] : k \in DOMAIN approvals}
          = {Approval(new_set, Key(client, i)) : i \in 1 .. quorum}
    BY <1>2, <1>3
  <2>3. \A key : Approval(new_set, key).pk = key
    BY DEF Approval
  <2> QED
    BY <2>1, <2>2, <2>3
<1>6. Delivered = 1 .. quorum
  <2>1. 1 .. quorum \subseteq 1 .. keyset_size
    BY QuorumFits DEF PInv, IInv, TypeOK
  <2> QED
    BY <1>5, <2>1 DEF Delivered, Key
<1> QED
  BY <1>2, <1>3, <1>4, <1>6

\* What verify_aggregates demands of such approvals it finds.
LEMMA UnharmedIsAccepted ==
  ASSUME PInv, Unharmed, pc = "verify"
  PROVE  Accepted
<1> DEFINE sigs == DeliveredSigs
           wanted == {Signature(Key(client, i), new_set) : i \in 1 .. quorum}
<1>1. /\ {approvals[k] : k \in DOMAIN approvals}
            = {Approval(new_set, Key(client, i)) : i \in 1 .. quorum}
      /\ Delivered = 1 .. quorum
  BY UnharmedIsQuorum
<1>2. /\ statement.public_input = [apk |-> AggregateKey(client, Delivered), bitmask |-> Delivered]
      /\ statement.proof = [keyset |-> client, comm |-> client, bitmask |-> Delivered]
      /\ statement.asig = AggregateSignature(sigs)
      /\ statement.comm = new_set
  BY DEF PInv, StatementOfApprovals
<1>3. VerifySimple(client, statement.public_input, statement.proof)
  BY <1>2 DEF VerifySimple
<1>4. \A c, key : Approval(c, key).sig = Signature(key, c)
  BY DEF Approval
<1>5. {sigs[k] : k \in DOMAIN sigs} = wanted
  <2>1. {sigs[k] : k \in DOMAIN sigs} = {a.sig : a \in {approvals[k] : k \in DOMAIN approvals}}
    BY DEF DeliveredSigs
  <2> QED
    BY <1>1, <1>4, <2>1
<1>6. ASSUME NEW i \in 1 .. quorum
      PROVE  Cardinality({k \in DOMAIN sigs : sigs[k] = Signature(Key(client, i), new_set)}) = 1
  <2> DEFINE a == Approval(new_set, Key(client, i))
  <2>1. \A x, y : Signature(x, new_set) = Signature(y, new_set) => x = y
    BY DEF Signature
  <2>2. \A k \in DOMAIN approvals :
          \E j \in 1 .. quorum : approvals[k] = Approval(new_set, Key(client, j))
    BY <1>1
  <2>3. ASSUME NEW k \in DOMAIN approvals
        PROVE  approvals[k].sig = Signature(Key(client, i), new_set) <=> approvals[k] = a
    BY <1>4, <2>1, <2>2
  <2>4. {k \in DOMAIN sigs : sigs[k] = Signature(Key(client, i), new_set)}
          = {k \in DOMAIN approvals : approvals[k] = a}
    BY <2>3 DEF DeliveredSigs
  <2> QED
    BY <2>4, UnharmedIsQuorum
<1>7. AggregateSignature(sigs) = [s \in wanted |-> 1]
  <2>1. AggregateSignature(sigs)
          = [s \in wanted |-> Cardinality({k \in DOMAIN sigs : sigs[k] = s})]
    BY <1>5 DEF AggregateSignature
  <2>2. \A s \in wanted : Cardinality({k \in DOMAIN sigs : sigs[k] = s}) = 1
    BY <1>6
  <2> HIDE DEF wanted, sigs
  <2> QED
    BY <2>1, <2>2
<1>8. {Signature(key, new_set) : key \in AggregateKey(client, Delivered)} = wanted
  BY <1>1 DEF AggregateKey
<1>9. BlsVerify(statement.public_input.apk, statement.asig, statement.comm)
  <2> HIDE DEF wanted, sigs
  <2> QED
    BY <1>2, <1>7, <1>8 DEF BlsVerify
<1>10. Cardinality(Signers) = quorum
  <2>1. quorum \in 1 .. keyset_size /\ keyset_size \in Nat
    BY QuorumFits DEF PInv, IInv, TypeOK
  <2>2. Cardinality(1 .. quorum) = quorum
    BY <2>1, FS_Interval
  <2> QED
    BY <1>1, <1>2, <2>2 DEF Signers
<1>11. quorum \in Nat
  BY QuorumFits DEF PInv, IInv, TypeOK
<1> QED
  BY <1>3, <1>9, <1>10, <1>11 DEF Accepted

\* Losing and doubling apart, every action leaves the two lists of approvals
\* alone once they are complete.
LEMMA AggregatePInv == PInv /\ AggregateApprovals => PInv'
<1> SUFFICES ASSUME PInv, AggregateApprovals PROVE PInv'
  OBVIOUS
<1>1. IInv'
  BY AggregateIInv DEF PInv
<1>2. pc = "aggregate" /\ UNCHANGED <<keyset_size, client, new_set, issued, approvals>>
  BY DEF AggregateApprovals, Panic, chain
<1>3. IssuedByQuorum'
  BY <1>2 DEF AggregateApprovals, Panic, PInv, IssuedByQuorum, quorum
<1>4. CASE approvals = << >> \/ ActualSignersBitmask = {}
  <2>1. Panic
    BY <1>4 DEF AggregateApprovals
  <2>2. ~Unharmed
    <3> SUFFICES ASSUME Unharmed PROVE FALSE
      OBVIOUS
    <3>1. /\ {approvals[k] : k \in DOMAIN approvals}
                = {Approval(new_set, Key(client, i)) : i \in 1 .. quorum}
          /\ Delivered = 1 .. quorum
      BY <1>2, UnharmedIsQuorum
    <3>2. 1 \in 1 .. quorum
      BY QuorumFits DEF PInv, IInv, TypeOK
    <3>3. Delivered # {} /\ approvals # << >>
      BY <3>1, <3>2
    <3>4. ActualSignersBitmask = Delivered
      BY <1>2 DEF PInv, IInv, DeliveredWasIssued, ActualSignersBitmask, Delivered
    <3> QED
      BY <1>4, <3>3, <3>4
  <2>3. PanicsOnlyOnFaults'
    BY <1>2, <2>2 DEF PanicsOnlyOnFaults, Unharmed
  <2>4. StatementOfApprovals'
    BY <2>1 DEF Panic, StatementOfApprovals
  <2> QED
    BY <1>1, <1>3, <2>3, <2>4 DEF PInv
<1>5. CASE ~(approvals = << >> \/ ActualSignersBitmask = {})
  <2>1. /\ statement' =
             [public_input |-> ProveSimple(ActualSignersBitmask).public_input,
              proof |-> ProveSimple(ActualSignersBitmask).proof,
              asig |-> AggregateSignature(DeliveredSigs),
              comm |-> approvals[1].comm]
        /\ pc' = "verify"
    BY <1>5 DEF AggregateApprovals, DeliveredSigs
  <2>2. statement'.comm = new_set'
    BY <1>1, <2>1 DEF IInv, StatementIsSigned
  <2>3. Delivered' = Delivered /\ DeliveredSigs' = DeliveredSigs
    BY <1>2 DEF Delivered, ActualSigners, DeliveredSigs
  <2>4. ActualSignersBitmask = Delivered /\ prover = [keyset |-> client, comm |-> client]
    BY <1>2 DEF PInv, IInv, DeliveredWasIssued, ActualSignersBitmask, Delivered
  <2>5. StatementOfApprovals'
    BY <1>2, <2>1, <2>2, <2>3, <2>4 DEF StatementOfApprovals, ProveSimple, AggregateKey,
       AggregateSignature
  <2>6. PanicsOnlyOnFaults'
    BY <2>1 DEF PanicsOnlyOnFaults
  <2> QED
    BY <1>1, <1>3, <2>5, <2>6 DEF PInv
<1> QED
  BY <1>4, <1>5

LEMMA VerifyPInv == PInv /\ VerifyAggregates => PInv'
<1> SUFFICES ASSUME PInv, VerifyAggregates PROVE PInv'
  OBVIOUS
<1>1. IInv'
  BY VerifyIInv DEF PInv
<1>2. pc = "verify" /\ pc' \in {"panicked", "done", "rotate"} /\ UNCHANGED <<issued, approvals>>
  BY DEF VerifyAggregates, Panic, chain
<1>3. IssuedByQuorum' /\ StatementOfApprovals'
  BY <1>2 DEF IssuedByQuorum, StatementOfApprovals
<1>4. PanicsOnlyOnFaults'
  <2> SUFFICES ASSUME pc' = "panicked" PROVE ~Unharmed
    BY <1>2 DEF PanicsOnlyOnFaults, Unharmed
  <2>1. ~Accepted
    BY DEF VerifyAggregates
  <2> QED
    BY <1>2, <2>1, UnharmedIsAccepted
<1> QED
  BY <1>1, <1>3, <1>4 DEF PInv

LEMMA NextPInv == PInv /\ [Next]_vars => PInv'
<1> SUFFICES ASSUME PInv, [Next]_vars PROVE PInv'
  OBVIOUS
<1>1. IInv'
  BY NextIInv DEF PInv
<1>2. CASE Rotate
  <2>1. Len(issued') = 0 /\ pc' = "approve" /\ keyset_size' = keyset_size
    BY <1>2 DEF Rotate
  <2>2. quorum \in 1 .. keyset_size /\ quorum' = quorum
    BY <2>1, QuorumFits DEF PInv, IInv, quorum
  <2>3. IssuedByQuorum'
    BY <2>1, <2>2 DEF IssuedByQuorum
  <2> QED
    BY <1>1, <2>1, <2>3 DEF PInv, StatementOfApprovals, PanicsOnlyOnFaults
<1>3. CASE Approve
  <2>1. /\ pc = "approve" /\ pc' = "approve" /\ keyset_size' = keyset_size
        /\ Len(issued) + 1 \in Approvers /\ \E a : issued' = Append(issued, a)
    BY <1>3 DEF Approve
  <2>2. issued \in Seq(Approvals) /\ issued' \in Seq(Approvals)
    BY <1>1 DEF PInv, IInv, IssuedInOrder
  <2>3. Len(issued') = Len(issued) + 1
    BY <2>1, <2>2
  <2>4. IssuedByQuorum'
    BY <2>1, <2>3, QuorumFits DEF IssuedByQuorum, quorum, PInv, IInv
  <2> QED
    BY <1>1, <2>1, <2>4 DEF PInv, StatementOfApprovals, PanicsOnlyOnFaults
<1>4. CASE Collect
  <2>1. /\ pc = "approve" /\ pc' = "aggregate" /\ UNCHANGED <<keyset_size, issued>>
        /\ Len(issued) + 1 \notin Approvers
    BY <1>4 DEF Collect, chain
  <2>2. issued \in Seq(Approvals) /\ Len(issued) <= quorum
    BY <2>1 DEF PInv, IInv, IssuedInOrder, IssuedByQuorum
  <2>3. Len(issued) = quorum
    BY <2>1, <2>2, QuorumFits DEF PInv, IInv, TypeOK
  <2>4. IssuedByQuorum'
    BY <2>1, <2>2, <2>3 DEF IssuedByQuorum, quorum
  <2> QED
    BY <1>1, <2>1, <2>4 DEF PInv, StatementOfApprovals, PanicsOnlyOnFaults
<1>5. CASE Lose \/ Duplicate
  <2>1. pc = "aggregate" /\ pc' = "aggregate" /\ UNCHANGED <<keyset_size, issued>>
    BY <1>5 DEF Lose, Duplicate, chain
  <2>2. IssuedByQuorum'
    BY <2>1 DEF PInv, IssuedByQuorum, quorum
  <2> QED
    BY <1>1, <2>1, <2>2 DEF PInv, StatementOfApprovals, PanicsOnlyOnFaults
<1>6. CASE UNCHANGED vars
  BY <1>1, <1>6 DEF PInv, vars, IssuedByQuorum, quorum, StatementOfApprovals, Delivered,
     ActualSigners, DeliveredSigs, PanicsOnlyOnFaults
<1> QED
  BY <1>2, <1>3, <1>4, <1>5, <1>6, AggregatePInv, VerifyPInv DEF Next

\* Without a loss or a duplicate an era never ends in a panic: whatever the
\* size of the sets, a quorum of them always convinces the light client.
THEOREM PanicNeedsFault == Spec => []PanicsOnlyOnFaults
<1>1. Init => PInv
  BY InitIInv DEF Init, PInv, IssuedByQuorum, StatementOfApprovals, PanicsOnlyOnFaults
<1>2. PInv => PanicsOnlyOnFaults
  BY DEF PInv
<1> QED
  BY <1>1, <1>2, NextPInv, PTL DEF Spec

-----------------------------------------------------------------------------
(* The transcripts of ApkProtocol.                                         *)

IsTranscript(t) == t \in Seq({t[k] : k \in DOMAIN t})

\* What is appended is said, and nothing said before is lost.
LEMMA AppendSays ==
  ASSUME NEW t, IsTranscript(t), NEW label, NEW message
  PROVE  /\ IsTranscript(append(t, label, message))
         /\ Said(append(t, label, message)) = Said(t) \cup {label}
<1> DEFINE u == append(t, label, message)
           S == {t[k] : k \in DOMAIN t} \cup {<<label, message>>}
<1>1. t \in Seq(S) /\ <<label, message>> \in S
  BY DEF IsTranscript
<1>2. /\ u \in Seq(S) /\ Len(u) = Len(t) + 1 /\ Len(t) \in Nat
      /\ \A k \in 1 .. Len(t) : u[k] = t[k]
      /\ u[Len(t) + 1] = <<label, message>>
  <2> HIDE DEF S
  <2> QED
    BY <1>1 DEF append
<1>3. DOMAIN t = 1 .. Len(t) /\ DOMAIN u = 1 .. Len(t) + 1
  BY <1>1, <1>2
<1> HIDE DEF u, S
<1>4. IsTranscript(u)
  <2>1. u = [k \in 1 .. Len(t) + 1 |-> u[k]]
    BY <1>2, <1>3
  <2> QED
    BY <1>2, <1>3, <2>1 DEF IsTranscript
<1>5. Said(u) = Said(t) \cup {label}
  <2>1. ASSUME NEW k \in 1 .. Len(t) + 1
        PROVE  u[k][1] \in Said(t) \cup {label}
    <3>1. CASE k = Len(t) + 1
      BY <1>2, <3>1
    <3>2. CASE k \in 1 .. Len(t)
      BY <1>2, <1>3, <3>2 DEF Said
    <3> QED
      BY <1>2, <3>1, <3>2
  <2>2. ASSUME NEW k \in 1 .. Len(t)
        PROVE  t[k][1] \in Said(u)
    <3>1. k \in DOMAIN u /\ u[k] = t[k]
      BY <1>2, <1>3
    <3> QED
      BY <3>1 DEF Said
  <2>3. label \in Said(u)
    <3>1. Len(t) + 1 \in DOMAIN u /\ u[Len(t) + 1][1] = label
      BY <1>2, <1>3
    <3> QED
      BY <3>1 DEF Said
  <2>4. Said(u) = {u[k][1] : k \in 1 .. Len(t) + 1} /\ Said(t) = {t[k][1] : k \in 1 .. Len(t)}
    BY <1>3 DEF Said
  <2>5. Said(u) \subseteq Said(t) \cup {label}
    BY <2>1, <2>4
  <2>6. Said(t) \subseteq Said(u)
    BY <2>2, <2>4
  <2> QED
    BY <2>3, <2>5, <2>6
<1> QED
  BY <1>4, <1>5 DEF u

\* What the verifier asks at has said all that the challenge has to bind,
\* whatever the proof.
LEMMA RestoredSays ==
  /\ IsTranscript(restored_r) /\ IsTranscript(restored_phi)
  /\ IsTranscript(restored_zeta) /\ IsTranscript(restored_nu)
  /\ Binds("bitmask_aggregation") \subseteq Said(restored_r)
  /\ Binds("constraints_aggregation") \subseteq Said(restored_phi)
  /\ Binds("evaluation_point") \subseteq Said(restored_zeta)
  /\ Binds("kzg_aggregation") \subseteq Said(restored_nu)
<1>1. IsTranscript(<< >>) /\ Said(<< >>) = {}
  BY DEF IsTranscript, Said
<1>2. /\ IsTranscript(restored_r)
      /\ Said(restored_r) = {"domain", "vk", "keyset_commitment", "public_input",
                             "register_commitments"}
  <2> DEFINE t1 == append(<< >>, "domain", keyset.domain)
             t2 == append(t1, "vk", max_degree)
             t3 == append(t2, "keyset_commitment", commit_keyset(keyset))
             t4 == append(t3, "public_input", public_input)
             t5 == append(t4, "register_commitments", proof.register_commitments)
  <2>1. restored_r = t5
    BY DEF restored_r, preprocessed_transcript, set_protocol_params, set_keyset_commitment,
           append_public_input, append_register_commitments
  <2>2. IsTranscript(t1) /\ Said(t1) = {"domain"}
    BY <1>1, AppendSays
  <2> HIDE DEF t1
  <2>3. IsTranscript(t2) /\ Said(t2) = Said(t1) \cup {"vk"}
    BY <2>2, AppendSays
  <2> HIDE DEF t2
  <2>4. IsTranscript(t3) /\ Said(t3) = Said(t2) \cup {"keyset_commitment"}
    BY <2>3, AppendSays
  <2> HIDE DEF t3
  <2>5. IsTranscript(t4) /\ Said(t4) = Said(t3) \cup {"public_input"}
    BY <2>4, AppendSays
  <2> HIDE DEF t4
  <2>6. IsTranscript(t5) /\ Said(t5) = Said(t4) \cup {"register_commitments"}
    BY <2>5, AppendSays
  <2> HIDE DEF t5
  <2> QED
    BY <2>1, <2>2, <2>3, <2>4, <2>5, <2>6
<1>3. /\ IsTranscript(restored_phi)
      /\ Said(restored_r) \cup {"2nd_round_register_commitments"} \subseteq Said(restored_phi)
  <2> DEFINE t == asked(restored_r, "bitmask_aggregation")
  <2>1. IsTranscript(t) /\ Said(restored_r) \subseteq Said(t)
    BY <1>2, AppendSays DEF asked
  <2> HIDE DEF t
  <2>2. restored_phi = append(t, "2nd_round_register_commitments", proof.additional_commitments)
    BY DEF restored_phi, append_2nd_round_register_commitments, t
  <2> QED
    BY <2>1, <2>2, AppendSays
<1>4. /\ IsTranscript(restored_zeta)
      /\ Said(restored_phi) \cup {"quotient"} \subseteq Said(restored_zeta)
  <2> DEFINE t == asked(restored_phi, "constraints_aggregation")
  <2>1. IsTranscript(t) /\ Said(restored_phi) \subseteq Said(t)
    BY <1>3, AppendSays DEF asked
  <2> HIDE DEF t
  <2>2. restored_zeta = append(t, "quotient", proof.q_comm)
    BY DEF restored_zeta, append_quotient_commitment, t
  <2> QED
    BY <2>1, <2>2, AppendSays
<1>5. /\ IsTranscript(restored_nu)
      /\ Said(restored_zeta) \cup {"register_evaluations", "quotient_evaluation",
                                   "shifted_linearization_evaluation"} \subseteq Said(restored_nu)
  <2> DEFINE t == asked(restored_zeta, "evaluation_point")
             evals == evaluations_as_vec(scheme, proof.register_evaluations)
             t1 == append(t, "register_evaluations", evals)
             t2 == append(t1, "quotient_evaluation", proof.q_zeta)
  <2>1. IsTranscript(t) /\ Said(restored_zeta) \subseteq Said(t)
    BY <1>4, AppendSays DEF asked
  <2>2. restored_nu = append(t2, "shifted_linearization_evaluation", proof.r_zeta_omega)
    BY DEF restored_nu, append_evaluations
  <2> HIDE DEF t, evals
  <2>3. IsTranscript(t1) /\ Said(t1) = Said(t) \cup {"register_evaluations"}
    BY <2>1, AppendSays
  <2> HIDE DEF t1
  <2>4. IsTranscript(t2) /\ Said(t2) = Said(t1) \cup {"quotient_evaluation"}
    BY <2>3, AppendSays
  <2> HIDE DEF t2
  <2> QED
    BY <2>1, <2>2, <2>3, <2>4, AppendSays
<1> QED
  BY <1>2, <1>3, <1>4, <1>5 DEF Binds

-----------------------------------------------------------------------------
(* The challenges drawn by a prover are those its proof leads to.          *)

ChallengeR == Challenge(restored_r, "bitmask_aggregation", challenges.r)
ChallengePhi == Challenge(restored_phi, "constraints_aggregation", challenges.phi)
ChallengeZeta == Challenge(restored_zeta, "evaluation_point", challenges.zeta)

\* After each round, the transcript is the one the verifier will put together.
InTune ==
  /\ step = "commit" => drawn = {}
  /\ step = "aggregate_bitmask" => transcript = restored_r /\ drawn = {}
  /\ step = "quotient" => transcript = restored_phi /\ drawn = {ChallengeR}
  /\ step = "evaluate" => transcript = restored_zeta /\ drawn = {ChallengeR, ChallengePhi}
  /\ step = "open" =>
       transcript = restored_nu /\ drawn = {ChallengeR, ChallengePhi, ChallengeZeta}
  /\ step \in {"verify", "accepted", "rejected"} =>
       \E nu : drawn = {ChallengeR, ChallengePhi, ChallengeZeta,
                       Challenge(restored_nu, "kzg_aggregation", nu)}

Bound == \A d \in drawn : Binds(d.label) \subseteq Said(d.transcript)

ProtocolIInv ==
  /\ step \in {"commit", "aggregate_bitmask", "quotient", "evaluate", "open", "verify",
               "accepted", "rejected", "panicked"}
  /\ challenges = [r |-> challenges.r, phi |-> challenges.phi, zeta |-> challenges.zeta]
  /\ InTune /\ Bound

\* Nothing is drawn before the first round.
LEMMA ProtocolInitIInv == ProtocolInit => ProtocolIInv
BY DEF ProtocolInit, ProtocolIInv, InTune, Bound

\* A panic leaves the transcript, and what was drawn, as they are.
LEMMA ProtocolPanics ==
  ASSUME ProtocolIInv, ProtocolPanic
  PROVE  ProtocolIInv'
BY DEF ProtocolIInv, ProtocolPanic, InTune, Bound

\* A challenge that is drawn after what it has to bind.
LEMMA StillBound ==
  ASSUME Bound, NEW t, NEW label, NEW value, Binds(label) \subseteq Said(t),
         drawn' = drawn \cup {Challenge(t, label, value)}
  PROVE  Bound'
<1>1. /\ Challenge(t, label, value).label = label
      /\ Challenge(t, label, value).transcript = t
  BY DEF Challenge
<1>2. \A d \in drawn' : d \in drawn \/ d = Challenge(t, label, value)
  OBVIOUS
<1> QED
  BY <1>1, <1>2 DEF Bound

\* The statement and the first registers start the transcript.
LEMMA CommitRegistersStep ==
  ASSUME ProtocolIInv, CommitRegisters
  PROVE  ProtocolIInv'
<1> DEFINE input == new_public_input(scheme, aggregate(keyset, to_bits(bitmask)), bitmask)
           regs == init_registers(scheme, keyset, bitmask)
           comms == polynomials_to_commit1(scheme, regs)
           start == preprocessed_transcript(keyset.domain, commit_keyset(keyset))
<1>1. CASE ProtocolPanic
  BY <1>1, ProtocolPanics
<1>2. CASE ~ProtocolPanic
  <2>1. /\ step = "commit" /\ step' = "aggregate_bitmask"
        /\ public_input' = input
        /\ proof' = [register_commitments |-> comms]
        /\ transcript' = append_register_commitments(append_public_input(start, input), comms)
        /\ UNCHANGED <<setting, drawn, challenges>>
    BY <1>2 DEF CommitRegisters
  <2>2. restored_r' = append_register_commitments(append_public_input(start, input), comms)
    <3>1. proof'.register_commitments = comms /\ keyset' = keyset /\ max_degree' = max_degree
      BY <2>1 DEF setting
    <3> HIDE DEF comms, input
    <3> QED
      BY <2>1, <3>1 DEF restored_r, preprocessed_transcript
  <2> HIDE DEF comms, input, start
  <2> QED
    BY <2>1, <2>2 DEF ProtocolIInv, InTune, Bound
<1> QED
  BY <1>1, <1>2

\* r is drawn where the verifier draws it, and the second registers follow.
LEMMA CommitSecondRoundStep ==
  ASSUME ProtocolIInv, CommitSecondRound
  PROVE  ProtocolIInv'
<1> DEFINE label == "bitmask_aggregation"
           regs(r) == registers_of_round2(scheme, registers, bitmask, r)
           comms(r) == polynomials_to_commit2(scheme, regs(r))
<1>1. CASE ProtocolPanic
  BY <1>1, ProtocolPanics
<1>2. CASE ~ProtocolPanic
  <2>1. /\ step = "aggregate_bitmask" /\ step' = "quotient"
        /\ UNCHANGED <<setting, public_input>>
        /\ \E r :
             /\ drawn' = drawn \cup {Challenge(transcript, label, r)}
             /\ challenges' = [challenges EXCEPT !.r = r]
             /\ proof' = [register_commitments |-> proof.register_commitments,
                          additional_commitments |-> comms(r)]
             /\ transcript' =
                  append_2nd_round_register_commitments(asked(transcript, label), comms(r))
    BY <1>2 DEF CommitSecondRound
  <2>2. PICK r :
          /\ drawn' = drawn \cup {Challenge(transcript, label, r)}
          /\ challenges' = [challenges EXCEPT !.r = r]
          /\ proof' = [register_commitments |-> proof.register_commitments,
                       additional_commitments |-> comms(r)]
          /\ transcript' =
               append_2nd_round_register_commitments(asked(transcript, label), comms(r))
    BY <2>1
  <2> HIDE DEF comms, regs
  <2>3. transcript = restored_r /\ drawn = {} /\ Bound
    BY <2>1 DEF ProtocolIInv, InTune
  <2>4. /\ restored_r' = restored_r
        /\ restored_phi' = transcript'
    <3>1. /\ proof'.register_commitments = proof.register_commitments
          /\ proof'.additional_commitments = comms(r)
      BY <2>2
    <3>2. restored_r' = restored_r
      BY <2>1, <3>1 DEF restored_r, preprocessed_transcript, setting
    <3> QED
      BY <2>2, <2>3, <3>1, <3>2 DEF restored_phi
  <2>5. /\ challenges' = [r |-> r, phi |-> challenges.phi, zeta |-> challenges.zeta]
    BY <2>2 DEF ProtocolIInv
  <2>6. Bound'
    BY <2>2, <2>3, RestoredSays, StillBound
  <2>7. drawn' = {ChallengeR'}
    BY <2>2, <2>3, <2>4, <2>5 DEF ChallengeR
  <2> QED
    BY <2>1, <2>4, <2>5, <2>6, <2>7 DEF ProtocolIInv, InTune
<1> QED
  BY <1>1, <1>2

\* phi is drawn where the verifier draws it, and the quotient follows.
LEMMA CommitQuotientStep ==
  ASSUME ProtocolIInv, CommitQuotient
  PROVE  ProtocolIInv'
<1> DEFINE label == "constraints_aggregation"
           q_poly(phi) == compute_quotient_polynomial(scheme, registers, phi)[1]
<1>1. CASE ProtocolPanic
  BY <1>1, ProtocolPanics
<1>2. CASE ~ProtocolPanic
  <2>1. /\ step = "quotient" /\ step' = "evaluate"
        /\ UNCHANGED <<setting, registers, public_input>>
        /\ \E phi :
             /\ drawn' = drawn \cup {Challenge(transcript, label, phi)}
             /\ challenges' = [challenges EXCEPT !.phi = phi]
             /\ proof' = [register_commitments |-> proof.register_commitments,
                          additional_commitments |-> proof.additional_commitments,
                          q_comm |-> q_poly(phi)]
             /\ transcript' =
                  append_quotient_commitment(asked(transcript, label), q_poly(phi))
    BY <1>2 DEF CommitQuotient
  <2>2. PICK phi :
          /\ drawn' = drawn \cup {Challenge(transcript, label, phi)}
          /\ challenges' = [challenges EXCEPT !.phi = phi]
          /\ proof' = [register_commitments |-> proof.register_commitments,
                       additional_commitments |-> proof.additional_commitments,
                       q_comm |-> q_poly(phi)]
          /\ transcript' = append_quotient_commitment(asked(transcript, label), q_poly(phi))
    BY <2>1
  <2> HIDE DEF q_poly
  <2>3. transcript = restored_phi /\ drawn = {ChallengeR} /\ Bound
    BY <2>1 DEF ProtocolIInv, InTune
  <2>4. /\ restored_r' = restored_r /\ restored_phi' = restored_phi
        /\ restored_zeta' = transcript'
    <3>1. /\ proof'.register_commitments = proof.register_commitments
          /\ proof'.additional_commitments = proof.additional_commitments
          /\ proof'.q_comm = q_poly(phi)
      BY <2>2
    <3>2. restored_r' = restored_r
      BY <2>1, <3>1 DEF restored_r, preprocessed_transcript, setting
    <3>3. restored_phi' = restored_phi
      BY <3>1, <3>2 DEF restored_phi
    <3> QED
      BY <2>2, <2>3, <3>1, <3>2, <3>3 DEF restored_zeta
  <2>5. challenges' = [r |-> challenges.r, phi |-> phi, zeta |-> challenges.zeta]
    BY <2>2 DEF ProtocolIInv
  <2>6. Bound'
    BY <2>2, <2>3, RestoredSays, StillBound
  <2>7. drawn' = {ChallengeR', ChallengePhi'}
    BY <2>2, <2>3, <2>4, <2>5 DEF ChallengeR, ChallengePhi
  <2> QED
    BY <2>1, <2>4, <2>5, <2>6, <2>7 DEF ProtocolIInv, InTune
<1> QED
  BY <1>1, <1>2

\* zeta is drawn where the verifier draws it, and the values follow.
LEMMA EvaluateRegistersStep ==
  ASSUME ProtocolIInv, EvaluateRegisters
  PROVE  ProtocolIInv'
<1> DEFINE label == "evaluation_point"
<1>1. /\ step = "evaluate" /\ step' = "open"
      /\ UNCHANGED <<setting, registers, public_input>>
      /\ \E zeta, evals, q_zeta, r_zeta_omega :
           /\ drawn' = drawn \cup {Challenge(transcript, label, zeta)}
           /\ challenges' = [challenges EXCEPT !.zeta = zeta]
           /\ proof' = [register_commitments |-> proof.register_commitments,
                        additional_commitments |-> proof.additional_commitments,
                        q_comm |-> proof.q_comm,
                        register_evaluations |-> evals,
                        q_zeta |-> q_zeta,
                        r_zeta_omega |-> r_zeta_omega]
           /\ transcript' =
                append_evaluations(asked(transcript, label),
                                   evaluations_as_vec(scheme, evals), q_zeta, r_zeta_omega)
  BY DEF EvaluateRegisters
<1>2. PICK zeta, evals, q_zeta, r_zeta_omega :
        /\ drawn' = drawn \cup {Challenge(transcript, label, zeta)}
        /\ challenges' = [challenges EXCEPT !.zeta = zeta]
        /\ proof' = [register_commitments |-> proof.register_commitments,
                     additional_commitments |-> proof.additional_commitments,
                     q_comm |-> proof.q_comm,
                     register_evaluations |-> evals,
                     q_zeta |-> q_zeta,
                     r_zeta_omega |-> r_zeta_omega]
        /\ transcript' =
             append_evaluations(asked(transcript, label),
                                evaluations_as_vec(scheme, evals), q_zeta, r_zeta_omega)
  BY <1>1
<1>3. transcript = restored_zeta /\ drawn = {ChallengeR, ChallengePhi} /\ Bound
  BY <1>1 DEF ProtocolIInv, InTune
<1>4. /\ restored_r' = restored_r /\ restored_phi' = restored_phi
      /\ restored_zeta' = restored_zeta /\ restored_nu' = transcript'
  <2>1. /\ proof'.register_commitments = proof.register_commitments
        /\ proof'.additional_commitments = proof.additional_commitments
        /\ proof'.q_comm = proof.q_comm
        /\ proof'.register_evaluations = evals
        /\ proof'.q_zeta = q_zeta /\ proof'.r_zeta_omega = r_zeta_omega
    BY <1>2
  <2>2. restored_r' = restored_r
    BY <1>1, <2>1 DEF restored_r, preprocessed_transcript, setting
  <2>3. restored_phi' = restored_phi
    BY <2>1, <2>2 DEF restored_phi
  <2>4. restored_zeta' = restored_zeta
    BY <2>1, <2>3 DEF restored_zeta
  <2> QED
    BY <1>1, <1>2, <1>3, <2>1, <2>2, <2>3, <2>4 DEF restored_nu, setting
<1>5. challenges' = [r |-> challenges.r, phi |-> challenges.phi, zeta |-> zeta]
  BY <1>2 DEF ProtocolIInv
<1>6. Bound'
  BY <1>2, <1>3, RestoredSays, StillBound
<1>7. drawn' = {ChallengeR', ChallengePhi', ChallengeZeta'}
  BY <1>2, <1>3, <1>4, <1>5 DEF ChallengeR, ChallengePhi, ChallengeZeta
<1> QED
  BY <1>1, <1>4, <1>5, <1>6, <1>7 DEF ProtocolIInv, InTune

\* nu is drawn where the verifier draws it.
LEMMA OpenPolynomialsStep ==
  ASSUME ProtocolIInv, OpenPolynomials
  PROVE  ProtocolIInv'
<1> DEFINE label == "kzg_aggregation"
<1>1. /\ step = "open" /\ step' = "verify"
      /\ UNCHANGED <<setting, transcript, registers, challenges, public_input>>
      /\ \E nu, w1, w2 :
           /\ drawn' = drawn \cup {Challenge(transcript, label, nu)}
           /\ proof' = [register_commitments |-> proof.register_commitments,
                        additional_commitments |-> proof.additional_commitments,
                        q_comm |-> proof.q_comm,
                        register_evaluations |-> proof.register_evaluations,
                        q_zeta |-> proof.q_zeta,
                        r_zeta_omega |-> proof.r_zeta_omega,
                        w_at_zeta_proof |-> w1,
                        r_at_zeta_omega_proof |-> w2]
  BY DEF OpenPolynomials
<1>2. PICK nu, w1, w2 :
        /\ drawn' = drawn \cup {Challenge(transcript, label, nu)}
        /\ proof' = [register_commitments |-> proof.register_commitments,
                     additional_commitments |-> proof.additional_commitments,
                     q_comm |-> proof.q_comm,
                     register_evaluations |-> proof.register_evaluations,
                     q_zeta |-> proof.q_zeta,
                     r_zeta_omega |-> proof.r_zeta_omega,
                     w_at_zeta_proof |-> w1,
                     r_at_zeta_omega_proof |-> w2]
  BY <1>1
<1>3. /\ transcript = restored_nu /\ drawn = {ChallengeR, ChallengePhi, ChallengeZeta}
      /\ Bound
  BY <1>1 DEF ProtocolIInv, InTune
<1>4. /\ restored_r' = restored_r /\ restored_phi' = restored_phi
      /\ restored_zeta' = restored_zeta /\ restored_nu' = restored_nu
  <2>1. /\ proof'.register_commitments = proof.register_commitments
        /\ proof'.additional_commitments = proof.additional_commitments
        /\ proof'.q_comm = proof.q_comm
        /\ proof'.register_evaluations = proof.register_evaluations
        /\ proof'.q_zeta = proof.q_zeta /\ proof'.r_zeta_omega = proof.r_zeta_omega
    BY <1>2
  <2>2. restored_r' = restored_r
    BY <1>1, <2>1 DEF restored_r, preprocessed_transcript, setting
  <2>3. restored_phi' = restored_phi
    BY <2>1, <2>2 DEF restored_phi
  <2>4. restored_zeta' = restored_zeta
    BY <2>1, <2>3 DEF restored_zeta
  <2> QED
    BY <1>1, <2>1, <2>2, <2>3, <2>4 DEF restored_nu, setting
<1>5. Bound'
  BY <1>2, <1>3, RestoredSays, StillBound
<1>6. drawn' = {ChallengeR', ChallengePhi', ChallengeZeta',
                Challenge(restored_nu', label, nu)}
  BY <1>1, <1>2, <1>3, <1>4 DEF ChallengeR, ChallengePhi, ChallengeZeta
<1> QED
  BY <1>1, <1>4, <1>5, <1>6 DEF ProtocolIInv, InTune

\* The verdict changes nothing of what the transcripts hold.
LEMMA VerifyStep ==
  ASSUME ProtocolIInv, Verify
  PROVE  ProtocolIInv'
<1>1. CASE ProtocolPanic
  BY <1>1, ProtocolPanics
<1>2. CASE ~ProtocolPanic
  <2>1. /\ step = "verify" /\ step' \in {"accepted", "rejected"}
        /\ UNCHANGED <<setting, transcript, drawn, registers, challenges, public_input, proof>>
    BY <1>2 DEF Verify
  <2>2. /\ restored_r' = restored_r /\ restored_phi' = restored_phi
        /\ restored_zeta' = restored_zeta /\ restored_nu' = restored_nu
    BY <2>1 DEF restored_r, restored_phi, restored_zeta, restored_nu, setting,
                preprocessed_transcript
  <2> QED
    BY <2>1, <2>2 DEF ProtocolIInv, InTune, Bound, ChallengeR, ChallengePhi, ChallengeZeta
<1> QED
  BY <1>1, <1>2

\* Every round keeps the transcripts of both sides the same.
LEMMA ProtocolNextIInv == ProtocolIInv /\ [ProtocolNext]_protocolVars => ProtocolIInv'
<1> SUFFICES ASSUME ProtocolIInv, [ProtocolNext]_protocolVars PROVE ProtocolIInv'
  OBVIOUS
<1>1. CASE UNCHANGED protocolVars
  <2>1. /\ restored_r' = restored_r /\ restored_phi' = restored_phi
        /\ restored_zeta' = restored_zeta /\ restored_nu' = restored_nu
    BY <1>1 DEF restored_r, restored_phi, restored_zeta, restored_nu, protocolVars,
                preprocessed_transcript
  <2> QED
    BY <1>1, <2>1 DEF protocolVars, ProtocolIInv, InTune, Bound, ChallengeR, ChallengePhi,
                      ChallengeZeta
<1> QED
  BY <1>1, CommitRegistersStep, CommitSecondRoundStep, CommitQuotientStep,
     EvaluateRegistersStep, OpenPolynomialsStep, VerifyStep DEF ProtocolNext

\* The inductive invariant: in every round the transcript is the one that the
\* proof leads the verifier to, and the challenges are drawn at those.
THEOREM ProtocolInvariance == ProtocolSpec => []ProtocolIInv
BY ProtocolInitIInv, ProtocolNextIInv, PTL DEF ProtocolSpec

\* restore_challenges: the verifier draws the prover's challenges, each by its
\* label at the transcript that it has put together from the proof.
THEOREM ChallengesAlwaysAgree == ProtocolSpec => []ChallengesAgree
<1>1. ProtocolIInv => ChallengesAgree
  <2> SUFFICES ASSUME ProtocolIInv, step = "verify" PROVE ChallengesAgree
    BY DEF ChallengesAgree
  <2>1. PICK nu : drawn = {ChallengeR, ChallengePhi, ChallengeZeta,
                           Challenge(restored_nu, "kzg_aggregation", nu)}
    BY DEF ProtocolIInv, InTune
  <2> DEFINE d4 == Challenge(restored_nu, "kzg_aggregation", nu)
  <2>2. /\ ChallengeR = [transcript |-> restored_r, label |-> "bitmask_aggregation",
                         value |-> challenges.r]
        /\ ChallengePhi = [transcript |-> restored_phi, label |-> "constraints_aggregation",
                           value |-> challenges.phi]
        /\ ChallengeZeta = [transcript |-> restored_zeta, label |-> "evaluation_point",
                            value |-> challenges.zeta]
        /\ d4 = [transcript |-> restored_nu, label |-> "kzg_aggregation", value |-> nu]
    BY DEF ChallengeR, ChallengePhi, ChallengeZeta, Challenge
  <2>3. ASSUME NEW c \in drawn, NEW values,
               \A d \in drawn : d.label = c.label => d = c
        PROVE  Answers(c.transcript, c.label, values) = {c.value}
    <3>1. {d \in drawn : d.transcript = c.transcript /\ d.label = c.label} = {c}
      BY <2>3
    <3> QED
      BY <3>1 DEF Answers
  <2>4. \A c, d \in drawn : d.label = c.label => d = c
    BY <2>1, <2>2
  <2>5. \A c \in drawn : \A values : Answers(c.transcript, c.label, values) = {c.value}
    BY <2>3, <2>4
  <2> QED
    BY <2>1, <2>2, <2>5 DEF ChallengesAgree
<1> QED
  BY <1>1, ProtocolInvariance, PTL

\* restore_challenges: whatever is proved, for every field and every scheme, a
\* challenge is drawn after all that it has to bind,
\* and is the same on both sides.
THEOREM ChallengesAlwaysBind == ProtocolSpec => []ChallengesBind
<1>1. ProtocolIInv /\ ChallengesAgree => ChallengesBind
  <2> SUFFICES ASSUME ProtocolIInv, ChallengesAgree PROVE ChallengesBind
    OBVIOUS
  <2>1. \A d \in drawn : Binds(d.label) \subseteq Said(d.transcript)
    BY DEF ProtocolIInv, Bound
  <2>2. ASSUME step = "accepted"
        PROVE  {d.transcript : d \in drawn}
                 = {restored_r, restored_phi, restored_zeta, restored_nu}
    <3>1. PICK nu : drawn = {ChallengeR, ChallengePhi, ChallengeZeta,
                             Challenge(restored_nu, "kzg_aggregation", nu)}
      BY <2>2 DEF ProtocolIInv, InTune
    <3>2. /\ ChallengeR.transcript = restored_r
          /\ ChallengePhi.transcript = restored_phi
          /\ ChallengeZeta.transcript = restored_zeta
          /\ Challenge(restored_nu, "kzg_aggregation", nu).transcript = restored_nu
      BY DEF ChallengeR, ChallengePhi, ChallengeZeta, Challenge
    <3> QED
      BY <3>1, <3>2
  <2> QED
    BY <2>1, <2>2 DEF ChallengesBind
<1> QED
  BY <1>1, ProtocolInvariance, ChallengesAlwaysAgree, PTL

-----------------------------------------------------------------------------
(* Induction over the natural numbers, for sets; division.                 *)

Less == {pair \in Nat \X Nat : pair[1] < pair[2]}

\* The order of the natural numbers has no infinite descent.
LEMMA LessWellFounded == IsWellFoundedOn(Less, Nat)
<1>1. Less = OpToRel(<, Nat)
  BY DEF Less, OpToRel
<1> QED
  BY <1>1, NatLessThanWellFounded

\* A set of numbers that has a number when it has all smaller ones.
LEMMA StrongInduction ==
  ASSUME NEW S, \A m \in Nat : (\A k \in 0 .. m - 1 : k \in S) => m \in S
  PROVE  Nat \subseteq S
<1> DEFINE T == Nat \ S
<1> SUFFICES ASSUME T # {} PROVE FALSE
  OBVIOUS
<1>1. PICK x \in T : \A y \in T : ~ (<<y, x>> \in Less)
  <2> HIDE DEF T
  <2>1. T \subseteq Nat
    BY DEF T
  <2> QED
    BY <2>1, LessWellFounded, WFMin
<1>2. PICK k \in 0 .. x - 1 : k \in T
  BY <1>1
<1>3. <<k, x>> \in Less
  BY <1>1, <1>2 DEF Less
<1> QED
  BY <1>1, <1>2, <1>3

\* Induction, for a set that holds 0 and with each number the next.
LEMMA SetInduction ==
  ASSUME NEW S, 0 \in S, \A k \in Nat : k \in S => k + 1 \in S
  PROVE  Nat \subseteq S
<1>1. ASSUME NEW m \in Nat, \A k \in 0 .. m - 1 : k \in S PROVE m \in S
  <2>1. CASE m = 0
    BY <2>1
  <2>2. CASE m # 0
    <3>1. m - 1 \in Nat /\ m - 1 \in S /\ (m - 1) + 1 = m
      BY <1>1, <2>2
    <3> QED
      BY <3>1
  <2> QED
    BY <2>1, <2>2
<1> QED
  BY <1>1, StrongInduction

\* Quotient and remainder.
LEMMA Quotient ==
  ASSUME NEW a \in Nat, NEW b \in Nat \ {0}
  PROVE  /\ a \div b \in Nat /\ a % b \in 0 .. b - 1
         /\ a = b * (a \div b) + (a % b)
  BY SMT

\* A quotient is known by its bounds.
LEMMA QuotientIs ==
  ASSUME NEW a \in Nat, NEW b \in Nat \ {0}, NEW q \in Nat, NEW r \in 0 .. b - 1, a = b * q + r
  PROVE  a \div b = q /\ a % b = r
  BY SMT

\* Dividing twice.
LEMMA QuotientTwice ==
  ASSUME NEW a \in Nat, NEW b \in Nat \ {0}, NEW c \in Nat \ {0}
  PROVE  (a \div b) \div c = a \div (c * b)
<1>1. PICK q \in Nat, r \in 0 .. b - 1 : a = b * q + r /\ q = a \div b
  BY Quotient
<1>2. PICK p \in Nat, t \in 0 .. c - 1 : q = c * p + t /\ p = q \div c
  BY Quotient
<1>3. a = (c * b) * p + (b * t + r)
  <2>1. b * (c * p + t) = b * (c * p) + b * t /\ b * (c * p) = (c * b) * p
    BY SMT
  <2>2. b * (c * p) \in Nat /\ b * t \in Nat
    BY SMT
  <2> QED
    BY <1>1, <1>2, <2>1, <2>2
<1>4. b * t + r \in 0 .. c * b - 1 /\ c * b \in Nat \ {0}
  <2>1. b * t <= b * (c - 1)
    BY <1>2, SMT
  <2>2. b * t + r < b * c /\ b * t \in Nat
    BY <2>1, SMT
  <2> QED
    BY <2>2, SMT
<1>5. PICK bc \in Nat \ {0} : bc = c * b
  BY <1>4
<1>6. PICK s \in 0 .. bc - 1 : a = bc * p + s
  BY <1>3, <1>4, <1>5
<1>7. a \div bc = p
  BY <1>5, <1>6, QuotientIs
<1> QED
  BY <1>1, <1>2, <1>5, <1>7

-----------------------------------------------------------------------------
(* The bitmasks of ApkProtocol.                                            *)

IsRun(g, m, S, a, f) ==
  g \in [0 .. m -> S] /\ g[0] = a /\ \A k \in 1 .. m : g[k] = f[k][g[k - 1]]

\* A sequence of steps from a first value.
LEMMA Recursion ==
  ASSUME NEW m \in Nat, NEW S, NEW a \in S, NEW f \in [1 .. m -> [S -> S]]
  PROVE  \E g : IsRun(g, m, S, a, f)
<1> DEFINE Solves(g, i) == /\ g \in [0 .. i -> S] /\ g[0] = a
                           /\ \A k \in 1 .. i : g[k] = f[k][g[k - 1]]
           T == {i \in Nat : i <= m => \E g : Solves(g, i)}
<1>1. 0 \in T
  <2> DEFINE g == [k \in 0 .. 0 |-> a]
  <2>1. Solves(g, 0)
    OBVIOUS
  <2> QED
    BY <2>1
<1>2. ASSUME NEW i \in Nat, i \in T PROVE i + 1 \in T
  <2> SUFFICES ASSUME i + 1 <= m PROVE \E h : Solves(h, i + 1)
    OBVIOUS
  <2>1. PICK g : Solves(g, i)
    BY <1>2
  <2>2. i + 1 \in 1 .. m /\ g[i] \in S
    BY <2>1
  <2> DEFINE v == f[i + 1][g[i]]
             h == [k \in 0 .. i + 1 |-> IF k = i + 1 THEN v ELSE g[k]]
  <2>3. v \in S
    BY <2>2
  <2> HIDE DEF v
  <2>4. h \in [0 .. i + 1 -> S]
    BY <2>1, <2>3
  <2>5. h[0] = a
    BY <2>1
  <2>6. ASSUME NEW k \in 1 .. i + 1 PROVE h[k] = f[k][h[k - 1]]
    <3>1. CASE k = i + 1
      <4>1. h[k] = v /\ k - 1 = i /\ h[i] = g[i]
        BY <3>1
      <4> QED
        BY <3>1, <4>1 DEF v
    <3>2. CASE k \in 1 .. i
      <4>1. h[k] = g[k] /\ h[k - 1] = g[k - 1] /\ g[k] = f[k][g[k - 1]]
        BY <2>1, <3>2
      <4> QED
        BY <4>1
    <3> QED
      BY <3>1, <3>2
  <2> HIDE DEF h
  <2> QED
    BY <2>4, <2>5, <2>6
<1>3. m \in T
  <2> HIDE DEF T
  <2> QED
    BY <1>1, <1>2, SetInduction
<1> QED
  BY <1>3 DEF IsRun

TwoToOf(k) == CHOOSE power : power = [i \in 0 .. k |-> IF i = 0 THEN 1 ELSE 2 * power[i - 1]]

\* The recursive definition of TwoTo has a solution.
LEMMA TwoToSolved ==
  ASSUME NEW k \in Nat
  PROVE  /\ TwoTo(k) = TwoToOf(k)[k]
         /\ TwoToOf(k) = [i \in 0 .. k |-> IF i = 0 THEN 1 ELSE 2 * TwoToOf(k)[i - 1]]
<1>1. PICK g \in [0 .. k -> Nat] :
        g[0] = 1 /\ \A i \in 1 .. k : g[i] = 2 * g[i - 1]
  <2> DEFINE f == [i \in 1 .. k |-> [v \in Nat |-> 2 * v]]
  <2>1. f \in [1 .. k -> [Nat -> Nat]]
    OBVIOUS
  <2>2. PICK g \in [0 .. k -> Nat] : g[0] = 1 /\ \A i \in 1 .. k : g[i] = f[i][g[i - 1]]
    <3> HIDE DEF f
    <3>1. \E g : IsRun(g, k, Nat, 1, f)
      BY <2>1, Recursion
    <3> QED
      BY <3>1 DEF IsRun
  <2>3. \A i \in 1 .. k : g[i - 1] \in Nat
    BY <2>2
  <2>4. \A i \in 1 .. k : g[i] = 2 * g[i - 1]
    BY <2>2, <2>3
  <2> QED
    BY <2>2, <2>4
<1>2. g = [i \in 0 .. k |-> IF i = 0 THEN 1 ELSE 2 * g[i - 1]]
  BY <1>1
<1> QED
  BY <1>2 DEF TwoTo, TwoToOf

\* 2 ** 0, and 2 ** (k + 1)
LEMMA TwoToIs ==
  /\ TwoTo(0) = 1
  /\ \A k \in Nat : TwoTo(k + 1) = 2 * TwoTo(k) /\ TwoTo(k) \in Nat \ {0}
<1>1. TwoTo(0) = 1
  BY TwoToSolved
<1>2. ASSUME NEW k \in Nat PROVE TwoTo(k + 1) = 2 * TwoTo(k)
  <2> DEFINE f == TwoToOf(k + 1)
             g == TwoToOf(k)
             S == {j \in Nat : j <= k => f[j] = g[j]}
  <2>1. /\ f = [j \in 0 .. k + 1 |-> IF j = 0 THEN 1 ELSE 2 * f[j - 1]]
        /\ TwoTo(k + 1) = f[k + 1]
    <3>1. k + 1 \in Nat
      OBVIOUS
    <3> QED
      BY <3>1, TwoToSolved, Zenon
  <2>2. /\ g = [j \in 0 .. k |-> IF j = 0 THEN 1 ELSE 2 * g[j - 1]]
        /\ TwoTo(k) = g[k]
    BY TwoToSolved
  <2> HIDE DEF f, g
  <2>3. 0 \in S
    BY <2>1, <2>2
  <2>4. ASSUME NEW j \in Nat, j \in S PROVE j + 1 \in S
    <3> SUFFICES ASSUME j + 1 <= k PROVE f[j + 1] = g[j + 1]
      OBVIOUS
    <3>1. PICK i \in 0 .. k : i = j + 1 /\ i # 0 /\ i - 1 = j
      OBVIOUS
    <3>2. f[i] = 2 * f[i - 1] /\ g[i] = 2 * g[i - 1]
      BY <2>1, <2>2, <3>1
    <3> QED
      BY <2>4, <3>1, <3>2
  <2>5. k \in S
    <3> HIDE DEF S
    <3> QED
      BY <2>3, <2>4, SetInduction
  <2>6. PICK i \in 0 .. k + 1 : i = k + 1 /\ i # 0 /\ i - 1 = k
    OBVIOUS
  <2>7. f[i] = 2 * f[k]
    BY <2>1, <2>6
  <2> QED
    BY <2>1, <2>2, <2>5, <2>6, <2>7
<1>3. ASSUME NEW k \in Nat PROVE TwoTo(k) \in Nat \ {0}
  <2> DEFINE S == {j \in Nat : TwoTo(j) \in Nat \ {0}}
  <2>1. 0 \in S
    BY <1>1
  <2>2. \A j \in Nat : j \in S => j + 1 \in S
    BY <1>2
  <2>3. k \in S
    <3> HIDE DEF S
    <3> QED
      BY <2>1, <2>2, SetInduction
  <2> QED
    BY <2>3
<1> QED
  BY <1>1, <1>2, <1>3

LimbAcc(bits) ==
  CHOOSE limb_acc :
    limb_acc = [k \in 0 .. Len(bits) |->
                  IF k = 0 THEN 0
                  ELSE 2 * limb_acc[k - 1] + (IF bits[Len(bits) + 1 - k] THEN 1 ELSE 0)]

\* The values that the fold of bits_to_limb goes through.
LEMMA LimbAccIs ==
  ASSUME NEW bits, Len(bits) \in Nat
  PROVE  /\ bits_to_limb(bits) = LimbAcc(bits)[Len(bits)]
         /\ LimbAcc(bits) \in [0 .. Len(bits) -> Nat]
         /\ \A k \in 1 .. Len(bits) :
              LimbAcc(bits)[k] =
                2 * LimbAcc(bits)[k - 1] + (IF bits[Len(bits) + 1 - k] THEN 1 ELSE 0)
<1> DEFINE m == Len(bits)
           b(k) == IF bits[m + 1 - k] THEN 1 ELSE 0
           f == [k \in 1 .. m |-> [v \in Nat |-> 2 * v + b(k)]]
<1>1. \A k : b(k) \in Nat
  OBVIOUS
<1>2. bits_to_limb(bits) = LimbAcc(bits)[m]
  BY DEF bits_to_limb, LimbAcc
<1>3. LimbAcc(bits) =
        CHOOSE g : g = [k \in 0 .. m |-> IF k = 0 THEN 0 ELSE 2 * g[k - 1] + b(k)]
  BY DEF LimbAcc
<1> HIDE DEF b, m
<1>4. m \in Nat
  BY DEF m
<1>5. f \in [1 .. m -> [Nat -> Nat]]
  BY <1>1
<1>6. PICK g \in [0 .. m -> Nat] : g[0] = 0 /\ \A k \in 1 .. m : g[k] = f[k][g[k - 1]]
  <2> HIDE DEF f
  <2>1. \E g : IsRun(g, m, Nat, 0, f)
    BY <1>4, <1>5, Recursion
  <2> QED
    BY <2>1 DEF IsRun
<1>7. \A k \in 1 .. m : g[k] = 2 * g[k - 1] + b(k)
  <2>1. \A k \in 1 .. m : g[k - 1] \in Nat
    BY <1>4, <1>6
  <2> QED
    BY <1>6, <2>1
<1>8. g = [k \in 0 .. m |-> IF k = 0 THEN 0 ELSE 2 * g[k - 1] + b(k)]
  BY <1>4, <1>6, <1>7
<1> DEFINE h == LimbAcc(bits)
<1>9. h = [k \in 0 .. m |-> IF k = 0 THEN 0 ELSE 2 * h[k - 1] + b(k)]
  BY <1>3, <1>8
<1>10. h \in [0 .. m -> Nat]
  <2> DEFINE S == {k \in Nat : k <= m => h[k] \in Nat}
  <2> HIDE DEF h
  <2>1. 0 \in S
    BY <1>4, <1>9
  <2>2. ASSUME NEW k \in Nat, k \in S PROVE k + 1 \in S
    <3> SUFFICES ASSUME k + 1 <= m PROVE h[k + 1] \in Nat
      OBVIOUS
    <3>1. PICK i \in 0 .. m : i = k + 1 /\ i # 0 /\ i - 1 = k
      BY <1>4
    <3>2. h[i] = 2 * h[k] + b(i)
      BY <1>9, <3>1
    <3> QED
      BY <1>1, <1>4, <2>2, <3>1, <3>2
  <2>3. Nat \subseteq S
    <3> HIDE DEF S
    <3> QED
      BY <2>1, <2>2, SetInduction
  <2>4. \A k \in 0 .. m : h[k] \in Nat
    BY <1>4, <2>3
  <2>5. h = [k \in 0 .. m |-> h[k]]
    BY <1>9
  <2> QED
    BY <2>4, <2>5
<1>11. \A k \in 1 .. m : h[k] = 2 * h[k - 1] + b(k)
  <2> HIDE DEF h
  <2> QED
    BY <1>4, <1>9
<1> QED
  BY <1>2, <1>10, <1>11, Zenon DEF h, m, b

\* A limb has the bits it was made of, the first one the least significant.
LEMMA LimbHasBits ==
  ASSUME NEW bits \in Seq(BOOLEAN), NEW k \in 0 .. Len(bits) - 1
  PROVE  LimbBit(bits_to_limb(bits), k) <=> bits[k + 1]
<1> DEFINE m == Len(bits)
           g == LimbAcc(bits)
           S == {j \in Nat : j <= m => \A i \in 0 .. j - 1 : LimbBit(g[j], i) <=> bits[m - j + i + 1]}
<1>1. /\ m \in Nat /\ bits_to_limb(bits) = g[m] /\ g \in [0 .. m -> Nat]
      /\ \A j \in 1 .. m : g[j] = 2 * g[j - 1] + (IF bits[m + 1 - j] THEN 1 ELSE 0)
  BY LimbAccIs
<1> HIDE DEF m, g
<1>2. 0 \in S
  BY <1>1
<1>3. ASSUME NEW j \in Nat, j \in S PROVE j + 1 \in S
  <2> SUFFICES ASSUME j + 1 <= m, NEW i \in 0 .. (j + 1) - 1
               PROVE  LimbBit(g[j + 1], i) <=> bits[m - (j + 1) + i + 1]
    OBVIOUS
  <2> DEFINE v == g[j]
             b == IF bits[m - j] THEN 1 ELSE 0
             w == g[j + 1]
  <2>1. v \in Nat /\ b \in {0, 1} /\ w = 2 * v + b
    <3>1. PICK l \in 1 .. m : l = j + 1 /\ l - 1 = j /\ m + 1 - l = m - j
      BY <1>1
    <3> QED
      BY <1>1, <3>1
  <2>2. CASE i = 0
    <3>1. TwoTo(i) = 1
      BY <2>2, TwoToIs
    <3>2. w \div 1 = w /\ w % 2 = b
      BY <2>1
    <3>3. m - (j + 1) + i + 1 = m - j /\ bits[m - j] \in BOOLEAN
      <4>1. m - j \in 1 .. Len(bits)
        BY <1>1 DEF m
      <4> QED
        BY <1>1, <2>2, <4>1
    <3>4. b = 1 <=> bits[m - j]
      BY <3>3
    <3> QED
      BY <3>1, <3>2, <3>3, <3>4 DEF LimbBit
  <2>3. CASE i # 0
    <3>1. PICK l \in 0 .. j - 1 : i = l + 1
      BY <2>3
    <3>2. PICK d \in Nat \ {0} : d = TwoTo(l) /\ TwoTo(i) = 2 * d
      <4>1. l \in Nat
        BY <3>1
      <4> QED
        BY <3>1, <4>1, TwoToIs
    <3>3. w \div (2 * d) = v \div d
      <4>1. w \in Nat /\ w \div 2 = v
        <5> HIDE DEF v, w, b
        <5> QED
          BY <2>1
      <4>2. (w \div 2) \div d = w \div (d * 2)
        BY <4>1, QuotientTwice
      <4>3. d * 2 = 2 * d
        OBVIOUS
      <4> QED
        BY <4>1, <4>2, <4>3
    <3>4. LimbBit(w, i) <=> LimbBit(v, l)
      BY <3>2, <3>3 DEF LimbBit
    <3>5. LimbBit(v, l) <=> bits[m - j + l + 1]
      <4>1. j <= m
        BY <1>1
      <4> QED
        BY <1>3, <3>1, <4>1
    <3>6. m - j + l + 1 = m - (j + 1) + i + 1
      BY <1>1, <3>1
    <3> QED
      BY <3>4, <3>5, <3>6
  <2> QED
    BY <2>2, <2>3
<1>4. m \in S
  <2> HIDE DEF S
  <2> QED
    BY <1>1, <1>2, <1>3, SetInduction
<1>5. k \in 0 .. m - 1 /\ m - m + k + 1 = k + 1
  BY <1>1 DEF m
<1> QED
  BY <1>1, <1>4, <1>5

\* Vec changes nothing but how a sequence is kept.
LEMMA VecIs ==
  ASSUME NEW n \in Nat, NEW f, f = [k \in 1 .. n |-> f[k]]
  PROVE  Vec(f) = f /\ Len(f) = n
<1> DEFINE S == {f[k] : k \in 1 .. n}
<1>1. f \in Seq(S) /\ Len(f) = n
  OBVIOUS
<1> HIDE DEF S
<1>2. f \o << >> = f
  BY <1>1
<1> QED
  BY <1>1, <1>2 DEF Vec

\* Where a bit goes: the limb, and the place in it.
LimbOf(k) == ((k - 1) \div BITS_IN_LIMB) + 1

PlaceOf(k) == (k - 1) % BITS_IN_LIMB

\* The bit at a place of a limb.
BitOf(j, i) == (j - 1) * BITS_IN_LIMB + i + 1

\* Bits and places of limbs correspond one to one.
LEMMA PlacesAre ==
  /\ \A k \in Nat \ {0} :
       /\ LimbOf(k) \in Nat \ {0} /\ PlaceOf(k) \in 0 .. BITS_IN_LIMB - 1
       /\ BitOf(LimbOf(k), PlaceOf(k)) = k
  /\ \A j \in Nat \ {0}, i \in 0 .. BITS_IN_LIMB - 1 :
       /\ BitOf(j, i) \in Nat \ {0}
       /\ LimbOf(BitOf(j, i)) = j /\ PlaceOf(BitOf(j, i)) = i
<1> DEFINE b == BITS_IN_LIMB
<1>0. b \in Nat \ {0}
  BY LimbAssumption
<1> HIDE DEF b
<1>1. ASSUME NEW k \in Nat \ {0}
      PROVE  /\ LimbOf(k) \in Nat \ {0} /\ PlaceOf(k) \in 0 .. b - 1
             /\ BitOf(LimbOf(k), PlaceOf(k)) = k
  <2>1. PICK a \in Nat : a = k - 1 /\ k = a + 1
    OBVIOUS
  <2>2. PICK q \in Nat, r \in 0 .. b - 1 : q = a \div b /\ r = a % b /\ a = b * q + r
    BY <1>0, Quotient
  <2>3. LimbOf(k) = q + 1 /\ PlaceOf(k) = r
    BY <2>1, <2>2 DEF LimbOf, PlaceOf, b
  <2>4. BitOf(q + 1, r) = q * b + r + 1
    <3>1. (q + 1) - 1 = q
      OBVIOUS
    <3> QED
      BY <3>1 DEF BitOf, b
  <2>5. q * b = b * q /\ b * q \in Nat
    BY <1>0
  <2> QED
    BY <1>0, <2>1, <2>2, <2>3, <2>4, <2>5
<1>2. ASSUME NEW j \in Nat \ {0}, NEW i \in 0 .. b - 1
      PROVE  /\ BitOf(j, i) \in Nat \ {0}
             /\ LimbOf(BitOf(j, i)) = j /\ PlaceOf(BitOf(j, i)) = i
  <2>1. PICK q \in Nat : q = j - 1 /\ j = q + 1
    OBVIOUS
  <2>2. PICK p \in Nat : p = b * q /\ q * b = p
    BY <1>0
  <2>3. BitOf(j, i) = p + i + 1
    BY <2>1, <2>2 DEF BitOf, b
  <2>4. PICK a \in Nat : a = p + i /\ BitOf(j, i) = a + 1 /\ (a + 1) - 1 = a
    BY <1>0, <2>3
  <2>5. a = b * q + i
    BY <2>2, <2>4
  <2>6. a \div b = q /\ a % b = i
    BY <1>0, <2>4, <2>5, QuotientIs
  <2> QED
    BY <2>1, <2>4, <2>6 DEF LimbOf, PlaceOf, b
<1> QED
  BY <1>1, <1>2 DEF b

\* There are as many limbs as it takes.
LEMMA LimbsSuffice ==
  ASSUME NEW m \in Nat
  PROVE  /\ div_ceil(m, BITS_IN_LIMB) \in Nat
         /\ m <= BITS_IN_LIMB * div_ceil(m, BITS_IN_LIMB)
         /\ BITS_IN_LIMB * div_ceil(m, BITS_IN_LIMB) \in Nat
         /\ \A k \in 1 .. m : LimbOf(k) <= div_ceil(m, BITS_IN_LIMB)
<1> DEFINE b == BITS_IN_LIMB
<1>0. b \in Nat \ {0}
  BY LimbAssumption
<1> HIDE DEF b
<1>1. PICK a \in Nat : a = m + b - 1 /\ div_ceil(m, b) = a \div b
  BY <1>0 DEF div_ceil
<1>2. PICK q \in Nat, r \in 0 .. b - 1 : q = a \div b /\ a = b * q + r
  BY <1>0, Quotient
<1>3. PICK p \in Nat : p = b * q
  BY <1>0
<1>4. m <= p
  BY <1>0, <1>1, <1>2, <1>3
<1>5. ASSUME NEW k \in 1 .. m PROVE LimbOf(k) <= q
  <2>1. PICK c \in Nat : c = k - 1 /\ c < p
    BY <1>4
  <2>2. PICK s \in Nat, t \in 0 .. b - 1 : s = c \div b /\ c = b * s + t
    BY <1>0, Quotient
  <2>3. LimbOf(k) = s + 1
    BY <2>1, <2>2 DEF LimbOf, b
  <2>4. b * s < b * q
    BY <1>0, <1>3, <2>1, <2>2
  <2>5. s < q
    <3> SUFFICES ASSUME q <= s PROVE FALSE
      OBVIOUS
    <3>1. b * q <= b * s
      BY <1>0
    <3>2. b * q \in Nat /\ b * s \in Nat
      BY <1>0
    <3> QED
      BY <2>4, <3>1, <3>2
  <2> QED
    BY <2>3, <2>5
<1> QED
  BY <1>1, <1>2, <1>3, <1>4, <1>5 DEF b

\* The limbs hold the bits, and zeros after them.
LEMMA LimbsHold ==
  ASSUME NEW bits \in Seq(BOOLEAN)
  PROVE  LET bm == from_bits(bits)
             n == div_ceil(Len(bits), BITS_IN_LIMB)
         IN  /\ Len(bm.limbs) = n
             /\ bm.padding_size = BITS_IN_LIMB * n - Len(bits)
             /\ \A j \in 1 .. n, i \in 0 .. BITS_IN_LIMB - 1 :
                  LimbBit(bm.limbs[j], i) <=> BitOf(j, i) <= Len(bits) /\ bits[BitOf(j, i)]
<1> DEFINE b == BITS_IN_LIMB
           m == Len(bits)
           n == div_ceil(m, b)
           repr_bits == Resize(bits, b * n, FALSE)
           limb(j) == SubSeq(repr_bits, (j - 1) * b + 1, j * b)
           limbs == [j \in 1 .. n |-> bits_to_limb(limb(j))]
<1>0. b \in Nat \ {0}
  BY LimbAssumption
<1>1. m \in Nat /\ n \in Nat /\ b * n \in Nat
  BY LimbsSuffice
<1>2. from_bits(bits) = [limbs |-> Vec(limbs), padding_size |-> b * n - m]
  BY DEF from_bits
<1>3. Vec(limbs) = limbs /\ Len(limbs) = n
  <2>1. limbs = [j \in 1 .. n |-> limbs[j]]
    OBVIOUS
  <2> HIDE DEF limbs
  <2> QED
    BY <1>1, <2>1, VecIs
<1>4. ASSUME NEW j \in 1 .. n, NEW i \in 0 .. b - 1
      PROVE  LimbBit(limbs[j], i) <=> BitOf(j, i) <= m /\ bits[BitOf(j, i)]
  <2> DEFINE from == (j - 1) * b + 1
  <2>1. PICK p \in Nat : p = (j - 1) * b /\ j * b = p + b /\ p + b <= b * n
    <3>1. PICK q \in Nat : q = j - 1 /\ j = q + 1 /\ q < n
      BY <1>1
    <3>2. (q + 1) * b = q * b + b /\ q * b \in Nat
      BY <1>0
    <3>3. (q + 1) * b <= n * b
      BY <1>0, <1>1, <3>1
    <3>4. n * b = b * n
      BY <1>0, <1>1
    <3> QED
      BY <3>1, <3>2, <3>3, <3>4
  <2>2. \A k \in 1 .. b * n : repr_bits[k] = IF k <= m THEN bits[k] ELSE FALSE
    BY DEF Resize
  <2> HIDE DEF repr_bits, m, n, b
  <2>3. ASSUME NEW k \in p + 1 .. p + b PROVE repr_bits[k] \in BOOLEAN
    <3>1. k \in 1 .. b * n
      BY <1>0, <1>1, <2>1
    <3>2. k <= m => bits[k] \in BOOLEAN
      BY <3>1, <1>1 DEF m
    <3> QED
      BY <2>2, <3>1, <3>2
  <2>4. /\ limb(j) = SubSeq(repr_bits, p + 1, p + b)
        /\ limb(j) \in Seq(BOOLEAN) /\ Len(limb(j)) = b
        /\ limb(j)[i + 1] = repr_bits[p + i + 1]
    <3>1. limb(j) = SubSeq(repr_bits, p + 1, p + b)
      BY <2>1
    <3>2. p + 1 \in Int /\ p + b \in Int /\ p + 1 <= p + b /\ (p + b) - (p + 1) + 1 = b
      BY <1>0, <2>1
    <3>3. i + 1 \in 1 .. (p + b) - (p + 1) + 1 /\ (p + 1) + (i + 1) - 1 = p + i + 1
      BY <1>0, <2>1
    <3> HIDE DEF limb
    <3> QED
      BY <2>3, <3>1, <3>2, <3>3, SubSeqProperties
  <2>5. limbs[j] = bits_to_limb(limb(j))
    OBVIOUS
  <2> HIDE DEF limb, limbs
  <2>6. LimbBit(bits_to_limb(limb(j)), i) <=> limb(j)[i + 1]
    BY <1>0, <2>4, LimbHasBits
  <2>7. BitOf(j, i) = p + i + 1 /\ p + i + 1 \in 1 .. b * n
    BY <1>0, <1>1, <2>1 DEF BitOf, b
  <2> QED
    BY <1>1, <2>2, <2>4, <2>5, <2>6, <2>7
<1>5. from_bits(bits).limbs = limbs /\ from_bits(bits).padding_size = b * n - m
  BY <1>2, <1>3
<1> HIDE DEF limbs
<1> QED
  BY <1>3, <1>4, <1>5

\* What is packed is unpacked again.
LEMMA RoundTrip ==
  ASSUME NEW bits \in Seq(BOOLEAN)
  PROVE  /\ to_bits(from_bits(bits)) = bits
         /\ bitmask_size(from_bits(bits)) = Len(bits)
<1> DEFINE bm == from_bits(bits)
           n == div_ceil(Len(bits), BITS_IN_LIMB)
           m == Len(bits)
<1>1. /\ m \in Nat /\ n \in Nat /\ BITS_IN_LIMB * n \in Nat
      /\ \A k \in 1 .. m : LimbOf(k) <= n
  <2>1. m \in Nat
    OBVIOUS
  <2> HIDE DEF m
  <2> QED
    BY <2>1, LimbsSuffice DEF n, m
<1>2. /\ Len(bm.limbs) = n /\ bm.padding_size = BITS_IN_LIMB * n - m
      /\ \A j \in 1 .. n, i \in 0 .. BITS_IN_LIMB - 1 :
           LimbBit(bm.limbs[j], i) <=> BitOf(j, i) <= m /\ bits[BitOf(j, i)]
  BY LimbsHold
<1> HIDE DEF bm, n
<1>3. bitmask_size(bm) = m
  BY <1>1, <1>2 DEF bitmask_size
<1> DEFINE f == [k \in 1 .. m |-> LimbBit(bm.limbs[LimbOf(k)], PlaceOf(k))]
<1>4. to_bits(bm) = Vec(f)
  BY <1>3 DEF to_bits, LimbOf, PlaceOf
<1>5. Vec(f) = f
  <2>1. f = [k \in 1 .. m |-> f[k]]
    OBVIOUS
  <2> HIDE DEF f
  <2> QED
    BY <1>1, <2>1, VecIs
<1>6. ASSUME NEW k \in 1 .. m PROVE f[k] = bits[k]
  <2>1. /\ LimbOf(k) \in 1 .. n /\ PlaceOf(k) \in 0 .. BITS_IN_LIMB - 1
        /\ BitOf(LimbOf(k), PlaceOf(k)) = k
    BY <1>1, PlacesAre
  <2>2. LimbBit(bm.limbs[LimbOf(k)], PlaceOf(k)) <=> k <= m /\ bits[k]
    BY <1>2, <2>1
  <2>3. LimbBit(bm.limbs[LimbOf(k)], PlaceOf(k)) <=> bits[k]
    BY <1>1, <2>2
  <2>4. LimbBit(bm.limbs[LimbOf(k)], PlaceOf(k)) \in BOOLEAN /\ bits[k] \in BOOLEAN
    BY DEF LimbBit
  <2> QED
    BY <2>3, <2>4
<1>7. bits = [k \in 1 .. m |-> bits[k]]
  OBVIOUS
<1>8. f = bits
  BY <1>6, <1>7
<1> QED
  BY <1>3, <1>4, <1>5, <1>8 DEF bm

\* The limbs have as many ones as there are bits set.
LEMMA OnesCounted ==
  ASSUME NEW bits \in Seq(BOOLEAN)
  PROVE  count_ones(from_bits(bits)) = Cardinality({k \in 1 .. Len(bits) : bits[k]})
<1> DEFINE bm == from_bits(bits)
           n == div_ceil(Len(bits), BITS_IN_LIMB)
           m == Len(bits)
           ones == {k \in 1 .. m : bits[k]}
           places == {place \in (1 .. n) \X (0 .. BITS_IN_LIMB - 1) :
                        LimbBit(bm.limbs[place[1]], place[2])}
           f == [k \in ones |-> <<LimbOf(k), PlaceOf(k)>>]
<1>1. /\ m \in Nat /\ n \in Nat /\ \A k \in 1 .. m : LimbOf(k) <= n
  <2>1. m \in Nat
    OBVIOUS
  <2> HIDE DEF m
  <2> QED
    BY <2>1, LimbsSuffice DEF n, m
<1>2. /\ Len(bm.limbs) = n
      /\ \A j \in 1 .. n, i \in 0 .. BITS_IN_LIMB - 1 :
           LimbBit(bm.limbs[j], i) <=> BitOf(j, i) <= m /\ bits[BitOf(j, i)]
  BY LimbsHold
<1> HIDE DEF bm, n, m
<1>3. count_ones(bm) = Cardinality(places)
  BY <1>2 DEF count_ones
<1>4. ASSUME NEW k \in ones
      PROVE  /\ LimbOf(k) \in 1 .. n /\ PlaceOf(k) \in 0 .. BITS_IN_LIMB - 1
             /\ BitOf(LimbOf(k), PlaceOf(k)) = k
             /\ <<LimbOf(k), PlaceOf(k)>> \in places
  <2>1. /\ LimbOf(k) \in 1 .. n /\ PlaceOf(k) \in 0 .. BITS_IN_LIMB - 1
        /\ BitOf(LimbOf(k), PlaceOf(k)) = k
    BY <1>1, PlacesAre
  <2>2. k <= m /\ bits[k]
    BY <1>1
  <2>3. LimbBit(bm.limbs[LimbOf(k)], PlaceOf(k))
    BY <1>2, <2>1, <2>2
  <2> QED
    BY <2>1, <2>3
<1>5. f \in [ones -> places]
  <2> HIDE DEF ones, places
  <2> QED
    BY <1>4
<1>6. ASSUME NEW k \in ones, NEW l \in ones, f[k] = f[l] PROVE k = l
  <2> HIDE DEF ones, places
  <2>1. LimbOf(k) = LimbOf(l) /\ PlaceOf(k) = PlaceOf(l)
    BY <1>6
  <2> QED
    BY <1>4, <2>1
<1>7. ASSUME NEW place \in places PROVE \E k \in ones : f[k] = place
  <2>1. PICK j \in 1 .. n, i \in 0 .. BITS_IN_LIMB - 1 : place = <<j, i>>
    OBVIOUS
  <2>2. LimbBit(bm.limbs[j], i)
    BY <2>1
  <2>3. BitOf(j, i) <= m /\ bits[BitOf(j, i)]
    BY <1>2, <2>2
  <2>4. /\ BitOf(j, i) \in Nat \ {0}
        /\ LimbOf(BitOf(j, i)) = j /\ PlaceOf(BitOf(j, i)) = i
    <3>1. j \in Nat \ {0}
      BY <1>1
    <3> QED
      BY <3>1, PlacesAre
  <2>5. BitOf(j, i) \in ones
    BY <1>1, <2>3, <2>4
  <2> HIDE DEF ones
  <2>6. f[BitOf(j, i)] = place
    BY <2>1, <2>4, <2>5
  <2> QED
    BY <2>5, <2>6
<1>8. f \in Bijection(ones, places)
  <2> HIDE DEF ones, places, f
  <2> QED
    BY <1>5, <1>6, <1>7 DEF Bijection, Injection, Surjection, IsInjective
<1>9. IsFiniteSet(ones)
  <2>1. IsFiniteSet(1 .. m)
    BY <1>1, FS_Interval
  <2> QED
    BY <2>1, FS_Subset
<1>10. ExistsBijection(ones, places)
  BY <1>8 DEF ExistsBijection
<1>11. Cardinality(places) = Cardinality(ones)
  <2> HIDE DEF ones, places
  <2> QED
    BY <1>9, <1>10, FS_Bijection
<1> QED
  BY <1>3, <1>11 DEF bm, m

\* The bitmask is one of the statements', all along.
BitmaskIsPacked == \E s \in Statements : bitmask = from_bits(s.bits)

\* bitmask.rs: whatever the width of the limbs and whatever the bits, packing
\* them and unpacking them loses nothing, and the padding adds no ones.
THEOREM BitmaskAlwaysFaithful == ProtocolSpec => []BitmaskFaithful
<1>1. ProtocolInit => BitmaskIsPacked
  BY DEF ProtocolInit, BitmaskIsPacked
<1>2. BitmaskIsPacked /\ [ProtocolNext]_protocolVars => BitmaskIsPacked'
  <2> SUFFICES ASSUME BitmaskIsPacked, [ProtocolNext]_protocolVars PROVE BitmaskIsPacked'
    OBVIOUS
  <2>1. bitmask' = bitmask
    BY DEF ProtocolNext, protocolVars, CommitRegisters, CommitSecondRound, CommitQuotient,
           EvaluateRegisters, OpenPolynomials, Verify, ProtocolPanic, setting
  <2> QED
    BY <2>1 DEF BitmaskIsPacked
<1>3. BitmaskIsPacked => BitmaskFaithful
  <2> SUFFICES ASSUME BitmaskIsPacked PROVE BitmaskFaithful
    OBVIOUS
  <2>1. PICK s \in Statements : bitmask = from_bits(s.bits)
    BY DEF BitmaskIsPacked
  <2>2. PICK bits \in Seq(BOOLEAN) : bits = s.bits
    BY StatementsAssumption
  <2>3. Bits = bits /\ bitmask_size(bitmask) = Len(bits)
    BY <2>1, <2>2, RoundTrip DEF Bits
  <2> QED
    BY <2>1, <2>2, <2>3, OnesCounted DEF BitmaskFaithful
<1> QED
  BY <1>1, <1>2, <1>3, PTL DEF ProtocolSpec
=============================================================================
