------------------------ MODULE RecursiveLightClient ------------------------
(***************************************************************************)
(* The recursive light client of the CSSV baseline                         *)
(* (baselines/cssv/bw6/examples/recursive.rs): in every era the validators *)
(* sign the commitment to a freshly drawn set, a helper that need not be   *)
(* trusted aggregates their approvals and proves the aggregate key, and    *)
(* the light client verifies both and trusts the new commitment.           *)
(*                                                                         *)
(* The sets are numbered as they are drawn, and key <<s, i>> is that of    *)
(* validator i of set s.  Commitments bind, so that the commitment to set  *)
(* s is s itself; keys and signatures are independent, so that a sum of    *)
(* keys is their set and a sum of signatures their bag.                    *)
(* What the proofs of the aggregate key are made of is in ApkProtocol and  *)
(* ApkConstraints.                                                         *)
(***************************************************************************)
EXTENDS Integers, FiniteSets, Sequences

CONSTANTS
  KeysetSizes,   \* 2^log_n - 1 for the arguments log_n of the program
  NEras,         \* its argument n_eras
  MaxFaults,     \* bounds the approvals lost or duplicated in an era
  None

ASSUME SizesAssumption == KeysetSizes \subseteq Nat \ {0}
ASSUME ErasAssumption == NEras \in Nat \ {0} /\ MaxFaults \in Nat
ASSUME NoneAssumption == None \notin Nat

VARIABLES
  pc,             \* where the era is, "done" or "panicked"
  keyset_size,
  current_set,    \* main's current_validator_set
  new_set,        \* the set drawn in this era
  cache,          \* CACHE: the commitment the validators share
  issued,         \* the approvals rotate returns
  approvals,      \* those that reach the helper
  faults,         \* losses and duplicates in this era
  helper_set,     \* the helper's current_validator_set
  prover,         \* its prover: a keyset and the commitment it is bound to
  statement,      \* what aggregate_approvals hands to the light client
  client          \* current_validator_set_commitment of the light client

vars == <<pc, keyset_size, current_set, new_set, cache, issued, approvals, faults,
          helper_set, prover, statement, client>>

chain == <<keyset_size, current_set, new_set, cache, issued>>
helper == <<helper_set, prover, statement>>

\* Variant for mutation: rounded up, and one more.
quorumRoundedUp == (keyset_size * 2) \div 3 + 2

quorum == (keyset_size * 2) \div 3 + 1

Approvers == {i \in 1 .. keyset_size : i <= quorum}

Key(set, i) == <<set, i>>

-----------------------------------------------------------------------------
\* Signatures and proofs.

Signature(key, message) == [signer |-> key, message |-> message]

Approval(commitment, key) ==
  [comm |-> commitment, sig |-> Signature(key, commitment), pk |-> key]

\* A sum of signatures is the bag of its terms.
AggregateSignature(sigs) ==
  [s \in {sigs[k] : k \in DOMAIN sigs} |-> Cardinality({k \in DOMAIN sigs : sigs[k] = s})]

\* The pairing check, for a sum of distinct keys.
BlsVerify(apk, asig, message) ==
  asig = [s \in {Signature(key, message) : key \in apk} |-> 1]

\* Keyset::aggregate
AggregateKey(set, bitmask) == {Key(set, i) : i \in bitmask}

ProveSimple(bitmask) ==
  [public_input |-> [apk |-> AggregateKey(prover.keyset, bitmask), bitmask |-> bitmask],
   proof |-> [keyset |-> prover.keyset, comm |-> prover.comm, bitmask |-> bitmask]]

\* A proof convinces the holder of the commitment it was made for, of the
\* sum of the keys behind that commitment.
VerifySimple(commitment, public_input, proof) ==
  /\ proof.comm = commitment
  /\ proof.keyset = commitment
  /\ proof.bitmask = public_input.bitmask
  /\ public_input.apk = AggregateKey(commitment, public_input.bitmask)

-----------------------------------------------------------------------------
Init ==
  /\ pc = "rotate"
  /\ keyset_size \in KeysetSizes
  /\ current_set = 0 /\ new_set = 0
  /\ cache = None
  /\ issued = << >> /\ approvals = << >> /\ faults = 0
  /\ helper_set = 0 /\ prover = [keyset |-> 0, comm |-> 0]
  /\ statement = None
  /\ client = 0

\* Variant for mutation: the cache keeps its commitment.
RotateKeepingCache ==
  /\ pc = "rotate"
  /\ new_set' = new_set + 1
  /\ issued' = << >> /\ approvals' = << >> /\ faults' = 0
  /\ pc' = "approve"
  /\ UNCHANGED <<keyset_size, current_set, cache, helper, client>>

\* rotate: a new era with a set of fresh keys
Rotate ==
  /\ pc = "rotate"
  /\ cache' = None
  /\ new_set' = new_set + 1
  /\ issued' = << >> /\ approvals' = << >> /\ faults' = 0
  /\ pc' = "approve"
  /\ UNCHANGED <<keyset_size, current_set, helper, client>>

\* approve: the first validator of the era computes the commitment, the
\* others take it from the cache.
Approve ==
  LET i == Len(issued) + 1
      commitment == IF cache = None THEN new_set ELSE cache
  IN  /\ pc = "approve"
      /\ i \in Approvers
      /\ cache' = commitment
      /\ issued' = Append(issued, Approval(commitment, Key(current_set, i)))
      /\ UNCHANGED <<pc, keyset_size, current_set, new_set, approvals, faults, helper, client>>

Collect ==
  /\ pc = "approve"
  /\ Len(issued) + 1 \notin Approvers
  /\ approvals' = issued
  /\ pc' = "aggregate"
  /\ UNCHANGED <<chain, faults, helper, client>>

\* An approval is missing, or comes twice, on its way to the helper.
Lose ==
  /\ pc = "aggregate" /\ faults < MaxFaults
  /\ \E lost \in DOMAIN approvals :
       approvals' = [k \in 1 .. Len(approvals) - 1 |-> approvals[IF k < lost THEN k ELSE k + 1]]
  /\ faults' = faults + 1
  /\ UNCHANGED <<pc, chain, helper, client>>

Duplicate ==
  /\ pc = "aggregate" /\ faults < MaxFaults
  /\ \E again \in DOMAIN approvals : approvals' = Append(approvals, approvals[again])
  /\ faults' = faults + 1
  /\ UNCHANGED <<pc, chain, helper, client>>

Panic == pc' = "panicked" /\ UNCHANGED <<chain, approvals, faults, helper, client>>

ActualSigners == {approvals[k].pk : k \in DOMAIN approvals}

ActualSignersBitmask == {i \in 1 .. keyset_size : Key(helper_set, i) \in ActualSigners}

\* aggregate_approvals: the helper proves with the prover of the set it
\* knows and turns to the new one, before the light client has verified.
AggregateApprovals ==
  /\ pc = "aggregate"
  /\ IF approvals = << >> \/ ActualSignersBitmask = {}
     THEN Panic
     ELSE LET comm == approvals[1].comm
              proven == ProveSimple(ActualSignersBitmask)
          IN  /\ statement' =
                   [public_input |-> proven.public_input,
                    proof |-> proven.proof,
                    asig |-> AggregateSignature([k \in DOMAIN approvals |-> approvals[k].sig]),
                    comm |-> comm]
              /\ helper_set' = new_set
              /\ prover' = [keyset |-> new_set, comm |-> comm]
              /\ pc' = "verify"
              /\ UNCHANGED <<chain, approvals, faults, client>>

Signers == statement.public_input.bitmask

\* Variant for mutation: any number of signers will do.
AcceptedWithoutQuorum ==
  /\ VerifySimple(client, statement.public_input, statement.proof)
  /\ BlsVerify(statement.public_input.apk, statement.asig, statement.comm)

Accepted ==
  /\ VerifySimple(client, statement.public_input, statement.proof)
  /\ BlsVerify(statement.public_input.apk, statement.asig, statement.comm)
  /\ Cardinality(Signers) >= quorum

\* Variant for mutation: what does not verify is passed over.
VerifyAggregatesOrWait ==
  /\ pc = "verify" /\ Accepted
  /\ client' = statement.comm
  /\ current_set' = new_set
  /\ pc' = IF new_set = NEras THEN "done" ELSE "rotate"
  /\ UNCHANGED <<keyset_size, new_set, cache, issued, approvals, faults, helper>>

\* verify_aggregates and the end of an iteration of main's loop
VerifyAggregates ==
  /\ pc = "verify"
  /\ IF ~Accepted
     THEN Panic
     ELSE /\ client' = statement.comm
          /\ current_set' = new_set
          /\ pc' = IF new_set = NEras THEN "done" ELSE "rotate"
          /\ UNCHANGED <<keyset_size, new_set, cache, issued, approvals, faults, helper>>

Next ==
  \/ Rotate \/ Approve \/ Collect
  \/ Lose \/ Duplicate
  \/ AggregateApprovals \/ VerifyAggregates
  \/ pc \in {"done", "panicked"} /\ UNCHANGED vars

Spec == Init /\ [][Next]_vars

\* main is a loop: nothing but its end stops it.
FairSpec == Spec /\ WF_vars(Next)

-----------------------------------------------------------------------------
Sets == 0 .. NEras

\* Every variable has its type.
TypeOK ==
  /\ pc \in {"rotate", "approve", "aggregate", "verify", "done", "panicked"}
  /\ keyset_size \in KeysetSizes
  /\ current_set \in Sets /\ new_set \in Sets /\ client \in Sets /\ helper_set \in Sets
  /\ cache \in Sets \cup {None}
  /\ prover \in [keyset : Sets, comm : Sets]
  /\ faults \in 0 .. MaxFaults

\* Whenever an era is over the client's commitment, the helper's set and
\* prover and the validators in charge are the same set, and every approval
\* of an era is for the set drawn in it, never for one the cache has kept
\* (new_era, :79 to :83; the helper moves on at :256, before the client).
InStep ==
  /\ client = current_set
  /\ pc \in {"rotate", "done"} =>
       /\ helper_set = client /\ new_set = client
       /\ prover = [keyset |-> client, comm |-> client]
  /\ pc \in {"approve", "aggregate", "verify"} =>
       /\ new_set = client + 1
       /\ \A k \in DOMAIN issued : issued[k].comm = new_set

\* The process only panics when the approvals that reached the helper are
\* not, up to their order, those of the era: the quorum of :298 is always
\* reachable, and one signature too many is as fatal as one too few, as the
\* signers are a set (:244) and the signatures are not (:252).
PanicsOnlyOnFaults ==
  pc = "panicked" =>
    AggregateSignature(approvals) # AggregateSignature(issued)

\* main ends, with its last era or with a panic.
Terminates == <>(pc \in {"done", "panicked"})

\* The validators of the client's set whose approval of the next one has
\* reached the helper; the client learns of them with the statement.
Endorsers ==
  {i \in 1 .. keyset_size :
     \E k \in DOMAIN approvals : approvals[k] = Approval(client + 1, Key(client, i))}

SignersOfNext == IF pc \in {"verify", "panicked"} THEN Endorsers ELSE {}

Chain == INSTANCE ValidatorChain
           WITH size <- keyset_size, trusted <- client, signers <- SignersOfNext

\* The light client only moves to the next set of the chain, and only when
\* a quorum of the one it trusts stands behind the statement: not whenever
\* one has signed, as approvals get lost on the way (verify_aggregates, :211).
ClientFollowsChain == Chain!Spec
=============================================================================
