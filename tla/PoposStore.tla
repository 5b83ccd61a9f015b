----------------------------- MODULE PoposStore -----------------------------
(***************************************************************************)
(* The dummy stores of the PoPoS baseline: what a prover keeps of the      *)
(* chain (prover-store.ts), and what a client can verify (verifier-store.  *)
(* ts).  A committee is the chain and the period it belongs to: all keys   *)
(* are drawn independently, so no two committees share one.                *)
(***************************************************************************)
EXTENDS MerkleMountainRange

CONSTANTS
  HonestChain,    \* the chain that the honest seed generates
  GenesisChain,   \* the chain whose first committee clients are built with
  NoChain,        \* null
  NoCommittee     \* false, null or undefined in place of a committee

-----------------------------------------------------------------------------
(* generateChain                                                           *)

Committee(chain, period) == [chain |-> chain, period |-> period]

\* The update of a period announces the committee of the next one, signed by
\* the committee of the period.
SyncUpdate(chain, period) ==
  [nextCommittee |-> Committee(chain, period + 1), epoch |-> period,
   signers |-> Committee(chain, period)]

CommitteeHash(committee) == LeafHash(committee)

-----------------------------------------------------------------------------
(* DummyStoreProver.  dishonestyIndex is -1 until updateChainSize draws it. *)

Store(dishonest, size) ==
  [dishonestChain |-> dishonest, dishonestyIndex |-> -1, maxChainSize |-> size]

IsHonest(store) == store.dishonestChain = NoChain

\* slice(0, dishonestyIndex) of the honest hashes, then the rest of the
\* dishonest ones; a negative index counts from the end.
SyncCommitteeHashes(store) ==
  LET length == store.maxChainSize + 1
      cut == IF store.dishonestyIndex < 0 THEN length + store.dishonestyIndex
             ELSE store.dishonestyIndex
  IN  [i \in 1 .. length |->
         CommitteeHash(Committee(IF IsHonest(store) \/ i - 1 < cut THEN HonestChain
                                 ELSE store.dishonestChain, i - 1))]

GetSyncUpdate(store, period) ==
  SyncUpdate(IF IsHonest(store) \/ store.dishonestyIndex > period THEN HonestChain
             ELSE store.dishonestChain, period)

GetSyncCommittee(store, period) ==
  IF period = 0
  THEN Committee(IF IsHonest(store) \/ store.dishonestyIndex # 0 THEN HonestChain
                 ELSE store.dishonestChain, 0)
  ELSE GetSyncUpdate(store, period - 1).nextCommittee

\* updateChainSize: the stores that a change of the size may leave.
UpdateChainSize(store, chainSize) ==
  IF IsHonest(store) THEN {store}
  ELSE {[store EXCEPT !.dishonestyIndex = d] : d \in 0 .. chainSize - 1}

-----------------------------------------------------------------------------
(* DummyStoreVerifier                                                      *)

GenesisSyncCommittee == Committee(GenesisChain, 0)

\* Variant for mutation: the signature is not verified.
SyncUpdateUnsigned(prevCommittee, update) == update.nextCommittee

SyncUpdateVerifyGetCommittee(prevCommittee, update) ==
  IF update.signers = prevCommittee THEN update.nextCommittee ELSE NoCommittee

SyncUpdateVerify(prevCommittee, currentCommittee, update) ==
  currentCommittee = update.nextCommittee /\ update.signers = prevCommittee
=============================================================================
