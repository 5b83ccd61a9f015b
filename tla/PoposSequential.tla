-------------------------- MODULE PoposSequential --------------------------
(***************************************************************************)
(* LightClient of the PoPoS baseline (light-client.ts): it follows the     *)
(* updates of one prover, period by period, and goes on with the next      *)
(* prover where an update is not valid.                                    *)
(***************************************************************************)
EXTENDS PoposProver

CONSTANTS
  N,             \* the number of provers the client knows
  batchSize,     \* the number of updates it fetches at once
  Deployments,   \* the sizes and provers a sync may start with
  MaxChanges     \* a bound on changes of provers during the sync

\* Clients are built with the genesis of the honest chain, and know a prover.
ASSUME GenesisAssumption == GenesisChain = HonestChain
ASSUME NAssumption == N \in Nat \ {0}
ASSUME BatchAssumption == batchSize \in Nat \ {0}
ASSUME DeploymentsAssumption == \A d \in Deployments : d.size \in Nat

\* What a server and its store are, whatever they have been configured to.
Chains ==
  {HonestChain} \cup {d.provers[k].store.dishonestChain : d \in Deployments, k \in 1 .. N}

Servers ==
  [store : [dishonestChain : Chains, dishonestyIndex : Int, maxChainSize : Nat],
   chainSize : Nat, treeDegree : Nat]

\* All servers reach the current period, and one of them is honest.
ASSUME ServersAssumption ==
  \A d \in Deployments :
    /\ d.provers \in [1 .. N -> Servers]
    /\ \A k \in 1 .. N : d.size <= d.provers[k].chainSize
                       /\ d.size <= d.provers[k].store.maxChainSize
    /\ \E k \in 1 .. N : IsHonest(d.provers[k].store)

\* What stands for undefined is no value.
ASSUME NoneAssumption ==
  None \notin {"transport", "bad answer", "no honest prover found"}
ASSUME NoUpdateAssumption ==
  None \notin [nextCommittee : [chain : Chains, period : Nat], epoch : Nat,
               signers : [chain : Chains, period : Nat]]
ASSUME NoCommitteeAssumption == NoCommittee \notin [chain : {HonestChain}, period : Nat]

VARIABLES
  size,          \* getCurrentPeriod() - getGenesisPeriod(), which never changes
  provers,       \* the provers, by their index
  changes,       \* the number of changes of provers so far
  cachedSyncUpdate,   \* per prover, the updates the client holds, by period
  at,            \* the prover that is validated
  period,        \* the period whose update is next
  committee,     \* the last valid committee
  result,        \* the committee that sync returned
  reason         \* why it threw

client == <<cachedSyncUpdate, at, period, committee, result, reason>>
vars == <<size, provers, changes, cachedSyncUpdate, at, period, committee, result, reason>>

Init ==
  /\ \E d \in Deployments : size = d.size /\ provers = d.provers
  /\ changes = 0
  /\ cachedSyncUpdate = [k \in 1 .. N |-> <<>>]
  /\ at = 1 /\ period = 0 /\ committee = GenesisSyncCommittee
  /\ result = NoCommittee /\ reason = None

\* Variant for mutation: the last update is not needed.
EndBefore == size - 1

\* The period whose committee is wanted.
End == size

Running == result = NoCommittee /\ reason = None

\* A prover is configured again by a delayed copy of a request to /config, or
\* it restarts.
Change(k) ==
  /\ Running
  /\ changes < MaxChanges
  /\ changes' = changes + 1
  /\ \E prover \in SetConfig(provers[k], size, provers[k].treeDegree)
                   \cup {NewProver(Store(provers[k].store.dishonestChain,
                                         provers[k].store.maxChainSize),
                                   provers[k].treeDegree)} :
       provers' = [provers EXCEPT ![k] = prover]
  /\ UNCHANGED <<size, client>>

Throw(why) ==
  /\ reason' = why
  /\ UNCHANGED <<size, provers, changes, at, period, committee, result>>

\* getSyncUpdate, for a period that the client holds nothing for.
FetchUpdates ==
  /\ Running /\ period < End /\ period \notin DOMAIN cachedSyncUpdate[at]
  /\ LET answer == GetSyncUpdates(provers[at], period, batchSize)
     IN  \/ Throw("transport") /\ UNCHANGED cachedSyncUpdate
         \/ ~answer.ok /\ Throw("bad answer") /\ UNCHANGED cachedSyncUpdate
         \/ /\ answer.ok
            /\ cachedSyncUpdate' =
                 [cachedSyncUpdate EXCEPT ![at] = Held(@, period, answer.value, batchSize)]
            /\ UNCHANGED <<size, provers, changes, at, period, committee, result, reason>>

Update == cachedSyncUpdate[at][period]

\* Variant for mutation: the next prover is validated from this period on,
\* but with the genesis committee.
NextProverFromGenesis == at' = at + 1 /\ period' = period /\ committee' = GenesisSyncCommittee

\* Variant for mutation: the same prover again.
NextProverSame == UNCHANGED <<at, period, committee>>

\* for i < this.provers.length
IsLastProver == at = N

\* The next prover goes on where this one ended.
NextProver == at' = at + 1 /\ UNCHANGED <<period, committee>>

CheckUpdate ==
  /\ Running /\ period < End /\ period \in DOMAIN cachedSyncUpdate[at]
  /\ IF Update = None THEN Throw("bad answer")
     ELSE LET next == SyncUpdateVerifyGetCommittee(committee, Update)
          IN  IF next # NoCommittee
              THEN /\ period' = period + 1 /\ committee' = next
                   /\ UNCHANGED <<size, provers, changes, at, result, reason>>
              ELSE IF IsLastProver THEN Throw("no honest prover found")
              ELSE NextProver /\ UNCHANGED <<size, provers, changes, result, reason>>
  /\ UNCHANGED cachedSyncUpdate

Return ==
  /\ Running /\ period = End
  /\ result' = committee
  /\ UNCHANGED <<size, provers, changes, cachedSyncUpdate, at, period, committee, reason>>

Done == ~Running /\ UNCHANGED vars

Step == FetchUpdates \/ CheckUpdate \/ Return

Next == Step \/ (\E k \in 1 .. N : Change(k)) \/ Done

\* The client goes on with each answer, and each request is answered or fails.
Spec == Init /\ [][Next]_vars /\ WF_vars(Step)

-----------------------------------------------------------------------------
(* Properties                                                              *)

\* syncProver: the client validates a prover it knows, never beyond the current
\* period, and throws for a reason that the source has.
TypeOK ==
  /\ size \in Nat
  /\ at \in 1 .. N /\ period \in 0 .. size
  /\ reason \in {None, "transport", "bad answer", "no honest prover found"}
  /\ DOMAIN cachedSyncUpdate = 1 .. N

\* syncProver: what a client has accepted is the honest chain's, whichever
\* provers it has it from.
AcceptedIsHonest == committee = Committee(HonestChain, period)

\* The mapping to what sync promises.
Promise ==
  INSTANCE SyncPromise
  WITH returned <- IF result = NoCommittee THEN "nothing"
                   ELSE IF result = Committee(HonestChain, size) THEN "current" ELSE "other",
       thrown <- (reason # None)

\* sync returns the committee of the honest chain, once, or it throws.
KeepsPromise == Promise!Spec

\* With an honest participant, sync does not throw "no honest prover found",
\* and no prover's answer is too short for it.
FindsHonest == reason \in {None, "transport"}

\* sync ends.
Terminates == <>(~Running)
=============================================================================
