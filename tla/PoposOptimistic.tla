-------------------------- MODULE PoposOptimistic --------------------------
(***************************************************************************)
(* OptimisticLightClient of the PoPoS baseline (optimistic-light-client.   *)
(* ts): it compares the committee hashes of all provers period by period,  *)
(* and lets them fight only where they disagree.                           *)
(***************************************************************************)
EXTENDS PoposProver

CONSTANTS
  N,             \* the number of provers the client knows
  batchSize,     \* the number of hashes it fetches at once
  Deployments    \* the sizes and provers a sync may start with

\* Clients are built with the genesis of the honest chain, and know a prover.
ASSUME GenesisAssumption == GenesisChain = HonestChain
ASSUME NAssumption == N \in Nat \ {0}
ASSUME BatchAssumption == batchSize \in Nat \ {0}
ASSUME NoCommitteeAssumption == NoCommittee \notin [chain : {HonestChain}, period : Nat]

\* A prover has been configured for the current size, which a period separates
\* from genesis; updateChainSize has then drawn where a dishonest one deviates.
Configured(prover, s) ==
  /\ prover.chainSize = s
  /\ prover.store.maxChainSize \in Nat /\ s <= prover.store.maxChainSize
  /\ \/ IsHonest(prover.store)
     \/ /\ prover.store.dishonestyIndex \in 0 .. s - 1
        /\ prover.store.dishonestChain # HonestChain

\* One honest prover is among them.
ASSUME DeploymentsAssumption ==
  \A d \in Deployments :
    /\ d.size \in Nat \ {0}
    /\ \A k \in 1 .. N : Configured(d.provers[k], d.size)
    /\ \E k \in 1 .. N : IsHonest(d.provers[k].store)

VARIABLES
  size,            \* getCurrentPeriod() - getGenesisPeriod(), which never changes
  provers,         \* the provers, by their index, which never change here
  cachedLeafHash,  \* per prover, the hashes the client holds, by period
  pc,              \* what the client does next
  period,
  proverInfos,     \* the provers that are left, with their hash at the period
  lastCommitteeHash,
  winners,
  at,              \* the contestant of the tournament
  fight,           \* the locals of the current fight
  result,          \* the committee that sync returned
  reason           \* why it threw

setting == <<size, provers>>
vars == <<size, provers, cachedLeafHash, pc, period, proverInfos, lastCommitteeHash,
          winners, at, fight, result, reason>>

NoFight == [prevCommittee |-> None, is1Correct |-> FALSE]

Init ==
  /\ \E d \in Deployments : size = d.size /\ provers = d.provers
  /\ cachedLeafHash = [k \in 1 .. N |-> <<>>]
  /\ pc = "hashes" /\ period = 0
  /\ proverInfos = [k \in 1 .. N |-> [index |-> k, hash |-> None]]
  /\ lastCommitteeHash = None
  /\ winners = <<>> /\ at = 0 /\ fight = NoFight
  /\ result = NoCommittee /\ reason = None

Throw(why) ==
  /\ pc' = "thrown" /\ reason' = why
  /\ UNCHANGED <<cachedLeafHash, period, proverInfos, lastCommitteeHash, winners, at, fight, result>>

\* Go on with a prover's answer unless it is a failure; a request that has
\* failed six times makes sync throw.
Request(answer, GoOn(_)) ==
  /\ \/ Throw("transport")
     \/ IF answer.ok THEN GoOn(answer.value) ELSE Throw("bad answer")
  /\ UNCHANGED setting

-----------------------------------------------------------------------------
(* sync: the hashes of all provers that are left.                          *)

\* The hashes that getLeafHash caches for prover k.
Hashes(k) ==
  IF period \in DOMAIN cachedLeafHash[k] THEN cachedLeafHash[k]
  ELSE Held(cachedLeafHash[k], period, GetLeafHashes(provers[k], period, batchSize).value,
            batchSize)

\* The hash that all provers that are left agree on.
AgreedHash(infos) == infos[1].hash

\* The end of an iteration of the loop, or of the loop.
NextPeriod(infos) ==
  /\ period' = period + 1
  /\ lastCommitteeHash' = AgreedHash(infos)
  /\ pc' = IF period + 1 < size THEN "hashes" ELSE "latest"

CollectHashes ==
  /\ pc = "hashes"
  /\ \/ Throw("transport")
     \/ LET left == {proverInfos[i].index : i \in DOMAIN proverInfos}
            infos == [i \in DOMAIN proverInfos |->
                        [proverInfos[i] EXCEPT !.hash = Hashes(proverInfos[i].index)[period]]]
        IN  IF \E i \in DOMAIN infos : infos[i].hash = None THEN Throw("bad answer")
            ELSE /\ cachedLeafHash' =
                      [k \in 1 .. N |-> IF k \in left THEN Hashes(k) ELSE cachedLeafHash[k]]
                 /\ proverInfos' = infos
                 /\ IF \E i \in DOMAIN infos : infos[i].hash # infos[1].hash
                    THEN /\ pc' = "tournament" /\ winners' = <<infos[1]>> /\ at' = 2
                         /\ UNCHANGED <<period, lastCommitteeHash>>
                    ELSE NextPeriod(infos) /\ UNCHANGED <<winners, at>>
                 /\ UNCHANGED <<fight, result, reason>>
  /\ UNCHANGED setting

-----------------------------------------------------------------------------
(* tournament and fight                                                    *)

Winner == winners[1]
Contestant == proverInfos[at]

\* Variant for mutation: the next round has the same contestant again.
DecideAndRepeat(is1Correct) ==
  /\ winners' = IF is1Correct THEN winners ELSE <<Contestant>>
  /\ pc' = "tournament" /\ fight' = NoFight
  /\ UNCHANGED <<cachedLeafHash, period, proverInfos, lastCommitteeHash, at, result, reason>>

\* The winners stay only if they are right and the contestant is not; both
\* wrong, they are discarded as well.
Decide(is1Correct) ==
  /\ winners' = IF is1Correct THEN winners ELSE <<Contestant>>
  /\ at' = at + 1
  /\ pc' = "tournament" /\ fight' = NoFight
  /\ UNCHANGED <<cachedLeafHash, period, proverInfos, lastCommitteeHash, result, reason>>

Judge(is1Correct, is2Correct) ==
  IF is1Correct /\ is2Correct THEN Throw("both correct") ELSE Decide(is1Correct)

\* Variant for mutation: the loop stops as soon as a conflict is resolved.
StopAfterConflict == TRUE

\* Variant for mutation: the losers are not removed.
AllStay == proverInfos

\* The provers that are left after a tournament.
Left == winners

\* The loop stops when a single prover is left.
OneLeft == Len(winners) < 2

Meet ==
  /\ pc = "tournament"
  /\ IF at > Len(proverInfos)
     THEN /\ proverInfos' = Left
          /\ IF OneLeft
             THEN pc' = "latest" /\ UNCHANGED <<period, lastCommitteeHash>>
             ELSE NextPeriod(Left)
          /\ UNCHANGED <<cachedLeafHash, winners, at, fight, result, reason>>
     ELSE IF Winner.hash = Contestant.hash
     THEN /\ winners' = Append(winners, Contestant) /\ at' = at + 1
          /\ UNCHANGED <<cachedLeafHash, pc, period, proverInfos, lastCommitteeHash, fight,
                         result, reason>>
     ELSE IF period = 0
     THEN Judge(Winner.hash = CommitteeHash(GenesisSyncCommittee),
                Contestant.hash = CommitteeHash(GenesisSyncCommittee))
     ELSE /\ pc' = "committee"
          /\ UNCHANGED <<cachedLeafHash, period, proverInfos, lastCommitteeHash, winners, at,
                         fight, result, reason>>
  /\ UNCHANGED setting

GoOnTo(stage, locals) ==
  /\ pc' = stage /\ fight' = locals
  /\ UNCHANGED <<cachedLeafHash, period, proverInfos, lastCommitteeHash, winners, at, result,
                 reason>>

\* getCommittee, for the period before; that of genesis is known.
GetPrevCommittee ==
  /\ pc = "committee"
  /\ IF period = 1
     THEN /\ GoOnTo("check1", [fight EXCEPT !.prevCommittee = GenesisSyncCommittee])
          /\ UNCHANGED setting
     ELSE Request(GetLeaf(provers[Winner.index], period - 1), LAMBDA committee :
            IF CommitteeHash(committee) # lastCommitteeHash THEN Throw("incorrect committee")
            ELSE GoOnTo("check1", [fight EXCEPT !.prevCommittee = committee]))

\* checkCommitteeHashAt: the update that announces the committee of the period.
UpdatePeriod == period - 1

Correct(update, hash) ==
  LET next == SyncUpdateVerifyGetCommittee(fight.prevCommittee, update)
  IN  next # NoCommittee /\ CommitteeHash(next) = hash

Check1 ==
  /\ pc = "check1"
  /\ Request(GetSyncUpdates(provers[Winner.index], UpdatePeriod, 1), LAMBDA updates :
       IF updates = <<>> THEN Throw("bad answer")
       ELSE GoOnTo("check2", [fight EXCEPT !.is1Correct = Correct(updates[1], Winner.hash)]))

Check2 ==
  /\ pc = "check2"
  /\ Request(GetSyncUpdates(provers[Contestant.index], UpdatePeriod, 1), LAMBDA updates :
       IF updates = <<>> THEN Throw("bad answer")
       ELSE Judge(fight.is1Correct, Correct(updates[1], Contestant.hash)))

-----------------------------------------------------------------------------
(* sync: the latest committee, of the first prover that is left.           *)

\* The answer is not verified.
AskLatest ==
  /\ pc = "latest"
  /\ Request(GetLeaf(provers[proverInfos[1].index], Latest), LAMBDA committee :
       /\ pc' = "returned" /\ result' = committee
       /\ UNCHANGED <<cachedLeafHash, period, proverInfos, lastCommitteeHash, winners, at,
                      fight, reason>>)

Done == pc \in {"returned", "thrown"} /\ UNCHANGED vars

Step == CollectHashes \/ Meet \/ GetPrevCommittee \/ Check1 \/ Check2 \/ AskLatest

Next == Step \/ Done

\* The client goes on with each answer, and each request is answered or fails.
Spec == Init /\ [][Next]_vars /\ WF_vars(Step)

-----------------------------------------------------------------------------
(* Properties                                                              *)

\* The mapping to what sync promises.
Promise ==
  INSTANCE SyncPromise
  WITH returned <- IF result = NoCommittee THEN "nothing"
                   ELSE IF result = Committee(HonestChain, size) THEN "current" ELSE "other",
       thrown <- (pc = "thrown")

\* sync returns the committee of the honest chain, once, or it throws, when the
\* provers have been configured for the current size: each dishonest one then
\* differs from the honest ones before the latest period.
KeepsPromise == Promise!Spec

\* What each iteration leaves behind is the honest chain's hash, on which the
\* fights of the next period rest.
LastHashIsHonest ==
  pc # "thrown" /\ period > 0 =>
    lastCommitteeHash = CommitteeHash(Committee(HonestChain, period - 1))

\* sync ends.
Terminates == <>(pc \in {"returned", "thrown"})
=============================================================================
