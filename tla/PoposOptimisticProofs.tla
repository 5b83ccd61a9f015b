----------------------- MODULE PoposOptimisticProofs -----------------------
(***************************************************************************)
(* Proofs about PoposOptimistic, for every number of provers, every size,  *)
(* every batch and every deployment with an honest prover.                 *)
(***************************************************************************)
EXTENDS PoposOptimistic, SequenceTheorems, TLAPS

USE GenesisAssumption, NAssumption, BatchAssumption

-----------------------------------------------------------------------------
(* What the provers answer.                                                *)

Setting == \E d \in Deployments : size = d.size /\ provers = d.provers

Honest(k) == IsHonest(provers[k].store)

\* The hash that prover k has for a period, and that of the honest chain.
HashOf(k, p) == SyncCommitteeHashes(provers[k].store)[p + 1]
HonestHash(p) == CommitteeHash(Committee(HonestChain, p))

LEMMA Deployed ==
  ASSUME Setting
  PROVE  /\ size \in Nat \ {0}
         /\ \A k \in 1 .. N : Configured(provers[k], size)
         /\ \E k \in 1 .. N : Honest(k)
BY DeploymentsAssumption DEF Setting, Honest

\* Equal hashes are of equal committees.
LEMMA HashInjective ==
  \A c, d : CommitteeHash(c) = CommitteeHash(d) => c = d
<1> SUFFICES ASSUME NEW c, NEW d, CommitteeHash(c) = CommitteeHash(d) PROVE c = d
  OBVIOUS
<1>1. CommitteeHash(c).data = c /\ CommitteeHash(d).data = d
  BY DEF CommitteeHash, LeafHash
<1> QED
  BY <1>1

LEMMA SameCommittee ==
  \A c, d, p, q : Committee(c, p) = Committee(d, q) => c = d /\ p = q
<1> SUFFICES ASSUME NEW c, NEW d, NEW p, NEW q, Committee(c, p) = Committee(d, q)
             PROVE  c = d /\ p = q
  OBVIOUS
<1>1. Committee(c, p).chain = c /\ Committee(d, q).chain = d
  BY DEF Committee
<1>2. Committee(c, p).period = p /\ Committee(d, q).period = q
  BY DEF Committee
<1> QED
  BY <1>1, <1>2

\* The chain whose committee prover k has for a period.
ChainOf(k, p) ==
  IF Honest(k) \/ p < provers[k].store.dishonestyIndex THEN HonestChain
  ELSE provers[k].store.dishonestChain

LEMMA HashesOf ==
  ASSUME Setting, NEW k \in 1 .. N, NEW p \in 0 .. size
  PROVE  HashOf(k, p) = CommitteeHash(Committee(ChainOf(k, p), p))
<1> DEFINE store == provers[k].store
           length == store.maxChainSize + 1
           cut == IF store.dishonestyIndex < 0 THEN length + store.dishonestyIndex
                  ELSE store.dishonestyIndex
           hash(i) == CommitteeHash(Committee(IF IsHonest(store) \/ i - 1 < cut THEN HonestChain
                                              ELSE store.dishonestChain, i - 1))
<1>1. /\ size \in Nat /\ store.maxChainSize \in Nat /\ size <= store.maxChainSize
      /\ IsHonest(store) \/ store.dishonestyIndex \in 0 .. size - 1
  BY Deployed DEF Configured
<1>2. p + 1 \in 1 .. length /\ p + 1 - 1 = p
  BY <1>1
<1>3. HashOf(k, p) = hash(p + 1)
  <2>1. SyncCommitteeHashes(store) = [i \in 1 .. length |-> hash(i)]
    BY DEF SyncCommitteeHashes
  <2> HIDE DEF hash, length
  <2> QED
    BY <1>2, <2>1 DEF HashOf
<1>4. IsHonest(store) \/ (cut = store.dishonestyIndex)
  BY <1>1
<1> QED
  BY <1>2, <1>3, <1>4 DEF ChainOf, Honest

\* A prover has the honest hash for a period as long as its chain is honest,
\* and a dishonest prover has another one for the last period.
LEMMA HonestHashes ==
  ASSUME Setting, NEW k \in 1 .. N
  PROVE  /\ \A p \in 0 .. size : HashOf(k, p) = HonestHash(p) <=> ChainOf(k, p) = HonestChain
         /\ \A p \in 0 .. size : Honest(k) => HashOf(k, p) = HonestHash(p)
         /\ HashOf(k, size - 1) = HonestHash(size - 1) => Honest(k)
<1>1. ASSUME NEW p \in 0 .. size
      PROVE  HashOf(k, p) = HonestHash(p) <=> ChainOf(k, p) = HonestChain
  BY HashesOf, HashInjective, SameCommittee DEF HonestHash
<1>2. \A p \in 0 .. size : Honest(k) => ChainOf(k, p) = HonestChain
  BY DEF ChainOf
<1>3. size - 1 \in 0 .. size
  BY Deployed
<1>4. ChainOf(k, size - 1) = HonestChain => Honest(k)
  BY Deployed DEF ChainOf, Configured, Honest
<1> QED
  BY <1>1, <1>2, <1>3, <1>4

\* The update of the period before: it announces, for the hash that its prover
\* has for the period, the committee that the honest one has signed if and
\* only if that hash is honest.
LEMMA UpdateOf ==
  ASSUME Setting, NEW k \in 1 .. N, period \in 1 .. size - 1,
         fight.prevCommittee = Committee(HonestChain, period - 1)
  PROVE  LET answer == GetSyncUpdates(provers[k], UpdatePeriod, 1)
         IN  answer.ok => /\ answer.value # <<>>
                          /\ Correct(answer.value[1], HashOf(k, period)) <=>
                               HashOf(k, period) = HonestHash(period)
<1> DEFINE store == provers[k].store
           answer == GetSyncUpdates(provers[k], UpdatePeriod, 1)
           update == GetSyncUpdate(store, period - 1)
<1>1. /\ size \in Nat \ {0} /\ provers[k].chainSize = size
      /\ Honest(k) \/ (store.dishonestyIndex \in 0 .. size - 1 /\ store.dishonestChain # HonestChain)
  BY Deployed DEF Configured, Honest
<1>2. answer.ok => answer.value # <<>> /\ answer.value[1] = update
  <2>1. size - (period - 1) \in Nat \ {0} /\ period - 1 + 1 - 1 = period - 1
    BY <1>1
  <2> DEFINE count == IF period - 1 + 1 - 1 >= size THEN size - (period - 1) ELSE 1
             values == [i \in 1 .. count |-> GetSyncUpdate(store, period - 1 + i - 1)]
  <2>2. count = 1
    BY <1>1, <2>1
  <2>3. answer = AnswerIf(count >= 0, values)
    BY <1>1 DEF GetSyncUpdates, UpdatePeriod
  <2>4. answer.value = values
    BY <2>2, <2>3 DEF AnswerIf, Answer
  <2>5. DOMAIN values = 1 .. 1 /\ values[1] = GetSyncUpdate(store, period - 1 + 1 - 1)
    BY <2>2
  <2>6. values # <<>>
    BY <2>5
  <2> QED
    BY <2>1, <2>4, <2>5, <2>6
<1> DEFINE chain == IF Honest(k) \/ store.dishonestyIndex > period - 1 THEN HonestChain
                    ELSE store.dishonestChain
<1>3. /\ update.nextCommittee = Committee(chain, period)
      /\ update.signers = Committee(chain, period - 1)
  <2>1. period - 1 + 1 = period
    BY <1>1
  <2> QED
    BY <2>1 DEF GetSyncUpdate, SyncUpdate, Honest
<1>4. HashOf(k, period) = HonestHash(period) <=> ChainOf(k, period) = HonestChain
  BY <1>1, HonestHashes
<1>5. HashOf(k, period) = CommitteeHash(Committee(ChainOf(k, period), period))
  BY <1>1, HashesOf
<1>6. ChainOf(k, period) = HonestChain => chain = HonestChain
  BY <1>1 DEF ChainOf
<1>7. Committee(HonestChain, period) # NoCommittee
  BY <1>1, NoCommitteeAssumption DEF Committee
<1>8. Correct(update, HashOf(k, period)) <=>
        chain = HonestChain /\ Committee(chain, period) # NoCommittee
          /\ CommitteeHash(Committee(chain, period)) = HashOf(k, period)
  <2> HIDE DEF chain, update
  <2>1. update.signers = fight.prevCommittee <=> chain = HonestChain
    BY <1>3, SameCommittee
  <2> QED
    BY <1>3, <2>1 DEF Correct, SyncUpdateVerifyGetCommittee
<1>9. Correct(update, HashOf(k, period)) <=> HashOf(k, period) = HonestHash(period)
  <2> HIDE DEF chain, update
  <2> QED
    BY <1>4, <1>5, <1>6, <1>7, <1>8, HashInjective, SameCommittee DEF HonestHash
<1> QED
  BY <1>2, <1>9
-----------------------------------------------------------------------------
(* The inductive invariant.                                                *)

\* Provers with the hash they have for a period, or with one fetched before.
At(p) == {[index |-> k, hash |-> HashOf(k, p)] : k \in 1 .. N}
Known == [index : 1 .. N, hash : {None} \cup {HashOf(k, p) : k \in 1 .. N, p \in 0 .. size}]

AllHonestIn(infos) ==
  \A k \in 1 .. N : Honest(k) => \E j \in 1 .. Len(infos) : infos[j].index = k

SameHash(infos) == \A j \in 1 .. Len(infos) : infos[j].hash = infos[1].hash

\* Of the provers met so far, all that have the honest hash are among the
\* winners, whose hash it then is.
HonestWin(upto) ==
  \A j \in 1 .. upto :
    proverInfos[j].hash = HonestHash(period) =>
      \E w \in 1 .. Len(winners) : winners[w] = proverInfos[j]

Stages == {"tournament", "committee", "check1", "check2"}

TypeOK ==
  /\ Setting
  /\ pc \in Stages \cup {"hashes", "latest", "returned", "thrown"}
  /\ period \in 0 .. size
  /\ fight = [prevCommittee |-> fight.prevCommittee, is1Correct |-> fight.is1Correct]
  /\ fight.is1Correct \in BOOLEAN
  /\ cachedLeafHash = [k \in 1 .. N |-> cachedLeafHash[k]]

CacheTrue ==
  \A k \in 1 .. N : \A p \in DOMAIN cachedLeafHash[k] : cachedLeafHash[k][p] \in {None, HashOf(k, p)}

LastHash == period > 0 => lastCommitteeHash = HonestHash(period - 1)

HonestLeft ==
  pc = "hashes" => period < size /\ proverInfos \in Seq(Known) /\ AllHonestIn(proverInfos)

Tournament ==
  pc \in Stages =>
    /\ period < size
    /\ proverInfos \in Seq(At(period)) /\ AllHonestIn(proverInfos)
    /\ winners \in Seq(At(period)) /\ winners # <<>> /\ SameHash(winners)
    /\ at \in 1 .. Len(proverInfos) + 1
    /\ HonestWin(at - 1)

Fight ==
  /\ pc \in {"committee", "check1", "check2"} =>
       period > 0 /\ at <= Len(proverInfos) /\ Winner.hash # Contestant.hash
  /\ pc \in {"check1", "check2"} => fight.prevCommittee = Committee(HonestChain, period - 1)
  /\ pc = "check2" => (fight.is1Correct <=> Winner.hash = HonestHash(period))

LatestHonest ==
  pc = "latest" => proverInfos[1].index \in 1 .. N /\ Honest(proverInfos[1].index)

Outcome == result = IF pc = "returned" THEN Committee(HonestChain, size) ELSE NoCommittee

IInv ==
  /\ TypeOK /\ CacheTrue /\ LastHash /\ HonestLeft
  /\ Tournament /\ Fight /\ LatestHonest /\ Outcome

LEMMA SameSetting ==
  ASSUME UNCHANGED setting
  PROVE  /\ UNCHANGED <<size, Setting, Known>>
         /\ \A k : Honest(k)' = Honest(k)
         /\ \A k, p : HashOf(k, p)' = HashOf(k, p)
         /\ \A p : At(p)' = At(p)
BY DEF setting, Setting, Known, Honest, HashOf, At

\* What a step that throws leaves.
LEMMA ThrowIInv ==
  ASSUME IInv, NEW why, Throw(why), UNCHANGED setting, pc # "returned"
  PROVE  IInv'
<1>1. /\ UNCHANGED <<size, Setting, cachedLeafHash, period, lastCommitteeHash, fight>>
      /\ pc' = "thrown" /\ result' = result /\ \A k, p : HashOf(k, p)' = HashOf(k, p)
  BY SameSetting DEF Throw
<1>2. TypeOK' /\ CacheTrue' /\ LastHash'
  BY <1>1 DEF IInv, TypeOK, CacheTrue, LastHash, HonestHash
<1>3. HonestLeft' /\ Tournament' /\ Fight' /\ LatestHonest' /\ Outcome'
  BY <1>1 DEF IInv, HonestLeft, Tournament, Fight, LatestHonest, Outcome, Stages
<1> QED
  BY <1>2, <1>3 DEF IInv

\* Provers that all have the same hash have the honest one, if the honest
\* provers are among them.
LEMMA HonestAgreement ==
  ASSUME Setting, period \in 0 .. size - 1,
         NEW infos \in Seq(At(period)), AllHonestIn(infos), SameHash(infos)
  PROVE  /\ Len(infos) \in Nat \ {0} /\ infos[1] \in At(period)
         /\ infos[1].hash = HonestHash(period)
         /\ infos[1].index \in 1 .. N /\ infos[1].hash = HashOf(infos[1].index, period)
<1>1. PICK k \in 1 .. N : Honest(k)
  BY Deployed
<1>2. PICK j \in 1 .. Len(infos) : infos[j].index = k
  BY <1>1 DEF AllHonestIn
<1>3. Len(infos) \in Nat /\ \A i \in 1 .. Len(infos) : infos[i] \in At(period)
  BY ElementOfSeq, LenProperties
<1>4. infos[j].hash = HashOf(k, period)
  BY <1>2, <1>3 DEF At
<1>5. HashOf(k, period) = HonestHash(period)
  BY <1>1, HonestHashes, Deployed
<1>6. Len(infos) # 0 /\ infos[1] \in At(period)
  BY <1>2, <1>3
<1> QED
  BY <1>2, <1>3, <1>4, <1>5, <1>6 DEF SameHash, At

\* The end of an iteration of sync's loop.
LEMMA NextPeriodIInv ==
  ASSUME IInv, CacheTrue', cachedLeafHash' = [k \in 1 .. N |-> cachedLeafHash'[k]],
         UNCHANGED <<setting, fight, result>>, pc \notin {"returned", "thrown"},
         period \in 0 .. size - 1,
         NEW infos \in Seq(At(period)), AllHonestIn(infos), SameHash(infos),
         proverInfos' = infos, NextPeriod(infos)
  PROVE  IInv'
<1>1. /\ UNCHANGED <<size, Setting, Known>>
      /\ \A k : Honest(k)' = Honest(k)
      /\ \A k, p : HashOf(k, p)' = HashOf(k, p)
  BY SameSetting
<1>2. /\ size \in Nat \ {0} /\ Setting
      /\ infos[1].hash = HonestHash(period) /\ infos[1].index \in 1 .. N
      /\ infos[1].hash = HashOf(infos[1].index, period)
  BY HonestAgreement, Deployed DEF IInv, TypeOK
<1>3. /\ period' = period + 1 /\ lastCommitteeHash' = HonestHash(period)
      /\ pc' = IF period + 1 < size THEN "hashes" ELSE "latest"
  BY <1>2 DEF NextPeriod, AgreedHash
<1>4. TypeOK'
  BY <1>1, <1>2, <1>3 DEF IInv, TypeOK
<1>5. LastHash'
  <2>1. period + 1 - 1 = period
    OBVIOUS
  <2> QED
    BY <1>3, <2>1 DEF LastHash, HonestHash
<1>6. HonestLeft'
  <2>1. At(period) \subseteq Known
    <3>1. period \in 0 .. size
      BY <1>2
    <3> QED
      BY <3>1 DEF At, Known
  <2>2. infos \in Seq(Known)
    BY <2>1, SeqMonotonic
  <2>3. AllHonestIn(infos)'
    BY <1>1 DEF AllHonestIn
  <2> QED
    BY <1>1, <1>3, <2>2, <2>3 DEF HonestLeft
<1>7. LatestHonest'
  <2>1. period + 1 < size \/ period = size - 1
    BY <1>2
  <2>2. period = size - 1 => Honest(infos[1].index)
    <3>1. PICK k \in 1 .. N : k = infos[1].index
      BY <1>2
    <3>2. period = size - 1 => HashOf(k, size - 1) = HonestHash(size - 1)
      BY <1>2, <3>1
    <3>3. HashOf(k, size - 1) = HonestHash(size - 1) => Honest(k)
      BY <1>2, HonestHashes
    <3> QED
      BY <3>1, <3>2, <3>3
  <2> QED
    BY <1>1, <1>2, <1>3, <2>1, <2>2 DEF LatestHonest
<1>8. Tournament' /\ Fight' /\ Outcome'
  BY <1>1, <1>3 DEF IInv, Tournament, Fight, Outcome, Stages
<1> QED
  BY <1>4, <1>5, <1>6, <1>7, <1>8 DEF IInv

-----------------------------------------------------------------------------
(* The steps.                                                              *)

LEMMA InitIInv == Init => IInv
<1> SUFFICES ASSUME Init PROVE IInv
  OBVIOUS
<1>1. Setting /\ size \in Nat \ {0}
  <2>1. Setting
    BY DEF Init, Setting
  <2> QED
    BY <2>1, Deployed
<1>2. TypeOK /\ CacheTrue /\ LastHash /\ Outcome
  BY <1>1 DEF Init, TypeOK, CacheTrue, LastHash, Outcome, NoFight
<1> DEFINE e(k) == [index |-> k, hash |-> None]
<1>3. proverInfos \in Seq(Known)
  <2>1. \A k \in 1 .. N : e(k) \in Known
    BY DEF Known
  <2>2. proverInfos = [k \in 1 .. N |-> e(k)]
    BY DEF Init
  <2> HIDE DEF e
  <2> QED
    BY <2>1, <2>2, IsASeq
<1>4. AllHonestIn(proverInfos)
  <2>1. Len(proverInfos) = N
    <3>1. Len(proverInfos) \in Nat /\ DOMAIN proverInfos = 1 .. Len(proverInfos)
      BY <1>3, LenProperties
    <3>2. DOMAIN proverInfos = 1 .. N
      BY DEF Init
    <3>3. N \in 1 .. Len(proverInfos)
      BY <3>1, <3>2
    <3>4. Len(proverInfos) \in 1 .. N
      BY <3>1, <3>2, <3>3
    <3> QED
      BY <3>3, <3>4
  <2>2. \A k \in 1 .. N : proverInfos[k].index = k
    BY DEF Init
  <2> QED
    BY <2>1, <2>2 DEF AllHonestIn
<1>5. HonestLeft /\ Tournament /\ Fight /\ LatestHonest
  BY <1>1, <1>3, <1>4 DEF Init, HonestLeft, Tournament, Fight, LatestHonest, Stages
<1> QED
  BY <1>2, <1>5 DEF IInv

LEMMA AnswerValue == \A value : Answer(value).ok /\ Answer(value).value = value
BY DEF Answer

\* getLeafHash: what the client then holds of a prover.
LEMMA HashesTrue ==
  ASSUME IInv, NEW k \in 1 .. N
  PROVE  /\ \A p \in DOMAIN Hashes(k) : Hashes(k)[p] \in {None, HashOf(k, p)}
         /\ Hashes(k)[period] \in {None, HashOf(k, period)}
<1>1. CASE period \in DOMAIN cachedLeafHash[k]
  BY <1>1 DEF Hashes, IInv, CacheTrue
<1>2. CASE period \notin DOMAIN cachedLeafHash[k]
  <2> DEFINE before == cachedLeafHash[k]
             values == GetLeafHashes(provers[k], period, batchSize).value
             store == provers[k].store
             hashes == SyncCommitteeHashes(store)
  <2>1. period \in Nat /\ store.maxChainSize \in Nat
    BY Deployed DEF IInv, TypeOK, Configured
  <2>2. Len(hashes) \in Nat
    <3> DEFINE length == store.maxChainSize + 1
               cut == IF store.dishonestyIndex < 0 THEN length + store.dishonestyIndex
                      ELSE store.dishonestyIndex
               hash(i) == CommitteeHash(Committee(IF IsHonest(store) \/ i - 1 < cut THEN HonestChain
                                                  ELSE store.dishonestChain, i - 1))
    <3>1. hashes = [i \in 1 .. length |-> hash(i)]
      BY DEF SyncCommitteeHashes
    <3>2. length \in Nat
      BY <2>1
    <3> HIDE DEF hash, length, hashes
    <3>3. \A i \in 1 .. length : hash(i) \in {hash(j) : j \in 1 .. length}
      OBVIOUS
    <3>4. hashes \in Seq({hash(j) : j \in 1 .. length})
      BY <3>1, <3>2, <3>3, IsASeq
    <3> QED
      BY <3>4, LenProperties
  <2> DEFINE end == IF period + batchSize < Len(hashes) THEN period + batchSize ELSE Len(hashes)
  <2>3. values = SubSeq(hashes, period + 1, end) /\ end \in Nat
    <3>1. GetLeafHashes(provers[k], period, batchSize) = Answer(SubSeq(hashes, period + 1, end))
      BY DEF GetLeafHashes
    <3>2. values = SubSeq(hashes, period + 1, end)
      BY <3>1, AnswerValue
    <3>3. end \in Nat
      BY <2>1, <2>2
    <3> QED
      BY <3>2, <3>3
  <2> HIDE DEF hashes, end, values, store
  <2>4. \A j \in DOMAIN values : j \in Nat /\ values[j] = hashes[period + j]
    <3> DEFINE S == {hashes[i] : i \in period + 1 .. end}
    <3>1. \A i \in period + 1 .. end : hashes[i] \in S
      OBVIOUS
    <3> HIDE DEF S
    <3>2. period + 1 \in Int /\ end \in Int
      BY <2>1, <2>3
    <3>3. /\ values \in Seq(S)
          /\ Len(values) = IF period + 1 <= end THEN end - (period + 1) + 1 ELSE 0
          /\ \A i \in 1 .. end - (period + 1) + 1 : values[i] = hashes[period + 1 + i - 1]
      BY <2>3, <3>1, <3>2, SubSeqProperties
    <3>4. DOMAIN values = 1 .. Len(values)
      BY <3>3, LenProperties
    <3>5. ASSUME NEW j \in DOMAIN values
          PROVE  j \in Nat /\ values[j] = hashes[period + j]
      <4>1. j \in 1 .. end - (period + 1) + 1 /\ period + 1 + j - 1 = period + j
        BY <2>1, <2>3, <3>3, <3>4, <3>5
      <4> QED
        BY <3>3, <4>1
    <3> QED
      BY <3>5
  <2>5. Hashes(k) = Held(before, period, values, batchSize)
    BY <1>2 DEF Hashes, values
  <2> DEFINE window == period .. period + batchSize - 1
  <2>6. ASSUME NEW p \in DOMAIN before \cup window
        PROVE  Hashes(k)[p] \in {None, HashOf(k, p)}
    <3>1. CASE p \notin window
      <4>1. p \in DOMAIN before /\ Hashes(k)[p] = before[p]
        BY <2>5, <2>6, <3>1 DEF Held
      <4> QED
        BY <4>1 DEF IInv, CacheTrue
    <3>2. CASE p \in window
      <4>1. Hashes(k)[p] = IF p - period + 1 \in DOMAIN values THEN values[p - period + 1] ELSE None
        BY <2>5, <3>2 DEF Held
      <4>2. p - period + 1 \in DOMAIN values => values[p - period + 1] = hashes[p + 1]
        <5>1. period + (p - period + 1) = p + 1
          BY <2>1, <3>2
        <5> QED
          BY <2>4, <5>1
      <4>3. HashOf(k, p) = hashes[p + 1]
        BY DEF HashOf, hashes, store
      <4> QED
        BY <4>1, <4>2, <4>3
    <3> QED
      BY <3>1, <3>2
  <2>7. DOMAIN Hashes(k) = DOMAIN before \cup window
    BY <2>5 DEF Held
  <2>8. period \in window
    BY <2>1
  <2> QED
    BY <2>6, <2>7, <2>8
<1> QED
  BY <1>1, <1>2

LEMMA CollectIInv ==
  ASSUME IInv, CollectHashes
  PROVE  IInv'
<1>1. pc = "hashes" /\ UNCHANGED setting
  BY DEF CollectHashes
<1>2. CASE Throw("transport")
  BY <1>1, <1>2, ThrowIInv
<1> DEFINE left == {proverInfos[i].index : i \in DOMAIN proverInfos}
           info(i) == [proverInfos[i] EXCEPT !.hash = Hashes(proverInfos[i].index)[period]]
           infos == [i \in DOMAIN proverInfos |-> info(i)]
<1>3. CASE ~Throw("transport")
  <2>1. CASE \E i \in DOMAIN infos : infos[i].hash = None
    <3>1. Throw("bad answer")
      BY <1>3, <2>1 DEF CollectHashes
    <3> QED
      BY <1>1, <3>1, ThrowIInv
  <2>2. CASE \A i \in DOMAIN infos : infos[i].hash # None
    <3>1. /\ cachedLeafHash' =
               [k \in 1 .. N |-> IF k \in left THEN Hashes(k) ELSE cachedLeafHash[k]]
          /\ proverInfos' = infos
          /\ UNCHANGED <<fight, result, reason>>
          /\ IF \E i \in DOMAIN infos : infos[i].hash # infos[1].hash
             THEN /\ pc' = "tournament" /\ winners' = <<infos[1]>> /\ at' = 2
                  /\ UNCHANGED <<period, lastCommitteeHash>>
             ELSE NextPeriod(infos)
      BY <1>3, <2>2 DEF CollectHashes
    <3>2. /\ Setting /\ period \in 0 .. size - 1 /\ proverInfos \in Seq(Known)
          /\ AllHonestIn(proverInfos)
          /\ Len(proverInfos) \in Nat /\ DOMAIN proverInfos = 1 .. Len(proverInfos)
      <4>1. /\ Setting /\ period \in 0 .. size /\ period < size /\ proverInfos \in Seq(Known)
            /\ AllHonestIn(proverInfos) /\ size \in Nat
        BY <1>1, Deployed DEF IInv, TypeOK, HonestLeft
      <4> QED
        BY <4>1, LenProperties
    <3>3. ASSUME NEW i \in 1 .. Len(proverInfos)
          PROVE  /\ info(i) \in At(period) /\ info(i).index = proverInfos[i].index
                 /\ proverInfos[i].index \in 1 .. N
      <4>1. proverInfos[i] \in Known
        BY <3>2, ElementOfSeq
      <4>2. PICK k \in 1 .. N : proverInfos[i].index = k
        BY <4>1 DEF Known
      <4>3. info(i) = [index |-> k, hash |-> Hashes(k)[period]]
        BY <4>1, <4>2 DEF Known
      <4>4. Hashes(k)[period] # None
        BY <2>2, <3>2, <4>3
      <4>5. Hashes(k)[period] = HashOf(k, period)
        BY <4>4, HashesTrue
      <4> QED
        BY <4>2, <4>3, <4>5 DEF At
    <3> HIDE DEF info
    <3>4. infos \in Seq(At(period))
      BY <3>2, <3>3, IsASeq
    <3>5. Len(infos) = Len(proverInfos) /\ \A i \in 1 .. Len(infos) : infos[i] = info(i)
      <4>1. Len(infos) \in Nat /\ DOMAIN infos = 1 .. Len(infos)
        BY <3>4, LenProperties
      <4>2. DOMAIN infos = 1 .. Len(proverInfos)
        BY <3>2
      <4>3. Len(infos) = Len(proverInfos)
        BY <3>2, <4>1, <4>2
      <4> QED
        BY <3>2, <4>3
    <3>6. AllHonestIn(infos)
      BY <3>2, <3>3, <3>5 DEF AllHonestIn
    <3> HIDE DEF infos
    <3>7. CacheTrue'
      <4>1. ASSUME NEW k \in 1 .. N, NEW p \in DOMAIN cachedLeafHash'[k]
            PROVE  cachedLeafHash'[k][p] \in {None, HashOf(k, p)}
        <5>1. cachedLeafHash'[k] = IF k \in left THEN Hashes(k) ELSE cachedLeafHash[k]
          BY <3>1
        <5> QED
          BY <4>1, <5>1, HashesTrue DEF IInv, CacheTrue
      <4> QED
        BY <1>1, <4>1, SameSetting DEF CacheTrue
    <3>8. cachedLeafHash' = [k \in 1 .. N |-> cachedLeafHash'[k]]
      BY <3>1
    <3>9. DOMAIN infos = 1 .. Len(infos)
      BY <3>4, LenProperties
    <3>10. CASE \E i \in DOMAIN infos : infos[i].hash # infos[1].hash
      <4>1. PICK met \in Seq(At(period)) : met = infos
        BY <3>4
      <4>2. /\ pc' = "tournament" /\ winners' = <<met[1]>> /\ at' = 2 /\ proverInfos' = met
            /\ UNCHANGED <<size, Setting, period, lastCommitteeHash, fight, result>>
            /\ \A k : Honest(k)' = Honest(k)
            /\ \A p : At(p)' = At(p)
        BY <1>1, <3>1, <3>10, <4>1, SameSetting
      <4>3. Len(met) \in Nat /\ 1 \in 1 .. Len(met) /\ met[1] \in At(period) /\ AllHonestIn(met)
        BY <3>2, <3>3, <3>5, <3>6, <3>9, <3>10, <4>1
      <4>4. Tournament'
        <5>1. winners' \in Seq(At(period)) /\ Len(winners') = 1 /\ winners'[1] = met[1]
          BY <4>2, <4>3
        <5>2. winners' # <<>>
          <6>1. winners' \in Seq(At(period)) /\ Len(winners') = 1
            BY <5>1
          <6> QED
            BY <6>1, EmptySeq
        <5>3. SameHash(winners)'
          BY <5>1 DEF SameHash
        <5>4. at' \in 1 .. Len(met) + 1
          BY <4>2, <4>3
        <5>5. HonestWin(at - 1)'
          <6>1. \A j \in 1 .. at' - 1 : j = 1
            BY <4>2
          <6>2. \A j \in 1 .. at' - 1 : winners'[1] = proverInfos'[j]
            BY <4>2, <5>1, <6>1
          <6> QED
            BY <5>1, <6>2 DEF HonestWin
        <5>6. AllHonestIn(proverInfos)'
          BY <4>2, <4>3 DEF AllHonestIn
        <5>7. period < size /\ period' < size'
          BY <3>2, <4>2, Deployed
        <5> QED
          BY <4>2, <5>1, <5>2, <5>3, <5>4, <5>5, <5>6, <5>7 DEF Tournament
      <4>5. TypeOK' /\ LastHash' /\ Outcome'
        BY <1>1, <3>8, <4>2 DEF IInv, TypeOK, LastHash, HonestHash, Outcome, Stages
      <4>6. HonestLeft' /\ Fight' /\ LatestHonest'
        BY <4>2 DEF HonestLeft, Fight, LatestHonest
      <4> QED
        BY <3>7, <4>4, <4>5, <4>6 DEF IInv
    <3>11. CASE \A i \in DOMAIN infos : infos[i].hash = infos[1].hash
      <4>1. NextPeriod(infos)
        BY <3>1, <3>11
      <4>2. SameHash(infos)
        BY <3>9, <3>11 DEF SameHash
      <4> QED
        BY <1>1, <3>1, <3>2, <3>4, <3>6, <3>7, <3>8, <4>1, <4>2, NextPeriodIInv
    <3> QED
      BY <3>10, <3>11
  <2> QED
    BY <2>1, <2>2
<1> QED
  BY <1>2, <1>3

\* A fight: with what is known of the winner's hash, the contestant is treated
\* as it should be.
LEMMA DecideIInv ==
  ASSUME IInv, UNCHANGED setting, pc \in Stages, at <= Len(proverInfos),
         Winner.hash # Contestant.hash,
         NEW is1Correct \in BOOLEAN, is1Correct <=> Winner.hash = HonestHash(period),
         Decide(is1Correct)
  PROVE  IInv'
<1>1. /\ UNCHANGED <<size, Setting, cachedLeafHash, period, proverInfos, lastCommitteeHash, result>>
      /\ \A k : Honest(k)' = Honest(k)
      /\ \A k, p : HashOf(k, p)' = HashOf(k, p)
      /\ \A p : At(p)' = At(p)
      /\ pc' = "tournament" /\ at' = at + 1 /\ fight' = NoFight
      /\ winners' = IF is1Correct THEN winners ELSE <<Contestant>>
  BY SameSetting DEF Decide
<1>2. /\ period < size /\ proverInfos \in Seq(At(period)) /\ AllHonestIn(proverInfos)
      /\ winners \in Seq(At(period)) /\ winners # <<>> /\ SameHash(winners)
      /\ at \in 1 .. Len(proverInfos) + 1 /\ HonestWin(at - 1) /\ Len(proverInfos) \in Nat
  BY LenProperties DEF IInv, Tournament
<1>3. Contestant \in At(period)
  BY <1>2 DEF Contestant
<1>4. winners' \in Seq(At(period)) /\ winners' # <<>> /\ SameHash(winners)'
  <2>1. CASE is1Correct
    BY <1>1, <1>2, <2>1 DEF SameHash
  <2>2. CASE ~is1Correct
    <3>1. winners' = <<Contestant>>
      BY <1>1, <2>2
    <3>2. winners' \in Seq(At(period)) /\ Len(winners') = 1
      BY <1>3, <3>1
    <3> QED
      BY <3>2, EmptySeq DEF SameHash
  <2> QED
    BY <2>1, <2>2
<1>5. HonestWin(at - 1)'
  <2> SUFFICES ASSUME NEW j \in 1 .. at, proverInfos[j].hash = HonestHash(period)
               PROVE  \E w \in 1 .. Len(winners') : winners'[w] = proverInfos[j]
    BY <1>1, <1>2 DEF HonestWin, HonestHash
  <2>1. CASE j = at
    <3>1. ~is1Correct
      BY <2>1 DEF Contestant
    <3>2. winners' = <<Contestant>> /\ Contestant = proverInfos[j]
      BY <1>1, <2>1, <3>1 DEF Contestant
    <3> QED
      BY <3>2
  <2>2. CASE j # at
    <3>1. j \in 1 .. at - 1
      BY <1>2, <2>2
    <3>2. PICK w \in 1 .. Len(winners) : winners[w] = proverInfos[j]
      BY <1>2, <3>1 DEF HonestWin
    <3>3. Winner.hash = HonestHash(period)
      BY <1>2, <3>2 DEF SameHash, Winner
    <3> QED
      BY <1>1, <3>2, <3>3
  <2> QED
    BY <2>1, <2>2
<1>6. Tournament'
  <2>1. at' \in 1 .. Len(proverInfos) + 1
    BY <1>1, <1>2
  <2>2. AllHonestIn(proverInfos)'
    BY <1>1, <1>2 DEF AllHonestIn
  <2> QED
    BY <1>1, <1>2, <1>4, <1>5, <2>1, <2>2 DEF Tournament
<1>7. TypeOK' /\ CacheTrue' /\ LastHash' /\ Outcome'
  BY <1>1 DEF IInv, TypeOK, CacheTrue, LastHash, HonestHash, Outcome, Stages, NoFight
<1>8. HonestLeft' /\ Fight' /\ LatestHonest'
  BY <1>1 DEF HonestLeft, Fight, LatestHonest
<1> QED
  BY <1>6, <1>7, <1>8 DEF IInv

LEMMA JudgeIInv ==
  ASSUME IInv, UNCHANGED setting, pc \in Stages, at <= Len(proverInfos),
         Winner.hash # Contestant.hash,
         NEW is1Correct \in BOOLEAN, NEW is2Correct,
         is1Correct <=> Winner.hash = HonestHash(period),
         Judge(is1Correct, is2Correct)
  PROVE  IInv'
<1>1. Throw("both correct") \/ Decide(is1Correct)
  BY DEF Judge
<1>2. pc # "returned"
  BY DEF Stages
<1> QED
  BY <1>1, <1>2, ThrowIInv, DecideIInv

\* The winner and the contestant are provers with their hash at the period.
LEMMA Rivals ==
  ASSUME IInv, pc \in Stages, at <= Len(proverInfos)
  PROVE  /\ Winner.index \in 1 .. N /\ Winner.hash = HashOf(Winner.index, period)
         /\ Contestant.index \in 1 .. N /\ Contestant.hash = HashOf(Contestant.index, period)
<1>1. /\ winners \in Seq(At(period)) /\ winners # <<>>
      /\ proverInfos \in Seq(At(period)) /\ at \in 1 .. Len(proverInfos) + 1
  BY DEF IInv, Tournament
<1>2. Winner \in At(period)
  <2>1. 1 \in 1 .. Len(winners)
    BY <1>1, EmptySeq
  <2> QED
    BY <1>1, <2>1, ElementOfSeq DEF Winner
<1>3. Contestant \in At(period)
  <2>1. at \in 1 .. Len(proverInfos)
    BY <1>1, LenProperties
  <2> QED
    BY <1>1, <2>1, ElementOfSeq DEF Contestant
<1> QED
  BY <1>2, <1>3 DEF At

\* A step of the fight that goes on with more in its locals.
LEMMA OnwardIInv ==
  ASSUME IInv, UNCHANGED setting, pc \in {"committee", "check1"},
         NEW stage \in {"check1", "check2"}, NEW is1Correct \in BOOLEAN, NEW committee,
         pc' = stage, fight' = [prevCommittee |-> committee, is1Correct |-> is1Correct],
         committee = Committee(HonestChain, period - 1),
         stage = "check2" => (is1Correct <=> Winner.hash = HonestHash(period)),
         UNCHANGED <<cachedLeafHash, period, proverInfos, lastCommitteeHash, winners, at, result>>
  PROVE  IInv'
<1>1. /\ UNCHANGED <<size, Setting>>
      /\ \A k : Honest(k)' = Honest(k)
      /\ \A k, p : HashOf(k, p)' = HashOf(k, p)
      /\ \A p : At(p)' = At(p)
      /\ pc \in Stages /\ pc' \in Stages /\ pc' \in {"check1", "check2"}
  BY SameSetting DEF Stages
<1>2. Tournament'
  BY <1>1 DEF IInv, Tournament, AllHonestIn, SameHash, HonestWin, HonestHash
<1>3. TypeOK' /\ CacheTrue' /\ LastHash' /\ Outcome'
  <2>1. fight' = [prevCommittee |-> fight'.prevCommittee, is1Correct |-> fight'.is1Correct]
    OBVIOUS
  <2> QED
    BY <1>1, <2>1 DEF IInv, TypeOK, CacheTrue, LastHash, HonestHash, Outcome, Stages
<1>4. Fight'
  <2>1. fight'.prevCommittee = committee /\ fight'.is1Correct = is1Correct
    OBVIOUS
  <2>2. Winner' = Winner /\ Contestant' = Contestant
    BY DEF Winner, Contestant
  <2>3. period > 0 /\ at <= Len(proverInfos) /\ Winner.hash # Contestant.hash
    BY DEF IInv, Fight
  <2> QED
    BY <1>1, <2>1, <2>2, <2>3 DEF Fight, HonestHash
<1>5. HonestLeft' /\ LatestHonest'
  BY <1>1 DEF HonestLeft, LatestHonest, Stages
<1> QED
  BY <1>2, <1>3, <1>4, <1>5 DEF IInv

LEMMA MeetIInv ==
  ASSUME IInv, Meet
  PROVE  IInv'
<1>1. pc = "tournament" /\ UNCHANGED setting /\ pc \in Stages
  BY DEF Meet, Stages
<1>2. /\ Setting /\ size \in Nat /\ period \in 0 .. size - 1
      /\ proverInfos \in Seq(At(period)) /\ AllHonestIn(proverInfos)
      /\ winners \in Seq(At(period)) /\ winners # <<>> /\ SameHash(winners)
      /\ at \in 1 .. Len(proverInfos) + 1 /\ HonestWin(at - 1) /\ Len(proverInfos) \in Nat
      /\ Len(winners) \in Nat
  <2>1. Setting /\ size \in Nat /\ period \in 0 .. size
    BY Deployed DEF IInv, TypeOK
  <2> QED
    BY <1>1, <2>1, LenProperties DEF IInv, Tournament
<1>3. /\ UNCHANGED <<size, Setting>>
      /\ \A k : Honest(k)' = Honest(k)
      /\ \A k, p : HashOf(k, p)' = HashOf(k, p)
      /\ \A p : At(p)' = At(p)
  BY <1>1, SameSetting
<1>4. CASE at > Len(proverInfos)
  <2>1. /\ proverInfos' = winners
        /\ IF Len(winners) < 2
           THEN pc' = "latest" /\ UNCHANGED <<period, lastCommitteeHash>>
           ELSE NextPeriod(winners)
        /\ UNCHANGED <<cachedLeafHash, winners, at, fight, result, reason>>
    BY <1>1, <1>4 DEF Meet, Left, OneLeft
  \* Every prover has been met, so that the honest ones are among the winners.
  <2>2. AllHonestIn(winners)
    <3> SUFFICES ASSUME NEW k \in 1 .. N, Honest(k)
                 PROVE  \E w \in 1 .. Len(winners) : winners[w].index = k
      BY DEF AllHonestIn
    <3>1. PICK j \in 1 .. Len(proverInfos) : proverInfos[j].index = k
      BY <1>2 DEF AllHonestIn
    <3>2. proverInfos[j].hash = HonestHash(period)
      <4>1. proverInfos[j] \in At(period)
        BY <1>2, ElementOfSeq
      <4>2. proverInfos[j].hash = HashOf(k, period)
        BY <3>1, <4>1 DEF At
      <4> QED
        BY <1>2, <4>2, HonestHashes
    <3>3. j \in 1 .. at - 1
      BY <1>2, <1>4
    <3> QED
      BY <1>2, <3>1, <3>2, <3>3 DEF HonestWin
  <2>3. CacheTrue' /\ TypeOK /\ fight' = fight
        /\ cachedLeafHash' = [k \in 1 .. N |-> cachedLeafHash'[k]]
    BY <1>3, <2>1 DEF IInv, CacheTrue, TypeOK
  <2>4. CASE Len(winners) < 2
    <3>1. /\ pc' = "latest" /\ proverInfos' = winners
          /\ UNCHANGED <<period, lastCommitteeHash, fight, result>>
      BY <2>1, <2>4
    <3>2. PICK k \in 1 .. N : Honest(k)
      BY <1>2, Deployed
    <3>3. PICK w \in 1 .. Len(winners) : winners[w].index = k
      BY <2>2, <3>2 DEF AllHonestIn
    <3>4. w = 1
      BY <1>2, <2>4
    <3>5. LatestHonest'
      BY <1>3, <3>1, <3>2, <3>3, <3>4 DEF LatestHonest
    <3>6. TypeOK' /\ LastHash' /\ Outcome'
      BY <1>1, <1>3, <2>3, <3>1 DEF IInv, TypeOK, LastHash, HonestHash, Outcome
    <3>7. HonestLeft' /\ Tournament' /\ Fight'
      BY <3>1 DEF HonestLeft, Tournament, Fight, Stages
    <3> QED
      BY <2>3, <3>5, <3>6, <3>7 DEF IInv
  <2>5. CASE ~(Len(winners) < 2)
    <3>1. PICK met \in Seq(At(period)) : met = winners
      BY <1>2
    <3>2. NextPeriod(met) /\ proverInfos' = met /\ AllHonestIn(met) /\ SameHash(met)
      BY <1>2, <2>1, <2>2, <2>5, <3>1
    <3> QED
      BY <1>1, <1>2, <2>1, <2>3, <3>2, NextPeriodIInv
  <2> QED
    BY <2>4, <2>5
<1>5. CASE ~(at > Len(proverInfos)) /\ Winner.hash = Contestant.hash
  <2>1. /\ winners' = Append(winners, Contestant) /\ at' = at + 1
        /\ UNCHANGED <<cachedLeafHash, pc, period, proverInfos, lastCommitteeHash, fight, result>>
    BY <1>1, <1>5 DEF Meet
  <2>2. at \in 1 .. Len(proverInfos) /\ Contestant \in At(period)
    BY <1>2, <1>5, ElementOfSeq DEF Contestant
  <2>3. /\ winners' \in Seq(At(period)) /\ Len(winners') = Len(winners) + 1
        /\ \A w \in 1 .. Len(winners) : winners'[w] = winners[w]
        /\ winners'[Len(winners) + 1] = Contestant
    BY <1>2, <2>1, <2>2
  <2>4. Len(winners) # 0 /\ winners' # <<>>
    BY <1>2, <2>3, EmptySeq
  <2>5. SameHash(winners)'
    <3> SUFFICES ASSUME NEW w \in 1 .. Len(winners) + 1
                 PROVE  winners'[w].hash = winners'[1].hash
      BY <2>3 DEF SameHash
    <3>1. winners'[1] = Winner
      BY <1>2, <2>3, <2>4 DEF Winner
    <3>2. CASE w = Len(winners) + 1
      BY <1>5, <2>3, <3>1, <3>2
    <3>3. CASE w \in 1 .. Len(winners)
      BY <1>2, <2>3, <3>1, <3>3 DEF SameHash, Winner
    <3> QED
      BY <1>2, <3>2, <3>3
  <2>6. HonestWin(at - 1)'
    <3> SUFFICES ASSUME NEW j \in 1 .. at, proverInfos[j].hash = HonestHash(period)
                 PROVE  \E w \in 1 .. Len(winners') : winners'[w] = proverInfos[j]
      BY <1>2, <2>1 DEF HonestWin, HonestHash
    <3>1. CASE j = at
      <4>1. Len(winners) + 1 \in 1 .. Len(winners')
        BY <1>2, <2>3
      <4> QED
        BY <2>3, <3>1, <4>1 DEF Contestant
    <3>2. CASE j \in 1 .. at - 1
      <4>1. PICK w \in 1 .. Len(winners) : winners[w] = proverInfos[j]
        BY <1>2, <3>2 DEF HonestWin
      <4>2. w \in 1 .. Len(winners')
        BY <1>2, <2>3
      <4> QED
        BY <2>3, <4>1, <4>2
    <3> QED
      BY <1>2, <3>1, <3>2
  <2>7. Tournament'
    <3>1. at' \in 1 .. Len(proverInfos) + 1
      BY <1>2, <2>1, <2>2
    <3>2. AllHonestIn(proverInfos)'
      BY <1>2, <1>3, <2>1 DEF AllHonestIn
    <3> QED
      BY <1>2, <1>3, <2>1, <2>3, <2>4, <2>5, <2>6, <3>1, <3>2 DEF Tournament
  <2>8. TypeOK' /\ CacheTrue' /\ LastHash' /\ Outcome'
    BY <1>3, <2>1 DEF IInv, TypeOK, CacheTrue, LastHash, HonestHash, Outcome
  <2>9. HonestLeft' /\ Fight' /\ LatestHonest'
    BY <1>1, <2>1 DEF HonestLeft, Fight, LatestHonest
  <2> QED
    BY <2>7, <2>8, <2>9 DEF IInv
<1>6. CASE ~(at > Len(proverInfos)) /\ Winner.hash # Contestant.hash /\ period = 0
  <2>1. Judge(Winner.hash = HonestHash(0), Contestant.hash = HonestHash(0))
    BY <1>1, <1>6 DEF Meet, GenesisSyncCommittee, HonestHash
  <2>2. at <= Len(proverInfos)
    BY <1>2, <1>6
  <2> QED
    BY <1>1, <1>6, <2>1, <2>2, JudgeIInv
<1>7. CASE ~(at > Len(proverInfos)) /\ Winner.hash # Contestant.hash /\ period # 0
  <2>1. /\ pc' = "committee"
        /\ UNCHANGED <<cachedLeafHash, period, proverInfos, lastCommitteeHash, winners, at,
                        fight, result, reason>>
    BY <1>1, <1>7 DEF Meet
  <2>2. Tournament'
    BY <1>1, <1>3, <2>1
       DEF IInv, Tournament, Stages, AllHonestIn, SameHash, HonestWin, HonestHash
  <2>3. TypeOK' /\ CacheTrue' /\ LastHash' /\ Outcome'
    BY <1>1, <1>3, <2>1 DEF IInv, TypeOK, CacheTrue, LastHash, HonestHash, Outcome, Stages
  <2>4. Fight'
    BY <1>2, <1>7, <2>1 DEF Fight, Winner, Contestant
  <2>5. HonestLeft' /\ LatestHonest'
    BY <2>1 DEF HonestLeft, LatestHonest
  <2> QED
    BY <2>2, <2>3, <2>4, <2>5 DEF IInv
<1> QED
  BY <1>4, <1>5, <1>6, <1>7

\* The committee before the period: the winner has to give the honest one.
LEMMA PrevCommitteeIInv ==
  ASSUME IInv, GetPrevCommittee
  PROVE  IInv'
<1>1. pc = "committee" /\ UNCHANGED setting
  BY DEF GetPrevCommittee, Request
<1>2. CASE \E why : Throw(why)
  BY <1>1, <1>2, ThrowIInv
<1>3. CASE \A why : ~Throw(why)
  <2>1. PICK committee :
          /\ GoOnTo("check1", [fight EXCEPT !.prevCommittee = committee])
          /\ committee = Committee(HonestChain, period - 1)
    <3>1. CASE period = 1
      BY <1>1, <3>1 DEF GetPrevCommittee, GenesisSyncCommittee
    <3>2. CASE period # 1
      <4>1. PICK committee :
              /\ CommitteeHash(committee) = lastCommitteeHash
              /\ GoOnTo("check1", [fight EXCEPT !.prevCommittee = committee])
        BY <1>1, <1>3, <3>2 DEF GetPrevCommittee, Request
      <4>2. lastCommitteeHash = HonestHash(period - 1)
        BY <1>1 DEF IInv, Fight, LastHash
      <4> QED
        BY <4>1, <4>2, HashInjective DEF HonestHash
    <3> QED
      BY <3>1, <3>2
  <2>2. /\ pc' = "check1"
        /\ fight' = [prevCommittee |-> committee, is1Correct |-> fight.is1Correct]
        /\ UNCHANGED <<cachedLeafHash, period, proverInfos, lastCommitteeHash, winners, at, result>>
    BY <2>1 DEF GoOnTo, IInv, TypeOK
  <2> QED
    <3>1. fight.is1Correct \in BOOLEAN
      BY DEF IInv, TypeOK
    <3> QED
      BY <1>1, <2>1, <2>2, <3>1, OnwardIInv
<1> QED
  BY <1>2, <1>3

LEMMA Check1IInv ==
  ASSUME IInv, Check1
  PROVE  IInv'
<1>1. pc = "check1" /\ UNCHANGED setting /\ pc \in Stages
  BY DEF Check1, Request, Stages
<1>2. CASE \E why : Throw(why)
  BY <1>1, <1>2, ThrowIInv
<1>3. CASE \A why : ~Throw(why)
  <2> DEFINE answer == GetSyncUpdates(provers[Winner.index], UpdatePeriod, 1)
             is1Correct == Correct(answer.value[1], Winner.hash)
  <2>1. answer.ok /\ GoOnTo("check2", [fight EXCEPT !.is1Correct = is1Correct])
    BY <1>1, <1>3 DEF Check1, Request
  <2>2. fight.prevCommittee = Committee(HonestChain, period - 1)
    BY <1>1 DEF IInv, Fight
  <2>3. is1Correct <=> Winner.hash = HonestHash(period)
    <3>1. Setting /\ period \in 1 .. size - 1 /\ at <= Len(proverInfos)
      BY <1>1, Deployed DEF IInv, TypeOK, Tournament, Fight
    <3>2. Winner.index \in 1 .. N /\ Winner.hash = HashOf(Winner.index, period)
      BY <1>1, <3>1, Rivals
    <3> QED
      BY <2>1, <2>2, <3>1, <3>2, UpdateOf
  <2>4. is1Correct \in BOOLEAN
    BY DEF Correct
  <2> HIDE DEF is1Correct
  <2>5. /\ pc' = "check2"
        /\ fight' = [prevCommittee |-> fight.prevCommittee, is1Correct |-> is1Correct]
        /\ UNCHANGED <<cachedLeafHash, period, proverInfos, lastCommitteeHash, winners, at, result>>
    BY <2>1 DEF GoOnTo, IInv, TypeOK
  <2> QED
    BY <1>1, <2>2, <2>3, <2>4, <2>5, OnwardIInv
<1> QED
  BY <1>2, <1>3

LEMMA Check2IInv ==
  ASSUME IInv, Check2
  PROVE  IInv'
<1>1. pc = "check2" /\ UNCHANGED setting /\ pc \in Stages
  BY DEF Check2, Request, Stages
<1>2. CASE \E why : Throw(why)
  BY <1>1, <1>2, ThrowIInv
<1>3. CASE \A why : ~Throw(why)
  <2>1. PICK is2Correct : Judge(fight.is1Correct, is2Correct)
    BY <1>1, <1>3 DEF Check2, Request
  <2>2. /\ fight.is1Correct <=> Winner.hash = HonestHash(period)
        /\ at <= Len(proverInfos) /\ Winner.hash # Contestant.hash
    BY <1>1 DEF IInv, Fight
  <2>3. fight.is1Correct \in BOOLEAN
    BY DEF IInv, TypeOK
  <2> QED
    BY <1>1, <2>1, <2>2, <2>3, JudgeIInv
<1> QED
  BY <1>2, <1>3

LEMMA AskLatestIInv ==
  ASSUME IInv, AskLatest
  PROVE  /\ IInv'
         /\ \/ \E why : Throw(why)
            \/ /\ pc' = "returned" /\ result' = Committee(HonestChain, size)
               /\ UNCHANGED <<size, period, lastCommitteeHash>>
<1>1. pc = "latest" /\ UNCHANGED setting
  BY DEF AskLatest, Request
<1>2. CASE \E why : Throw(why)
  BY <1>1, <1>2, ThrowIInv
<1>3. CASE \A why : ~Throw(why)
  <2> DEFINE k == proverInfos[1].index
             committee == GetSyncCommittee(provers[k].store, size)
  <2>1. k \in 1 .. N /\ Honest(k) /\ Setting /\ size \in Nat \ {0} /\ provers[k].chainSize = size
    BY <1>1, Deployed DEF IInv, LatestHonest, TypeOK, Configured
  <2>2. GetLeaf(provers[k], Latest) = AnswerIf(size <= provers[k].store.maxChainSize, committee)
    BY <2>1 DEF GetLeaf, PeriodOf, Latest
  <2>3. /\ GetLeaf(provers[k], Latest).ok
        /\ pc' = "returned" /\ result' = GetLeaf(provers[k], Latest).value
        /\ UNCHANGED <<cachedLeafHash, period, proverInfos, lastCommitteeHash, winners, at,
                        fight, reason>>
    BY <1>1, <1>3 DEF AskLatest, Request
  <2>4. result' = committee
    BY <2>2, <2>3, AnswerValue DEF AnswerIf, Failure
  <2>5. committee = Committee(HonestChain, size)
    <3>1. size - 1 + 1 = size
      BY <2>1
    <3> QED
      BY <2>1, <3>1 DEF GetSyncCommittee, GetSyncUpdate, SyncUpdate, Honest
  <2>6. size' = size /\ Setting' /\ \A j, p : HashOf(j, p)' = HashOf(j, p)
    BY <1>1, <2>1, SameSetting
  <2>7. TypeOK' /\ CacheTrue' /\ LastHash' /\ Outcome'
    BY <2>3, <2>4, <2>5, <2>6 DEF IInv, TypeOK, CacheTrue, LastHash, HonestHash, Outcome
  <2>8. HonestLeft' /\ Tournament' /\ Fight' /\ LatestHonest'
    BY <2>3 DEF HonestLeft, Tournament, Fight, LatestHonest, Stages
  <2> QED
    BY <2>3, <2>4, <2>5, <2>6, <2>7, <2>8 DEF IInv
<1> QED
  BY <1>2, <1>3

LEMMA NextIInv == IInv /\ [Next]_vars => IInv'
<1> SUFFICES ASSUME IInv, [Next]_vars
             PROVE  IInv'
  OBVIOUS
<1>1. CASE UNCHANGED vars
  <2>1. /\ UNCHANGED setting
        /\ UNCHANGED <<cachedLeafHash, pc, period, proverInfos, lastCommitteeHash, winners, at,
                       fight, result>>
    BY <1>1 DEF vars, setting
  <2>2. TypeOK' /\ CacheTrue' /\ LastHash' /\ Outcome'
    BY <2>1, SameSetting DEF IInv, TypeOK, CacheTrue, LastHash, HonestHash, Outcome
  <2>3. HonestLeft' /\ Fight' /\ LatestHonest'
    BY <2>1, SameSetting
       DEF IInv, HonestLeft, Fight, LatestHonest, AllHonestIn, Winner, Contestant, HonestHash
  <2>4. Tournament'
    BY <2>1, SameSetting DEF IInv, Tournament, AllHonestIn, SameHash, HonestWin, HonestHash
  <2> QED
    BY <2>2, <2>3, <2>4 DEF IInv
<1> QED
  BY <1>1, CollectIInv, MeetIInv, PrevCommitteeIInv, Check1IInv, Check2IInv, AskLatestIInv
     DEF Next, Step, Done

-----------------------------------------------------------------------------
(* The theorems.                                                           *)

\* The inductive invariant of the optimistic client.
THEOREM OptimisticInvariance == Spec => []IInv
BY InitIInv, NextIInv, PTL DEF Spec

\* What each iteration of sync leaves behind is the honest chain's hash.
THEOREM LastHashAlwaysHonest == Spec => []LastHashIsHonest
<1>1. IInv => LastHashIsHonest
  BY DEF IInv, LastHash, LastHashIsHonest, HonestHash
<1> QED
  BY <1>1, OptimisticInvariance, PTL

\* With an honest prover among them, whoever the others are and wherever they
\* deviate, sync returns the committee of the honest chain, or it throws.
THEOREM OptimisticRefinement == Spec => KeepsPromise
<1>1. Init => Promise!Init
  BY DEF Init, Promise!Init
<1>2. IInv /\ [Next]_vars => [Promise!Next]_(Promise!vars)
  <2> SUFFICES ASSUME IInv, [Next]_vars
               PROVE  [Promise!Next]_(Promise!vars)
    OBVIOUS
  <2> USE DEF Promise!Next, Promise!vars, Promise!Throw, Promise!Return, Promise!Running
  <2>1. CASE /\ \E why : Throw(why)
             /\ UNCHANGED setting /\ pc \notin {"returned", "thrown"}
    <3>1. pc' = "thrown" /\ UNCHANGED <<result, size>> /\ result = NoCommittee
      BY <2>1 DEF Throw, setting, IInv, Outcome
    <3> QED
      BY <2>1, <3>1
  <2>2. CASE /\ pc' # "thrown" /\ pc # "thrown" /\ UNCHANGED <<result, size>>
    BY <2>2
  <2>3. CASE AskLatest
    <3>1. pc = "latest" /\ UNCHANGED setting /\ result = NoCommittee
      BY <2>3 DEF AskLatest, Request, IInv, Outcome
    <3>2. CASE \E why : Throw(why)
      BY <2>1, <3>1, <3>2
    <3>3. CASE pc' = "returned" /\ result' = Committee(HonestChain, size) /\ size' = size
      <4>1. Committee(HonestChain, size) # NoCommittee
        BY Deployed, NoCommitteeAssumption DEF IInv, TypeOK, Committee
      <4> QED
        BY <3>1, <3>3, <4>1
    <3> QED
      BY <2>3, <3>2, <3>3, AskLatestIInv
  <2>4. CASE UNCHANGED vars
    BY <2>4 DEF vars, setting
  <2>5. CASE CollectHashes \/ Meet \/ GetPrevCommittee \/ Check1 \/ Check2
    <3>1. pc \notin {"returned", "thrown"} /\ UNCHANGED setting
      BY <2>5 DEF CollectHashes, Meet, GetPrevCommittee, Check1, Check2, Request
    <3>2. CASE \E why : Throw(why)
      BY <2>1, <3>1, <3>2
    <3>3. CASE \A why : ~Throw(why)
      <4>1. result' = result
        BY <2>5, <3>3
           DEF CollectHashes, Meet, GetPrevCommittee, Check1, Check2, Request, GoOnTo, Judge, Decide
      <4>2. pc' # "thrown"
        BY <2>5, <3>1, <3>3
           DEF CollectHashes, Meet, GetPrevCommittee, Check1, Check2, Request, GoOnTo, Judge,
               Decide, NextPeriod
      <4> QED
        BY <2>2, <3>1, <4>1, <4>2 DEF setting
    <3> QED
      BY <3>2, <3>3
  <2> QED
    BY <2>3, <2>4, <2>5 DEF Next, Step, Done
<1> QED
  BY <1>1, <1>2, OptimisticInvariance, PTL DEF Spec, KeepsPromise, Promise!Spec
=============================================================================
