----------------------- MODULE PoposSequentialProofs -----------------------
(***************************************************************************)
(* Proofs about PoposSequential, for every number of provers, every size,  *)
(* every batch and every deployment, configured and restarted at will.     *)
(***************************************************************************)
EXTENDS PoposSequential, TLAPS

USE GenesisAssumption, NAssumption

\* An update announces the committee that follows its signers.
Follows(update) ==
  update.nextCommittee = [chain |-> update.signers.chain, period |-> update.signers.period + 1]

CacheFollows ==
  \A k \in 1 .. N : \A p \in DOMAIN cachedSyncUpdate[k] :
    cachedSyncUpdate[k][p] = None \/ Follows(cachedSyncUpdate[k][p])

IInv == TypeOK /\ AcceptedIsHonest /\ CacheFollows

\* getSyncUpdate: whatever a store's configuration is.
LEMMA UpdatesFollow ==
  ASSUME NEW prover, NEW start, NEW maxCount,
         NEW i \in DOMAIN GetSyncUpdates(prover, start, maxCount).value,
         GetSyncUpdates(prover, start, maxCount).ok
  PROVE  Follows(GetSyncUpdates(prover, start, maxCount).value[i])
<1> DEFINE count == IF start + maxCount - 1 >= prover.chainSize
                    THEN prover.chainSize - start ELSE maxCount
           updates == [j \in 1 .. count |-> GetSyncUpdate(prover.store, start + j - 1)]
<1>1. GetSyncUpdates(prover, start, maxCount) = AnswerIf(count >= 0, updates)
  BY DEF GetSyncUpdates
<1>2. count >= 0
  BY <1>1 DEF AnswerIf, Failure, Answer
<1>3. GetSyncUpdates(prover, start, maxCount).value = updates
  BY <1>1, <1>2 DEF AnswerIf, Answer
<1>4. updates[i] = GetSyncUpdate(prover.store, start + i - 1)
  BY <1>3
<1>5. \A store, q : Follows(GetSyncUpdate(store, q))
  BY DEF Follows, GetSyncUpdate, SyncUpdate, Committee
<1> QED
  BY <1>3, <1>4, <1>5

\* FetchUpdates: what the client holds follows after an answer as before.
LEMMA HeldFollows ==
  ASSUME NEW before, \A p \in DOMAIN before : before[p] = None \/ Follows(before[p]),
         NEW prover, NEW start, NEW maxCount, GetSyncUpdates(prover, start, maxCount).ok
  PROVE  LET held == Held(before, start, GetSyncUpdates(prover, start, maxCount).value, maxCount)
         IN  \A p \in DOMAIN held : held[p] = None \/ Follows(held[p])
<1> DEFINE values == GetSyncUpdates(prover, start, maxCount).value
           held == Held(before, start, values, maxCount)
<1> SUFFICES ASSUME NEW p \in DOMAIN held
             PROVE  held[p] = None \/ Follows(held[p])
  OBVIOUS
<1>1. CASE p \notin start .. start + maxCount - 1
  <2>1. p \in DOMAIN before /\ held[p] = before[p]
    BY <1>1 DEF Held
  <2> QED
    BY <2>1
<1>2. CASE p \in start .. start + maxCount - 1
  <2>1. held[p] = IF p - start + 1 \in DOMAIN values THEN values[p - start + 1] ELSE None
    BY <1>2 DEF Held
  <2> QED
    BY <2>1, UpdatesFollow
<1> QED
  BY <1>1, <1>2

LEMMA InitIInv == Init => IInv
  BY DeploymentsAssumption
  DEF Init, IInv, TypeOK, AcceptedIsHonest, CacheFollows, GenesisSyncCommittee

LEMMA FetchIInv == IInv /\ FetchUpdates => IInv'
<1> SUFFICES ASSUME IInv, FetchUpdates
             PROVE  IInv'
  OBVIOUS
<1> USE DEF IInv, TypeOK
<1> DEFINE answer == GetSyncUpdates(provers[at], period, batchSize)
<1>1. CASE Throw("transport") /\ UNCHANGED cachedSyncUpdate
  BY <1>1 DEF Throw, AcceptedIsHonest, CacheFollows
<1>2. CASE Throw("bad answer") /\ UNCHANGED cachedSyncUpdate
  BY <1>2 DEF Throw, AcceptedIsHonest, CacheFollows
<1>3. CASE /\ answer.ok
           /\ cachedSyncUpdate' =
                [cachedSyncUpdate EXCEPT ![at] = Held(@, period, answer.value, batchSize)]
           /\ UNCHANGED <<size, provers, changes, at, period, committee, result, reason>>
  <2>1. TypeOK' /\ AcceptedIsHonest'
    BY <1>3 DEF AcceptedIsHonest
  <2>2. ASSUME NEW k \in 1 .. N
        PROVE  \A p \in DOMAIN cachedSyncUpdate'[k] :
                 cachedSyncUpdate'[k][p] = None \/ Follows(cachedSyncUpdate'[k][p])
    <3>1. CASE k # at
      BY <1>3, <3>1 DEF CacheFollows
    <3>2. CASE k = at
      <4>1. cachedSyncUpdate'[k] = Held(cachedSyncUpdate[k], period, answer.value, batchSize)
        BY <1>3, <3>2
      <4>2. \A p \in DOMAIN cachedSyncUpdate[k] :
              cachedSyncUpdate[k][p] = None \/ Follows(cachedSyncUpdate[k][p])
        BY DEF CacheFollows
      <4> HIDE DEF answer
      <4>3. answer.ok /\ answer = GetSyncUpdates(provers[at], period, batchSize)
        BY <1>3 DEF answer
      <4> QED
        BY <4>1, <4>2, <4>3, HeldFollows
    <3> QED
      BY <3>1, <3>2
  <2> QED
    BY <2>1, <2>2 DEF CacheFollows
<1> QED
  BY <1>1, <1>2, <1>3 DEF FetchUpdates

LEMMA CheckIInv == IInv /\ CheckUpdate => IInv'
<1> SUFFICES ASSUME IInv, CheckUpdate
             PROVE  IInv'
  OBVIOUS
<1> DEFINE next == SyncUpdateVerifyGetCommittee(committee, Update)
<1>0. TypeOK /\ AcceptedIsHonest /\ CacheFollows
  BY DEF IInv
<1>1. CacheFollows'
  BY <1>0 DEF CheckUpdate, CacheFollows
<1>2. CASE \E why \in {"bad answer", "no honest prover found"} : Throw(why)
  BY <1>0, <1>1, <1>2 DEF CheckUpdate, Throw, IInv, TypeOK, AcceptedIsHonest
<1>3. CASE /\ Update # None /\ next # NoCommittee
           /\ period' = period + 1 /\ committee' = next
           /\ UNCHANGED <<size, provers, changes, at, result, reason>>
  <2>1. period \in 0 .. size /\ size \in Nat /\ period < size
    BY <1>0 DEF TypeOK, CheckUpdate, End
  <2>2. period' \in 0 .. size'
    BY <1>3, <2>1
  <2>3. TypeOK'
    BY <1>0, <1>3, <2>2 DEF TypeOK, CheckUpdate
  <2>4. Update.signers = committee /\ next = Update.nextCommittee
    BY <1>3 DEF SyncUpdateVerifyGetCommittee
  <2>5. at \in 1 .. N /\ period \in DOMAIN cachedSyncUpdate[at]
    BY <1>0 DEF TypeOK, CheckUpdate
  <2>6. Follows(Update)
    BY <1>0, <1>3, <2>5 DEF CacheFollows, Update
  <2>7. Update.signers = [chain |-> HonestChain, period |-> period]
    BY <1>0, <2>4 DEF AcceptedIsHonest, Committee
  <2>8. next = Committee(HonestChain, period + 1)
    BY <2>4, <2>6, <2>7 DEF Follows, Committee
  <2> QED
    BY <1>1, <1>3, <2>3, <2>8 DEF IInv, AcceptedIsHonest
<1>4. CASE ~IsLastProver /\ NextProver /\ UNCHANGED <<size, provers, changes, result, reason>>
  <2>1. at \in 1 .. N
    BY <1>0 DEF TypeOK
  <2>2. at + 1 \in 1 .. N
    BY <1>4, <2>1 DEF IsLastProver
  <2> QED
    BY <1>0, <1>1, <1>4, <2>2 DEF CheckUpdate, NextProver, IInv, TypeOK, AcceptedIsHonest
<1> QED
  BY <1>2, <1>3, <1>4 DEF CheckUpdate

LEMMA NextIInv == IInv /\ [Next]_vars => IInv'
<1> SUFFICES ASSUME IInv, [Next]_vars
             PROVE  IInv'
  OBVIOUS
<1>1. CASE FetchUpdates
  BY <1>1, FetchIInv
<1>2. CASE CheckUpdate
  BY <1>2, CheckIInv
<1>3. CASE Return
  BY <1>3 DEF Return, IInv, TypeOK, AcceptedIsHonest, CacheFollows
<1>4. CASE \E k \in 1 .. N : Change(k)
  BY <1>4 DEF Change, client, IInv, TypeOK, AcceptedIsHonest, CacheFollows
<1>5. CASE UNCHANGED vars
  BY <1>5 DEF vars, IInv, TypeOK, AcceptedIsHonest, CacheFollows
<1> QED
  BY <1>1, <1>2, <1>3, <1>4, <1>5 DEF Next, Step, Done

\* The inductive invariant of the sequential client.
THEOREM SequentialInvariance == Spec => []IInv
  BY InitIInv, NextIInv, PTL DEF Spec

\* syncProver: the client stays within its provers and periods.
THEOREM SequentialTypeCorrect == Spec => []TypeOK
  BY SequentialInvariance, PTL DEF IInv

\* syncProver: whichever provers a client meets, and however they are changed
\* under way, what it has accepted is the honest chain's.
THEOREM SequentialSafe == Spec => []AcceptedIsHonest
  BY SequentialInvariance, PTL DEF IInv

\* sync returns the committee of the honest chain, or it throws.
THEOREM SequentialRefinement == Spec => KeepsPromise
<1> DEFINE Returned == IF result = NoCommittee THEN "nothing"
                       ELSE IF result = Committee(HonestChain, size) THEN "current" ELSE "other"
           Thrown == reason # None
<1>1. Init => Promise!Init
  BY DEF Init, Promise!Init
<1>2. IInv /\ [Next]_vars => [Promise!Next]_(Promise!vars)
  <2> SUFFICES ASSUME IInv, [Next]_vars
               PROVE  [Promise!Next]_(Promise!vars)
    OBVIOUS
  <2> USE DEF Promise!Next, Promise!vars, Promise!Throw, Promise!Return, Promise!Running
  <2>1. CASE FetchUpdates
    BY <2>1, NoneAssumption DEF FetchUpdates, Throw, Running
  <2>2. CASE CheckUpdate
    BY <2>2, NoneAssumption DEF CheckUpdate, Throw, Running
  <2>3. CASE Return
    <3>1. Running /\ result' = committee /\ UNCHANGED <<size, reason>>
      BY <2>3 DEF Return
    <3>2. committee = Committee(HonestChain, size) /\ size \in Nat
      BY <2>3 DEF Return, End, IInv, AcceptedIsHonest, TypeOK
    <3>3. Committee(HonestChain, size) # NoCommittee
      BY <3>2, NoCommitteeAssumption DEF Committee
    <3> QED
      BY <3>1, <3>2, <3>3 DEF Running
  <2>4. CASE \E k \in 1 .. N : Change(k)
    BY <2>4 DEF Change, client
  <2>5. CASE UNCHANGED vars
    BY <2>5 DEF vars
  <2> QED
    BY <2>1, <2>2, <2>3, <2>4, <2>5 DEF Next, Step, Done
<1> QED
  BY <1>1, <1>2, SequentialInvariance, PTL DEF Spec, KeepsPromise, Promise!Spec

-----------------------------------------------------------------------------
(* With an honest prover.                                                  *)

\* Every server reaches the current period, whatever it is configured to.
ServersReach ==
  /\ provers \in [1 .. N -> Servers]
  /\ \A k \in 1 .. N : size <= provers[k].chainSize /\ size <= provers[k].store.maxChainSize

\* The client has not gone past all honest provers.
HonestAhead == \E k \in at .. N : IsHonest(provers[k].store)

\* What it holds of the periods it will check is an update, and of an honest
\* prover's the honest one, also when it is from before a change.
CacheServed ==
  \A k \in 1 .. N : \A p \in DOMAIN cachedSyncUpdate[k] :
    /\ p \in Nat
    /\ p < size => /\ cachedSyncUpdate[k][p] # None
                   /\ IsHonest(provers[k].store) =>
                        cachedSyncUpdate[k][p] = SyncUpdate(HonestChain, p)

FInv == IInv /\ ServersReach /\ HonestAhead /\ CacheServed /\ FindsHonest

\* getSyncUpdate: a store answers with an update, an honest one with the honest.
LEMMA StoreServes ==
  ASSUME NEW server \in Servers, NEW p \in Nat
  PROVE  /\ GetSyncUpdate(server.store, p) # None
         /\ IsHonest(server.store) => GetSyncUpdate(server.store, p) = SyncUpdate(HonestChain, p)
<1> DEFINE Updates == [nextCommittee : [chain : Chains, period : Nat], epoch : Nat,
                       signers : [chain : Chains, period : Nat]]
<1>1. HonestChain \in Chains /\ server.store.dishonestChain \in Chains
  BY DEF Chains, Servers
<1>2. \A c \in Chains : SyncUpdate(c, p) \in Updates
  BY DEF SyncUpdate, Committee
<1>3. GetSyncUpdate(server.store, p) \in Updates
  BY <1>1, <1>2 DEF GetSyncUpdate
<1> QED
  BY <1>3, NoUpdateAssumption DEF GetSyncUpdate

\* _getSyncUpdates: the periods up to the current one are served, however many
\* updates of a batch are cut off.
LEMMA BatchServes ==
  ASSUME NEW s \in Nat, NEW server \in Servers, s <= server.chainSize,
         NEW start \in 0 .. s - 1
  PROVE  LET answer == GetSyncUpdates(server, start, batchSize)
         IN  /\ answer.ok
             /\ \A p \in start .. start + batchSize - 1 : p < s =>
                  /\ p - start + 1 \in DOMAIN answer.value
                  /\ answer.value[p - start + 1] = GetSyncUpdate(server.store, p)
<1> USE BatchAssumption
<1> DEFINE count == IF start + batchSize - 1 >= server.chainSize
                    THEN server.chainSize - start ELSE batchSize
           values == [i \in 1 .. count |-> GetSyncUpdate(server.store, start + i - 1)]
<1>1. server.chainSize \in Nat
  BY DEF Servers
<1>2. count \in Nat
  BY <1>1
<1>3. GetSyncUpdates(server, start, batchSize) = [ok |-> TRUE, value |-> values]
  BY <1>2 DEF GetSyncUpdates, AnswerIf, Answer
<1>4. ASSUME NEW p \in start .. start + batchSize - 1, p < s
      PROVE  p - start + 1 \in DOMAIN values /\ values[p - start + 1] = GetSyncUpdate(server.store, p)
  <2>1. p - start + 1 \in 1 .. count /\ start + (p - start + 1) - 1 = p
    BY <1>1, <1>4
  <2> HIDE DEF count
  <2> QED
    BY <2>1
<1> QED
  BY <1>3, <1>4

LEMMA InitFInv == Init => FInv
<1> SUFFICES ASSUME Init PROVE FInv
  OBVIOUS
<1>1. PICK d \in Deployments : size = d.size /\ provers = d.provers
  BY DEF Init
<1>2. ServersReach
  BY <1>1, ServersAssumption DEF ServersReach
<1>3. HonestAhead
  BY <1>1, ServersAssumption DEF Init, HonestAhead
<1>4. CacheServed
  BY DEF Init, CacheServed
<1> QED
  BY <1>2, <1>3, <1>4, InitIInv DEF Init, FInv, FindsHonest

LEMMA FetchFInv == FInv /\ FetchUpdates => FInv'
<1> SUFFICES ASSUME FInv, FetchUpdates
             PROVE  FInv'
  OBVIOUS
<1> DEFINE answer == GetSyncUpdates(provers[at], period, batchSize)
<1>1. IInv'
  BY FetchIInv DEF FInv
<1>2. /\ at \in 1 .. N /\ size \in Nat /\ period \in 0 .. size - 1
      /\ provers[at] \in Servers /\ size <= provers[at].chainSize
      /\ DOMAIN cachedSyncUpdate = 1 .. N
  <2>1. /\ at \in 1 .. N /\ size \in Nat /\ period \in 0 .. size
        /\ DOMAIN cachedSyncUpdate = 1 .. N
    BY DEF FInv, IInv, TypeOK
  <2>2. period < size
    BY DEF FetchUpdates, End
  <2> QED
    BY <2>1, <2>2 DEF FInv, ServersReach
<1>3. /\ answer.ok
      /\ \A p \in period .. period + batchSize - 1 : p < size =>
           /\ p - period + 1 \in DOMAIN answer.value
           /\ answer.value[p - period + 1] = GetSyncUpdate(provers[at].store, p)
  BY <1>2, BatchServes
<1> HIDE DEF answer
<1>4. CASE Throw("transport") /\ UNCHANGED cachedSyncUpdate
  BY <1>1, <1>4 DEF Throw, FInv, ServersReach, HonestAhead, CacheServed, FindsHonest
<1>5. CASE /\ cachedSyncUpdate' =
                [cachedSyncUpdate EXCEPT ![at] = Held(@, period, answer.value, batchSize)]
           /\ UNCHANGED <<size, provers, changes, at, period, committee, result, reason>>
  <2>1. ServersReach' /\ HonestAhead' /\ FindsHonest'
    BY <1>5 DEF FInv, ServersReach, HonestAhead, FindsHonest
  <2>2. ASSUME NEW k \in 1 .. N, NEW p \in DOMAIN cachedSyncUpdate'[k]
        PROVE  /\ p \in Nat
               /\ p < size => /\ cachedSyncUpdate'[k][p] # None
                              /\ IsHonest(provers[k].store) =>
                                   cachedSyncUpdate'[k][p] = SyncUpdate(HonestChain, p)
    <3> DEFINE new == period .. period + batchSize - 1
    <3>1. CASE k # at
      BY <1>2, <1>5, <2>2, <3>1 DEF FInv, CacheServed
    <3>2. CASE k = at
      <4>1. cachedSyncUpdate'[k] = Held(cachedSyncUpdate[k], period, answer.value, batchSize)
        BY <1>2, <1>5, <3>2
      <4>2. CASE p \notin new
        <5>1. p \in DOMAIN cachedSyncUpdate[k] /\ cachedSyncUpdate'[k][p] = cachedSyncUpdate[k][p]
          BY <2>2, <4>1, <4>2 DEF Held
        <5> QED
          BY <5>1 DEF FInv, CacheServed
      <4>3. CASE p \in new
        <5>1. p \in Nat
          BY <1>2, <4>3, BatchAssumption
        <5>2. p < size => cachedSyncUpdate'[k][p] = GetSyncUpdate(provers[k].store, p)
          BY <1>3, <2>2, <3>2, <4>1, <4>3 DEF Held
        <5> QED
          BY <1>2, <3>2, <5>1, <5>2, StoreServes
      <4> QED
        BY <4>2, <4>3
    <3> QED
      BY <3>1, <3>2
  <2>3. CacheServed'
    BY <1>5, <2>2 DEF CacheServed
  <2> QED
    BY <1>1, <2>1, <2>3 DEF FInv
<1> QED
  BY <1>3, <1>4, <1>5 DEF FetchUpdates, answer

LEMMA CheckFInv == FInv /\ CheckUpdate => FInv'
<1> SUFFICES ASSUME FInv, CheckUpdate
             PROVE  FInv'
  OBVIOUS
<1> DEFINE next == SyncUpdateVerifyGetCommittee(committee, Update)
<1>1. IInv'
  BY CheckIInv DEF FInv
<1>2. ServersReach' /\ CacheServed'
  BY DEF CheckUpdate, Throw, NextProver, FInv, ServersReach, CacheServed
<1>3. /\ at \in 1 .. N /\ size \in Nat /\ period \in 0 .. size - 1
      /\ period \in DOMAIN cachedSyncUpdate[at]
      /\ committee = Committee(HonestChain, period)
  <2>1. /\ at \in 1 .. N /\ size \in Nat /\ period \in 0 .. size
        /\ committee = Committee(HonestChain, period)
    BY DEF FInv, IInv, TypeOK, AcceptedIsHonest
  <2>2. period < size /\ period \in DOMAIN cachedSyncUpdate[at]
    BY DEF CheckUpdate, End
  <2> QED
    BY <2>1, <2>2
<1>4. Update # None
  BY <1>3 DEF FInv, CacheServed, Update
<1>5. ASSUME IsHonest(provers[at].store)
      PROVE  next # NoCommittee
  <2>1. Update = SyncUpdate(HonestChain, period)
    BY <1>3, <1>5 DEF FInv, CacheServed, Update
  <2>2. next = Committee(HonestChain, period + 1)
    BY <1>3, <2>1 DEF SyncUpdate, SyncUpdateVerifyGetCommittee
  <2> QED
    BY <1>3, <2>2, NoCommitteeAssumption DEF Committee
<1>6. CASE /\ next # NoCommittee
           /\ UNCHANGED <<size, provers, changes, at, result, reason>>
  BY <1>1, <1>2, <1>6 DEF FInv, HonestAhead, FindsHonest
<1>7. CASE next = NoCommittee
  <2>1. \E k \in at + 1 .. N : IsHonest(provers[k].store)
    BY <1>3, <1>5, <1>7 DEF FInv, HonestAhead
  <2>2. ~IsLastProver
    BY <1>3, <2>1 DEF IsLastProver
  <2>3. NextProver /\ UNCHANGED <<size, provers, changes, result, reason>>
    BY <1>4, <1>7, <2>2 DEF CheckUpdate
  <2> QED
    BY <1>1, <1>2, <2>1, <2>3 DEF NextProver, FInv, HonestAhead, FindsHonest
<1> QED
  BY <1>4, <1>6, <1>7 DEF CheckUpdate

\* setConfig and a restart leave a prover as honest as it was, and no shorter
\* than the current period.
LEMMA ChangeKeeps ==
  ASSUME FInv, NEW k \in 1 .. N, Change(k)
  PROVE  /\ ServersReach'
         /\ \A l \in 1 .. N : IsHonest(provers'[l].store) <=> IsHonest(provers[l].store)
<1> DEFINE old == provers[k]
<1>1. old \in Servers /\ size \in Nat /\ size <= old.chainSize /\ size <= old.store.maxChainSize
  BY DEF FInv, ServersReach, IInv, TypeOK
<1>2. PICK new \in SetConfig(old, size, old.treeDegree)
                   \cup {NewProver(Store(old.store.dishonestChain, old.store.maxChainSize),
                                   old.treeDegree)} :
        provers' = [provers EXCEPT ![k] = new] /\ size' = size
  BY DEF Change
<1> HIDE DEF old
<1>3. /\ new \in Servers /\ size <= new.chainSize /\ size <= new.store.maxChainSize
      /\ new.store.dishonestChain = old.store.dishonestChain
  <2>1. CASE new \in SetConfig(old, size, old.treeDegree)
    <3>1. PICK store \in UpdateChainSize(old.store, size) :
            new = [store |-> store, chainSize |-> size, treeDegree |-> old.treeDegree]
      BY <2>1 DEF SetConfig
    <3>2. /\ store \in [dishonestChain : Chains, dishonestyIndex : Int, maxChainSize : Nat]
          /\ store.maxChainSize = old.store.maxChainSize
          /\ store.dishonestChain = old.store.dishonestChain
      BY <1>1, <3>1 DEF UpdateChainSize, Servers
    <3> QED
      BY <1>1, <3>1, <3>2 DEF Servers
  <2>2. CASE new = NewProver(Store(old.store.dishonestChain, old.store.maxChainSize),
                             old.treeDegree)
    BY <1>1, <2>2 DEF NewProver, Store, Servers
  <2> QED
    BY <1>2, <2>1, <2>2
<1>4. provers \in [1 .. N -> Servers]
  BY DEF FInv, ServersReach
<1>5. \A l \in 1 .. N : provers'[l] = IF l = k THEN new ELSE provers[l]
  BY <1>2, <1>4
<1> QED
  BY <1>2, <1>3, <1>4, <1>5 DEF FInv, ServersReach, IsHonest, old

LEMMA ChangeFInv == ASSUME FInv, NEW k \in 1 .. N, Change(k) PROVE FInv'
<1>1. IInv'
  BY NextIInv DEF FInv, Next
<1>2. UNCHANGED <<size, cachedSyncUpdate, at, reason>> /\ at \in 1 .. N
  BY DEF Change, client, FInv, IInv, TypeOK
<1>3. HonestAhead' /\ CacheServed'
  BY <1>2, ChangeKeeps DEF FInv, HonestAhead, CacheServed
<1> QED
  BY <1>1, <1>2, <1>3, ChangeKeeps DEF FInv, FindsHonest

LEMMA NextFInv == FInv /\ [Next]_vars => FInv'
<1> SUFFICES ASSUME FInv, [Next]_vars
             PROVE  FInv'
  OBVIOUS
<1>1. CASE Return
  BY <1>1, NextIInv DEF Next, Step, Return, FInv, ServersReach, HonestAhead, CacheServed, FindsHonest
<1>2. CASE UNCHANGED vars
  BY <1>2, NextIInv DEF vars, FInv, ServersReach, HonestAhead, CacheServed, FindsHonest
<1> QED
  BY <1>1, <1>2, FetchFInv, CheckFInv, ChangeFInv DEF Next, Step, Done

\* sync: when one of the provers is honest and all of them reach the current
\* period, nothing but the transport makes it throw, wherever the honest one is
\* and whatever the others answer.
THEOREM SequentialFindsHonest == Spec => []FindsHonest
<1>1. FInv => FindsHonest
  BY DEF FInv
<1> QED
  BY <1>1, InitFInv, NextFInv, PTL DEF Spec
=============================================================================
