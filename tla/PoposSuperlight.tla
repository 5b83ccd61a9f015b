-------------------------- MODULE PoposSuperlight --------------------------
(***************************************************************************)
(* SuperlightClient (superlight-client.ts): sync() collects the mountain   *)
(* ranges of all provers, lets them play a tournament of bisection games,  *)
(* and asks the winners for the latest committee.                          *)
(*                                                                         *)
(* A step is what the client does between two answers from the network, so *)
(* that the provers' configuration may change before each request.         *)
(***************************************************************************)
EXTENDS PoposProver

CONSTANTS
  N,             \* the number of provers the client knows
  Deployments    \* the sizes, degrees and provers a sync may start with, and
                 \* a bound on changes of provers during the sync

\* Clients are built with the genesis of the honest chain, and know a prover.
ASSUME GenesisAssumption == GenesisChain = HonestChain
ASSUME NAssumption == N \in Nat \ {0}
ASSUME NoCommitteeAssumption == NoCommittee \notin [chain : {HonestChain}, period : Nat]

\* What a prover may be: as its server has started, or configured since.
States(dishonestChain, maxChainSize, degree) ==
  LET started == NewProver(Store(dishonestChain, maxChainSize), degree)
  IN  {started} \cup UNION {SetConfig(started, s, degree) : s \in 0 .. maxChainSize}

\* One prover is honest and has the expected size.  The others, and its own
\* store, may be of any size.
ASSUME DeploymentsAssumption ==
  \A d \in Deployments :
    /\ d.size \in Nat /\ d.n \in Nat \ {0, 1} /\ d.changes \in Nat
    /\ d.provers = [k \in 1 .. N |-> d.provers[k]]
    /\ \A k \in 1 .. N :
         LET prover == d.provers[k]
             store == prover.store
         IN  /\ store.dishonestChain # HonestChain
             /\ store.maxChainSize \in Nat
             /\ prover \in States(store.dishonestChain, store.maxChainSize, d.n)
    /\ \E k \in 1 .. N : IsHonest(d.provers[k].store) /\ d.provers[k].chainSize = d.size

VARIABLES
  size,       \* getCurrentPeriod() - getGenesisPeriod(), which never changes
  n,          \* the degree of trees the client expects, which never changes
  provers,    \* the provers, by their index
  changes,    \* the number of changes of provers that are left
  cache,      \* per prover, the answers the client holds
  pc,         \* the request the client makes next
  at,         \* the prover, contestant or winner that is looked at
  proverInfos,
  winners,
  game,       \* the locals of the current game
  result,     \* the committee that sync returned
  reason      \* why it threw

client == <<cache, pc, at, proverInfos, winners, game, result, reason>>
setting == <<size, n>>
vars == <<size, n, provers, changes, cache, pc, at, proverInfos, winners, game, result, reason>>

NoGame == [node1 |-> None, node2 |-> None, tree1 |-> None, tree2 |-> None, steps |-> 0,
           index |-> 0, offset |-> 0, children1 |-> None, committee1 |-> None,
           committee2 |-> None, prevCommittee |-> None, is1Correct |-> FALSE]

Init ==
  /\ \E d \in Deployments :
       size = d.size /\ n = d.n /\ provers = d.provers /\ changes = d.changes
  /\ cache = [k \in 1 .. N |-> <<>>]
  /\ pc = "info" /\ at = 1
  /\ proverInfos = <<>> /\ winners = <<>>
  /\ game = NoGame
  /\ result = NoCommittee /\ reason = None

-----------------------------------------------------------------------------
(* The network: ProverClient.                                              *)

Serve(prover, request) ==
  CASE request.of = "mmr" -> GetMMRInfo(prover)
    [] request.of = "node" -> GetNode(prover, request.tree, request.node)
    [] request.of = "leaf" -> GetLeafWithProof(prover, request.period)
    [] request.of = "update" -> GetSyncUpdates(prover, request.period, 1)

MMR == [of |-> "mmr"]
NodeOf(tree, node) == [of |-> "node", tree |-> tree, node |-> node]
Leaf(period) == [of |-> "leaf", period |-> period]
UpdateOf(period) == [of |-> "update", period |-> period]

\* The answer of prover k: the one the client holds, or a new one.
Ask(k, request) ==
  IF request \in DOMAIN cache[k] THEN cache[k][request] ELSE Serve(provers[k], request)

Keep(k, request) ==
  cache' = [cache EXCEPT ![k] = [r \in DOMAIN @ \cup {request} |-> Ask(k, r)]]

\* A prover is configured again, by a delayed copy of a request to /config
\* that the client has repeated, or it restarts.
Change(k) ==
  /\ pc \notin {"returned", "thrown"}
  /\ changes > 0
  /\ changes' = changes - 1
  /\ \E prover \in SetConfig(provers[k], size, n)
                   \cup {NewProver(Store(provers[k].store.dishonestChain,
                                         provers[k].store.maxChainSize), n)} :
       provers' = [provers EXCEPT ![k] = prover]
  /\ UNCHANGED <<client, setting>>

Throw(why) ==
  /\ pc' = "thrown" /\ reason' = why /\ game' = NoGame
  /\ UNCHANGED <<at, proverInfos, winners, result>>

\* Ask prover k, and go on with its answer unless it is a failure.  A request
\* that has failed six times makes sync throw; so does, in the end, the body of
\* the 400 that a server sends while it is starting.
Request(k, request, GoOn(_)) ==
  /\ \/ request \notin DOMAIN cache[k] /\ Throw("transport") /\ UNCHANGED cache
     \/ /\ Keep(k, request)
        /\ LET answer == Ask(k, request)
           IN  IF answer.ok THEN GoOn(answer.value) ELSE Throw("bad answer")
  /\ UNCHANGED <<provers, changes, setting>>

-----------------------------------------------------------------------------
(* sync: the provers whose mountain range has the expected size.           *)

\* After the last prover the tournament starts, with the first of the infos.
WithInfos(infos) ==
  /\ proverInfos' = infos
  /\ IF at < N THEN pc' = "info" /\ at' = at + 1 /\ UNCHANGED <<winners, reason>>
     ELSE IF infos = <<>>
          THEN pc' = "thrown" /\ reason' = "no prover" /\ UNCHANGED <<at, winners>>
          ELSE pc' = "tournament" /\ at' = 2 /\ winners' = <<infos[1]>> /\ UNCHANGED reason
  /\ UNCHANGED <<game, result>>

CollectInfo ==
  /\ pc = "info"
  /\ Request(at, MMR, LAMBDA info :
       LET verdict == RangeVerify(info.rootHash, info.peaks, size + 1, n)
       IN  \/ verdict = "exception" /\ Throw("peaks")
           \/ /\ verdict = "valid"
              /\ WithInfos(Append(proverInfos, [root |-> info.rootHash, peaks |-> info.peaks,
                                                index |-> at]))
           \/ verdict = "invalid" /\ WithInfos(proverInfos))

-----------------------------------------------------------------------------
(* tournament: the contestants against the first of the winners.           *)

Winner == winners[1]
Contestant == proverInfos[at]

\* Variant for mutation: the winners that lose are not discarded.
DecideWithoutDiscarding(areCurrentWinnersHonest) ==
  /\ winners' = IF areCurrentWinnersHonest THEN winners ELSE Append(winners, Contestant)
  /\ at' = at + 1
  /\ pc' = "tournament" /\ game' = NoGame
  /\ UNCHANGED <<proverInfos, result, reason>>

\* Variant for mutation: the next round has the same contestant again.
DecideAndRepeat(areCurrentWinnersHonest) ==
  /\ winners' = IF areCurrentWinnersHonest THEN winners ELSE <<Contestant>>
  /\ pc' = "tournament" /\ game' = NoGame
  /\ UNCHANGED <<at, proverInfos, result, reason>>

\* areCurrentWinnersHonest is the outcome of peaksVsPeaks.
Decide(areCurrentWinnersHonest) ==
  /\ winners' = IF areCurrentWinnersHonest THEN winners ELSE <<Contestant>>
  /\ at' = at + 1
  /\ pc' = "tournament" /\ game' = NoGame
  /\ UNCHANGED <<proverInfos, result, reason>>

\* treeVsTree is called for a node of each tree.
Compare(tree1, tree2, node1, node2, steps, index, offset) ==
  /\ game' = [NoGame EXCEPT !.tree1 = tree1, !.tree2 = tree2, !.node1 = node1,
                            !.node2 = node2, !.steps = steps, !.index = index,
                            !.offset = offset]
  /\ pc' = IF steps = 0 THEN "leaf1" ELSE "node1"

\* peaksVsPeaks: the first peak that differs.
PeaksVsPeaks ==
  LET peaks1 == Winner.peaks
      peaks2 == Contestant.peaks
      Differ == {i \in DOMAIN peaks1 : peaks1[i].rootHash # peaks2[i].rootHash}
  IN  IF Len(peaks1) # Len(peaks2) THEN Throw("unequal peaks")
      ELSE IF Differ = {} THEN Throw("same peaks")
      ELSE LET i == CHOOSE i \in Differ : \A j \in Differ : i <= j
           IN  /\ Compare(peaks1[i].rootHash, peaks2[i].rootHash, peaks1[i].rootHash,
                          peaks2[i].rootHash, LogFloor(peaks1[i].size, n), 0,
                          Offset(Sizes(peaks1), i))
               /\ UNCHANGED <<at, proverInfos, winners, result, reason>>

Meet ==
  /\ pc = "tournament"
  /\ IF at > Len(proverInfos)
     THEN /\ pc' = "latest" /\ at' = 1
          /\ UNCHANGED <<proverInfos, winners, game, result, reason>>
     ELSE IF Winner.root = Contestant.root
     THEN /\ winners' = Append(winners, Contestant) /\ at' = at + 1
          /\ UNCHANGED <<pc, proverInfos, game, result, reason>>
     ELSE PeaksVsPeaks
  /\ UNCHANGED <<provers, changes, cache, setting>>

-----------------------------------------------------------------------------
(* treeVsTree: bisect to the first leaf that differs.                      *)

AskNode1 ==
  /\ pc = "node1"
  /\ Request(Winner.index, NodeOf(game.tree1, game.node1), LAMBDA children :
       /\ game' = [game EXCEPT !.children1 = children] /\ pc' = "node2"
       /\ UNCHANGED <<at, proverInfos, winners, result, reason>>)

IsParent(node, children) == Len(children) = n /\ Digest(children) = node

\* Variant for mutation: the index of a node does not count its level.
IndexOfSibling(i) == game.index + i - 1

\* The index of the i-th child among the nodes of its level.
IndexOfChild(i) == game.index * n + i - 1

AskNode2 ==
  /\ pc = "node2"
  /\ Request(Contestant.index, NodeOf(game.tree2, game.node2), LAMBDA children2 :
       LET children1 == game.children1
           Differ == {i \in 1 .. n : children1[i] # children2[i]}
       IN  IF ~IsParent(game.node1, children1) THEN Decide(FALSE)
           ELSE IF ~IsParent(game.node2, children2) THEN Decide(TRUE)
           ELSE IF Differ = {} THEN Throw("same children")
           ELSE LET i == CHOOSE i \in Differ : \A j \in Differ : i <= j
                IN  /\ Compare(game.tree1, game.tree2, children1[i], children2[i],
                               game.steps - 1, IndexOfChild(i), game.offset)
                    /\ UNCHANGED <<at, proverInfos, winners, result, reason>>)

-----------------------------------------------------------------------------
(* checkNodeAndPrevUpdate: who has the right leaf at the first difference. *)

\* Variant for mutation: the period is the index in its tree.
PeriodInPeak == game.index

Period == game.index + game.offset

\* The index of the latest leaf in the last tree.
LatestIndex(peak) == peak.size - 1

\* getVerifiedSyncCommittee
Verified(leaf, period, peaks) ==
  LET last == peaks[Len(peaks)]
      hash == CommitteeHash(leaf.syncCommittee)
  IN  IF period = Latest
      THEN TreeVerify(hash, LatestIndex(last), last.rootHash, leaf.proof, n)
      ELSE LeafVerify(hash, period, peaks, leaf.proof, n)

GoOnTo(stage, locals) ==
  /\ pc' = stage /\ game' = locals
  /\ UNCHANGED <<at, proverInfos, winners, result, reason>>

AskLeaf1 ==
  /\ pc = "leaf1"
  /\ Request(Winner.index, Leaf(Period), LAMBDA leaf :
       IF Verified(leaf, Period, Winner.peaks)
       THEN GoOnTo("leaf2", [game EXCEPT !.committee1 = leaf.syncCommittee])
       ELSE Decide(FALSE))

\* The winners stay only if they are right and the contestant is not; both
\* wrong, they are discarded as well.
Judge(is1Correct, is2Correct) ==
  IF is1Correct /\ is2Correct THEN Throw("both correct") ELSE Decide(is1Correct)

AskLeaf2 ==
  /\ pc = "leaf2"
  /\ Request(Contestant.index, Leaf(Period), LAMBDA leaf :
       IF ~Verified(leaf, Period, Contestant.peaks) THEN Decide(TRUE)
       ELSE IF Period = 0
       THEN Judge(game.committee1 = GenesisSyncCommittee,
                  leaf.syncCommittee = GenesisSyncCommittee)
       ELSE GoOnTo("prev", [game EXCEPT !.committee2 = leaf.syncCommittee]))

AskPrevLeaf ==
  /\ pc = "prev"
  /\ Request(Winner.index, Leaf(Period - 1), LAMBDA leaf :
       IF Verified(leaf, Period - 1, Winner.peaks)
       THEN GoOnTo("update1", [game EXCEPT !.prevCommittee = leaf.syncCommittee])
       ELSE Decide(FALSE))

\* An answer without updates leaves an undefined update, which verifying reads.
AskUpdate1 ==
  /\ pc = "update1"
  /\ Request(Winner.index, UpdateOf(Period - 1), LAMBDA updates :
       IF updates = <<>> THEN Throw("bad answer")
       ELSE GoOnTo("update2",
              [game EXCEPT !.is1Correct =
                 SyncUpdateVerify(game.prevCommittee, game.committee1, updates[1])]))

AskUpdate2 ==
  /\ pc = "update2"
  /\ Request(Contestant.index, UpdateOf(Period - 1), LAMBDA updates :
       IF updates = <<>> THEN Throw("bad answer")
       ELSE Judge(game.is1Correct,
                  SyncUpdateVerify(game.prevCommittee, game.committee2, updates[1])))

-----------------------------------------------------------------------------
(* sync: the latest committee, from the first winner that has it.          *)

AskLatest ==
  /\ pc = "latest"
  /\ Request(winners[at].index, Leaf(Latest), LAMBDA leaf :
       IF Verified(leaf, Latest, winners[at].peaks)
       THEN /\ pc' = "returned" /\ result' = leaf.syncCommittee
            /\ UNCHANGED <<at, proverInfos, winners, game, reason>>
       ELSE IF at = Len(winners) THEN Throw("all winners cheated")
       ELSE at' = at + 1 /\ UNCHANGED <<pc, proverInfos, winners, game, result, reason>>)

\* The promise is kept or broken, and the client makes no more requests.
Done == pc \in {"returned", "thrown"} /\ UNCHANGED vars

Step ==
  \/ CollectInfo \/ Meet \/ AskNode1 \/ AskNode2 \/ AskLeaf1 \/ AskLeaf2
  \/ AskPrevLeaf \/ AskUpdate1 \/ AskUpdate2 \/ AskLatest

Next == Step \/ (\E k \in 1 .. N : Change(k)) \/ Done

\* The client goes on with each answer, and each request is answered or fails.
Spec == Init /\ [][Next]_vars /\ WF_vars(Step)

\* An honest prover that has the size the client expects keeps it: as nothing
\* else would take it away, its server does not restart with a longer chain.
HonestStay ==
  \A k \in 1 .. N :
    IsHonest(provers[k].store) /\ provers[k].chainSize = size => provers'[k].chainSize = size

\* The syncs during which honest provers of the right size keep it; the others
\* may change at any time, honest or not.
StayingSpec == Init /\ [][Next /\ HonestStay]_vars /\ WF_vars(Step)

-----------------------------------------------------------------------------
(* Properties                                                              *)

CurrentCommittee == Committee(HonestChain, size)

\* The mapping to what sync promises.
Promise ==
  INSTANCE SyncPromise
  WITH returned <- IF result = NoCommittee THEN "nothing"
                   ELSE IF result = CurrentCommittee THEN "current" ELSE "other",
       thrown <- (pc = "thrown")

\* sync returns the committee of the honest chain, once, or it throws: an honest
\* participant wins whatever the order of the provers ("The one honest prover
\* will defeat this prover later").
KeepsPromise == Promise!Spec

\* The leaves that a prover is committed to by its peaks.
CommittedLeaves(peaks) ==
  LET Below(i) ==
        LET level[d \in 0 .. LogFloor(peaks[i].size, n)] ==
              IF d = 0 THEN <<peaks[i].rootHash>>
              ELSE FlattenSeq([k \in DOMAIN level[d - 1] |-> level[d - 1][k].children])
        IN  level[LogFloor(peaks[i].size, n)]
  IN  FlattenSeq([i \in DOMAIN peaks |-> Below(i)])

\* treeVsTree: the leaf that is judged is the first one on which the two
\* provers differ (the update of the period before is then common ground).
FirstDifference ==
  pc \in {"leaf1", "leaf2", "prev", "update1", "update2"} =>
    LET leaves1 == CommittedLeaves(Winner.peaks)
        leaves2 == CommittedLeaves(Contestant.peaks)
    IN  /\ leaves1[Period + 1] # leaves2[Period + 1]
        /\ \A p \in 1 .. Period : leaves1[p] = leaves2[p]

\* With an honest participant, sync throws for no other reason than a request
\* that failed or was answered with an error, or a range with fewer trees
\* than its size needs, which verify reads past the end (sync would rather
\* filter its prover, superlight-client.ts:283): not one of the exceptions
\* that are there for what "can not be", nor because "all winners cheated".
OnlyNetworkErrors == reason \in {None, "transport", "bad answer", "peaks"}

\* sync ends: every game ends, and every prover is met once.
Terminates == <>(pc \in {"returned", "thrown"})
=============================================================================
