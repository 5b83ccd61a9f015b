# A verification project for `lightclients24`

The repository implements a light client protocol based on *transitive
signatures* and evaluates it against two baselines. A light client that knows
the aggregate public key (apk) of the quorum of some epoch asks a full node for
one proof, an aggregated signature over a chain of epochs, and skips to the
latest epoch's key. This directory holds TLA+ models of that system, the TLC
runs that check them, and TLAPS proofs about the core.

Paths below are relative to `src/code/` unless they start with `src/`; `popos/...`
stands for `evaluation/baselines/popos/implementation/src`, `cssv/...` for
`evaluation/baselines/cssv/bw6`.

## 1. The system

### Components

| Component | Source | State | Operations |
|---|---|---|---|
| Transitive signatures | `implementation/signature.go` | none | `ChainHash`, `ChainHashKeys`, `SignNoBreak`, `SignBreak`, `VerifyPeriods` |
| `AggregateSignatures` | `implementation/signature.go:298-335` | goroutines, a results channel | split, add, collect |
| Light client | `implementation/lightclient.go` | `Epoch`, `QuorumApk` | `NewLightClient`, `Update`, `UpdateTiming`, `verify` |
| Full node, answering | `evaluation/full_node/main.go:254-360` | the chain (`testProver`), one limit per RPC namespace | `update`, `UpdateMulti`, `UpdateRedundant`, `startRPC` |
| Full node, creating | `main.go:30-150` | goroutines, key slices, four arrays, three kinds of channels | `newTestProver` |
| Full node, storing | `main.go:166-252, 362-396` | files `committee_chain_<i>.gob`, `nextk0.gob` | `save`, `newTestProverFromFile`, `main` |
| Tester client | `evaluation/tester_client/main.go` | none between requests | a fresh light client for every request |
| Encodings | `implementation/marshal.go` | none | `Bytes`, `SetBytes` of keys and signatures |
| PoPoS: Merkle trees and ranges | `popos/.../merkle-tree.ts`, `merkle-mountain-range.ts` | none after construction | build, prove, verify |
| PoPoS: dummy stores | `popos/.../store/dummy-store/*` | two chains, an index of dishonesty | updates, committees, hashes; verify an update |
| PoPoS: prover and server | `popos/.../prover/*` | mountain range, chain size, degree | leaf, node, range, updates, hashes, `/config` |
| PoPoS: clients | `popos/.../client/*`, `prover/prover-client.ts` | caches, tournament, game | three kinds of `sync` |
| CSSV: recursive light client (Rust) | `cssv/examples/recursive.rs`, `bls/mod.rs` | light client: commitment; helper: validator set, prover; a thread-local cache | `rotate`, `approve`, `aggregate_approvals`, `verify_aggregates` |
| CSSV: prover and verifier of aggregate keys | `cssv/src/prover.rs`, `verifier.rs`, `transcript.rs`, `keyset.rs`, `setup.rs`, `bitmask.rs` | a transcript each | five rounds of `prove`; `verify_simple`, `verify_packed`, `verify_counting` |
| CSSV: gadgets and schemes | `cssv/src/piop/*`, `domains.rs`, `utils.rs` | registers | registers, constraints, quotient, linearization |
| CSSV: random bytes, endomorphism, benchmarks, `mipp` | `cssv/src/fsrng.rs`, `endo.rs`, `benches`, `../mipp` | none | |
| Plots | `evaluation/plots/analysis.py` | none | figures from logs |

### Interaction

At its first start the full node **creates** a chain (several goroutines that
hand slices of keys to each other) and **stores** it; at later starts it loads
it. It then **answers** RPCs from one namespace per chain length `2^i`; all
requests of a namespace share one `*big.Int` limit that `update` clamps in
place. To answer it searches the break points of the chain and **aggregates**
signatures, again with goroutines. The **light client** checks the answer with
one pairing equation and replaces its key and epoch.

In the PoPoS baseline a client knows several provers and assumes that one of
them is honest. The *superlight* client compares their mountain ranges, lets
provers that differ play a bisection game down to the first committee on which
they differ, and judges that one by the update of the period before. The
*optimistic* client compares the committee hashes of all provers period by
period and lets them fight where they differ; the *sequential* client verifies
every update. Every request goes over HTTP, is repeated up to five times, and is
cached by the client; a prover's configuration can change between two requests.

In the CSSV baseline validators work in eras. In each one the present set signs
the **commitment** to the next set, which only the first of them computes and
the others take from a thread-local cache. A *helper* nobody has to trust sums
the signatures, **proves** which keys of the committed set the aggregate key is
made of, and moves on to the next set. The light client, which knows nothing but
a commitment, **verifies** proof, signature and quorum, and replaces the
commitment. Prover and verifier never talk: each draws the challenges from its
own transcript of the same messages. Of the three schemes of proofs, *simple*
leaves the bitmask to the verifier, *packed* proves it in chunks, *counting*
only proves how many bits are set; the recursive client uses the simple one.

### What is hard, and the properties that make each part correct

- *Transitive signatures, update and verify.* The search for the first and last
  break, the appended end, and the rule by which the verifier decides from two
  lengths whether the last segment carries a key must fit together at every
  boundary. Correct: an answer verifies exactly when it should
  (`AcceptedExactly`), the client's key and epoch always belong together
  (`ClientInForce`), and all a client ever does is jump forward along the real
  chain (`ImplementsAbstract`).
- *Shared limits.* A handler mutates what the next one reads (`LimitsStable`).
- *Creating the chain.* Intervals, breaks and their number are rounded in four
  places (`SlotInForce`, `ChainWellFormed`); channels have capacity one or none
  (`Terminates`). For more workers than the one the repository ships with, slices
  are references, and one that is forwarded and overwritten would be seen by two
  goroutines (`OverwrittenSliceIsPrivate`).
- *AggregateSignatures.* Any number of signatures on any number of CPUs, arrival
  in any order, decoding errors that are ignored (`EachOnce`,
  `BadInputsContained`, `AllDelivered`).
- *Storing.* Several files, written one after the other, with the process
  stopped in between (`ServesWholeChain`, `SavedChainLoads`, `ChainNeverReplaced`).
- *PoPoS.* The bisection ends at the first difference, across trees of different
  sizes (`FirstDifference`, `ProofsFit`, `RangesFit`); none of the "cannot be"
  exceptions is reachable (`OnlyNetworkErrors`, `FindsHonest`); sync returns the
  honest chain's committee or fails with the network (`KeepsPromise`), in
  whatever order provers are met, also when they change between requests (section 3
  says which changes). What one prover has taught a client must not outlive it (`AcceptedIsHonest`,
  `LastHashIsHonest`).
- *CSSV, eras.* Helper, validators and light client stay in step although the
  helper moves first and the commitment is cached (`InStep`); what is lost or
  comes twice on the way to the helper is the only reason to panic
  (`PanicsOnlyOnFaults`); a set is only replaced by the next one, with a quorum
  of its own (`ClientFollowsChain`).
- *CSSV, proofs.* Prover and verifier state the same things in two languages,
  polynomials and values, in the same order (`HonestProofAccepted`); a challenge
  comes after what it binds and is the same on both sides (`ChallengesBind`); the
  setup is large enough to the last degree (`SrsSuffices`); shortcuts over domains
  and limbs are exact (`EvaluationsAgree`, `BitmaskFaithful`); and the constraints, with rows that
  wrap around and an addition law that is incomplete, leave a prover no other
  claim than the true one (`SimpleSound`, `PackedSound`, `CountingSound`).

All hazards, each at its line, with the properties aimed at it, are under
`hazards` in `PROJECT.json`.

## 2. The modules

```
TransitiveSig ── TestProver ──┬── LightClient ──┬── MCLightClient
                              │       │         └── LightClientProofs
                              │       └─ refines ─> AbstractLightClient
                              └── CommitteeChain ──┬── MCCommitteeChain
                                                   └── CommitteeChainProofs
AggregateSignatures ── AggregateSignaturesProofs
FullNodeStore ── FullNodeStoreProofs

MerkleMountainRange ──┬── MCMerkleMountainRange ─────────────────────────┐
                      └── PoposStore ── PoposProver ──┬── PoposSuperlight ──┬── PoposSuperlightProofs
                                                      │                     └── MCPoposSuperlight
                                                      ├── PoposOptimistic ──┬── MCPoposOptimistic
                                                      │                     └── PoposOptimisticProofs
                                                      └── PoposSequential ──┬── MCPoposSequential
                                                                            └── PoposSequentialProofs
PoposSuperlight, PoposOptimistic, PoposSequential ── refine ─> SyncPromise

RecursiveLightClient ──┬── MCRecursiveLightClient          refines ─> ValidatorChain
                       └── CssvProofs (also about ApkProtocol)
PrimeField ── Domains ──┬── Keyset ── AffineAddition ── BitmaskGadgets ── ApkSchemes ──┬── ApkProtocol ── MCApkProtocol
              Bitmask ──┘                                                              └── ApkConstraints ── MCApkConstraints
```

**TransitiveSig** is `signature.go` as algebra. A hash to G2 is a symbolic
point, determined by its domain separation tag and its bytes (an epoch, and for
a break the next apk); secret keys are independent symbols. An element of G2 the
program computes is then a formal sum of terms *key · (point − point)*, and the
pairing equation of `VerifyPeriods` holds exactly when both sides have the same
coefficient of every key at every point (`SameElement`). An apk is the set of
its members' keys, as a sum of distinct public keys determines them. What this
assumes of the cryptography: hashes do not collide, and no relation between
independent random keys holds by accident.

**TestProver** is the chain a full node holds (a record with the fields of the
source's struct) and `update`: `ClampedEnd`, the search loop as `FirstBreak` and
`LastBreak`, `Aggregate`, and the `LightClientProof` as `Update`. `WellFormed`
says which chains are chains: it is the *result* that CommitteeChain is checked
to deliver and the *assumption* under which LightClient is checked and proved.

**LightClient** composes client and node. `Request`, `Serve`, and `Accept` /
`Reject` / `Panic` are the three points of `Update` at which control passes
over the network; `TransportError` is a failed RPC; `FreshClient` is what the
tester does before each request. A `Panic` is what indexing an empty `NextApks`
does. The module's `call` variable is the program counter of the one `Update` in
progress (the source's client is not safe for concurrent calls and is not used
that way).

**AbstractLightClient** is the promise: an epoch and the key in force at it,
that only moves to the epoch after some later head, or restarts from genesis.
`LightClient!Abstract` is the refinement mapping; `quorumAt` comes from the
node's breaks.

**CommitteeChain** is `newTestProver`. Each goroutine goes through *keys* (one
step per break of its interval, the last of which also sends), taking the keys
of its predecessor, and *sign* (one step per slot, because two goroutines can
hold the same slice and the steps between slots matter). `heap` maps slice
references to elements. `args.workers`, at most `N`, is the source's local `n`,
which the repository sets to 1 with a TODO. How the epochs are divided among the
workers depends on the arguments alone (`Number`, `PerCPU`, `Start`,
`FirstBreakIn`). `GapAssumption` limits the calls to those in which no worker
without a break precedes one with a break (`NoBreakAfterGap`): the shipped n = 1
always satisfies it, and section 3 says what happens otherwise.

**AggregateSignatures** counts for every partial sum how often each input
occurs. `temp`, which outlives an iteration, and the ignored error of
`Unmarshal` are modelled: an input too short to decode leaves the previous point.

**FullNodeStore** splits `save` into creating and encoding each file, so the
process can stop at each point, and an error can occur at each. What is kept of
the (random) contents is the creation they stem from, by its number and the
length it was asked for; the epochs served are compared with all of that length.

**MerkleMountainRange** is both sides of the trees: what a prover builds and
proves, and what a client verifies. The hash is injective: a hash *is* what was
hashed, a leaf's committee or the sequence of a node's children, so a client can
compare hashes but only learn what provers tell it. `n ** k` is `Power`, a
recursive function, because the provers do not know TLA+'s `^`; so is `TwoTo` in
Bitmask.

**PoposStore** is the dummy store: a committee is a chain and a period (keys are
random, so committees of two chains never coincide), an update names its signers,
and a dishonest store is the honest chain up to its `dishonestyIndex`, and
another one from there. The index is -1 until the store has been configured, and
JavaScript's `slice(0, -1)` is modelled as what it does then: only the last
hash is dishonest.

**PoposProver** is the server: one operator per handler, applied to a record of
store, size and degree, and `SetConfig` for `/config`. Node runs a handler to its
end before it starts another one, so each is one step. An answer is a value or
`Failure`.

**PoposSuperlight**, **PoposOptimistic** and **PoposSequential** are the clients.
A step is what a client does from one answer to its next request, so provers can
change in between: `Change` is a late copy of a repeated `/config`, which draws a
new index of dishonesty, or a restart of the server, after which it serves its
whole chain again. `StayingSpec` of PoposSuperlight is `Spec` without one kind of
change (`HonestStay`): an honest prover of the size the client expects does not
restart with a longer chain. `cache` (and `cachedSyncUpdate`, `cachedLeafHash`) are those
of the source, by URL and by period; a failed request throws. `pc` is the point
in the nested calls of `sync`, `game` and `fight` hold their locals.

**SyncPromise** is what the three promise: to return the current committee, once,
or to throw. `KeepsPromise` in each of them is the refinement.

**RecursiveLightClient** is `recursive.rs`, a step per call of `approve` and per
stage of `main`'s loop. Sets are numbered as they are drawn, commitments bind
(the commitment to a set is its number), keys are independent, so an aggregate
key is a set and an aggregate signature a bag. The program passes approvals on
in memory; in the protocol it stands for, some are missing (`recursive.rs:33`)
and all are sent to the helper, so `Lose` and `Duplicate` are what a network
does to them. `VerifySimple` is
the promise of the proof that the modules below are about; an assertion that
fails is a `Panic`. **ValidatorChain** is what the client promises: a set's
signers are those whose approvals stand behind the statement it is shown, not
all that have signed. **CssvProofs** proves it.

**PrimeField** is what the code takes from arkworks, over a small field: a
polynomial is its sequence of coefficients, evaluations are sequences, and the
curve is y² = x³ + 1 (as BLS12-377), with 258 = 6 · 43 points over the field of
257, so there is a subgroup of prime order and points outside of it. **Domains**
is `domains.rs` and `utils.rs`, **Bitmask** and **Keyset** (with `setup.rs`) are
their files, **AffineAddition** and **BitmaskGadgets** the three gadgets: for
each, the registers, the constraints as polynomials (the prover's) and as values
at a point (the verifier's), and the linearization on both sides. **ApkSchemes**
puts them together for each scheme: what is committed, opened and checked, in
which order. `highest_degree_to_commit`, `BITS_IN_LIMB`, `bits_in_bitmask_chunk`
and `CountBits` (the `as u32` of `verifier.rs:98`) are parameters.

**ApkProtocol** runs a prover and a verifier, as `test_helpers.rs` does: a step
per round, a challenge drawn between two. A transcript is the sequence of what
was appended; a challenge is a random function of it (`drawn` remembers what was
asked), so a verifier with another transcript gets other challenges. The
challenges that batch the openings are drawn one after the other with nothing
appended in between (`transcript.rs:75`); as the later draws are determined by
the transcript of the first, one question stands for all, and `DrawsInARow`
gives the values: independent ones, not powers of one. A
commitment is the polynomial itself, hence homomorphic and binding, and fails
beyond the degree of the setup; an opening verifies when the quotient does.
Assertions and the impossible affine form of the identity are `Panic`.

**ApkConstraints** asks what the *verifier's* constraints mean, for a prover that
fills the registers as it likes. Its constraints are evaluated at the points of
the domain, where a constraint polynomial must vanish for the division to leave
no remainder, and for as many batching challenges as there are constraints, so
that a sum that vanishes for all of them is a sum of zeros. A row that breaks a
constraint is given up at once. The verifier's own operators of ApkSchemes are
what is evaluated, linearization included.

The modules named `...Proofs` hold the theorems and lemmas about the module they
extend (section 4): **LightClientProofs**, **CommitteeChainProofs**,
**AggregateSignaturesProofs**, **FullNodeStoreProofs**,
**PoposSuperlightProofs** (which begins with Merkle trees and ranges),
**PoposSequentialProofs**, **PoposOptimisticProofs** and **CssvProofs** (the
recursive light client, then ApkProtocol's transcripts and bitmasks).

Definitions commented *variant for mutation* are not part of the model: each is
a plausible bug in the definition that follows it, kept to show that the
properties can tell the difference.

## 3. The runs

| Run | Question | Bounds | Result |
|---|---|---|---|
| `light_client` | do client and node fit together? | quorum 2; all 31 chains of ≤ 5 epochs, the 9 periodic chains of 9 epochs; every namespace, both RPCs | holds |
| `committee_chain` | is the shipped (n = 1) chain well formed, and when is n > 1 safe? | n = 1, 2, 3, lengths 1–7, periods 1–8, quorum 2, batch 2, where no worker without a break precedes one with a break | holds |
| `aggregate_signatures` | is every signature counted once? | ≤ 5 signatures, ≤ 4 CPUs, every set of undecodable inputs | holds |
| `full_node_store` | does the node survive stops and failures? | lengths 1, 3, 5, 7 in 1–3 files, 3 creations told apart | holds |
| `merkle_mountain_range` | do provers' proofs and clients' checks fit? | ≤ 9 leaves, degrees 2–4, every leaf at every index | holds |
| `superlight` | does an honest prover win every tournament, also while provers change? | 3 provers, sizes 1–6, degrees 2–3, every index of dishonesty, provers of other sizes; sizes 1–3, degree 2, 2 changes, also of honest provers with longer stores, under `StayingSpec` | holds |
| `sequential_client` | does it follow the honest chain? | 3 provers, sizes 1–3, batches of 2, 1 change | holds |
| `optimistic_client` | does an honest prover win every fight? | 3 provers, sizes 2–4, batches of 2 | holds |
| `recursive_light_client` | do client, helper and validators stay in step? | sets of 1, 3, 7, 3 eras, 2 approvals lost or doubled in each | holds |
| `apk_protocol` | are honest proofs accepted, and is every challenge late enough? | field of 257; keysets of 1, 2, 3, 5 keys, limbs of 2 bits, chunks of 4; 2 values of each challenge | holds |
| `apk_constraints` | does what is accepted hold? | field of 257; 3 keysets in domains of 4 rows, limbs of 1 bit, chunks of 2; 88 points a sum may be | holds |
| `valid_proof_updates` | does a valid proof always update the client? (`src/readme.md:82`) | chains of ≤ 3 epochs | **violated** |

Why the bounds are enough. In `light_client` a client meets namespaces of 1, 2,
4 and 8 epochs; the chains of up to 5 epochs contain every pattern of breaks:
limits that are at, before and after a break, chains that end with and without
one, clients behind the last break, adjacent breaks. Two members are enough to
tell a quorum's key from a member's and to have mixed quorums. In
CommitteeChain three workers give a first, a middle and a last one, so a middle
worker can receive and forward; lengths up to 7 give equal and unequal
intervals, with no, one and several breaks. In AggregateSignatures 5 inputs give
1 to 3 goroutines, with and without a leftover. In FullNodeStore `EpochSize`
2 and `MaxFileSize` 5 give 1, 2, 2 and 3 files, with a shorter last file.
In `superlight`, sizes up to 6 (7 leaves) give one, two and three trees of both
degrees, trees of one leaf and of two levels; three provers give a dishonest one
before, between and after honest ones, and two dishonest ones that meet first.
At least one prover is honest and of the right size in all PoPoS runs: the
source's own assumption. In the deployments of `superlight` with changes, honest
provers may have stores one period longer than they are configured for, as the
benchmark's servers have, or be configured for the right size only in the
middle of a sync; only that one of the right size restarts with the longer
chain is left out (`HonestStay`, see below).
`optimistic_client` assumes configured provers, which differ before the latest
period, and which do not change.
In `recursive_light_client` sets of 1, 3 and 7 have quorums of 1, 3 and 5: all
of them, and a part; two faults can also cancel out, one approval lost and
another one doubled, and three eras show a cache, a prover and a set from two
eras ago. In `apk_protocol` the domains of 2, 4 and 8 rows give one too small
for a chunk, a keyset with and without padding, two chunks, and a limb that is
padded; some bitmasks are too short or too long, one is empty, and one sums a
key with its negation. In `apk_constraints` the sums a prover may fill in are
all points of the subgroup and of its coset with H, and points of neither; bits
may be 0, 1 and 2; the keysets have a key twice, a key and its negation, and a
padding slot. Other values of the field are not tried: a constraint determines
the next sum up to two points of the curve. The claims are the sums of keys with
and without the padding, and counts that differ beyond `CountBits`. Points of
the domain as ζ, and batching challenges that happen to be roots, are excluded as
unlikely; the code excludes them no better.

The violated run is a real disagreement between the code and what the
repository says of it; `findings` in `PROJECT.json` quotes both sides: `Update`
panics on a *valid* proof that carries no next key. When a client that has
reached the end of a node's chain asks again, the answer has no signatures, no
keys and an empty segment, and the pairing equation holds.

The models were also used to settle other points, which the properties above
delimit but no run of its own is kept for:

- The concurrency bug that the TODO of `main.go:50` suspects: with more than one
  worker, a goroutine without a break forwards the slice it is still signing
  with (`main.go:96`), and the receiver overwrites it. Without the condition
  `NoBreakAfterGap` on its arguments `committee_chain` violates
  `ChainWellFormed`; with it, no schedule does, for any number of workers
  (`CreatesWellFormedChain`).
- The PoPoS server derives its genesis committee from another seed than the
  verifier does (`prover/router.ts:52`, `verifier-store.ts:27`). The check that is
  left for a lie at period 0 then fails for both provers, and whoever comes
  first loses. All runs let verifier and honest provers agree on the genesis.
- A range with too few trees makes `verify` read past its end
  (`merkle-mountain-range.ts:75`): one short prover stops the sync of everybody.
  `superlight` counts that exception with those of the network.
- In the counting scheme the slots that pad a keyset count like signers
  (`CountingSound` sums over all rows but the last). Nobody can sign for the
  padding key, whose discrete logarithm is unknown, so it is the aggregate
  signature that rules them out. The last slot, which a comment says is (0,0)
  (`cssv/src/keyset.rs:24`), holds the padding key, too; no constraint sees it. The count is also compared in 32 bits only.
- The public bitmask of a simple or a packed proof is assumed to be as long as the
  keyset; the verifier knows only the size of the domain. Bitmasks are those that
  `from_bits` builds: a deserialised one may have ones in its padding, as a TODO
  says (`cssv/src/bitmask.rs:61`), which `count_ones` would count towards the
  quorum (`recursive.rs:197`). The helper of `recursive_light_client` sends none such.
- A first save that stops after the last chain file and before `nextk0.gob`
  leaves a chain that later starts serve, and a key file that is never written
  although the tester needs a copy of it (`src/readme.md:163`).
- `RangesFit` does not tell a range that is rejected from one on which `verify`
  reads past the peaks.
- When no break is left at or after the client's epoch, `update` leaves `first` at
  its zero value and answers, without error, with all breaks from genesis. No
  client accepts that: the exception in `AcceptedExactly`. So a light client can
  only ever move to the end of a chain that still has a break ahead of it.
- `TestUpdateMultiRPC` expects the key one quorum too old (`main_test.go:81`):
  its formula floors 64/5 where the number of breaks is a ceiling;
  `TestUpdateRedundantRPC` (9 epochs, period 2) happens to agree.
- A stored chain shadows the length in the binary, contrary to
  `src/readme.md:160`: what `ChainNeverReplaced` promises, seen from the other side.
- The superlight client discards all winners of a root with the first of them:
  when that one is a server that is honest, but has restarted with its *longer*
  chain, its leaf no longer fits its range, a liar takes the place of all honest
  provers that have been met, and none is left to "defeat this prover later"
  (`popos/.../client/superlight-client.ts:117-118`). Servers come to have longer
  chains than they serve when the benchmark configures them
  (`evaluation/baselines/popos/implementation/benchmark/utils.ts:33-35`). Under
  `Spec`, without `HonestStay`, the deployments of `superlight` violate
  `KeepsPromise` and `OnlyNetworkErrors`; `FirstDifference` and `Terminates` still hold.
- The optimistic client trusts its first remaining prover with the latest
  committee (as its TODO says); and a dishonest server that was never configured
  lies just there. `optimistic_client` starts with configured provers, which do
  not change: neither that lie nor a change during its sync is caught by it.

### Fairness

`light_client` assumes that the node's handler runs (`WF(Serve)`) and that a
client with an answer goes on (`WF(Accept)`, `WF(Reject)`, `WF(Panic)`): Go runs
runnable goroutines. Nothing makes a client start an update, and nothing
prevents the transport from failing. `CommitteeChain` and `AggregateSignatures`
assume weak fairness of each goroutine, for the same reason. `FullNodeStore` has
no liveness property and assumes no fairness: the process may stop for ever.

The PoPoS clients assume `WF(Step)`: a promise that is settled runs its
continuation, and each request is answered or fails, because the client limits
both its time and its repetitions. Nothing makes a prover change; `StayingSpec` has
the same fairness as `Spec`. The Merkle run
has no liveness property.

`recursive_light_client` assumes `WF(Next)`: `main` is one thread that nothing
but its end stops, and faults are bounded in each era. `apk_protocol` and
`apk_constraints` have no liveness properties.

Deadlock checking is on in all other runs; `Returned` (`Done` in the PoPoS
clients) is the stutter of a function that has returned. It is off in
`apk_protocol`, which ends with a verdict, and in `apk_constraints`, where a
prover may have filled in a trace that goes no further.

## 4. The proofs

The proof modules are checked by TLAPS with no assumption but the named ones of
the modules they are about, which TLC evaluates in the runs:

| Assumption | Says | Because |
|---|---|---|
| `QuorumAssumption` | a quorum has members | the quorum size is a positive constant |
| `ProversAssumption` (LightClient) | the node holds well-formed chains | `CreatesWellFormedChain` proves it of `newTestProver` |
| `ArgsAssumption`, `WorkersAssumption`, `BatchAssumption` (CommitteeChain) | lengths, periods, workers and batch are positive | they are constants or `1 << i` in the source |
| `GapAssumption` (CommitteeChain) | no worker without a break precedes one with a break | trivially so for the source's n = 1; false calls are the bug of `main.go:50` (section 3) |
| `LenAssumption`, `CPUAssumption` (AggregateSignatures) | bounds are numbers, there is a CPU | `runtime.NumCPU` |
| `StoreAssumption` (FullNodeStore) | `save` does not slice past the end | the panic of `main.go:191`, a known hazard (section 5) |
| `LargestAssumption` (FullNodeStore) | one length takes the most files | a length is a Go `int`, so there are finitely many |
| `GenesisAssumption`, `NAssumption`, `BatchAssumption` (PoPoS clients) | client and honest chain agree on the genesis, there is a prover, a batch is positive | configuration; see the seeds in section 3 |
| `DeploymentsAssumption` (PoposSuperlight) | degrees are 2 or more; every prover is as its server started or as `/config` left it; one is honest and of the size the client expects | the source's own assumption and what a server can be |
| `HonestStay` (in `StayingSpec` of PoposSuperlight) | no honest prover of the expected size restarts with a longer chain during the sync | not justified by the code: section 3 says what such a restart does |
| `DeploymentsAssumption`, `Configured` (PoposOptimistic) | all provers are configured for the size and one is honest; a dishonest one deviates before the latest period | the source's own assumption and `/config`; section 3 says what a prover that was never configured does |
| `ServersAssumption` (PoposSequential) | all servers reach the current period, one is honest | the source's own assumption; used by `SequentialFindsHonest` alone |
| `BoundsAssumption` (MCMerkleMountainRange) | the bounds on leaves and degree are numbers | a range has finitely many leaves; how many does not matter |
| `None...`, `NoCommittee...`, `NoUpdateAssumption` | what stands for undefined or null is no value | |
| `SizesAssumption`, `ErasAssumption` (RecursiveLightClient) | sets have members, there is an era | constants of the example |
| `LimbAssumption`, `StatementsAssumption` (ApkProtocol) | limbs have bits, a bitmask is a sequence of bits | `u64` and `&[bool]` |

They hold for every value of the constants within those: every chain, length,
period, quorum, number of workers, CPUs, leaves, provers, eras, faults, fields,
challenges and widths of limbs.

| Theorem | States | Run that checks it on small instances |
|---|---|---|
| `Invariance` | `Spec => []IInv` | |
| `TypeCorrect` | `Spec => []TypeOK` | |
| `ClientSafe` | `Spec => []ClientInForce` | `light_client` |
| `LimitsUnchanged` | `Spec => LimitsStable` | `light_client` |
| `AcceptsExactly` | `Spec => []AcceptedExactly` | `light_client` |
| `Refinement` | `Spec => ImplementsAbstract` | `light_client` |
| `CreationInvariance` | `Spec => []IInv` of CommitteeChain | |
| `SlotsSignInForce` | `Spec => []SlotInForce` | `committee_chain` |
| `SlicesPrivate` | `Spec => []OverwrittenSliceIsPrivate` | `committee_chain` |
| `CreatesWellFormedChain` | `Spec => []ChainWellFormed` | `committee_chain` |
| `AggregationInvariance` | `Spec => []IInv` of AggregateSignatures | |
| `EachExactlyOnce` | `Spec => []EachOnce` | `aggregate_signatures` |
| `BadInputsStayContained` | `Spec => []BadInputsContained` | `aggregate_signatures` |
| `StoreInvariance` | `Spec => []IInv` of FullNodeStore | |
| `ServesOneWholeChain` | `Spec => []ServesWholeChain` | `full_node_store` |
| `SavedChainAlwaysLoads` | `Spec => []SavedChainLoads` | `full_node_store` |
| `StoredChainNeverReplaced` | `Spec => ChainNeverReplaced` | `full_node_store` |
| `RangesAlwaysFit` | `Spec => []RangesFit` | `merkle_mountain_range` |
| `ProofsAlwaysFit` | `Spec => []ProofsFit` | `merkle_mountain_range` |
| `SuperlightInvariance` | `StayingSpec => []IInv` of PoposSuperlight | |
| `SuperlightFirstDifference` | `StayingSpec => []FirstDifference` | `superlight` |
| `SuperlightOnlyNetworkErrors` | `StayingSpec => []OnlyNetworkErrors` | `superlight` |
| `SuperlightRefinement` | `StayingSpec => KeepsPromise` | `superlight` |
| `SequentialInvariance` | `Spec => []IInv` of PoposSequential | |
| `SequentialTypeCorrect` | `Spec => []TypeOK` of PoposSequential | |
| `SequentialSafe` | `Spec => []AcceptedIsHonest` | `sequential_client` |
| `SequentialRefinement` | `Spec => KeepsPromise` | `sequential_client` |
| `SequentialFindsHonest` | `Spec => []FindsHonest` | `sequential_client` |
| `OptimisticInvariance` | `Spec => []IInv` of PoposOptimistic | |
| `LastHashAlwaysHonest` | `Spec => []LastHashIsHonest` | `optimistic_client` |
| `OptimisticRefinement` | `Spec => KeepsPromise` | `optimistic_client` |
| `StaysInStep` | `Spec => []InStep` of RecursiveLightClient | `recursive_light_client` |
| `FollowsChain` | `Spec => ClientFollowsChain` | `recursive_light_client` |
| `PanicNeedsFault` | `Spec => []PanicsOnlyOnFaults` | `recursive_light_client` |
| `ProtocolInvariance` | `ProtocolSpec => []ProtocolIInv` of ApkProtocol | |
| `ChallengesAlwaysBind` | `ProtocolSpec => []ChallengesBind` | `apk_protocol` |
| `ChallengesAlwaysAgree` | `ProtocolSpec => []ChallengesAgree`, a part of `ChallengesBind` | `apk_protocol` |
| `BitmaskAlwaysFaithful` | `ProtocolSpec => []BitmaskFaithful` | `apk_protocol` |

**The light client.** `ClientInForce` is not inductive: the answer the
client will accept was computed earlier, from an epoch sent even earlier.
`IInv` adds that a request in flight carries the client's present epoch, that
an answer is the node's `Update` for that epoch and some limit within the chain,
and that limits lie within the chain, which makes clamping the identity. Then an
accepted update moves to the epoch after the limit, and `LastBreakCounts` shows
that the last key sent is that of the quorum in force there.

**The verification equation.** `AcceptsExactly` needs to know when two formal
sums agree. Forward: if there is a break ahead, each segment between
consecutive breaks telescopes: a member of the segment's quorum signed every
epoch of it, so inner points cancel and only the two ends stay, which is what
`SegmentHash` pairs (`SigningInterval`, `Telescopes`). Backward: without a break
ahead the answer names all breaks from genesis while the client's own key is
that of a later quorum, and there is a point with a non-zero coefficient on one
side only (`NoBreakRejected`); likewise for an epoch beyond the end
(`PastEndRejected`).

**Refinement.** `QuorumAtInForce` shows that the CHOOSE in the mapping picks the
quorum in force (it is unique, `InForceUnique`), and each action maps to
`Advance`, `Restart` or a stutter.

**Creating the chain.** The workers share slices by reference, so the invariant
has to say who holds what. A worker's slice is the copy that the last worker
before it with a break has sent, passed on by those in between (`Lent`,
`InHands`); the elements of that slice are as far along as the worker's own
signatures (`Held`), the private copies are the quorums' keys (`Drawn`), and what
a channel holds is what the next worker needs and has not yet taken
(`InChannel`). `Exclusive` is where `GapAssumption` is needed: the slice of a
worker with a break is in no other worker's hands, so overwriting it slot by slot
disturbs nobody. The rest is the arithmetic of intervals: `Owner` finds the
worker of each epoch (the intervals meet, with and without leftover epochs),
`TurnInForce` and `SignedAsExpected` say that counting breaks gives the quorum
in force and that its signatures are those a well-formed chain has. At the end
all workers have exited (`AllExited`), every epoch is behind its owner, and
`StoredSoFar` makes the chain well formed.

**AggregateSignatures.** The goroutines' chunks are disjoint and cover the
inputs (`OneChunk`, `SomeChunk`). `PartialSums` counts, for each goroutine and
input, the input itself and the undecodable ones after it for which `temp` still
held it (`Repeats`); `LastDecoded` says which input that is. `SumOfDelivered`
and `ReceivedExited` tie the caller's sum to the goroutines that have exited. With
all inputs decodable nothing repeats (`EachExactlyOnce`); otherwise what repeats
lies in the chunk of its source (`BadInputsStayContained`).

**Storing the chain.** There is one chain `p` that all files on disk are of
(`OfChain`), that the node holds or is saving (`NodeOf`), and of which, once a
save has succeeded, all files are whole. While `save` runs exactly the files
before its step are whole (`Saving`). A new chain is only created when no file is
found, so no file ever gets a second author. Loading concatenates whole parts of
`p` and gives back all of `p`: `LoadedIsChain`, by induction over the files, so
what is served is as long as what was created.

**Merkle trees and ranges.** Every definition here is recursive, so the proofs
begin with what the recursions compute: powers, the logarithm between two of
them, the sizes of the trees, their offsets, layers of digests. A size is the
largest power that fits, so the sizes determine the number of leaves
(`SizesDetermine`): that is `RangesAlwaysFit`. For `ProofsAlwaysFit`, a leaf's
ancestor on a layer is found by dividing, and dividing twice is dividing by the
product (`QuotientTwice`), so the position that the client takes modulo the
degree is the one the prover cut the siblings out at. Upwards, the client
computes the ancestors (`ProofVerifies`). Downwards, since a digest has one
preimage, a computed value that is a node gives away the node below it and its
siblings (`StepDown`, `WayDown`); a proof that is too long would make a leaf a
digest, and one too short a digest a leaf (`VerifiedProof`). Nothing is assumed
of the proof but that it has siblings, one fewer than the degree, for some number
of layers.

**The superlight client.** Its theorems hold for every number of provers, size
and degree, however many provers change and whatever the dishonest ones hold. A
client never sees leaves, only peaks, yet `FirstDifference` speaks of leaves. The
link is `Committed`: as digests have one preimage, the peaks of a range that
passed `verify` determine its leaves, so each player is committed to a sequence,
`Leaves1` and `Leaves2`, even if its server has changed since and answers with
something else. They are about `StayingSpec`: an honest prover of the expected
size keeps it, all others may change. `IInv` has three parts. `ProversAre` says what
a prover is and may become (`Ever`), and that an honest one of the expected size
remains (`Fits`). `CacheServed` says that what the client holds, ranges aside, was
the answer of something its prover was when it took part in a game (`CanBe`): an honest one
was of the expected size then, and still is what it was. Honest provers of other
sizes have no part in games (`Plays`), as their ranges do not verify; one may
come to have the expected size after it was asked for its range, too late for
the tournament. `Core` follows the sync, stage by stage: there is an honest prover
of the expected size that is among the infos or has still to be asked, and of
those still to be asked nothing is cached (`Collecting`); a
winner that an honest participant has met is honest (`Fighting`); the nodes a
game compares are at the same place of the same tree of both ranges, they differ,
and all leaves before them agree (`Bisecting`, whose step is `ChildrenCompared`:
two different digests have children, of which there is a first that differs);
the leaf that is judged is the first difference, the committees shown are those
of the two ranges, and `is1Correct` is true whenever the winner is honest
(`Judging`). An honest player wins the judgement because the committee before the
first difference is honest for both, and no update it has signed announces
another one than the next honest committee. After the tournament an honest prover
has been met, so the winner is honest (`Outcome`), and every answer that could
make the client throw something other than a network error contradicts what the
invariant says of the player it came from.

**The sequential client.** Its safety theorems hold for every number of provers, batch
size and set of deployments, honest provers or not, whatever changes they go
through. `AcceptedIsHonest` alone is not inductive,
because the client may verify an update it cached long ago, perhaps from a
prover that has changed since. `IInv` adds `CacheFollows`: every cached update of
a period announces the committee of the next period of the chain whose
committee signed it. `UpdatesFollow` shows this for what a store answers,
`HeldFollows` for what stays of it when the answer is shorter than the batch.
An update that the honest committee has signed then announces an honest one.
`SequentialFindsHonest` assumes an honest server, too. `FInv` adds that all
servers still reach the current period (`ServersReach`; a change configures them
for it or gives them their whole chain), that an honest one has not been passed
(`HonestAhead`), and that no update the client is going to check is missing, and
none it has from an honest server is another chain's (`CacheServed`), whatever
that server was configured to when it answered.

**The optimistic client.** Of the provers that are left, all honest ones are
still there (`HonestLeft`), with the hash they have for the period, and the
cache holds nothing but what a prover has (`CacheTrue`). During a tournament
`HonestWin` says that of the provers met so far those with the honest hash are
the winners if there is one. `Fight` carries through a fight that the committee it
starts from is honest, so that a prover is found correct exactly when its hash
is honest (`UpdateOf`): two that differ are never both correct. A dishonest
prover deviates before the latest period, so who is left at the end is honest
(`LatestHonest`), and its committee is the one that `KeepsPromise` wants.

**The recursive light client.** Its theorems hold for every size of the sets,
number of eras and number of faults. `InStep` is not inductive: that the
commitment the client accepts is the new set's has to be known of every approval
since it was issued, through losses and duplicates. `IInv` adds that the cache is
empty or holds the new set and every approval is for it (`IssuedInOrder`), that
what reaches the helper was issued and finds the helper where the client is
(`DeliveredWasIssued`), and that the statement in flight is for the new set, by
validators that have signed it (`StatementIsSigned`). The bitmask of an accepted
statement is then a set of signers of the next set, as large as a quorum; that
is the step to `Advance`.

`PanicNeedsFault` is about the same process with another invariant, `PInv`: the era's
quorum has approved and no one else (`IssuedByQuorum`), and the statement is
made of what the helper has (`StatementOfApprovals`). If the approvals that have
reached the helper are those of the era, in any order, the actual signers are the
quorum, each signature occurs once, and every assertion holds
(`UnharmedIsAccepted`).

**The transcripts of aggregate key proofs.** `ChallengesBind` is about
what the labels in a transcript are and in which order, whatever is computed in
between; so the theorems hold for every field, scheme, statement and challenge,
and no fact about polynomials is used. `InTune` says that after each round the prover's
transcript is the very one that the verifier will put together from public input
and proof (`restored_r`, ..., `restored_nu`), and that the challenges in `drawn`
were drawn at the earlier ones: later rounds extend the proof and leave what these
are made of alone. `RestoredSays` counts what has been said in each. The verifier
then asks four questions that have all been answered before.

**Bitmasks.** `LimbHasBits` follows the fold of `bits_to_limb` from the last bit:
shifting right undoes the shifts to the left, as dividing twice is dividing by
the product. Bits and places of limbs correspond one to one (`PlacesAre`), so that
unpacking gives back what was packed (`RoundTrip`), and the padding, which is
zero, adds nothing to the number of ones (`OnesCounted`).

**Induction.** The library's induction theorems take an operator and cannot be
used, but its well-foundedness theorem speaks of sets. `SetInduction` derives
from it that a set of numbers with 0, closed under successors, is `Nat`. That is
how `ChunksMonotone`, `SomeChunk`, `LoadedIsChain` and the lemmas of the Merkle
ranges and of the bitmasks are proved, and, as `ConcatenatedDef`, `Recursion` and
the lemmas named `...Solved`, that a recursive function is what its equation says; `Owner` uses a least element
directly.

**Only model-checked.** Liveness (`CallCompletes`, `Terminates`, `AllDelivered`),
which the prover does not reach. Of the proofs of aggregate keys, what depends on
the algebra: `HonestProofAccepted`, `SrsSuffices` and `EvaluationsAgree` need that interpolation, division and the transforms over
domains are what they are in every field, by induction over the coefficients of
polynomials modulo P; `SimpleSound`, `PackedSound` and `CountingSound` need that
the curve's addition is associative, that G1 is a subgroup without H, and that a
polynomial with more roots than its degree is zero. None of this is in the
library; the runs compute it in the field of 257 elements.

## 5. What is not modelled, and the plan

Left out for good: drawing keys and nonces (fresh symbols here), timing and
logging, `Dummy`, plots, the beacon-chain store of PoPoS (a third-party library's
data). Of CSSV: `endo.rs` and the subgroup checks of `validate_evaluations`
(`verifier.rs:178`), which concern the curve of the commitments, and commitments
are polynomials here; `fsrng.rs`, which stretches a transcript to the random
coefficient two openings are batched with (`verifier.rs:172`), while the model
verifies the two separately; `mipp` and the benchmarks; and domains of one row
(`log_n` = 0, no validator), which arkworks has no roots of unity to speak of for.

Known hazards that no run covers: with many more files than epochs per file
`save` panics (`main.go:191`, excluded by `StoreAssumption`); an interrupted first
save is never repaired (`main.go:379`); a server's configuration is shared by all
clients (`router.ts:215`), and it answers 400, which a client caches, until its
deferred initialisation is done (`router.ts:114`); a restarted first prover can
make the optimistic client throw (`optimistic-light-client.ts:29`).

Planned, in this order:

1. *Encodings*, as operators with round trips; `marshal.go:103` returns the
   length of a signature whether or not it could be decoded.
2. *PoPoS.* Restarts during the sync of the optimistic client, and a client that
   starts while a server still answers 400 to everything.
3. *Proofs.* The inductions over polynomials that `ChunksAggregate` and
   `SrsSuffices` need.
