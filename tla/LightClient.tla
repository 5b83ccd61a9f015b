---------------------------- MODULE LightClient ----------------------------
(***************************************************************************)
(* A light client (implementation/lightclient.go) that updates over RPC    *)
(* from a full node (evaluation/full_node/main.go): the client's Update is *)
(* a request, the node's answer, and the client's check of that answer,    *)
(* interleaved with transport failures and fresh clients.                  *)
(***************************************************************************)
EXTENDS TestProver

CONSTANT Provers     \* the chains the node may hold

ASSUME ProversAssumption == \A p \in Provers : WellFormed(p)

VARIABLES
  prover,    \* the node's testProver; the RPCs only read it
  limits,    \* limitedProver.limit of each namespace, a shared *big.Int
  lc,        \* the LightClient: Epoch and QuorumApk
  call       \* the Update in progress and where it stands

vars == <<prover, limits, lc, call>>

Idle == [phase |-> "idle"]

NewLightClient(genesisQuorumApk) == [Epoch |-> 1, QuorumApk |-> genesisQuorumApk]

\* startRPC gives every namespace its own limit.
StartRPC(p) == [i \in Namespaces(p) |-> Limit(i)]

Init ==
  /\ prover \in Provers
  /\ limits = StartRPC(prover)
  /\ lc = NewLightClient(prover.GenesisApk)
  /\ call = Idle

\* A fresh client, as the tester creates for every request; also what a user
\* can do after a crash, since the client's state is not persisted.
FreshClient ==
  /\ call.phase \in {"idle", "panicked"}
  /\ lc' = NewLightClient(prover.GenesisApk)
  /\ call' = Idle
  /\ UNCHANGED <<prover, limits>>

\* lc.Update(prover): the call to prover.Update(lc.Epoch), over the RPC
\* UpdateMulti (withPrecomp) or UpdateRedundant of one namespace.
Request(ns, withPrecomp) ==
  /\ call.phase = "idle"
  /\ call' = [phase |-> "requested", ns |-> ns, withPrecomp |-> withPrecomp,
              start |-> lc.Epoch]
  /\ UNCHANGED <<prover, limits, lc>>

\* The node's handler: update(withPrecomp, start, limit).
Serve ==
  /\ call.phase = "requested"
  /\ limits' = [limits EXCEPT ![call.ns] = ClampedEnd(prover, @)]
  /\ call' = [phase |-> "answered",
              pi |-> Update(prover, call.withPrecomp, call.start, limits'[call.ns])]
  /\ UNCHANGED <<prover, lc>>

\* The RPC fails; Update returns its error.
TransportError ==
  /\ call.phase = "requested"
  /\ call' = Idle
  /\ UNCHANGED <<prover, limits, lc>>

\* lc.verify(pi)
Verify(client, pi) ==
  LET apks == <<client.QuorumApk>> \o pi.NextApks
      breaks == <<client.Epoch - 1>> \o pi.Breaks
  IN  VerifyPeriods(apks, pi.Signature, breaks)

\* Variant for mutation: a client that asks again until a proof is valid.
RejectAndRetry ==
  /\ call.phase = "answered"
  /\ ~Verify(lc, call.pi)
  /\ call' = [phase |-> "requested", ns |-> 0, withPrecomp |-> TRUE, start |-> lc.Epoch]
  /\ UNCHANGED <<prover, limits, lc>>

Reject ==
  /\ call.phase = "answered"
  /\ ~Verify(lc, call.pi)
  /\ call' = Idle
  /\ UNCHANGED <<prover, limits, lc>>

\* Variants for mutation: the epoch is not moved past the end; the key is the
\* first new one instead of the last.
UpdatedWithoutIncrement(pi) ==
  [Epoch |-> pi.Breaks[Len(pi.Breaks)],
   QuorumApk |-> pi.NextApks[Len(pi.NextApks)]]
UpdatedToFirstKey(pi) ==
  [Epoch |-> pi.Breaks[Len(pi.Breaks)] + 1,
   QuorumApk |-> pi.NextApks[1]]

\* pi.NextApks[len(pi.NextApks)-1] and pi.Breaks[len(pi.Breaks)-1] + 1
Updated(pi) ==
  [Epoch |-> pi.Breaks[Len(pi.Breaks)] + 1,
   QuorumApk |-> pi.NextApks[Len(pi.NextApks)]]

Accept ==
  /\ call.phase = "answered"
  /\ Verify(lc, call.pi)
  /\ call.pi.NextApks # <<>>
  /\ lc' = Updated(call.pi)
  /\ call' = Idle
  /\ UNCHANGED <<prover, limits>>

\* The proof is valid but has no next key: indexing NextApks panics before
\* anything of the client is assigned.
Panic ==
  /\ call.phase = "answered"
  /\ Verify(lc, call.pi)
  /\ call.pi.NextApks = <<>>
  /\ call' = [phase |-> "panicked"]
  /\ UNCHANGED <<prover, limits, lc>>

Next ==
  \/ FreshClient
  \/ \E ns \in DOMAIN limits, withPrecomp \in BOOLEAN : Request(ns, withPrecomp)
  \/ Serve
  \/ TransportError
  \/ Reject
  \/ Accept
  \/ Panic

Spec == Init /\ [][Next]_vars

\* The node's goroutine for a request runs, and the client goes on with an
\* answer it has; nothing obliges a client to start an update.
Fairness == WF_vars(Serve) /\ WF_vars(Reject) /\ WF_vars(Accept) /\ WF_vars(Panic)

FairSpec == Spec /\ Fairness

-----------------------------------------------------------------------------
(* Properties                                                              *)

Epochs == 1 .. Len(prover.Signatures) + 1
QuorumKeys == {Apk(q) : q \in 0 .. Len(prover.Breaks)}

\* Every variable has the shape the code gives it; a client's epoch never
\* lies beyond the epoch after the node's last one.
TypeOK ==
  /\ prover \in Provers
  /\ limits \in [Namespaces(prover) -> Nat]
  /\ lc \in [Epoch : Epochs, QuorumApk : QuorumKeys]
  /\ call.phase \in {"idle", "requested", "answered", "panicked"}
  /\ call.phase = "requested" =>
       /\ call.ns \in DOMAIN limits
       /\ call.withPrecomp \in BOOLEAN
       /\ call.start = lc.Epoch
  /\ call.phase = "answered" =>
       /\ call.pi.NextApks \in Seq(QuorumKeys)
       /\ Len(call.pi.Breaks) = Len(call.pi.NextApks) + 1

\* lightclient.go Update: epoch and key are two assignments from two fields of
\* the proof, and they must fit together.  Whatever updates the client went
\* through, its key is that of the quorum that signs the end of its epoch.
ClientInForce ==
  \E q \in 0 .. Len(prover.Breaks) :
    InForce(prover.Breaks, q, lc.Epoch) /\ lc.QuorumApk = Apk(q)

\* VerifyPeriods against update: the client accepts the node's answer exactly
\* when it asked for an epoch up to the one after the limit and the chain
\* still has a break at or after that epoch.  In every other case the
\* pairing equation fails, although the node reported no error.
AcceptedExactly ==
  call.phase = "answered" =>
    LET end == call.pi.Breaks[Len(call.pi.Breaks)]
    IN  Verify(lc, call.pi) <=>
          /\ lc.Epoch <= end + 1
          /\ \E i \in DOMAIN prover.Breaks : prover.Breaks[i] >= lc.Epoch

\* update clamps *end, which is the namespace's own limit, shared by all its
\* requests: serving a request never changes what later requests ask for.
LimitsStable == [][UNCHANGED limits]_vars

\* Update returns, with a result or an error, or the client has panicked.
CallCompletes == call.phase \in {"requested", "answered"} ~> call.phase \in {"idle", "panicked"}

\* The client implements AbstractLightClient: every accepted update skips
\* forward to the epoch after a head of the chain, with that epoch's key.
QuorumAt ==
  [e \in Epochs |-> Apk(CHOOSE q \in 0 .. Len(prover.Breaks) : InForce(prover.Breaks, q, e))]

Abstract == INSTANCE AbstractLightClient
              WITH quorumAt <- QuorumAt, Epoch <- lc.Epoch, QuorumApk <- lc.QuorumApk

ImplementsAbstract == Abstract!Spec

\* src/readme.md: "After calling `Update()` and if the received proof is
\* valid, `QuorumApk` and `Epoch` will have been updated".
ValidProofUpdates == call.phase # "panicked"
=============================================================================
