----------------------------- MODULE TestProver -----------------------------
(***************************************************************************)
(* The full node's testProver (evaluation/full_node/main.go): the chain it *)
(* holds and how it answers a light client update request.                 *)
(*                                                                         *)
(* A prover is a record with the source's fields.  Breaks[i] is the epoch  *)
(* of the i-th break point, Apks[i] the quorum that takes over after it,   *)
(* Signatures[e][j] what the j-th member of the quorum in force at epoch e *)
(* signed, Multisigs[e] the formal sum of Signatures[e].  A member's key   *)
(* is <<q, j>>: slot j of the q-th quorum, quorum 0 being the genesis one. *)
(***************************************************************************)
EXTENDS TransitiveSig

CONSTANT Quorum      \* members of a quorum, 86 of 128 in main()

ASSUME QuorumAssumption == Quorum \in Nat \ {0}

\* The aggregate key of the q-th quorum.
Apk(q) == {<<q, j>> : j \in 1 .. Quorum}

\* Quorum q signs at the end of epoch e: break q is behind, break q+1 is not.
InForce(breaks, q, e) ==
  /\ q \in 0 .. Len(breaks)
  /\ q > 0 => breaks[q] < e
  /\ q < Len(breaks) => e <= breaks[q + 1]

\* What member j of quorum q must have signed at the end of epoch e: the
\* next quorum's key if e is break q+1, no change otherwise.
ExpectedSignature(breaks, q, j, e) ==
  IF q < Len(breaks) /\ breaks[q + 1] = e
    THEN SignBreak(<<q, j>>, e, Apk(q + 1))
    ELSE SignNoBreak(<<q, j>>, e)

\* A chain as newTestProver creates it (module CommitteeChain): breaks in
\* increasing order from epoch 1, each with the next quorum's key, and every
\* epoch signed by the quorum in force.
WellFormed(p) ==
  /\ p.Breaks \in Seq(Nat) /\ p.Breaks # <<>>
  /\ p.Breaks[1] = 1
  /\ \A i, k \in DOMAIN p.Breaks : i < k => p.Breaks[i] < p.Breaks[k]
  /\ \A i \in DOMAIN p.Breaks : p.Breaks[i] \in 1 .. Len(p.Signatures)
  /\ p.GenesisApk = Apk(0)
  /\ p.Apks = [i \in 1 .. Len(p.Breaks) |-> Apk(i)]
  /\ Len(p.Signatures) \in Nat
  /\ DOMAIN p.Signatures = 1 .. Len(p.Signatures)
  /\ Len(p.Multisigs) = Len(p.Signatures)
  /\ \A e \in DOMAIN p.Signatures :
       /\ p.Multisigs[e] = p.Signatures[e]
       /\ \E q \in 0 .. Len(p.Breaks) :
            /\ InForce(p.Breaks, q, e)
            /\ p.Signatures[e] =
                 [j \in 1 .. Quorum |-> ExpectedSignature(p.Breaks, q, j, e)]

-----------------------------------------------------------------------------
(* update(withPrecomp, start, end)                                         *)

\* The end pointer is clamped in place, so the caller's limit changes too.
ClampedEnd(p, end) == IF end > Len(p.Signatures) THEN Len(p.Signatures) ELSE end

\* The indices the search loop visits: up to the first break beyond end.
Visited(p, end) ==
  {i \in DOMAIN p.Breaks : \A k \in DOMAIN p.Breaks : k < i => p.Breaks[k] <= end}

\* Variant for mutation: the search skips a break at start itself.
FirstBreakAfterStart(p, start, end) ==
  LET Found == {i \in Visited(p, end) : p.Breaks[i] > start}
  IN  IF Found = {} THEN 1 ELSE CHOOSE i \in Found : \A k \in Found : i <= k

\* The source's `first`, plus one: the first visited break at or after start.
\* The variable keeps its zero value when there is none.
FirstBreak(p, start, end) ==
  LET Found == {i \in Visited(p, end) : p.Breaks[i] >= start}
  IN  IF Found = {} THEN 1 ELSE CHOOSE i \in Found : \A k \in Found : i <= k

\* The source's `last`: the number of breaks that are not beyond end.
LastBreak(p, end) ==
  LET Beyond == {i \in Visited(p, end) : p.Breaks[i] > end}
  IN  IF Beyond = {} THEN Len(p.Breaks) ELSE (CHOOSE i \in Beyond : TRUE) - 1

\* AggregateSignatures over the epochs start..end; with precomputation the
\* terms come from Multisigs, without from the members' own signatures.
Aggregate(p, withPrecomp, start, end) ==
  [x \in (start .. end) \X (1 .. Quorum) |->
     IF withPrecomp THEN p.Multisigs[x[1]][x[2]] ELSE p.Signatures[x[1]][x[2]]]

\* The LightClientProof that update returns; end is already clamped.
Update(p, withPrecomp, start, end) ==
  LET first == FirstBreak(p, start, end)
      last == LastBreak(p, end)
  IN  [NextApks |-> SubSeq(p.Apks, first, last),
       Breaks |-> Append(SubSeq(p.Breaks, first, last), end),
       Signature |-> Aggregate(p, withPrecomp, start, end)]

-----------------------------------------------------------------------------
(* startRPC: one namespace per chain length 2^i, i <= log2(length).        *)

Limit(i) == 2 ^ i

\* Bound: no chain here has 2^30 epochs, whose signatures alone are 96 GiB.
MaxLog == 29

\* Variant for mutation: log2 is rounded up.
NamespacesRoundedUp(p) ==
  {i \in 0 .. MaxLog : i = 0 \/ Limit(i - 1) < Len(p.Signatures)}

Namespaces(p) == {i \in 0 .. MaxLog : Limit(i) \in 1 .. Len(p.Signatures)}
=============================================================================
