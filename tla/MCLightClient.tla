--------------------------- MODULE MCLightClient ---------------------------
(***************************************************************************)
(* Small chains for LightClient: every increasing sequence of breaks from  *)
(* epoch 1 in a chain of at most MaxLength epochs, so that there are       *)
(* namespaces with, without and at a break, before and after the last one; *)
(* and the periodic chains of a longer length, so that a client catches up *)
(* over several namespaces.                                                *)
(***************************************************************************)
EXTENDS LightClient

CONSTANTS
  MaxLength,        \* every chain up to this length
  PeriodicLength    \* and the periodic chains of this length

\* The elements of a finite set of numbers, in increasing order.
Ascending(T) ==
  [k \in 1 .. Cardinality(T) |-> CHOOSE x \in T : Cardinality({y \in T : y <= x}) = k]

\* The increasing sequences over 1..length that start with 1.
BreaksOf(length) == {Ascending({1} \cup S) : S \in SUBSET (2 .. length)}

\* The prover of a chain with the given length and breaks.
ProverOf(length, breaks) ==
  LET Signer(e) == CHOOSE q \in 0 .. Len(breaks) : InForce(breaks, q, e)
      Signatures ==
        [e \in 1 .. length |->
           [j \in 1 .. Quorum |-> ExpectedSignature(breaks, Signer(e), j, e)]]
  IN  [GenesisApk |-> Apk(0), Breaks |-> breaks,
       Apks |-> [i \in DOMAIN breaks |-> Apk(i)],
       Signatures |-> Signatures, Multisigs |-> Signatures]

SmallProvers ==
  UNION {{ProverOf(length, b) : b \in BreaksOf(length)} : length \in 1 .. MaxLength}

\* The chain newTestProver creates for a length and a periodLength.
PeriodicProver(length, periodLength) ==
  ProverOf(length, Ascending({e \in 1 .. length : (e - 1) % periodLength = 0}))

MixedProvers ==
  SmallProvers \cup {PeriodicProver(PeriodicLength, P) : P \in 1 .. PeriodicLength}
=============================================================================
