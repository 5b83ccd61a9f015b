--------------------------- MODULE ValidatorChain ---------------------------
(***************************************************************************)
(* What a light client of the CSSV baseline promises, without keys, proofs *)
(* or a helper: it trusts one validator set at a time, and moves on only   *)
(* to the next set of the chain, once a quorum of the set it trusts has    *)
(* signed that one.  Sets are numbered in the order of the eras.           *)
(***************************************************************************)
EXTENDS Integers, FiniteSets

VARIABLES
  size,      \* the number of validators of every set
  trusted,   \* the validator set the client trusts
  signers    \* those of that set known to have signed the next one

vars == <<size, trusted, signers>>

Quorum(n) == (n * 2) \div 3 + 1

Init == trusted = 0 /\ signers = {}

Sign ==
  /\ signers' \in SUBSET (1 .. size)
  /\ signers \subseteq signers'
  /\ UNCHANGED <<size, trusted>>

Advance ==
  /\ Cardinality(signers) >= Quorum(size)
  /\ trusted' = trusted + 1
  /\ signers' = {}
  /\ UNCHANGED size

Next == Sign \/ Advance

Spec == Init /\ [][Next]_vars
=============================================================================
