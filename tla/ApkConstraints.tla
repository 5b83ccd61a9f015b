--------------------------- MODULE ApkConstraints ---------------------------
(***************************************************************************)
(* What the verifier's constraints leave to a prover that fills in the     *)
(* registers as it likes, row by row (bw6/src/piop).  A constraint         *)
(* polynomial is what the verifier evaluates at zeta, and it accepts,      *)
(* except for an unlucky challenge, when all of them vanish over the       *)
(* domain: here zeta goes through the domain, and phi through as many      *)
(* values as there are constraints.  A row that violates a constraint is   *)
(* given up at once, and everything is evaluated again at the end.         *)
(***************************************************************************)
EXTENDS ApkSchemes

CONSTANTS
  Keysets,
  FirstPoints, Points,     \* the partial sums the prover tries,
  BitValues,               \* and the values of the bitmask register,
  FirstValues,             \* and the first values of other registers
  BitmaskChallenges,       \* none of them a root of a difference of bitmasks
  Apks, Counts             \* claims

VARIABLES
  step, scheme, keyset,
  trace,           \* the rows of the first round
  packing,         \* the rows of the second one, in the packed scheme
  r,               \* its challenge
  public_input     \* the claim; of the simple scheme, the bitmask from the start

vars == <<step, scheme, keyset, trace, packing, r, public_input>>

n == keyset.domain

\* lagrange_evaluations at the i-th point of the domain, i from 0.
lagrange_evaluations_at_row(i) ==
  [vanishing_polynomial |-> 0,
   l_first |-> IF i = 0 THEN 1 ELSE 0,
   l_last |-> IF i = n - 1 THEN 1 ELSE 0,
   zeta_minus_omega_inv |-> (Pow(GroupGen[n], i) - GroupGenInv[n]) % P,
   zeta_omega |-> Pow(GroupGen[n], i + 1)]

\* The registers in a row, as constant polynomials.
registers_in_row(pk, row, packed) ==
  [affine_addition |->
     [polynomials |->
        [keyset |-> <<<<pk[1]>>, <<pk[2]>>>>,
         bitmask |-> <<row.bitmask>>,
         partial_sums |-> <<<<row.partial_sums[1]>>, <<row.partial_sums[2]>>>>]],
   bitmask_packing |-> [polynomials |-> <<<<packed.c>>, <<packed.acc>>>>],
   bit_counting |-> [partial_counts |-> <<row.partial_counts>>]]

padded_pks == Resize(keyset.pks, n, PaddingPk)

\* Do the constraints of a scheme hold in row i, given the next row?
ConstraintsHold(of_scheme, i, regs, next_regs, input) ==
  LET evals == evaluate_register_polynomials(of_scheme, regs, 0)
      at_row == lagrange_evaluations_at_row(i)
      w == evaluate_constraints(of_scheme, evals, input, at_row, r, n)
      linearization(phi) ==
        restore_commitment_to_linearization(of_scheme, evals, phi, at_row.zeta_minus_omega_inv,
          polynomials_to_commit1(of_scheme, next_regs), polynomials_to_commit2(of_scheme, next_regs))
  IN  \A phi \in 1 .. Len(w) : (horner_field(w, phi) + Evaluate(linearization(phi), 0)) % P = 0

not_packed == [c |-> 0, acc |-> 0]

Bitmasks == {from_bits(bits) : bits \in [1 .. number_of_keys(keyset) -> BOOLEAN]}

-----------------------------------------------------------------------------
Init ==
  /\ step = "fill"
  /\ scheme \in Schemes
  /\ \E pks \in Keysets : keyset = new_keyset(pks)
  /\ trace = << >> /\ packing = << >> /\ r = 0
  /\ \E bitmask \in IF scheme = "simple" THEN Bitmasks ELSE {from_bits(<< >>)} :
       public_input = [apk |-> Identity, bitmask |-> bitmask, count |-> 0]

\* The simple scheme has the bits of the public bitmask.
BitsOffered ==
  IF scheme # "simple" THEN BitValues
  ELSE {bitmask_register(n, public_input.bitmask)[Len(trace) + 1]}

CountsOffered ==
  IF scheme # "counting" THEN {0}
  ELSE IF trace = << >> THEN FirstValues
  ELSE {trace[Len(trace)].partial_counts,
        (trace[Len(trace)].partial_counts + 1) % P,
        (trace[Len(trace)].partial_counts + trace[Len(trace)].bitmask) % P}

Row(b, point, count) == [bitmask |-> b, partial_sums |-> point, partial_counts |-> count]

\* The bit, the partial sum and the partial count of the next row.
FillRow ==
  LET i == Len(trace) - 1
      pks == padded_pks
      follows(point, count) ==
        ConstraintsHold(IF scheme = "packed" THEN "simple" ELSE scheme, i,
                        registers_in_row(pks[i + 1], trace[i + 1], not_packed),
                        registers_in_row(pks[i + 2], Row(0, point, count), not_packed),
                        public_input)
  IN  /\ step = "fill" /\ Len(trace) < n
      /\ \E point \in IF trace = << >> THEN FirstPoints ELSE Points, count \in CountsOffered :
           /\ trace # << >> => follows(point, count)
           /\ \E b \in BitsOffered : trace' = Append(trace, Row(b, point, count))
      /\ UNCHANGED <<step, scheme, keyset, packing, r, public_input>>

\* The challenge r comes once the bitmask has been committed to.
AggregateBitmask ==
  /\ step = "fill" /\ Len(trace) = n
  /\ IF scheme = "packed" THEN r' \in BitmaskChallenges /\ step' = "pack"
                          ELSE r' = r /\ step' = "claim"
  /\ UNCHANGED <<scheme, keyset, trace, packing, public_input>>

\* The mask and the partial inner product of the next row.
PackRow ==
  LET i == Len(packing) - 1
      before == packing[i + 1]
      pks == padded_pks
      rows ==
        IF packing = << >> THEN [c : FirstValues, acc : FirstValues]
        ELSE [c : {before.c, (2 * before.c) % P, (mask_factor_at(r, 1) * before.c) % P},
              acc : {before.acc, (before.acc + before.c) % P,
                     (before.acc + trace[i + 1].bitmask * before.c) % P}]
      follows(row) ==
        ConstraintsHold("packed", i,
                        registers_in_row(pks[i + 1], trace[i + 1], before),
                        registers_in_row(pks[i + 2], trace[i + 2], row),
                        public_input)
  IN  /\ step = "pack" /\ Len(packing) < n
      /\ \E row \in rows :
           /\ packing # << >> => follows(row)
           /\ packing' = Append(packing, row)
           /\ step' = IF Len(packing') = n THEN "claim" ELSE "pack"
      /\ UNCHANGED <<scheme, keyset, trace, r, public_input>>

\* An aggregate key, and a bitmask or a number of signers, with which all
\* constraints hold; those of the last row depend on them.
Claim ==
  LET pks == padded_pks
      in_row(i) == registers_in_row(pks[i + 1], trace[i + 1],
                                    IF scheme = "packed" THEN packing[i + 1] ELSE not_packed)
      holds(i, input) == ConstraintsHold(scheme, i, in_row(i), in_row((i + 1) % n), input)
  IN  /\ step = "claim"
      /\ \E apk \in Apks,
            bitmask \in IF scheme = "packed" THEN Bitmasks ELSE {public_input.bitmask},
            count \in IF scheme = "counting" THEN Counts ELSE {0} :
           LET input == [apk |-> apk, bitmask |-> bitmask, count |-> count]
           IN  /\ scheme = "counting" => count > 0
               /\ holds(n - 1, input) /\ \A i \in 0 .. n - 2 : holds(i, input)
               /\ public_input' = input
      /\ step' = "accepted"
      /\ UNCHANGED <<scheme, keyset, trace, packing, r>>

Next == FillRow \/ AggregateBitmask \/ PackRow \/ Claim

Spec == Init /\ [][Next]_vars

-----------------------------------------------------------------------------
SumOver(rows) == SumPoints([k \in 1 .. n |-> IF k \in rows THEN padded_pks[k] ELSE Identity])

\* Whatever sums the prover fills in, the simple scheme accepts no other
\* key than the sum of those with a public bit: the incomplete addition law
\* of the constraint never meets two points with the same abscissa, thanks
\* to H (lib.rs:101), and the first and the last row are tied to the claim.
SimpleSound ==
  step = "accepted" /\ scheme = "simple" =>
    public_input.apk = aggregate(keyset, to_bits(public_input.bitmask))

\* Nor does the packed scheme, where the prover commits to the bits itself:
\* they are those of the public bitmask, in every chunk, and zero beyond.
PackedSound ==
  step = "accepted" /\ scheme = "packed" =>
    /\ [k \in 1 .. n |-> trace[k].bitmask] = bitmask_register(n, public_input.bitmask)
    /\ public_input.apk = aggregate(keyset, to_bits(public_input.bitmask))

\* The counting scheme tells that so many keys are in the sum, none twice,
\* and not the slot in the last row, which no addition takes into account
\* (bit_counting.rs:97).  The count is that of its 32 bits (verifier.rs:98).
CountingSound ==
  step = "accepted" /\ scheme = "counting" =>
    \E rows \in SUBSET (1 .. n - 1) :
      /\ Cardinality(rows) = public_input.count % 2 ^ CountBits
      /\ public_input.apk = SumOver(rows)
=============================================================================
