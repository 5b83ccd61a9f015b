----------------------------- MODULE ApkSchemes -----------------------------
(***************************************************************************)
(* The three schemes of apk proofs (bw6/src/piop/basic.rs, packed.rs and   *)
(* counting.rs): which registers each commits to, in which round, which    *)
(* polynomials it opens, its constraints, and the verifier's counterpart   *)
(* of each.  The simple scheme leaves the bitmask to the verifier, the     *)
(* packed one commits to it and proves its chunks, the counting one only   *)
(* proves how many bits are set.                                           *)
(***************************************************************************)
EXTENDS BitmaskGadgets

CONSTANT CountBits    \* 32 in the code

ASSUME CountAssumption == CountBits \in Nat /\ 2 ^ CountBits < P

Schemes == {"simple", "packed", "counting"}

\* AccountablePublicInput and CountingPublicInput
accountable_public_input(apk, bitmask) == [apk |-> apk, bitmask |-> bitmask]

counting_public_input(apk, bitmask) == [apk |-> apk, count |-> count_ones(bitmask)]

new_public_input(scheme, apk, bitmask) ==
  IF scheme = "counting" THEN counting_public_input(apk, bitmask)
                         ELSE accountable_public_input(apk, bitmask)

-----------------------------------------------------------------------------
\* BasicRegisterBuilder
basic_commit1(regs) == regs.affine_addition.polynomials.partial_sums

basic_open(regs) ==
  LET polys == regs.affine_addition.polynomials IN polys.keyset \o polys.partial_sums

basic_evaluations(evals) == evals.keyset \o evals.partial_sums

\* PackedRegisterBuilder
packed_commit1(regs) == partial_sums_and_bitmask(regs.affine_addition.polynomials)

packed_commit2(regs) == regs.bitmask_packing.polynomials

packed_open(regs) ==
  affine_addition_to_vec(regs.affine_addition.polynomials) \o regs.bitmask_packing.polynomials

packed_constraint_polynomials(regs) ==
     affine_addition_constraint_polynomials(regs.affine_addition)
  \o bitmask_packing_constraint_polynomials(regs.bitmask_packing)

packed_evaluations(evals) == affine_addition_evaluations(evals) \o <<evals.c, evals.acc>>

packed_linearized(regs, evals, zeta) ==
     affine_addition_constraints_linearized(regs.affine_addition, evals, zeta)
  \o bitmask_packing_constraints_linearized(regs.bitmask_packing)

\* CountingScheme
counting_commit1(regs) ==
     partial_sums_and_bitmask(regs.affine_addition.polynomials)
  \o <<regs.bit_counting.partial_counts>>

counting_open(regs) ==
     affine_addition_to_vec(regs.affine_addition.polynomials)
  \o <<regs.bit_counting.partial_counts>>

counting_constraint_polynomials(regs) ==
     affine_addition_constraint_polynomials(regs.affine_addition)
  \o bit_counting_constraints(regs.bit_counting)

counting_evaluations(evals) == affine_addition_evaluations(evals) \o <<evals.partial_counts>>

counting_linearized(regs, evals, zeta) ==
     affine_addition_constraints_linearized(regs.affine_addition, evals, zeta)
  \o bit_counting_constraints_lin(regs.bit_counting)

-----------------------------------------------------------------------------
\* ProverProtocol, by scheme.

init_registers(scheme, keyset, bitmask) ==
  LET affine_addition == affine_addition_registers(keyset, bitmask)
  IN  IF scheme = "counting"
      THEN [affine_addition |-> affine_addition,
            bit_counting |-> bit_counting_registers(keyset.domain, bitmask)]
      ELSE [affine_addition |-> affine_addition]

polynomials_to_commit1(scheme, regs) ==
  CASE scheme = "simple" -> basic_commit1(regs)
    [] scheme = "packed" -> packed_commit1(regs)
    [] scheme = "counting" -> counting_commit1(regs)

\* The second round of the packed scheme, with the challenge r.
registers_of_round2(scheme, regs, bitmask, r) ==
  IF scheme = "packed"
  THEN [affine_addition |-> regs.affine_addition,
        bitmask_packing |-> bitmask_packing_registers(regs.affine_addition.n, bitmask, r)]
  ELSE regs

polynomials_to_commit2(scheme, regs) ==
  IF scheme = "packed" THEN packed_commit2(regs) ELSE << >>

polynomials_to_open(scheme, regs) ==
  CASE scheme = "simple" -> basic_open(regs)
    [] scheme = "packed" -> packed_open(regs)
    [] scheme = "counting" -> counting_open(regs)

constraint_polynomials(scheme, regs) ==
  CASE scheme = "simple" -> affine_addition_constraint_polynomials(regs.affine_addition)
    [] scheme = "packed" -> packed_constraint_polynomials(regs)
    [] scheme = "counting" -> counting_constraint_polynomials(regs)

\* The quotient and the remainder, which the prover asserts to be zero.
compute_quotient_polynomial(scheme, regs, phi) ==
  compute_quotient(randomize(phi, constraint_polynomials(scheme, regs)), regs.affine_addition.n)

\* The values of all the registers at zeta.
evaluate_register_polynomials(scheme, regs, zeta) ==
  LET affine == evaluate_affine_addition(regs.affine_addition.polynomials, zeta)
      at(poly) == Evaluate(poly, zeta)
  IN  CASE scheme = "simple" -> affine
        [] scheme = "packed" ->
             [keyset |-> affine.keyset, bitmask |-> affine.bitmask,
              partial_sums |-> affine.partial_sums,
              c |-> at(regs.bitmask_packing.polynomials[1]),
              acc |-> at(regs.bitmask_packing.polynomials[2])]
        [] scheme = "counting" ->
             [keyset |-> affine.keyset, bitmask |-> affine.bitmask,
              partial_sums |-> affine.partial_sums,
              partial_counts |-> at(regs.bit_counting.partial_counts)]

\* What of them is in the proof, in the order of the polynomials opened.
evaluations_as_vec(scheme, evals) ==
  CASE scheme = "simple" -> basic_evaluations(evals)
    [] scheme = "packed" -> packed_evaluations(evals)
    [] scheme = "counting" -> counting_evaluations(evals)

linearization_polynomial(scheme, regs, evals, phi, zeta) ==
  randomize(phi,
    CASE scheme = "simple" ->
           affine_addition_constraints_linearized(regs.affine_addition, evals, zeta)
      [] scheme = "packed" -> packed_linearized(regs, evals, zeta)
      [] scheme = "counting" -> counting_linearized(regs, evals, zeta))

-----------------------------------------------------------------------------
\* VerifierProtocol, by scheme.

POLYS_OPENED_AT_ZETA == [simple |-> 5, packed |-> 8, counting |-> 7]

\* What multiplies each committed register in the linearization, by the
\* same names as its values.
packed_restore(evals, phi, zeta_minus_omega_inv) ==
  [partial_sums |-> restore_affine_addition_linearization(evals, phi, zeta_minus_omega_inv),
   acc |-> powers(phi, 6)[6],
   c |-> powers(phi, 6)[7]]

counting_restore(evals, phi, zeta_minus_omega_inv) ==
  [partial_sums |-> restore_affine_addition_linearization(evals, phi, zeta_minus_omega_inv),
   partial_counts |-> powers(phi, 6)[6]]

\* The commitment to the linearization polynomial, from those of the proof.
restore_commitment_to_linearization(scheme, evals, phi, zeta_minus_omega_inv, comms1, comms2) ==
  CASE scheme = "simple" ->
         LinearCombination(
           restore_affine_addition_linearization(evals, phi, zeta_minus_omega_inv), comms1)
    [] scheme = "packed" ->
         LET factor == packed_restore(evals, phi, zeta_minus_omega_inv)
         IN  LinearCombination(factor.partial_sums \o <<factor.acc, factor.c>>,
                               <<comms1[2], comms1[3], comms2[2], comms2[1]>>)
    [] scheme = "counting" ->
         LET factor == counting_restore(evals, phi, zeta_minus_omega_inv)
         IN  LinearCombination(factor.partial_sums \o <<factor.partial_counts>>,
                               <<comms1[2], comms1[3], comms1[4]>>)

packed_evaluate_constraints(evals, public_input, at_zeta, r, n) ==
     evaluate_affine_addition_constraints(evals, public_input.apk, at_zeta)
  \o evaluate_bitmask_packing_constraints(evals, at_zeta, r, public_input.bitmask, n)

counting_evaluate_constraints(evals, public_input, at_zeta) ==
     evaluate_affine_addition_constraints(evals, public_input.apk, at_zeta)
  \o evaluate_bit_counting_constraints(
       evals.partial_counts, public_input.count % 2 ^ CountBits, evals.bitmask, at_zeta.l_last)

evaluate_constraints(scheme, evals, public_input, at_zeta, r, n) ==
  CASE scheme = "simple" ->
         evaluate_affine_addition_constraints(evals, public_input.apk, at_zeta)
    [] scheme = "packed" -> packed_evaluate_constraints(evals, public_input, at_zeta, r, n)
    [] scheme = "counting" -> counting_evaluate_constraints(evals, public_input, at_zeta)
=============================================================================
