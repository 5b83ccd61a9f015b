--------------------------- MODULE BitmaskGadgets ---------------------------
(***************************************************************************)
(* The gadgets of the packed and the counting scheme, each with its        *)
(* registers, the prover's constraint polynomials and the verifier's       *)
(* values of them: the packing of the bits into chunks, aggregated with a  *)
(* challenge r (bw6/src/piop/bitmask_packing.rs), and the count of the     *)
(* bits (bw6/src/piop/bit_counting.rs).                                    *)
(***************************************************************************)
EXTENDS AffineAddition

CONSTANT bits_in_bitmask_chunk    \* 256 in the code

ASSUME ChunkAssumption ==
  /\ bits_in_bitmask_chunk % BITS_IN_LIMB = 0
  /\ 2 ^ bits_in_bitmask_chunk <= P

limbs_in_chunk == bits_in_bitmask_chunk \div BITS_IN_LIMB

\* Both the prover and the verifier assert that.
PackingAsserts(n) == n % bits_in_bitmask_chunk = 0

\* 1, 2, 4, ..., r, 2r, 4r, ..., r^2, ...
build_multipacking_mask_register(n, chunk_size, r) ==
  Vec([k \in 1 .. n |-> (Pow(r, (k - 1) \div chunk_size) * Pow(2, (k - 1) % chunk_size)) % P])

\* 0, a_0 b_0, a_0 b_0 + a_1 b_1, ... of length n
build_partial_inner_products_register(n, a, b) ==
  Vec([k \in 1 .. n |-> Sum([j \in 1 .. k - 1 |-> a[j] * b[j]])])

bitmask_packing_registers(n, bitmask, r) ==
  LET bits == bitmask_register(n, bitmask)
      c == build_multipacking_mask_register(n, bits_in_bitmask_chunk, r)
      acc == build_partial_inner_products_register(n, bits, c)
  IN  [n |-> n,
       r |-> r,
       bitmask |-> amplify(bits, n),
       c |-> amplify(c, n), c_shifted |-> amplify(Vec(RotateLeft(c, 1)), n),
       acc |-> amplify(acc, n), acc_shifted |-> amplify(Vec(RotateLeft(acc, 1)), n),
       bitmask_chunks_aggregated |-> Sum([k \in 1 .. n |-> bits[k] * c[k]]),
       polynomials |-> <<Interpolate(c), Interpolate(acc)>>]

compute_inner_product_constraint_polynomial(registers) ==
  LET l_last == l_last_evals_over_4x[registers.n]
  IN  Interpolate(Vec([k \in 1 .. 4 * registers.n |->
        (  registers.acc_shifted[k] - registers.acc[k] - registers.bitmask[k] * registers.c[k]
         + registers.bitmask_chunks_aggregated * l_last[k]) % P]))

\* From one row to the next the mask doubles, or passes from the last bit
\* of a chunk to the first of the next one.
mask_factors(n, r) ==
  Vec(RotateLeft([k \in 1 .. n |-> IF (k - 1) % bits_in_bitmask_chunk = 0
                                   THEN (r * Inv[Pow(2, bits_in_bitmask_chunk - 1)]) % P
                                   ELSE 2], 1))

compute_multipacking_mask_constraint_polynomial(registers) ==
  LET n == registers.n
      a == amplify(mask_factors(n, registers.r), n)
      x_todo == 1 - Pow(registers.r, n \div bits_in_bitmask_chunk)
  IN  Interpolate(Vec([k \in 1 .. 4 * n |->
        (registers.c_shifted[k] - registers.c[k] * a[k]
         - x_todo * l_last_evals_over_4x[n][k]) % P]))

bitmask_packing_constraint_polynomials(registers) ==
  <<compute_inner_product_constraint_polynomial(registers),
    compute_multipacking_mask_constraint_polynomial(registers)>>

bitmask_packing_constraints_linearized(registers) ==
  <<registers.polynomials[2], registers.polynomials[1]>>

-----------------------------------------------------------------------------
\* The verifier's side: the chunks of the public bitmask, aggregated.
aggregated_bitmask(r, bitmask, n) ==
  LET chunks_in_bitmask == n \div bits_in_bitmask_chunk
      chunks == Resize(to_chunks_as_field_elements(bitmask, limbs_in_chunk), chunks_in_bitmask, 0)
      powers_of_r == powers(r, chunks_in_bitmask - 1)
  IN  Sum([j \in 1 .. chunks_in_bitmask |-> chunks[j] * powers_of_r[j]])

\* 1 in the last row of a chunk, 0 in the others, at z w; once as a
\* fraction, outside the domain, and once as a polynomial.
chunk_end_fraction(zeta_omega, n) ==
  LET pow_m == Pow(zeta_omega, n \div bits_in_bitmask_chunk)
  IN  (Inv[bits_in_bitmask_chunk] * ((Pow(pow_m, bits_in_bitmask_chunk) - 1) % P)
         * Inv[(pow_m - 1) % P]) % P

chunk_end_polynomial(zeta_omega, n) ==
  LET pow_m == Pow(zeta_omega, n \div bits_in_bitmask_chunk)
  IN  (Inv[bits_in_bitmask_chunk] * Sum(powers(pow_m, bits_in_bitmask_chunk - 1))) % P

\* The factor from one row of the mask to the next.
mask_factor_at(r, chunk_end) ==
  (2 + ((r * Inv[Pow(2, bits_in_bitmask_chunk - 1)] - 2) % P) * chunk_end) % P

\* Variant for mutation: whatever the public bitmask is.
evaluate_inner_product_unbound(aggregated, at_zeta, b, c, acc, acc_zeta_omega) ==
  (acc_zeta_omega - acc - b * c) % P

evaluate_inner_product_constraint(aggregated, at_zeta, b, c, acc, acc_zeta_omega) ==
  (acc_zeta_omega - acc - b * c + aggregated * at_zeta.l_last) % P

evaluate_multipacking_mask_constraint(a, r_pow_m, at_zeta, c, c_zeta_omega) ==
  (c_zeta_omega - c * a - ((1 - r_pow_m) % P) * at_zeta.l_last) % P

evaluate_bitmask_packing_constraints(evals, at_zeta, r, bitmask, n) ==
  LET a == mask_factor_at(r, chunk_end_polynomial(at_zeta.zeta_omega, n))
      r_pow_m == Pow(r, n \div bits_in_bitmask_chunk)
  IN  <<evaluate_inner_product_constraint(
          aggregated_bitmask(r, bitmask, n), at_zeta, evals.bitmask, evals.c, evals.acc, 0),
        evaluate_multipacking_mask_constraint(a, r_pow_m, at_zeta, evals.c, 0)>>

-----------------------------------------------------------------------------
\* 0, b_0, b_0 + b_1, ... of the length of the bitmask register
build_partial_counts_register(bits) ==
  Vec([k \in 1 .. Len(bits) |-> Sum(SubSeq(bits, 1, k - 1))])

bit_counting_registers(n, bitmask) ==
  LET bits == bitmask_register(n, bitmask)
  IN  [n |-> n, bitmask |-> bits,
       partial_counts |-> Interpolate(build_partial_counts_register(bits))]

\* b L_(n-1) vanishes over the domain: the last bit is zero.
bitmask_ends_with_zero_constraint_poly(registers) ==
  LET n == registers.n
      ln_x2 == amplify_x2(li(n - 1, n), n)
      b_x2 == amplify_x2(registers.bitmask, n)
  IN  Interpolate(Vec([k \in 1 .. 2 * n |-> (b_x2[k] * ln_x2[k]) % P]))

\* The constraint on the counts is zero as a polynomial.
bit_counting_constraints(registers) ==
  <<<< >>, bitmask_ends_with_zero_constraint_poly(registers)>>

bit_counting_constraints_lin(registers) == <<registers.partial_counts, << >>>>

evaluate_bit_count(partial_count, count, partial_count_zeta_omega, b, l_last) ==
  (partial_count_zeta_omega - partial_count - b + count * l_last) % P

\* Variant for mutation: any last bit.
evaluate_bitmask_ends_with_any(b, l_last) == 0

evaluate_bitmask_ends_with_zero(b, l_last) == (b * l_last) % P

evaluate_bit_counting_constraints(partial_count, count, b, l_last) ==
  <<evaluate_bit_count(partial_count, count, 0, b, l_last),
    evaluate_bitmask_ends_with_zero(b, l_last)>>
=============================================================================
