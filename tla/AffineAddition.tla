--------------------------- MODULE AffineAddition ---------------------------
(***************************************************************************)
(* The gadget all three schemes share (bw6/src/piop/affine_addition.rs):   *)
(* registers for the bitmask, the keys and their conditional partial sums, *)
(* offset by H, and the constraints that make the sums what they should    *)
(* be: as the prover computes them, from the registers amplified to the    *)
(* domain of size 4n, and as the verifier does, from values at one point.  *)
(***************************************************************************)
EXTENDS Keyset

\* H, H + b_0 pk_0, ...: the partial sums of the rows, the last one repeated.
PartialSums(start, bits, pks) ==
  LET sums[k \in Nat] ==
        LET before == sums[k - 1]
            acc == before[k]
        IN  IF k = 0 THEN <<start>>
            ELSE Append(before, IF bits[k] THEN PointAdd(acc, pks[k]) ELSE acc)
  IN  sums[Len(bits)]

partial_sums_register(keyset, bits) ==
  LET apk_acc == PartialSums(point_in_g1_complement, bits, keyset.pks)
  IN  Resize(apk_acc, keyset.domain, apk_acc[Len(apk_acc)])

bitmask_register(n, bitmask) == Vec(Resize(to_bits_as_field_elements(bitmask), n, 0))

\* AffineAdditionRegisters: the polynomials and their values over 4n points.
affine_addition_registers(keyset, bitmask) ==
  LET n == keyset.domain
      apk_acc == Vec(partial_sums_register(keyset, to_bits(bitmask)))
      coordinate(c) == Interpolate(Vec([k \in 1 .. n |-> apk_acc[k][c]]))
      polynomials == [bitmask |-> Interpolate(bitmask_register(n, bitmask)),
                      keyset |-> keyset.pks_polys,
                      partial_sums |-> <<coordinate(1), coordinate(2)>>]
  IN  [n |-> n,
       polynomials |-> polynomials,
       bitmask |-> amplify_polynomial(polynomials.bitmask, n),
       keyset |-> pks_evals_x4(keyset),
       partial_sums |-> <<amplify_polynomial(polynomials.partial_sums[1], n),
                          amplify_polynomial(polynomials.partial_sums[2], n)>>]

\* The order in which polynomials are opened, committed to and evaluated.
affine_addition_to_vec(polynomials) ==
  polynomials.keyset \o <<polynomials.bitmask>> \o polynomials.partial_sums

\* Variant for mutation: the bitmask last.
partial_sums_then_bitmask(polynomials) == Append(polynomials.partial_sums, polynomials.bitmask)

partial_sums_and_bitmask(polynomials) == <<polynomials.bitmask>> \o polynomials.partial_sums

evaluate_affine_addition(polynomials, point) ==
  [keyset |-> <<Evaluate(polynomials.keyset[1], point), Evaluate(polynomials.keyset[2], point)>>,
   bitmask |-> Evaluate(polynomials.bitmask, point),
   partial_sums |-> <<Evaluate(polynomials.partial_sums[1], point),
                      Evaluate(polynomials.partial_sums[2], point)>>]

affine_addition_evaluations(evals) ==
  evals.keyset \o <<evals.bitmask>> \o evals.partial_sums

-----------------------------------------------------------------------------
\* The prover's constraint polynomials.

mul_by_x(p) == IF p = << >> THEN << >> ELSE <<0>> \o p

\* (X - w^(n-1)) p: the constraint need not hold in the last row.
ExceptInLastRow(p, n) == LinearCombination(<<1, P - GroupGenInv[n]>>, <<mul_by_x(p), p>>)

compute_bitmask_booleanity_constraint_polynomial(registers) ==
  LET b == registers.bitmask
  IN  Interpolate(Vec([k \in 1 .. Len(b) |-> (b[k] * (1 - b[k])) % P]))

compute_conditional_affine_addition_constraint_polynomials(registers) ==
  LET b == registers.bitmask
      x1 == registers.partial_sums[1]
      y1 == registers.partial_sums[2]
      x2 == registers.keyset[1]
      y2 == registers.keyset[2]
      x3 == Vec(RotateLeft(x1, 4))
      y3 == Vec(RotateLeft(y1, 4))
      c1 == [k \in 1 .. Len(b) |->
               (b[k] * (  (((x1[k] - x2[k]) * (x1[k] - x2[k])) % P) * (x1[k] + x2[k] + x3[k])
                        - (y2[k] - y1[k]) * (y2[k] - y1[k]))
                + (1 - b[k]) * (y3[k] - y1[k])) % P]
      c2 == [k \in 1 .. Len(b) |->
               (b[k] * ((x1[k] - x2[k]) * (y3[k] + y1[k]) - (y2[k] - y1[k]) * (x3[k] - x1[k]))
                + (1 - b[k]) * (x3[k] - x1[k])) % P]
  IN  <<ExceptInLastRow(Interpolate(Vec(c1)), registers.n),
        ExceptInLastRow(Interpolate(Vec(c2)), registers.n)>>

\* H and H + apk are the first and the last value of the register itself.
compute_public_inputs_constraint_polynomials(registers) ==
  LET n == registers.n
      constraint(z) ==
        [k \in 1 .. 4 * n |->
           (  (z[k] - z[1]) * l_first_evals_over_4x[n][k]
            + (z[k] - z[4 * (n - 1) + 1]) * l_last_evals_over_4x[n][k]) % P]
  IN  <<Interpolate(Vec(constraint(registers.partial_sums[1]))),
        Interpolate(Vec(constraint(registers.partial_sums[2])))>>

affine_addition_constraint_polynomials(registers) ==
  LET added == compute_conditional_affine_addition_constraint_polynomials(registers)
      public == compute_public_inputs_constraint_polynomials(registers)
  IN  added \o <<compute_bitmask_booleanity_constraint_polynomial(registers)>> \o public

\* The parts of the first two constraints that are linear in the next row.
affine_addition_constraints_linearized(registers, evals, zeta) ==
  LET zeta_minus_omega_inv == zeta - GroupGenInv[registers.n]
      b == evals.bitmask
      acc == evals.partial_sums
      pks == evals.keyset
      a1_lin == LinearCombination(
                  <<(zeta_minus_omega_inv * ((b * (acc[1] - pks[1]) * (acc[1] - pks[1])) % P)) % P,
                    (zeta_minus_omega_inv * (1 - b)) % P>>,
                  registers.polynomials.partial_sums)
      a2_lin == LinearCombination(
                  <<(zeta_minus_omega_inv * (b * (acc[2] - pks[2]) + (1 - b))) % P,
                    (zeta_minus_omega_inv * b * (acc[1] - pks[1])) % P>>,
                  registers.polynomials.partial_sums)
  IN  <<a1_lin, a2_lin, << >>, << >>, << >>>>

-----------------------------------------------------------------------------
\* The verifier's values of the same constraints at zeta.

evaluate_bitmask_booleanity_constraint(b) == (b * (1 - b)) % P

evaluate_conditional_affine_addition_constraints(zeta_minus_omega_inv, b, p1, p2, p3) ==
  LET c1 == b * ((((p1[1] - p2[1]) * (p1[1] - p2[1])) % P) * (p1[1] + p2[1] + p3[1])
                 - (p2[2] - p1[2]) * (p2[2] - p1[2]))
            + (1 - b) * (p3[2] - p1[2])
      c2 == b * ((p1[1] - p2[1]) * (p3[2] + p1[2]) - (p2[2] - p1[2]) * (p3[1] - p1[1]))
            + (1 - b) * (p3[1] - p1[1])
  IN  <<((c1 % P) * zeta_minus_omega_inv) % P, ((c2 % P) * zeta_minus_omega_inv) % P>>

\* Without the next row, whose part the linearization polynomial has.
evaluate_conditional_affine_addition_constraints_linearized(zeta_minus_omega_inv, b, p1, p2) ==
  evaluate_conditional_affine_addition_constraints(zeta_minus_omega_inv, b, p1, p2, <<0, 0>>)

\* Variant for mutation: the last row is not tied to the claim.
evaluate_public_input_of_first_row(apk, at_zeta, p1) ==
  LET h == point_in_g1_complement
  IN  <<((p1[1] - h[1]) * at_zeta.l_first) % P, ((p1[2] - h[2]) * at_zeta.l_first) % P>>

evaluate_public_inputs_constraints(apk, at_zeta, p1) ==
  LET h == point_in_g1_complement
      apk_plus_h == PointAdd(h, apk)
      constraint(c) ==
        ((p1[c] - h[c]) * at_zeta.l_first + (p1[c] - apk_plus_h[c]) * at_zeta.l_last) % P
  IN  <<constraint(1), constraint(2)>>

evaluate_affine_addition_constraints(evals, apk, at_zeta) ==
    evaluate_conditional_affine_addition_constraints_linearized(
      at_zeta.zeta_minus_omega_inv, evals.bitmask, evals.partial_sums, evals.keyset)
  \o <<evaluate_bitmask_booleanity_constraint(evals.bitmask)>>
  \o evaluate_public_inputs_constraints(apk, at_zeta, evals.partial_sums)

\* The factors of the commitments to the partial sums in the commitment to
\* the linearization polynomial.
restore_affine_addition_linearization(evals, phi, zeta_minus_omega_inv) ==
  LET b == evals.bitmask
      p1 == evals.partial_sums
      p2 == evals.keyset
      x3 == ((b * (p1[1] - p2[1])) % P) * (p1[1] - p2[1]) + ((b * (p1[2] - p2[2])) % P) * phi
            + (1 - b) * phi
      y3 == (1 - b) + ((b * (p1[1] - p2[1])) % P) * phi
  IN  <<(zeta_minus_omega_inv * (x3 % P)) % P, (zeta_minus_omega_inv * (y3 % P)) % P>>
=============================================================================
