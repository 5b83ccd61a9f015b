------------------------------ MODULE Domains ------------------------------
(***************************************************************************)
(* The polynomial arithmetic of the apk proofs: evaluation at a point from *)
(* the values over a domain (bw6/src/utils.rs) and the domains of size n,  *)
(* 2n and 4n between which registers are amplified (bw6/src/domains.rs).   *)
(***************************************************************************)
EXTENDS PrimeField

\* 1, base, ..., base^max_exp
powers(base, max_exp) == Vec([k \in 1 .. max_exp + 1 |-> Pow(base, k - 1)])

horner_field(bases, nu) == EvaluateAt(bases, nu)

\* Aggregates polynomials with the powers of a challenge.
randomize(r, polys) ==
  IF polys = << >> THEN << >> ELSE LinearCombination(powers(r, Len(polys) - 1), polys)

-----------------------------------------------------------------------------
\* (z^n - 1) / n
VanishingOverSize(z, n) == ((Pow(z, n) - 1) * SizeInv[n]) % P

\* The inverses of z / w^i - 1; z is not in the domain.
LiInv(z, n, i) == Inv[(z * Pow(GroupGenInv[n], i) - 1) % P]

barycentric_eval_at(z, evals, n) ==
  (VanishingOverSize(z, n) * Sum([k \in 1 .. n |-> evals[k] * LiInv(z, n, k - 1)])) % P

\* The same of the bits of a bitmask; those it does not have are zero.
barycentric_eval_binary_at(z, bits, n) ==
  (VanishingOverSize(z, n) *
     Sum([k \in 1 .. Len(bits) |-> IF bits[k] THEN LiInv(z, n, k - 1) ELSE 0])) % P

lagrange_evaluations(z, n) ==
  [vanishing_polynomial |-> (Pow(z, n) - 1) % P,
   l_first |-> (VanishingOverSize(z, n) * Inv[(z - 1) % P]) % P,
   l_last |-> (VanishingOverSize(z, n) * Inv[(GroupGen[n] * z - 1) % P]) % P,
   zeta_minus_omega_inv |-> (z - GroupGenInv[n]) % P,
   zeta_omega |-> (z * GroupGen[n]) % P]

-----------------------------------------------------------------------------
amplify_polynomial(poly, n) == EvaluateOver(poly, 4 * n)

amplify(evals, n) == EvaluateOver(Interpolate(evals), 4 * n)

compute_quotient(poly, n) == DivideByVanishing(poly, n)

\* The i-th Lagrange basis polynomial over the domain, i from 0.
li(i, n) == [k \in 1 .. n |-> IF k = i + 1 THEN 1 ELSE 0]

\* What Domains::new precomputes, for every size with a domain four times as large.
l_first_evals_over_4x == [n \in {m \in Sizes : 4 * m \in Sizes /\ m < 32} |-> amplify(li(0, n), n)]

l_last_evals_over_4x == [n \in DOMAIN l_first_evals_over_4x |-> amplify(li(n - 1, n), n)]

\* p' with p'(x) = p(g x)
coset_polynomial(poly, g) == Vec([k \in 1 .. Len(poly) |-> (poly[k] * Pow(g, k - 1)) % P])

\* Variant for mutation: the cosets in the opposite order.
FromCosetsBackwards(evals, n, times) ==
  LET poly == Interpolate(evals)
      coset == [i \in 1 .. times - 1 |->
                  EvaluateOver(coset_polynomial(poly, Pow(GroupGenInv[times * n], i)), n)]
      value(row, i) == IF i = 0 THEN evals[row] ELSE coset[i][row]
  IN  Vec([k \in 1 .. times * n |-> value(((k - 1) \div times) + 1, (k - 1) % times)])

\* The values over the domain 2^j times as large, from those over the
\* domain and its cosets, interleaved.
FromCosets(evals, n, times) ==
  LET poly == Interpolate(evals)
      coset == [i \in 1 .. times - 1 |->
                  EvaluateOver(coset_polynomial(poly, Pow(GroupGen[times * n], i)), n)]
      value(row, i) == IF i = 0 THEN evals[row] ELSE coset[i][row]
  IN  Vec([k \in 1 .. times * n |-> value(((k - 1) \div times) + 1, (k - 1) % times)])

amplify_x2(evals, n) == FromCosets(evals, n, 2)

amplify_x4(evals, n) == FromCosets(evals, n, 4)
=============================================================================
