------------------------------- MODULE Keyset -------------------------------
(***************************************************************************)
(* Sets of public keys as registers of the apk proofs, and commitments to  *)
(* them (bw6/src/keyset.rs, setup.rs, lib.rs).  A commitment binds: it is  *)
(* the polynomial itself, and adding commitments adds polynomials.         *)
(***************************************************************************)
EXTENDS Domains, Bitmask

CONSTANTS
  PaddingPk,              \* hash_to_curve("apk-proofs"), in G1
  point_in_g1_complement  \* H, on the curve, not in G1

\* Variant for mutation: not counting the factor that spares the last row.
highest_degree_without_last_row(n) == 3 * n - 4

\* The degree of the quotient of a constraint of degree 4n - 3.
highest_degree_to_commit(n) == 3 * n - 3

\* The highest degree that can be committed to.
generate_for_domain(n) == highest_degree_to_commit(n)

generate_for_keyset(keyset_size) == generate_for_domain(DomainFor(keyset_size + 1))

Committable(polys, max_degree) == \A k \in DOMAIN polys : Len(polys[k]) <= max_degree + 1

\* One slot more than keys, for the initial value of the accumulator.
new_keyset(pks) ==
  LET n == DomainFor(Len(pks) + 1)
      padded_pks == Resize(pks, n, PaddingPk)
      coordinate(c) == Vec([k \in 1 .. n |-> padded_pks[k][c]])
  IN  [pks |-> pks,
       domain |-> n,
       pks_polys |-> <<Interpolate(coordinate(1)), Interpolate(coordinate(2))>>]

number_of_keys(keyset) == Len(keyset.pks)

\* The values the prover computes constraints with.
pks_evals_x4(keyset) ==
  <<amplify_polynomial(keyset.pks_polys[1], keyset.domain),
    amplify_polynomial(keyset.pks_polys[2], keyset.domain)>>

CommitAsserts(keyset, max_degree) == keyset.domain <= max_degree + 1

commit_keyset(keyset) == [pks_comm |-> keyset.pks_polys, domain_size |-> keyset.domain]

\* The sum of the keys with a bit set, as many as there are bits.
aggregate(keyset, bits) ==
  SumPoints([k \in 1 .. Len(bits) |-> IF bits[k] THEN keyset.pks[k] ELSE Identity])
=============================================================================
