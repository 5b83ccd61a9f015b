------------------------- MODULE MCPoposSuperlight -------------------------
(***************************************************************************)
(* Small deployments of provers for SuperlightClient.                      *)
(***************************************************************************)
EXTENDS PoposSuperlight

CONSTANTS MaxSize, MaxDegree, MaxChanges

\* The honest prover, or a dishonest one of chain k.
Fresh(k, honest, m, degree) == NewProver(Store(IF honest THEN NoChain ELSE k, m), degree)

\* What prover k may be: started with the right size or configured for it.
Fitting(k, honest, s, degree) ==
  {Fresh(k, honest, s, degree)} \cup SetConfig(Fresh(k, honest, s, degree), s, degree)

\* Or configured for it with a store that goes on for one more period.
Cut(k, honest, s, degree) == SetConfig(Fresh(k, honest, s + 1, degree), s, degree)

\* Or of another size, larger or smaller.
Unfitting(k, s, degree) ==
  {Fresh(k, honest, t, degree) : honest \in BOOLEAN, t \in {s - 1, s + 1} \ {0}}

\* At least one prover is honest and has the right size.
Deployed(s, degree, maxChanges, Candidates(_)) ==
  {[size |-> s, n |-> degree, provers |-> ps, changes |-> maxChanges] :
     ps \in {f \in [1 .. N -> UNION {Candidates(k) : k \in 1 .. N}] :
               /\ \A k \in 1 .. N : f[k] \in Candidates(k)
               /\ \E k \in 1 .. N : f[k] \in Fitting(k, TRUE, s, degree) \cup Cut(k, TRUE, s, degree)}}

\* Provers of all kinds that stay as they are.
Steady(s, degree) ==
  Deployed(s, degree, 0, LAMBDA k :
    Fitting(k, TRUE, s, degree) \cup Fitting(k, FALSE, s, degree) \cup Unfitting(k, s, degree))

\* Provers that change: of the right size, or honest with a longer chain.
Changing(s, degree) ==
  Deployed(s, degree, MaxChanges, LAMBDA k :
    Fitting(k, TRUE, s, degree) \cup Fitting(k, FALSE, s, degree)
      \cup Cut(k, TRUE, s, degree) \cup {Fresh(k, TRUE, s + 1, degree)})

MCDeployments ==
  UNION {Steady(s, degree) : s \in 1 .. MaxSize, degree \in 2 .. MaxDegree}
    \cup UNION {Changing(s, 2) : s \in 1 .. MaxSize \div 2}
=============================================================================
