------------------------- MODULE MCPoposOptimistic -------------------------
(***************************************************************************)
(* Small deployments of provers for OptimisticLightClient.                 *)
(***************************************************************************)
EXTENDS PoposOptimistic

CONSTANT MaxSize

Fresh(k, honest, s) == NewProver(Store(IF honest THEN NoChain ELSE k, s), 2)

\* What prover k may be, after it has been configured for the size.
Candidates(k, s) ==
  UNION {SetConfig(prover, s, 2) : prover \in {Fresh(k, TRUE, s), Fresh(k, FALSE, s)}}

MCDeployments ==
  UNION {{[size |-> s, provers |-> ps] :
            ps \in {f \in [1 .. N -> UNION {Candidates(k, s) : k \in 1 .. N}] :
                      /\ \A k \in 1 .. N : f[k] \in Candidates(k, s)
                      /\ \E k \in 1 .. N : IsHonest(f[k].store)}} :
         s \in 2 .. MaxSize}
=============================================================================
