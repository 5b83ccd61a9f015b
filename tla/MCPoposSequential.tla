------------------------- MODULE MCPoposSequential -------------------------
(***************************************************************************)
(* Small deployments of provers for the sequential and, with the same      *)
(* constants, the optimistic light client.                                 *)
(***************************************************************************)
EXTENDS PoposSequential

CONSTANT MaxSize

Fresh(k, honest, s) == NewProver(Store(IF honest THEN NoChain ELSE k, s), 2)

Provers(k, honest, s) ==
  {Fresh(k, honest, s)} \cup SetConfig(Fresh(k, honest, s), s, 2)

MCDeployments ==
  UNION {{[size |-> s, provers |-> ps] :
            ps \in {f \in [1 .. N -> UNION {Provers(k, TRUE, s) \cup Provers(k, FALSE, s) : k \in 1 .. N}] :
                      /\ \A k \in 1 .. N : f[k] \in Provers(k, TRUE, s) \cup Provers(k, FALSE, s)
                      /\ \E k \in 1 .. N : IsHonest(f[k].store)}} :
         s \in 1 .. MaxSize}
=============================================================================
