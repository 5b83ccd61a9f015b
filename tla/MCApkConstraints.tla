-------------------------- MODULE MCApkConstraints --------------------------
(***************************************************************************)
(* The field of 257 elements; limbs of 1 bit and chunks of 2, so that the  *)
(* domain of 4 rows has two chunks.  A key twice and a padding key, a key, *)
(* its negation and another one, and three keys, each with every public    *)
(* bitmask.  Partial sums are any points of G1 and of its coset with H,    *)
(* and some of neither.                                                    *)
(***************************************************************************)
EXTENDS ApkConstraints

G1Generator == <<16, 111>>

H == <<0, 1>>

G1 == {Times(k, G1Generator) : k \in 1 .. 42}

Padding == Times(32, G1Generator)

MCPoints ==
  G1 \cup {PointAdd(H, p) : p \in G1 \cup {Identity}} \cup {PointAdd(H, H), <<0, 0>>, <<1, 1>>}

MCFirstPoints == {H, PointAdd(H, G1Generator), G1Generator, <<0, 0>>}

Key == [k \in {1, 2, 4, 42} |-> Times(k, G1Generator)]

MCKeysets ==
  {<<Key[1], Key[1]>>, <<Key[1], Key[42], Key[2]>>, <<Key[1], Key[2], Key[4]>>}

\* The sums of the keys, with and without one padding key, and a few others.
MCApks == {Times(k, G1Generator) : k \in 0 .. 7 \cup 32 .. 34 \cup {42}}
=============================================================================
