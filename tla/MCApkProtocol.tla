--------------------------- MODULE MCApkProtocol ---------------------------
(***************************************************************************)
(* The field of 257 elements, whose curve has 258 = 6 * 43 points; limbs   *)
(* of 2 bits and chunks of 4 instead of 64 and 256.  Keysets of 1, 2, 3    *)
(* and 5 keys have domains of 2, 4, 4 and 8: one too small for a chunk,    *)
(* a keyset with padding, one without, and two chunks with a padded limb.  *)
(* Another keyset has a key and its negation, whose sum is the identity.   *)
(***************************************************************************)
EXTENDS ApkProtocol

G1Generator == <<16, 111>>

H == <<0, 1>>

Padding == Times(32, G1Generator)

Keys(n) == [k \in 1 .. n |-> Times(2 ^ (k - 1), G1Generator)]

\* All bitmasks of up to 3 keys, some of them too short or too long, and
\* those of 5 keys with 1, 3 or 5 bits set.
SmallBits == UNION {[1 .. k -> BOOLEAN] : k \in 1 .. 4}

LargeBits ==
  {bits \in [1 .. 5 -> BOOLEAN] : Cardinality({k \in 1 .. 5 : bits[k]}) \in {1, 3, 5}}

MCStatements ==
  {[pks |-> Keys(n), bits |-> bits] : n \in 1 .. 3,
     bits \in {b \in SmallBits : Len(b) <= 3 \/ Cardinality({k \in 1 .. 4 : b[k]}) = 4}}
  \cup {[pks |-> Keys(5), bits |-> bits] : bits \in LargeBits}
  \cup {[pks |-> <<G1Generator, Times(42, G1Generator)>>, bits |-> <<TRUE, TRUE>>]}

\* Eight draws: as many as the packed scheme makes.
MCDrawsInARow == [first \in {10} |-> <<first, 100, 229, 3, 57, 200, 121, 77>>]
=============================================================================
