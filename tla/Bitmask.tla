------------------------------ MODULE Bitmask ------------------------------
(***************************************************************************)
(* Bitmasks of signers (bw6/src/bitmask.rs): bits, packed into limbs, the  *)
(* first bit the least significant one of the first limb, the last limb    *)
(* padded with zeros.                                                      *)
(***************************************************************************)
EXTENDS PrimeField

CONSTANT BITS_IN_LIMB    \* 64 in the code

ASSUME LimbAssumption == BITS_IN_LIMB \in Nat \ {0}

div_ceil(a, b) == (a + b - 1) \div b

\* 1 << k
TwoTo(k) ==
  LET power[i \in 0 .. k] == IF i = 0 THEN 1 ELSE 2 * power[i - 1]
  IN  power[k]

\* Folded from the last bit.
bits_to_limb(bits) ==
  LET limb_acc[k \in 0 .. Len(bits)] ==
        IF k = 0 THEN 0
        ELSE 2 * limb_acc[k - 1] + (IF bits[Len(bits) + 1 - k] THEN 1 ELSE 0)
  IN  limb_acc[Len(bits)]

\* Variant for mutation: padded with ones.
from_bits_padded_with_ones(bits) ==
  LET limbs_required == div_ceil(Len(bits), BITS_IN_LIMB)
      repr_bits == Resize(bits, BITS_IN_LIMB * limbs_required, TRUE)
      limb(j) == SubSeq(repr_bits, (j - 1) * BITS_IN_LIMB + 1, j * BITS_IN_LIMB)
  IN  [limbs |-> Vec([j \in 1 .. limbs_required |-> bits_to_limb(limb(j))]),
       padding_size |-> BITS_IN_LIMB * limbs_required - Len(bits)]

from_bits(bits) ==
  LET limbs_required == div_ceil(Len(bits), BITS_IN_LIMB)
      repr_bits == Resize(bits, BITS_IN_LIMB * limbs_required, FALSE)
      limb(j) == SubSeq(repr_bits, (j - 1) * BITS_IN_LIMB + 1, j * BITS_IN_LIMB)
  IN  [limbs |-> Vec([j \in 1 .. limbs_required |-> bits_to_limb(limb(j))]),
       padding_size |-> BITS_IN_LIMB * limbs_required - Len(bits)]

bitmask_size(bitmask) == BITS_IN_LIMB * Len(bitmask.limbs) - bitmask.padding_size

LimbBit(limb, k) == (limb \div TwoTo(k)) % 2 = 1

to_bits(bitmask) ==
  Vec([k \in 1 .. bitmask_size(bitmask) |->
         LimbBit(bitmask.limbs[((k - 1) \div BITS_IN_LIMB) + 1], (k - 1) % BITS_IN_LIMB)])

to_bits_as_field_elements(bitmask) ==
  LET bits == to_bits(bitmask) IN Vec([k \in 1 .. Len(bits) |-> IF bits[k] THEN 1 ELSE 0])

\* The ones of the limbs, those in the padding included.
count_ones(bitmask) ==
  Cardinality({place \in (1 .. Len(bitmask.limbs)) \X (0 .. BITS_IN_LIMB - 1) :
                 LimbBit(bitmask.limbs[place[1]], place[2])})

limbs_to_field_elements(limbs) ==
  LET from[j \in Nat] ==
        IF j > Len(limbs) THEN 0 ELSE (limbs[j] + TwoTo(BITS_IN_LIMB) * from[j + 1]) % P
  IN  from[1]

\* Chunks of limbs as field elements; the last chunk may be shorter.
to_chunks_as_field_elements(bitmask, limbs_in_chunk) ==
  LET limbs == bitmask.limbs
      last(j) == IF j * limbs_in_chunk < Len(limbs) THEN j * limbs_in_chunk ELSE Len(limbs)
  IN  Vec([j \in 1 .. div_ceil(Len(limbs), limbs_in_chunk) |->
             limbs_to_field_elements(SubSeq(limbs, (j - 1) * limbs_in_chunk + 1, last(j)))])
=============================================================================
