----------------------------- MODULE PrimeField -----------------------------
(***************************************************************************)
(* What the apk proofs of the CSSV baseline take from arkworks: the        *)
(* arithmetic of a prime field, the curve y^2 = x^3 + 1 over it, and       *)
(* univariate polynomials over its radix-2 domains.  The field is small;   *)
(* it has the domains the proofs need, and the curve, which is that of     *)
(* BLS12-377 over its own field, has a subgroup of prime order and points  *)
(* outside of it.                                                          *)
(*                                                                         *)
(* A polynomial is the sequence of its coefficients, the constant one      *)
(* first and the leading one not zero.  Evaluations are sequences, too:    *)
(* the value at the k-th power of the generator is at index k + 1.         *)
(***************************************************************************)
EXTENDS Integers, Sequences, FiniteSets

CONSTANTS
  P,           \* the size of the field
  Generator    \* of its multiplicative group

Field == 0 .. P - 1

Pow(a, k) ==
  LET power[i \in Nat] ==
        LET half == power[i \div 2]
        IN  IF i = 0 THEN 1
            ELSE IF i % 2 = 0 THEN (half * half) % P ELSE (a * power[i - 1]) % P
  IN  power[k]

Inv == [a \in 1 .. P - 1 |-> Pow(a, P - 2)]

ASSUME FieldAssumption ==
  /\ P \in Nat /\ Generator \in Field
  /\ {Pow(Generator, k) : k \in 0 .. P - 2} = 1 .. P - 1

-----------------------------------------------------------------------------
\* Sequences of field elements.

\* TLC computes the elements of a function when they are asked for; this
\* one once and for all.
Vec(f) == f \o << >>

Sum(s) ==
  LET from[k \in Nat] == IF k > Len(s) THEN 0 ELSE (s[k] + from[k + 1]) % P
  IN  from[1]

Resize(s, n, x) == [k \in 1 .. n |-> IF k <= Len(s) THEN s[k] ELSE x]

RotateLeft(s, n) == [k \in 1 .. Len(s) |-> s[((k + n - 1) % Len(s)) + 1]]

-----------------------------------------------------------------------------
\* Polynomials.

Trim(p) ==
  LET length[k \in Nat] == IF k = 0 \/ p[k] # 0 THEN k ELSE length[k - 1]
  IN  SubSeq(p, 1, length[Len(p)])

Coefficient(p, k) == IF k < Len(p) THEN p[k + 1] ELSE 0

\* At an element of the field, and at any number.
EvaluateAt(p, x) ==
  LET from[k \in Nat] == IF k > Len(p) THEN 0 ELSE (p[k] + x * from[k + 1]) % P
  IN  from[1]

Evaluate(p, x) == EvaluateAt(p, x % P)

LongestOf(ps) == CHOOSE n \in {Len(ps[k]) : k \in DOMAIN ps} :
                   \A k \in DOMAIN ps : Len(ps[k]) <= n

\* Sum over k of scalars[k] * ps[k].
LinearCombination(scalars, ps) ==
  IF ps = << >> THEN << >>
  ELSE Trim(Vec([i \in 1 .. LongestOf(ps) |->
              Sum([k \in DOMAIN ps |-> scalars[k] * Coefficient(ps[k], i - 1)])]))

\* The quotient by x^n - 1, and the remainder.
DivideByVanishing(p, n) ==
  LET multiples(k, from) == {j \in from .. Len(p) \div n : k + j * n < Len(p)}
      folded(k, from) ==
        Sum([j \in 1 .. Cardinality(multiples(k, from)) |-> p[k + (j + from - 1) * n + 1]])
  IN  <<Trim(Vec([k \in 1 .. IF Len(p) > n THEN Len(p) - n ELSE 0 |-> folded(k - 1, 1)])),
        Trim(Vec([k \in 1 .. n |-> folded(k - 1, 0)]))>>

\* The quotient of p - p(x) by X - x.
DivideByRoot(p, x) ==
  LET from[k \in Nat] ==
        LET tail == from[k + 1]
        IN  IF k > Len(p) THEN << >>
            ELSE <<(p[k] + x * (IF tail = << >> THEN 0 ELSE tail[1])) % P>> \o tail
  IN  Trim(from[2])

-----------------------------------------------------------------------------
\* Radix-2 domains.

Sizes == {n \in {2 ^ k : k \in 0 .. 10} : (P - 1) % n = 0}

GroupGen == [n \in Sizes |-> Pow(Generator, (P - 1) \div n)]

GroupGenInv == [n \in Sizes |-> Pow(GroupGen[n], n - 1)]

SizeInv == [n \in Sizes |-> Inv[n]]

Elements == [n \in Sizes |-> [k \in 1 .. n |-> Pow(GroupGen[n], k - 1)]]

\* The size of the smallest domain with room for k values.
DomainFor(k) == CHOOSE n \in Sizes : n >= k /\ \A m \in Sizes : m >= k => n <= m

EvaluateOver(p, n) == Vec([k \in 1 .. n |-> EvaluateAt(p, Elements[n][k])])

Interpolate(evals) ==
  LET n == Len(evals)
      at(k) == Elements[n][((n - k) % n) + 1]
  IN  Trim(Vec([k \in 1 .. n |-> (SizeInv[n] * EvaluateAt(evals, at(k - 1))) % P]))

-----------------------------------------------------------------------------
\* The curve.

Identity == << >>

PointAdd(p, q) ==
  LET slope == IF p = q THEN (3 * p[1] * p[1] * Inv[(2 * p[2]) % P]) % P
                        ELSE ((q[2] - p[2]) * Inv[(q[1] - p[1]) % P]) % P
      x == (slope * slope - p[1] - q[1]) % P
  IN  IF p = Identity THEN q
      ELSE IF q = Identity THEN p
      ELSE IF p[1] = q[1] /\ (p[2] + q[2]) % P = 0 THEN Identity
      ELSE <<x, (slope * (p[1] - x) - p[2]) % P>>

Times(k, p) ==
  LET times[i \in Nat] == IF i = 0 THEN Identity ELSE PointAdd(p, times[i - 1])
  IN  times[k]

SumPoints(ps) ==
  LET from[k \in Nat] == IF k > Len(ps) THEN Identity ELSE PointAdd(ps[k], from[k + 1])
  IN  from[1]
=============================================================================
