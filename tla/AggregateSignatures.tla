------------------------ MODULE AggregateSignatures ------------------------
(***************************************************************************)
(* AggregateSignatures (implementation/signature.go): n goroutines each    *)
(* add up a chunk of the signatures and send their sum over an unbuffered  *)
(* channel; the caller adds the sums in the order in which they arrive.    *)
(*                                                                         *)
(* A point is represented by how often each input occurs in it.            *)
(***************************************************************************)
EXTENDS Integers, FiniteSets

CONSTANTS
  MaxLen,     \* bound on len(sigs)
  MaxCPU      \* bound on runtime.NumCPU()

ASSUME LenAssumption == MaxLen \in Nat
ASSUME CPUAssumption == MaxCPU \in Nat \ {0}

VARIABLES
  len,          \* len(sigs)
  decodable,    \* the inputs that are whole points; the others are shorter, such
                \* as the nil left by a signing error that its caller ignores
  numCPU,       \* runtime.NumCPU()
  pc,           \* "add", "send" or "exited" for each goroutine
  i,            \* each goroutine's loop variable, from 1
  p,            \* each goroutine's partial sum
  temp,         \* the input each goroutine decoded last, 0 for none
  asig,         \* the caller's sum
  received      \* how many partial sums the caller has taken

vars == <<len, decodable, numCPU, pc, i, p, temp, asig, received>>

minPerCPU == 2

\* The number of goroutines, and how the signatures are divided among them.
n == IF numCPU > len \div minPerCPU THEN 1 + len \div minPerCPU ELSE numCPU
perCPU == len \div n
leftover == len - n * perCPU
Goroutines == 0 .. n - 1

\* Variant for mutation: the larger chunks do not move the later ones.
ChunkStartWithoutOffset(g) == g * perCPU

\* start and end in the source; the first `leftover` chunks get one more.
ChunkStart(g) == g * perCPU + (IF g < leftover THEN g ELSE leftover)
ChunkSize(g) == perCPU + (IF g < leftover THEN 1 ELSE 0)

Inputs == 1 .. len
Zero == [x \in Inputs |-> 0]

\* Adding a decoded input to a point; temp = 0 is the point at infinity.
Plus(point, x) == IF x = 0 THEN point ELSE [point EXCEPT ![x] = @ + 1]

Init ==
  /\ len \in 0 .. MaxLen
  /\ decodable \in SUBSET (1 .. len)
  /\ numCPU \in 1 .. MaxCPU
  /\ pc = [g \in Goroutines |-> "add"]
  /\ i = [g \in Goroutines |-> ChunkStart(g) + 1]
  /\ p = [g \in Goroutines |-> Zero]
  /\ temp = [g \in Goroutines |-> 0]
  /\ asig = Zero
  /\ received = 0

\* Variant for mutation: a failed decoding resets the point.
DecodedOrZero(g) == IF i[g] \in decodable THEN i[g] ELSE 0

\* temp.Unmarshal(sigs[i]): its error is ignored, and temp, declared outside
\* the loop, keeps the previous input when the bytes are too few.
Decoded(g) == IF i[g] \in decodable THEN i[g] ELSE temp[g]

Add(g) ==
  /\ pc[g] = "add"
  /\ i[g] <= ChunkStart(g) + ChunkSize(g)
  /\ temp' = [temp EXCEPT ![g] = Decoded(g)]
  /\ p' = [p EXCEPT ![g] = Plus(@, Decoded(g))]
  /\ i' = [i EXCEPT ![g] = @ + 1]
  /\ UNCHANGED <<len, decodable, numCPU, pc, asig, received>>

ChunkDone(g) ==
  /\ pc[g] = "add"
  /\ i[g] > ChunkStart(g) + ChunkSize(g)
  /\ pc' = [pc EXCEPT ![g] = "send"]
  /\ UNCHANGED <<len, decodable, numCPU, i, p, temp, asig, received>>

\* Variant for mutation: the caller takes one result fewer than it must.
ReceivingAllButOne == received < n - 1

\* The caller's second loop: for i := 0; i < n; i++
Receiving == received < n

\* results <- p meets <-results.
Receive(g) ==
  /\ Receiving
  /\ pc[g] = "send"
  /\ asig' = [x \in Inputs |-> asig[x] + p[g][x]]
  /\ received' = received + 1
  /\ pc' = [pc EXCEPT ![g] = "exited"]
  /\ UNCHANGED <<len, decodable, numCPU, i, p, temp>>

\* The caller has all results and returns asig.
Returned == received = n /\ UNCHANGED vars

Next == (\E g \in Goroutines : Add(g) \/ ChunkDone(g) \/ Receive(g)) \/ Returned

\* Every goroutine runs when it can.
Fairness ==
  \A g \in 0 .. MaxCPU - 1 :
    WF_vars(g \in Goroutines /\ (Add(g) \/ ChunkDone(g) \/ Receive(g)))

Spec == Init /\ [][Next]_vars /\ Fairness

-----------------------------------------------------------------------------
(* Properties                                                              *)

\* "AggregateSignatures multiplies signatures": when every input decodes, the
\* result contains each exactly once, for every number of signatures and
\* CPUs and every order in which the chunks finish.
EachOnce ==
  received = n /\ decodable = Inputs => \A x \in Inputs : asig[x] = 1

\* What an input that does not decode does to the result: it contributes
\* nothing of its own, no other input is lost, and what is counted again is
\* at most the input before it in the same chunk, once per bad input.
BadInputsContained ==
  received = n =>
    /\ \A x \in Inputs : asig[x] > 0 <=> x \in decodable
    /\ \A x \in decodable :
         asig[x] = 1 + Cardinality({y \in Inputs \ decodable :
           /\ x < y
           /\ \A z \in x + 1 .. y : z \notin decodable
           /\ \E g \in Goroutines : /\ ChunkStart(g) < x
                                    /\ y <= ChunkStart(g) + ChunkSize(g)})

\* The caller returns: no goroutine waits for ever to deliver its sum, and
\* none is left behind.
AllDelivered == <>[](\A g \in Goroutines : pc[g] = "exited")
=============================================================================
