--------------------------- MODULE CommitteeChain ---------------------------
(***************************************************************************)
(* newTestProver (evaluation/full_node/main.go): n goroutines build the    *)
(* committee chain, each for an interval [a, b) of epochs counted from 0.  *)
(* A worker first draws the keys of the quorums that take over at the      *)
(* break points in its interval, hands the last of them to the worker of   *)
(* the next interval, and takes from the previous one the keys that sign   *)
(* until its first break.  Then it signs, moving its signingKeys slice to  *)
(* the next quorum slot by slot at every break.                            *)
(*                                                                         *)
(* Slices are references: two workers that hold the same slice see each    *)
(* other's writes.  The heap maps a reference to the slice's elements.     *)
(***************************************************************************)
EXTENDS TestProver

CONSTANTS
  N,        \* the most goroutines asked for; the source sets n := 1
  Batch,    \* epochs after which a worker reports progress, 1<<10
  Args      \* the arguments length and periodLength newTestProver may get,
            \* with the number of workers asked for

-----------------------------------------------------------------------------
(* The partition of a call's epochs into intervals.                        *)

CeilDiv(x, y) == (x + y - 1) \div y

Number(x) == IF x.workers > x.length THEN x.length ELSE x.workers
PerCPU(x) == x.length \div Number(x)
Leftover(x) == x.length - Number(x) * PerCPU(x)

\* The first Leftover workers get one epoch more.
Start(x, k) == k * PerCPU(x) + (IF k < Leftover(x) THEN k ELSE Leftover(x))

FirstBreakIn(x, k) == CeilDiv(Start(x, k), x.periodLength) * x.periodLength
HasBreakIn(x, k) == FirstBreakIn(x, k) < Start(x, k + 1)

\* A worker whose interval has no break passes on the slice it still signs
\* with.  With one worker, which is what the source asks for, that cannot be.
NoBreakAfterGap(x) ==
  \A k, l \in 0 .. Number(x) - 1 : k < l /\ HasBreakIn(x, l) => HasBreakIn(x, k)

ASSUME WorkersAssumption == N \in Nat \ {0}
ASSUME BatchAssumption == Batch \in Nat \ {0}
ASSUME ArgsAssumption ==
  \A x \in Args : /\ x.length \in Nat \ {0} /\ x.periodLength \in Nat \ {0}
                  /\ x.workers \in 1 .. N
ASSUME GapAssumption == \A x \in Args : NoBreakAfterGap(x)

VARIABLES
  args,         \* this call's length, periodLength and number of workers
  pc,           \* what each worker does next
  epoch,        \* each worker's loop variable i
  quorumSigs,   \* each worker's signatures on the current epoch so far
  signingKeys,  \* each worker's reference to the slice it signs with
  keyChans,     \* the channels of capacity 1, holding references
  heap,         \* the slices
  breaks, apks, sigs, multiSigs,    \* the arrays the workers fill
  sofar, finished                   \* what the main goroutine has counted

vars == <<args, pc, epoch, quorumSigs, signingKeys, keyChans, heap,
          breaks, apks, sigs, multiSigs, sofar, finished>>

-----------------------------------------------------------------------------
(* The intervals of this call.                                             *)

length == args.length
periodLength == args.periodLength
n == Number(args)
Workers == 0 .. n - 1
StartOf(k) == Start(args, k)
EndOf(k) == Start(args, k + 1)
FirstBreakOf(k) == FirstBreakIn(args, k)
HasBreak(k) == HasBreakIn(args, k)
IsBreak(i) == i % periodLength = 0

\* References: the genesis quorum's keys, those of the idx-th break in
\* worker k's interval (privKeys[idx]), and the copy that k sends on.
GenesisRef == <<"genesis">>
PrivRef(k, idx) == <<"privKeys", k, idx>>
SentRef(k) == <<"toSend", k>>
IndexOf(k, i) == (i - FirstBreakOf(k)) \div periodLength

\* Variant for mutation: the interval's first quorum is the one handed over.
IsFirstBreak(k, i) == i = FirstBreakOf(k)

\* The break at i is the last one in worker k's interval.
IsLastBreak(k, i) == i + periodLength >= EndOf(k)

\* Variant for mutation: the last quorum's own slice is sent, not a copy.
ToSendUncopied(k, i) == PrivRef(k, IndexOf(k, i))

\* toSend: the slice that worker k sends on after its break at i.
ToSend(k, i) == SentRef(k)

\* breaks[i/periodLength]: epochs are counted from 1.
BreakEpoch(i) == i + 1

KeysOfQuorum(q) == [j \in 1 .. Quorum |-> <<q, j>>]

\* The break points in worker k's interval; none if its first lies beyond.
BreaksIn(k) == {i \in StartOf(k) .. EndOf(k) - 1 : IsBreak(i)}

Refs ==
  {GenesisRef} \cup {SentRef(k) : k \in Workers}
    \cup UNION {{PrivRef(k, IndexOf(k, i)) : i \in BreaksIn(k)} : k \in Workers}

NoBreakYet == 0
NoKeys == {}
Unsigned == <<>>

Init ==
  /\ args \in Args
  /\ pc = [k \in Workers |-> "keys"]
  /\ epoch = [k \in Workers |-> FirstBreakOf(k)]
  /\ quorumSigs = [k \in Workers |-> <<>>]
  /\ signingKeys = [k \in Workers |-> <<>>]
  /\ keyChans = [k \in Workers |-> <<>>]
  /\ heap = [ref \in Refs |-> IF ref = GenesisRef THEN KeysOfQuorum(0) ELSE <<>>]
  /\ breaks = [x \in 1 .. CeilDiv(length, periodLength) |-> NoBreakYet]
  /\ apks = [x \in 1 .. CeilDiv(length, periodLength) |-> NoKeys]
  /\ sigs = [x \in 1 .. length |-> Unsigned]
  /\ multiSigs = [x \in 1 .. length |-> Unsigned]
  /\ sofar = 0
  /\ finished = 0

-----------------------------------------------------------------------------
(* A worker's steps.                                                       *)

\* Draw the keys of the quorum of the break at i; after the last break of
\* the interval, send a copy of them to the next worker.
CreateCommittee(k) ==
  LET i == epoch[k]
      q == i \div periodLength + 1
      last == IsLastBreak(k, i)
      created == {PrivRef(k, IndexOf(k, i))} \cup (IF last THEN {ToSend(k, i)} ELSE {})
  IN  /\ pc[k] = "keys"
      /\ i < EndOf(k)
      /\ heap' = [ref \in Refs |-> IF ref \in created THEN KeysOfQuorum(q) ELSE heap[ref]]
      /\ apks' = [apks EXCEPT ![q] = @ \cup Apk(q)]
      /\ breaks' = [breaks EXCEPT ![q] = BreakEpoch(i)]
      /\ IF last
           THEN /\ keyChans[k] = <<>>
                /\ keyChans' = [keyChans EXCEPT ![k] = <<ToSend(k, i)>>]
           ELSE UNCHANGED keyChans
      /\ epoch' = [epoch EXCEPT ![k] = i + periodLength]
      /\ UNCHANGED <<args, pc, quorumSigs, signingKeys, sigs, multiSigs, sofar, finished>>

\* The first worker signs with the genesis keys, the others with what the
\* previous worker sent.  A worker without a break sends on what it got: the
\* slice itself, not a copy.
TakeKeys(k) ==
  LET ref == IF k = 0 THEN GenesisRef ELSE keyChans[k - 1][1]
      taken == IF k = 0 THEN keyChans ELSE [keyChans EXCEPT ![k - 1] = <<>>]
  IN  /\ pc[k] = "keys"
      /\ epoch[k] >= EndOf(k)
      /\ k > 0 => keyChans[k - 1] # <<>>
      /\ signingKeys' = [signingKeys EXCEPT ![k] = ref]
      /\ IF HasBreak(k)
           THEN keyChans' = taken
           ELSE /\ keyChans[k] = <<>>
                /\ keyChans' = [taken EXCEPT ![k] = <<ref>>]
      /\ pc' = [pc EXCEPT ![k] = "sign"]
      /\ epoch' = [epoch EXCEPT ![k] = StartOf(k)]
      /\ UNCHANGED <<args, quorumSigs, heap, breaks, apks, sigs, multiSigs, sofar, finished>>

\* Variant for mutation: always the first quorum created in the interval.
FirstKey(k, i, j) == heap[PrivRef(k, 0)][j]

\* privKeys[(i-firstBreak)/periodLength][j]
NextKey(k, i, j) == heap[PrivRef(k, IndexOf(k, i))][j]

\* The next slot of signingKeys signs epoch i+1.  At a break the slot is then
\* overwritten in place with the next quorum's key.
SignSlot(k) ==
  LET i == epoch[k]
      ref == signingKeys[k]
      j == Len(quorumSigs[k]) + 1
      key == heap[ref][j]
  IN  /\ pc[k] = "sign"
      /\ j <= Quorum
      /\ IF IsBreak(i)
           THEN /\ quorumSigs' = [quorumSigs EXCEPT ![k] =
                     Append(@, SignBreak(key, i + 1, apks[i \div periodLength + 1]))]
                /\ heap' = [heap EXCEPT ![ref][j] = NextKey(k, i, j)]
           ELSE /\ quorumSigs' = [quorumSigs EXCEPT ![k] = Append(@, SignNoBreak(key, i + 1))]
                /\ UNCHANGED heap
      /\ UNCHANGED <<args, pc, epoch, signingKeys, keyChans,
                     breaks, apks, sigs, multiSigs, sofar, finished>>

\* After a full batch the worker blocks until its report is received.
ReportDue(k, i) == (i - StartOf(k)) % Batch = Batch - 1

\* All slots have signed: store the signatures and their aggregate, go on to
\* the next epoch, to the report, or to the end.
StoreSignatures(k) ==
  LET i == epoch[k]
  IN  /\ pc[k] = "sign"
      /\ Len(quorumSigs[k]) = Quorum
      /\ sigs' = [sigs EXCEPT ![i + 1] = quorumSigs[k]]
      /\ multiSigs' = [multiSigs EXCEPT ![i + 1] = quorumSigs[k]]
      /\ quorumSigs' = [quorumSigs EXCEPT ![k] = <<>>]
      /\ epoch' = [epoch EXCEPT ![k] = i + 1]
      /\ pc' = [pc EXCEPT ![k] =
                  IF ReportDue(k, i) THEN "report"
                  ELSE IF i + 1 < EndOf(k) THEN "sign" ELSE "done"]
      /\ UNCHANGED <<args, signingKeys, keyChans, heap, breaks, apks, sofar, finished>>

\* Variant for mutation: the main goroutine leaves its loop one worker early.
ReceivingAllButOne == finished < n - 1

\* for finished := 0; finished < n;
Receiving == finished < n

\* The main goroutine's select receives a report or a completion; both
\* channels are unbuffered, so the worker's send is the same step.
ReceiveBatch(k) ==
  /\ Receiving
  /\ pc[k] = "report"
  /\ sofar' = sofar + Batch
  /\ pc' = [pc EXCEPT ![k] = IF epoch[k] < EndOf(k) THEN "sign" ELSE "done"]
  /\ UNCHANGED <<args, epoch, quorumSigs, signingKeys, keyChans, heap,
                 breaks, apks, sigs, multiSigs, finished>>

ReceiveDone(k) ==
  /\ Receiving
  /\ pc[k] = "done"
  /\ finished' = finished + 1
  /\ pc' = [pc EXCEPT ![k] = "exited"]
  /\ UNCHANGED <<args, epoch, quorumSigs, signingKeys, keyChans, heap,
                 breaks, apks, sigs, multiSigs, sofar>>

Worker(k) ==
  \/ CreateCommittee(k)
  \/ TakeKeys(k)
  \/ SignSlot(k)
  \/ StoreSignatures(k)
  \/ ReceiveBatch(k)
  \/ ReceiveDone(k)

\* newTestProver has left its loop and returns; nothing is left to do.
Returned == finished = n /\ UNCHANGED vars

Next == (\E k \in Workers : Worker(k)) \/ Returned

\* Every goroutine runs when it can.
Fairness == \A k \in 0 .. N - 1 : WF_vars(k \in Workers /\ Worker(k))

Spec == Init /\ [][Next]_vars /\ Fairness

-----------------------------------------------------------------------------
(* Properties                                                              *)

\* Key values, slices and what the arrays may hold while they are filled.
Keys == (0 .. Len(breaks)) \X (1 .. Quorum)

\* The struct that newTestProver returns.
Built == [GenesisApk |-> Apk(0), Breaks |-> breaks, Apks |-> apks,
          Signatures |-> sigs, Multisigs |-> multiSigs]

\* When newTestProver returns, its chain is the well-formed one that update
\* and the light client rely on (module TestProver): no epoch is unsigned,
\* signed by another quorum than the one in force, or with mixed members.
ChainWellFormed == finished = n => WellFormed(Built)

\* "The static quora sign the apks" (main.go:99): the key in each slot a worker
\* is about to sign with belongs to the quorum in force at that epoch.
SlotInForce ==
  \A k \in Workers :
    pc[k] = "sign" /\ Len(quorumSigs[k]) < Quorum =>
      LET j == Len(quorumSigs[k]) + 1
          key == heap[signingKeys[k]][j]
      IN  key[2] = j /\ InForce([x \in DOMAIN breaks |-> (x - 1) * periodLength + 1],
                                key[1], epoch[k] + 1)

\* The slice a worker will overwrite at a break of its interval is in no other
\* worker's hands, neither as its signing keys nor on the way to it.
OverwrittenSliceIsPrivate ==
  \A k, l \in Workers :
    /\ k # l
    /\ pc[k] = "sign"
    /\ pc[l] \in {"keys", "sign", "report"}
    /\ \E i \in BreaksIn(k) : i >= epoch[k]
    => /\ signingKeys[l] # signingKeys[k]
       /\ \A i \in BreaksIn(l) : PrivRef(l, IndexOf(l, i)) # signingKeys[k]

\* newTestProver returns: no worker waits for ever on a channel, and every
\* report and completion is received.
Terminates == <>(finished = n)
=============================================================================
