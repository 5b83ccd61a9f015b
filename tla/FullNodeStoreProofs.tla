------------------------ MODULE FullNodeStoreProofs ------------------------
(***************************************************************************)
(* Proofs about FullNodeStore, for every set of chain lengths, every size  *)
(* of an epoch and of a file, and every history of starts, stops, failed   *)
(* writes and rebuilds.                                                    *)
(***************************************************************************)
EXTENDS FullNodeStore, SequenceTheorems, WellFoundedInduction, TLAPS

-----------------------------------------------------------------------------
(* How many files a chain takes.                                           *)

LEMMA Ceil ==
  ASSUME NEW x \in Nat \ {0}, NEW y \in Nat \ {0}
  PROVE  CeilDiv(x, y) \in Nat \ {0} /\ x <= y * CeilDiv(x, y)
<1> DEFINE q == CeilDiv(x, y)
<1>1. q \in Nat /\ y * q <= x + y - 1 /\ x + y - 1 < y * q + y
  BY DEF CeilDiv
<1>2. y * q \in Nat
  BY <1>1
<1>3. x <= y * q
  BY <1>1, <1>2
<1>4. q # 0
  BY <1>3
<1> QED
  BY <1>1, <1>3, <1>4

LEMMA Sizes ==
  ASSUME NEW l \in Lengths
  PROVE  /\ l \in Nat \ {0} /\ nFiles(l) \in Nat \ {0} /\ perFile(l) \in Nat \ {0}
         /\ l <= nFiles(l) * perFile(l)
         /\ (nFiles(l) - 1) * perFile(l) <= l
<1>1. l \in Nat \ {0} /\ EpochSize \in Nat \ {0} /\ MaxFileSize \in Nat \ {0}
  BY StoreAssumption
<1>2. l * EpochSize \in Nat \ {0}
  BY <1>1
<1>3. nFiles(l) \in Nat \ {0}
  BY <1>1, <1>2, Ceil DEF nFiles
<1>4. perFile(l) \in Nat \ {0} /\ l <= nFiles(l) * perFile(l)
  BY <1>1, <1>3, Ceil DEF perFile
<1>5. (nFiles(l) - 1) * perFile(l) <= l
  BY StoreAssumption
<1> QED
  BY <1>1, <1>3, <1>4, <1>5

LEMMA FilesBound ==
  MaxFiles \in Nat \ {0} /\ \A l \in Lengths : nFiles(l) <= MaxFiles
<1>1. MaxFiles \in {nFiles(l) : l \in Lengths} /\ \A l \in Lengths : nFiles(l) <= MaxFiles
  BY LargestAssumption DEF MaxFiles
<1> QED
  BY <1>1, Sizes

-----------------------------------------------------------------------------
(* Induction over the natural numbers, for sets.                           *)

Less == {pair \in Nat \X Nat : pair[1] < pair[2]}

LEMMA LessWellFounded == IsWellFoundedOn(Less, Nat)
<1>1. Less = OpToRel(<, Nat)
  BY DEF Less, OpToRel
<1> QED
  BY <1>1, NatLessThanWellFounded

LEMMA SetInduction ==
  ASSUME NEW S, 0 \in S, \A k \in Nat : k \in S => k + 1 \in S
  PROVE  Nat \subseteq S
<1> DEFINE T == Nat \ S
<1> SUFFICES ASSUME T # {} PROVE FALSE
  OBVIOUS
<1>1. PICK x \in T : \A y \in T : ~ (<<y, x>> \in Less)
  <2> HIDE DEF T
  <2>1. T \subseteq Nat
    BY DEF T
  <2> QED
    BY <2>1, LessWellFounded, WFMin
<1>2. x \in Nat /\ x # 0
  BY <1>1
<1>3. x - 1 \in T
  BY <1>2
<1>4. <<x - 1, x>> \in Less
  BY <1>2, <1>3 DEF Less
<1> QED
  BY <1>1, <1>3, <1>4

-----------------------------------------------------------------------------
(* A created chain and its files.                                          *)

Creations == [number : Nat, length : Lengths]

Stored == [creation : Creations, epoch : Nat]

Chains == {Created(c) : c \in Creations}

LEMMA CreatedChain ==
  ASSUME NEW p \in Chains
  PROVE  /\ p.sigs \in Seq(Stored) /\ Len(p.sigs) \in Lengths
         /\ p.creation \in Creations /\ p = Created(p.creation)
<1>1. PICK c \in Creations : p = Created(c)
  BY DEF Chains
<1>2. c.length \in Lengths /\ c.length \in Nat
  BY Sizes DEF Creations
<1> DEFINE sig(e) == [creation |-> c, epoch |-> e]
<1>3. p.creation = c /\ p.sigs = [e \in 1 .. c.length |-> sig(e)]
  BY <1>1 DEF Created
<1>4. \A e \in 1 .. c.length : sig(e) \in Stored
  BY DEF Stored
<1>5. [e \in 1 .. c.length |-> sig(e)] \in Seq(Stored)
  <2> HIDE DEF sig
  <2> QED
    BY <1>2, <1>4, IsASeq
<1>6. Len(p.sigs) = c.length
  <2>1. Len(p.sigs) \in Nat /\ DOMAIN p.sigs = 1 .. Len(p.sigs)
    BY <1>3, <1>5, LenProperties
  <2>2. DOMAIN p.sigs = 1 .. c.length
    BY <1>3
  <2> QED
    BY <1>2, <2>1, <2>2
<1> QED
  BY <1>1, <1>2, <1>3, <1>5, <1>6

ChainFiles(p) == {FileOf(p, s) : s \in 1 .. Steps(p)}

LEMMA FilesOfChain ==
  ASSUME NEW p \in Chains
  PROVE  /\ Steps(p) \in Nat \ {0, 1, 2}
         /\ ChainFiles(p) \subseteq FileNames
         /\ \A s, t \in 1 .. Steps(p) : FileOf(p, s) = FileOf(p, t) => s = t
         /\ \A s \in 1 .. Steps(p) : FileOf(p, s) = 0 <=> s = 1
         /\ 0 \in FileNames
<1>1. /\ nFiles(Len(p.sigs)) \in Nat \ {0} /\ nFiles(Len(p.sigs)) <= MaxFiles
      /\ MaxFiles \in Nat
  BY CreatedChain, Sizes, FilesBound
<1> QED
  BY <1>1 DEF Steps, FileOf, ChainFiles, FileNames, Nextk0

LEMMA Contents ==
  ASSUME NEW p \in Chains, NEW s \in 1 .. Steps(p)
  PROVE  /\ Content(p, s) # Absent /\ Content(p, s) # Incomplete /\ Incomplete # Absent
         /\ Absent.is = "absent" /\ Incomplete.is = "incomplete"
         /\ Content(p, s).is = IF s = Steps(p) THEN "genesis" ELSE IF s = 1 THEN "header" ELSE "part"
<1>1. Absent.is = "absent" /\ Incomplete.is = "incomplete"
  BY DEF Absent, Incomplete
<1>2. Content(p, s).is = IF s = Steps(p) THEN "genesis" ELSE IF s = 1 THEN "header" ELSE "part"
  BY DEF Content
<1>3. Content(p, s).is # "absent" /\ Content(p, s).is # "incomplete"
  BY <1>2
<1> QED
  BY <1>1, <1>2, <1>3

-----------------------------------------------------------------------------
(* The inductive invariant: all files are of one chain, the one that the   *)
(* node holds, and of a save in progress exactly the files before it are   *)
(* whole.                                                                  *)

OfChain(p) ==
  /\ \A s \in 1 .. Steps(p) : disk[FileOf(p, s)] \in {Absent, Incomplete, Content(p, s)}
  /\ \A f \in FileNames \ ChainFiles(p) : disk[f] = Absent
  /\ ~ChainFileFound => \A f \in FileNames : disk[f] = Absent

Whole(p) == \A s \in 1 .. Steps(p) : disk[FileOf(p, s)] = Content(p, s)

Saving(p) ==
  /\ node.is = "saving"
  /\ node = [is |-> "saving", open |-> node.open, step |-> node.step, prover |-> p]
  /\ node.open \in BOOLEAN /\ node.step \in 1 .. Steps(p)
  /\ \A s \in 1 .. Steps(p) :
       disk[FileOf(p, s)] = IF s < node.step THEN Content(p, s)
                            ELSE IF s = node.step /\ node.open THEN Incomplete
                            ELSE Absent

NodeOf(p) ==
  \/ node \in {Down, Panicked}
  \/ Saving(p)
  \/ node = [is |-> "serving", prover |-> p]

TypeOK ==
  /\ built \in Lengths
  /\ disk = [f \in FileNames |-> disk[f]]
  /\ creations \in Nat
  /\ saved \in BOOLEAN

IInv == TypeOK /\ \E p \in Chains : OfChain(p) /\ NodeOf(p) /\ (saved => Whole(p))

LEMMA InitIInv == Init => IInv
<1> SUFFICES ASSUME Init PROVE IInv
  OBVIOUS
<1> DEFINE none == Created([number |-> 0, length |-> built])
<1>1. none \in Chains
  BY DEF Init, Chains, Creations
<1>2. \A f \in FileNames : disk[f] = Absent
  BY DEF Init
<1> HIDE DEF none
<1>3. OfChain(none)
  BY <1>1, <1>2, FilesOfChain DEF OfChain, ChainFiles
<1>4. TypeOK
  BY DEF Init, TypeOK
<1> QED
  BY <1>1, <1>3, <1>4 DEF Init, IInv, NodeOf

LEMMA CreateFileIInv ==
  ASSUME IInv, CreateFile
  PROVE  IInv'
<1>1. PICK p \in Chains : OfChain(p) /\ NodeOf(p) /\ (saved => Whole(p))
  BY DEF IInv
<1>2. Saving(p) /\ ~node.open /\ node.prover = p /\ node.step \in 1 .. Steps(p)
  BY <1>1 DEF NodeOf, CreateFile, Saving, Down, Panicked
<1> DEFINE k == node.step
           f == FileOf(p, k)
<1>3. node' = [is |-> "saving", open |-> TRUE, step |-> k, prover |-> p]
  BY <1>2 DEF CreateFile, Saving
<1>4. /\ DOMAIN disk = FileNames /\ disk' = [disk EXCEPT ![f] = Incomplete]
      /\ f \in FileNames /\ UNCHANGED <<built, creations, saved>>
  BY <1>2, FilesOfChain DEF CreateFile, IInv, TypeOK, ChainFiles
<1> HIDE DEF f, k
<1>5. \A g \in FileNames : disk'[g] = IF g = f THEN Incomplete ELSE disk[g]
  BY <1>4
<1>6. k \in 1 .. Steps(p) /\ f = FileOf(p, k) /\ Steps(p) \in Nat
  BY <1>2, FilesOfChain DEF f, k
<1>7. \A s \in 1 .. Steps(p) :
        disk'[FileOf(p, s)] = IF s = k THEN Incomplete ELSE disk[FileOf(p, s)]
  BY <1>5, <1>6, FilesOfChain DEF ChainFiles
<1>8. ~saved
  <2>1. disk[FileOf(p, k)] = Absent
    BY <1>2 DEF Saving, k
  <2> QED
    BY <1>1, <1>6, <2>1, Contents DEF Whole
<1>9. Saving(p)'
  <2> SUFFICES ASSUME NEW s \in 1 .. Steps(p)
               PROVE  disk'[FileOf(p, s)] = IF s < k THEN Content(p, s)
                                            ELSE IF s = k THEN Incomplete ELSE Absent
    BY <1>3, <1>6 DEF Saving
  <2>1. disk[FileOf(p, s)] = IF s < k THEN Content(p, s) ELSE Absent
    BY <1>2 DEF Saving, k
  <2> QED
    BY <1>6, <1>7, <2>1
<1>10. OfChain(p)'
  <2>1. \A s \in 1 .. Steps(p) : disk'[FileOf(p, s)] \in {Absent, Incomplete, Content(p, s)}
    BY <1>1, <1>7 DEF OfChain
  <2>2. \A g \in FileNames \ ChainFiles(p) : disk'[g] = Absent
    BY <1>1, <1>5, <1>6 DEF OfChain, ChainFiles
  <2>3. disk'[0] # Absent
    <3>1. 1 \in 1 .. Steps(p) /\ FileOf(p, 1) = 0
      BY FilesOfChain
    <3>2. disk'[0] = IF 1 = k THEN Incomplete ELSE disk[0]
      BY <1>7, <3>1
    <3>3. 1 # k => disk[0] = Content(p, 1)
      BY <1>2, <1>6, <3>1 DEF Saving, k
    <3> QED
      BY <3>1, <3>2, <3>3, Contents
  <2> QED
    BY <2>1, <2>2, <2>3 DEF OfChain, ChainFileFound
<1>11. TypeOK'
  BY <1>4 DEF IInv, TypeOK
<1> QED
  BY <1>4, <1>8, <1>9, <1>10, <1>11 DEF IInv, NodeOf

LEMMA EncodeFileIInv ==
  ASSUME IInv, EncodeFile
  PROVE  IInv'
<1>1. PICK p \in Chains : OfChain(p) /\ NodeOf(p) /\ (saved => Whole(p))
  BY DEF IInv
<1>2. Saving(p) /\ node.open /\ node.prover = p /\ node.step \in 1 .. Steps(p)
  BY <1>1 DEF NodeOf, EncodeFile, Saving, Down, Panicked
<1> DEFINE k == node.step
           f == FileOf(p, k)
<1>3. /\ DOMAIN disk = FileNames /\ disk' = [disk EXCEPT ![f] = Content(p, k)]
      /\ f \in FileNames /\ UNCHANGED <<built, creations>>
  BY <1>2, FilesOfChain DEF EncodeFile, IInv, TypeOK, ChainFiles
<1>4. k \in 1 .. Steps(p) /\ f = FileOf(p, k) /\ Steps(p) \in Nat
  BY <1>2, FilesOfChain
<1> HIDE DEF f
<1>5. \A g \in FileNames : disk'[g] = IF g = f THEN Content(p, k) ELSE disk[g]
  BY <1>3
<1>6. \A s \in 1 .. Steps(p) :
        disk'[FileOf(p, s)] = IF s = k THEN Content(p, s) ELSE disk[FileOf(p, s)]
  BY <1>4, <1>5, FilesOfChain DEF ChainFiles
<1>7. \A s \in 1 .. Steps(p) :
        disk'[FileOf(p, s)] = IF s <= k THEN Content(p, s) ELSE Absent
  <2> SUFFICES ASSUME NEW s \in 1 .. Steps(p)
               PROVE  disk'[FileOf(p, s)] = IF s <= k THEN Content(p, s) ELSE Absent
    OBVIOUS
  <2>1. s # k => disk[FileOf(p, s)] = IF s < k THEN Content(p, s) ELSE Absent
    BY <1>2 DEF Saving
  <2> QED
    BY <1>4, <1>6, <2>1
<1>8. OfChain(p)'
  <2>1. \A s \in 1 .. Steps(p) : disk'[FileOf(p, s)] \in {Absent, Incomplete, Content(p, s)}
    BY <1>7
  <2>2. \A g \in FileNames \ ChainFiles(p) : disk'[g] = Absent
    BY <1>1, <1>4, <1>5 DEF OfChain, ChainFiles
  <2>3. disk'[0] # Absent
    <3>1. 1 \in 1 .. Steps(p) /\ FileOf(p, 1) = 0
      BY FilesOfChain
    <3>2. disk'[0] = Content(p, 1)
      BY <1>4, <1>7, <3>1
    <3> QED
      BY <3>1, <3>2, Contents
  <2> QED
    BY <2>1, <2>2, <2>3 DEF OfChain, ChainFileFound
<1>9. CASE k = Steps(p)
  <2>1. node' = [is |-> "serving", prover |-> p] /\ saved' = TRUE
    BY <1>2, <1>9 DEF EncodeFile, IsLastStep
  <2>2. Whole(p)'
    BY <1>7, <1>9 DEF Whole
  <2>3. TypeOK'
    BY <1>3, <2>1 DEF IInv, TypeOK
  <2> QED
    BY <1>8, <2>1, <2>2, <2>3 DEF IInv, NodeOf
<1>10. CASE k # Steps(p)
  <2>1. /\ node' = [is |-> "saving", open |-> FALSE, step |-> k + 1, prover |-> p]
        /\ saved' = saved
    BY <1>2, <1>10 DEF EncodeFile, IsLastStep, Saving
  <2>2. k + 1 \in 1 .. Steps(p)
    BY <1>4, <1>10
  <2>3. Saving(p)'
    BY <1>4, <1>7, <2>1, <2>2 DEF Saving
  <2>4. ~saved
    <3>1. disk[FileOf(p, k)] = Incomplete
      BY <1>2, <1>4 DEF Saving
    <3> QED
      BY <1>1, <1>4, <3>1, Contents DEF Whole
  <2>5. TypeOK'
    BY <1>3, <2>1 DEF IInv, TypeOK
  <2> QED
    BY <1>8, <2>1, <2>3, <2>4, <2>5 DEF IInv, NodeOf
<1> QED
  BY <1>9, <1>10

\* A start that finds no chain file finds no file at all.
LEMMA CreateIInv ==
  ASSUME IInv, Create
  PROVE  IInv'
<1>1. PICK p \in Chains : OfChain(p) /\ NodeOf(p) /\ (saved => Whole(p))
  BY DEF IInv
<1>2. disk[0] = Absent /\ \A f \in FileNames : disk[f] = Absent
  BY <1>1 DEF Create, ChainFileFound, OfChain
<1>3. ~saved
  <2>1. 1 \in 1 .. Steps(p) /\ FileOf(p, 1) = 0
    BY FilesOfChain
  <2> QED
    BY <1>1, <1>2, <2>1, Contents DEF Whole
<1>4. creations' \in Nat /\ UNCHANGED <<built, disk, saved>>
  BY DEF Create, IInv, TypeOK
<1>5. Created([number |-> creations', length |-> built]) \in Chains
  BY <1>4 DEF Chains, Creations, IInv, TypeOK
<1>6. PICK q \in Chains :
        node' = [is |-> "saving", open |-> FALSE, step |-> 1, prover |-> q]
  BY <1>5 DEF Create
<1>7. /\ Steps(q) \in Nat \ {0, 1, 2} /\ ChainFiles(q) \subseteq FileNames
      /\ \A s \in 1 .. Steps(q) : disk[FileOf(q, s)] = Absent
  BY <1>2, FilesOfChain DEF ChainFiles
<1>8. OfChain(q)' /\ Saving(q)'
  <2>1. OfChain(q)'
    BY <1>2, <1>4, <1>7 DEF OfChain, ChainFileFound
  <2>2. /\ node'.is = "saving" /\ node'.open = FALSE /\ node'.step = 1
        /\ node' = [is |-> "saving", open |-> node'.open, step |-> node'.step, prover |-> q]
    BY <1>6
  <2>3. 1 \in 1 .. Steps(q)
    BY <1>7
  <2>4. \A s \in 1 .. Steps(q) :
          disk'[FileOf(q, s)] = IF s < 1 THEN Content(q, s)
                                ELSE IF s = 1 /\ FALSE THEN Incomplete ELSE Absent
    BY <1>4, <1>7
  <2>5. Saving(q)'
    BY <2>2, <2>3, <2>4 DEF Saving
  <2> QED
    BY <2>1, <2>5
<1>9. TypeOK'
  BY <1>4 DEF IInv, TypeOK
<1> QED
  BY <1>3, <1>4, <1>8, <1>9 DEF IInv, NodeOf

-----------------------------------------------------------------------------
(* What a start loads.                                                     *)

\* The recursive definition of Concatenated has a solution.
LEMMA ConcatenatedDef ==
  /\ Concatenated[0] = <<>>
  /\ \A k \in 0 .. MaxFiles : Concatenated[k + 1] = Concatenated[k] \o disk[k + 1].sigs
<1> DEFINE Solves(g, m) ==
             g = [k \in 0 .. m |-> IF k = 0 THEN <<>> ELSE g[k - 1] \o disk[k].sigs]
           S == {m \in Nat : \E g : Solves(g, m)}
<1>1. 0 \in S
  <2> DEFINE g == [k \in 0 .. 0 |-> <<>>]
  <2>1. Solves(g, 0)
    OBVIOUS
  <2> QED
    BY <2>1
<1>2. ASSUME NEW m \in Nat, m \in S PROVE m + 1 \in S
  <2>1. PICK g : Solves(g, m)
    BY <1>2
  <2> DEFINE h == [k \in 0 .. m + 1 |-> IF k = m + 1 THEN g[m] \o disk[m + 1].sigs ELSE g[k]]
             hh == [k \in 0 .. m + 1 |-> IF k = 0 THEN <<>> ELSE h[k - 1] \o disk[k].sigs]
  <2>2. ASSUME NEW k \in 0 .. m + 1
        PROVE  h[k] = hh[k]
    <3>1. CASE k = m + 1
      <4>1. k - 1 = m /\ k # 0 /\ m # m + 1 /\ m \in 0 .. m + 1
        BY <3>1
      <4>2. h[k] = g[m] \o disk[k].sigs
        BY <3>1
      <4>3. h[m] = g[m]
        BY <4>1
      <4>4. hh[k] = h[k - 1] \o disk[k].sigs
        BY <4>1
      <4> QED
        BY <4>1, <4>2, <4>3, <4>4
    <3>2. CASE k \in 0 .. m
      <4>1. h[k] = g[k] /\ (k # 0 => h[k - 1] = g[k - 1])
        BY <3>2
      <4>2. g[k] = IF k = 0 THEN <<>> ELSE g[k - 1] \o disk[k].sigs
        BY <2>1, <3>2
      <4> QED
        BY <4>1, <4>2
    <3> QED
      BY <3>1, <3>2
  <2>3. h = hh
    BY <2>2
  <2>4. \E f : Solves(f, m + 1)
    BY <2>3
  <2> HIDE DEF Solves
  <2> QED
    BY <2>4
<1>3. MaxFiles + 1 \in S
  <2> HIDE DEF S
  <2>1. MaxFiles + 1 \in Nat
    BY FilesBound
  <2> QED
    BY <1>1, <1>2, <2>1, SetInduction
<1>4. Solves(Concatenated, MaxFiles + 1)
  BY <1>3 DEF Concatenated
<1>5. MaxFiles \in Nat
  BY FilesBound
<1>6. Concatenated[0] = <<>>
  BY <1>4, <1>5
<1>7. ASSUME NEW k \in 0 .. MaxFiles
      PROVE  Concatenated[k + 1] = Concatenated[k] \o disk[k + 1].sigs
  <2>1. PICK j \in 0 .. MaxFiles + 1 : j = k + 1 /\ j # 0 /\ j - 1 = k
    BY <1>5
  <2>2. Concatenated[j] = IF j = 0 THEN <<>> ELSE Concatenated[j - 1] \o disk[j].sigs
    BY <1>4
  <2> QED
    BY <2>1, <2>2
<1> QED
  BY <1>6, <1>7

LEMMA LoadedIsChain ==
  ASSUME NEW p \in Chains,
         \A k \in 1 .. nFiles(Len(p.sigs)) : disk[k] = Content(p, k + 1)
  PROVE  Concatenated[nFiles(Len(p.sigs))] = p.sigs
<1> DEFINE l == Len(p.sigs)
           files == nFiles(l)
           per == perFile(l)
           upto(k) == IF k * per >= l THEN l ELSE k * per
           S == {k \in Nat : k <= files => Concatenated[k] = SubSeq(p.sigs, 1, upto(k))}
<1>1. /\ p.sigs \in Seq(Stored) /\ l \in Nat \ {0} /\ files \in Nat \ {0} /\ per \in Nat \ {0}
      /\ l <= files * per /\ (files - 1) * per <= l /\ files <= MaxFiles /\ MaxFiles \in Nat
  BY CreatedChain, Sizes, FilesBound
<1>2. Steps(p) = files + 2
  BY DEF Steps
<1> HIDE DEF l, files, per
<1>3. 0 \in S
  <2>1. Concatenated[0] = <<>>
    BY <1>1, ConcatenatedDef
  <2>2. upto(0) = 0 /\ SubSeq(p.sigs, 1, 0) = <<>>
    BY <1>1, SubSeqEmpty
  <2> QED
    BY <2>1, <2>2
<1>4. ASSUME NEW k \in Nat, k \in S PROVE k + 1 \in S
  <2> SUFFICES ASSUME k + 1 <= files
               PROVE  Concatenated[k + 1] = SubSeq(p.sigs, 1, upto(k + 1))
    OBVIOUS
  <2>1. k <= files - 1 /\ k * per \in Nat /\ (k + 1) * per = k * per + per
    BY <1>1
  <2>2. k * per <= (files - 1) * per
    BY <1>1, <2>1
  <2>3. k * per <= l /\ upto(k) = k * per
    BY <1>1, <2>1, <2>2
  <2>4. upto(k + 1) \in k * per .. l
    BY <1>1, <2>1, <2>3
  <2>5. Part(p, k) = SubSeq(p.sigs, k * per + 1, upto(k + 1))
    BY DEF Part, l, per
  <2>6. disk[k + 1].sigs = Part(p, k)
    <3>1. disk[k + 1] = Content(p, k + 2) /\ k + 2 # Steps(p) /\ k + 2 # 1 /\ k + 2 - 2 = k
      BY <1>1, <1>2, <2>1 DEF files, l
    <3> QED
      BY <3>1 DEF Content
  <2>7. Concatenated[k + 1] = Concatenated[k] \o disk[k + 1].sigs
    <3>1. k \in 0 .. MaxFiles
      BY <1>1, <2>1
    <3> QED
      BY <3>1, ConcatenatedDef
  <2>8. Concatenated[k] = SubSeq(p.sigs, 1, k * per)
    BY <1>1, <1>4, <2>3
  <2>9. SubSeq(p.sigs, 1, k * per) \o SubSeq(p.sigs, k * per + 1, upto(k + 1))
          = SubSeq(p.sigs, 1, upto(k + 1))
    <3>1. /\ p.sigs \in Seq(Stored) /\ 1 \in 1 .. Len(p.sigs) + 1
          /\ k * per \in 1 - 1 .. Len(p.sigs) /\ upto(k + 1) \in k * per .. Len(p.sigs)
      BY <1>1, <2>1, <2>3, <2>4 DEF l
    <3> HIDE DEF upto
    <3> QED
      BY <3>1, ConcatAdjacentSubSeq
  <2> QED
    BY <2>5, <2>6, <2>7, <2>8, <2>9
<1>5. files \in S
  <2> HIDE DEF S
  <2> QED
    BY <1>1, <1>3, <1>4, SetInduction
<1>6. upto(files) = l
  BY <1>1
<1>7. Concatenated[files] = SubSeq(p.sigs, 1, l)
  BY <1>1, <1>5, <1>6
<1> QED
  BY <1>1, <1>7, SubSeqFull DEF files, l

-----------------------------------------------------------------------------
(* Starts, stops and rebuilds.                                             *)

LEMMA LoadIInv ==
  ASSUME IInv, Load
  PROVE  IInv'
<1>1. PICK p \in Chains : OfChain(p) /\ NodeOf(p) /\ (saved => Whole(p))
  BY DEF IInv
<1> DEFINE files == nFiles(Len(p.sigs))
<1>2. Steps(p) = files + 2 /\ files \in Nat \ {0}
  BY CreatedChain, Sizes DEF Steps
<1>3. FileOf(p, 1) = 0 /\ 1 \in 1 .. Steps(p)
  BY FilesOfChain
<1>4. disk[0] = Content(p, 1)
  <2>1. disk[0].is = "header"
    BY DEF Load, Loadable
  <2> QED
    BY <1>1, <1>3, <2>1, Contents DEF OfChain
<1>5. disk[0].creation = p.creation /\ disk[0].files = files + 1
  BY <1>2, <1>4 DEF Content
<1>6. \A k \in 1 .. files : disk[k] = Content(p, k + 1)
  <2> SUFFICES ASSUME NEW k \in 1 .. files PROVE disk[k] = Content(p, k + 1)
    OBVIOUS
  <2>1. k \in FilesToLoad
    BY <1>2, <1>5 DEF FilesToLoad, LastFile
  <2>2. disk[k].is = "part"
    BY <2>1 DEF Load, Loadable
  <2>3. k + 1 \in 1 .. Steps(p) /\ FileOf(p, k + 1) = k
    BY <1>2 DEF FileOf
  <2>4. disk[k] \in {Absent, Incomplete, Content(p, k + 1)}
    BY <1>1, <2>3 DEF OfChain
  <2> QED
    BY <2>2, <2>3, <2>4, Contents
<1>7. Concatenated[LastFile] = p.sigs
  <2>1. LastFile = files
    BY <1>2, <1>5 DEF LastFile
  <2>2. Concatenated[files] = p.sigs
    BY <1>6, LoadedIsChain
  <2> QED
    BY <2>1, <2>2
<1>8. node' = [is |-> "serving", prover |-> p]
  <2>1. p = [creation |-> p.creation, sigs |-> p.sigs]
    BY CreatedChain DEF Created
  <2> QED
    BY <1>5, <1>7, <2>1 DEF Load
<1>9. UNCHANGED <<built, disk, creations, saved>>
  BY DEF Load
<1>10. OfChain(p)' /\ (saved => Whole(p))' /\ TypeOK'
  BY <1>1, <1>9 DEF OfChain, Whole, IInv, TypeOK, ChainFileFound
<1> QED
  BY <1>8, <1>10 DEF IInv, NodeOf

\* The steps after which the node is down or has panicked, or is as before.
LEMMA DownIInv ==
  ASSUME IInv, built' \in Lengths, UNCHANGED <<disk, creations, saved>>,
         node' \in {Down, Panicked, node}
  PROVE  IInv'
<1>1. PICK p \in Chains : OfChain(p) /\ NodeOf(p) /\ (saved => Whole(p))
  BY DEF IInv
<1>2. OfChain(p)' /\ (saved => Whole(p))' /\ TypeOK'
  BY <1>1 DEF OfChain, Whole, IInv, TypeOK, ChainFileFound
<1>3. NodeOf(p)'
  <2>1. CASE node' = node
    BY <1>1, <2>1 DEF NodeOf, Saving
  <2>2. CASE node' \in {Down, Panicked}
    BY <2>2 DEF NodeOf
  <2> QED
    BY <2>1, <2>2
<1> QED
  BY <1>2, <1>3 DEF IInv

LEMMA NextIInv == IInv /\ [Next]_vars => IInv'
<1> SUFFICES ASSUME IInv, [Next]_vars PROVE IInv'
  OBVIOUS
<1>1. built \in Lengths
  BY DEF IInv, TypeOK
<1>2. CASE SaveError \/ LoadError \/ Crash \/ Rebuild \/ UNCHANGED vars
  BY <1>1, <1>2, DownIInv DEF SaveError, LoadError, Crash, Rebuild, vars
<1> QED
  BY <1>2, CreateFileIInv, EncodeFileIInv, LoadIInv, CreateIInv DEF Next

-----------------------------------------------------------------------------
(* The theorems.                                                           *)

\* The files and the node belong to one chain, whatever happens to the process.
THEOREM StoreInvariance == Spec => []IInv
BY InitIInv, NextIInv, PTL DEF Spec

LEMMA IInvServes == IInv => ServesWholeChain
<1> SUFFICES ASSUME IInv, Serving PROVE ServesWholeChain
  BY DEF ServesWholeChain
<1>1. PICK p \in Chains : NodeOf(p)
  BY DEF IInv
<1>2. node.prover = p
  BY <1>1 DEF NodeOf, Serving, Saving, Down, Panicked
<1>3. p = Created(p.creation)
  BY CreatedChain
<1> QED
  BY <1>2, <1>3 DEF ServesWholeChain

\* A node that serves holds all of a chain, with every epoch it was created
\* with, whatever was stopped, failed or rebuilt before.
THEOREM ServesOneWholeChain == Spec => []ServesWholeChain
BY StoreInvariance, IInvServes, PTL

LEMMA IInvLoads == IInv => SavedChainLoads
<1> SUFFICES ASSUME IInv, saved PROVE ChainFileFound /\ Loadable
  BY DEF SavedChainLoads
<1>1. PICK p \in Chains : Whole(p)
  BY DEF IInv
<1> DEFINE files == nFiles(Len(p.sigs))
<1>2. Steps(p) = files + 2 /\ files \in Nat \ {0}
  BY CreatedChain, Sizes DEF Steps
<1>3. disk[0] = Content(p, 1) /\ 1 \in 1 .. Steps(p)
  BY <1>1, FilesOfChain DEF Whole
<1>4. disk[0].is = "header" /\ disk[0].files = files + 1
  BY <1>2, <1>3 DEF Content
<1>5. ASSUME NEW k \in FilesToLoad PROVE disk[k].is = "part"
  <2>1. k \in 1 .. files
    BY <1>2, <1>4, <1>5 DEF FilesToLoad, LastFile
  <2>2. k + 1 \in 1 .. Steps(p) /\ FileOf(p, k + 1) = k /\ k + 1 # Steps(p) /\ k + 1 # 1
    BY <1>2, <2>1 DEF FileOf
  <2> QED
    BY <1>1, <2>2, Contents DEF Whole
<1>6. disk[0] # Absent
  BY <1>3, Contents
<1> QED
  BY <1>4, <1>5, <1>6 DEF ChainFileFound, Loadable

\* Once a save has succeeded every later start finds a chain that it can load.
THEOREM SavedChainAlwaysLoads == Spec => []SavedChainLoads
BY StoreInvariance, IInvLoads, PTL

LEMMA StepKeepsChain ==
  ASSUME IInv, [Next]_vars, NEW f \in FileNames \ {Nextk0}, disk[f].is \in {"header", "part"}
  PROVE  disk'[f] = disk[f]
<1>1. PICK p \in Chains : OfChain(p) /\ NodeOf(p) /\ (saved => Whole(p))
  BY DEF IInv
<1>2. CASE UNCHANGED disk
  BY <1>2
<1>3. CASE CreateFile \/ EncodeFile
  <2>1. Saving(p) /\ node.prover = p /\ node.step \in 1 .. Steps(p)
    BY <1>1, <1>3 DEF NodeOf, CreateFile, EncodeFile, Saving, Down, Panicked
  <2>2. f # FileOf(p, node.step)
    <3>1. disk[FileOf(p, node.step)] \in {Absent, Incomplete}
      <4>1. ~(node.step < node.step)
        BY <2>1
      <4> QED
        BY <2>1, <4>1 DEF Saving
    <3> QED
      BY <3>1 DEF Absent, Incomplete
  <2>3. PICK c : disk' = [disk EXCEPT ![FileOf(p, node.step)] = c]
    BY <1>3, <2>1 DEF CreateFile, EncodeFile
  <2> QED
    BY <2>2, <2>3 DEF IInv, TypeOK
<1> QED
  BY <1>2, <1>3 DEF Next, SaveError, Load, LoadError, Create, Crash, Rebuild, vars

\* No step of the node touches a whole file of a stored chain.
THEOREM StoredChainNeverReplaced == Spec => ChainNeverReplaced
<1>1. IInv /\ [Next]_vars =>
        [\A f \in FileNames \ {Nextk0} :
           disk[f].is \in {"header", "part"} => disk'[f] = disk[f]]_vars
  BY StepKeepsChain
<1> QED
  BY <1>1, StoreInvariance, PTL DEF Spec, ChainNeverReplaced
=============================================================================
