--------------------------- MODULE FullNodeStore ---------------------------
(***************************************************************************)
(* The full node's start, and the files it keeps (main, save and           *)
(* newTestProverFromFile in evaluation/full_node/main.go).  On its first   *)
(* start the node creates a chain and writes it to committee_chain_0.gob,  *)
(* ..., committee_chain_<nFiles>.gob and the genesis key to nextk0.gob; a  *)
(* later start loads the chain instead if it finds committee_chain_0.gob.  *)
(* The process may stop at any moment and a write may fail.                *)
(*                                                                         *)
(* The keys and signatures of a chain are fresh random values: what is     *)
(* kept of them is the creation they come from, its number and the length  *)
(* the chain had then.  Signatures and Multisigs are split alike; an epoch *)
(* stands for both.                                                        *)
(***************************************************************************)
EXTENDS Integers, Sequences

CONSTANTS
  Lengths,          \* the chain lengths main may be built with
  EpochSize,        \* bytes of signatures per epoch, (Quorum + 1) * 96
  MaxFileSize,      \* 1<<31
  MaxCreations      \* bound on the number that tells creations apart

CeilDiv(x, y) == (x + y - 1) \div y

nFiles(length) == CeilDiv(length * EpochSize, MaxFileSize)
perFile(length) == CeilDiv(length, nFiles(length))

\* No slice starts beyond the end.  It holds whenever nFiles * (nFiles - 1) is
\* at most the length: at 87 * 96 bytes per epoch, for fewer than 2^35 epochs.
ASSUME StoreAssumption ==
  /\ EpochSize \in Nat \ {0} /\ MaxFileSize \in Nat \ {0} /\ MaxCreations \in Nat
  /\ \A length \in Lengths :
       length \in Nat \ {0} /\ (nFiles(length) - 1) * perFile(length) <= length

\* A length is a Go int: one of the lengths takes the most files.
ASSUME LargestAssumption ==
  \E m \in {nFiles(l) : l \in Lengths} : \A l \in Lengths : nFiles(l) <= m

VARIABLES
  built,       \* the chain length in the binary; the readme has users edit it
  disk,        \* the files
  node,        \* the process: its state and the prover it holds
  creations,   \* how many chains were created
  saved        \* history: some save has returned without an error

vars == <<built, disk, node, creations, saved>>

\* File names: 0 .. n for the chain's files, and the genesis file.
Nextk0 == -1
MaxFiles == CHOOSE m \in {nFiles(l) : l \in Lengths} : \A l \in Lengths : nFiles(l) <= m
FileNames == {Nextk0} \cup 0 .. MaxFiles + 1

\* A file is absent, incomplete (created but not fully encoded) or whole.
Absent == [is |-> "absent"]
Incomplete == [is |-> "incomplete"]

\* A prover in memory: its creation (that of GenesisApk, Breaks and Apks), and
\* for every epoch of Signatures the creation and the epoch of what is stored
\* there.  As newTestProver returns it, it has all epochs of its creation.
Created(c) ==
  [creation |-> c, sigs |-> [e \in 1 .. c.length |-> [creation |-> c, epoch |-> e]]]

Down == [is |-> "down"]
Panicked == [is |-> "panicked"]

Init ==
  /\ built \in Lengths
  /\ disk = [f \in FileNames |-> Absent]
  /\ node = Down
  /\ creations = 0
  /\ saved = FALSE

-----------------------------------------------------------------------------
(* save                                                                    *)

\* The slice of Signatures that file i+1 holds; the last one takes the rest.
Part(p, i) ==
  LET length == Len(p.sigs)
      from == i * perFile(length) + 1
      to == (i + 1) * perFile(length)
  IN  SubSeq(p.sigs, from, IF to >= length THEN length ELSE to)

\* save writes the header, the parts and the genesis key, in this order.
Steps(p) == nFiles(Len(p.sigs)) + 2

FileOf(p, s) == IF s = Steps(p) THEN Nextk0 ELSE s - 1

Content(p, s) ==
  IF s = Steps(p) THEN [is |-> "genesis", creation |-> p.creation]
  ELSE IF s = 1 THEN [is |-> "header", creation |-> p.creation, files |-> Steps(p) - 1]
  ELSE [is |-> "part", sigs |-> Part(p, s - 2)]

IsLastStep(p, s) == s = Steps(p)

\* os.Create: the file exists from here on, and is empty.
CreateFile ==
  /\ node.is = "saving"
  /\ ~node.open
  /\ disk' = [disk EXCEPT ![FileOf(node.prover, node.step)] = Incomplete]
  /\ node' = [node EXCEPT !.open = TRUE]
  /\ UNCHANGED <<built, creations, saved>>

\* enc.Encode: the file is whole; after the last file the node serves.
EncodeFile ==
  /\ node.is = "saving"
  /\ node.open
  /\ disk' = [disk EXCEPT ![FileOf(node.prover, node.step)] = Content(node.prover, node.step)]
  /\ IF IsLastStep(node.prover, node.step)
       THEN /\ node' = [is |-> "serving", prover |-> node.prover]
            /\ saved' = TRUE
       ELSE /\ node' = [node EXCEPT !.open = FALSE, !.step = @ + 1]
            /\ UNCHANGED saved
  /\ UNCHANGED <<built, creations>>

\* Creating or encoding fails: save returns the error and main panics.
SaveError ==
  /\ node.is = "saving"
  /\ node' = Panicked
  /\ UNCHANGED <<built, disk, creations, saved>>

-----------------------------------------------------------------------------
(* main and newTestProverFromFile                                          *)

\* Variant for mutation: the start looks for the genesis file instead.
GenesisFileFound == disk[Nextk0] # Absent

\* The directory lists committee_chain_0.gob.
ChainFileFound == disk[0] # Absent

\* Variant for mutation: the loop over the files ends one file too early.
LastFileButOne == disk[0].files - 2

\* Variant for mutation: the loop over the files runs one too far.
OneFileBeyond == disk[0].files

\* for i := 1; i < prover.Files; i++
LastFile == disk[0].files - 1

FilesToLoad == 1 .. LastFile

Loadable ==
  /\ disk[0].is = "header"
  /\ \A i \in FilesToLoad : disk[i].is = "part"

\* Appending the parts in order of their files.
Concatenated[i \in 0 .. MaxFiles + 1] ==
  IF i = 0 THEN <<>> ELSE Concatenated[i - 1] \o disk[i].sigs

Load ==
  /\ node.is \in {"down", "panicked"}
  /\ ChainFileFound
  /\ Loadable
  /\ node' = [is |-> "serving",
              prover |-> [creation |-> disk[0].creation,
                          sigs |-> Concatenated[LastFile]]]
  /\ UNCHANGED <<built, disk, creations, saved>>

\* A file is missing or incomplete: main panics.
LoadError ==
  /\ node.is \in {"down", "panicked"}
  /\ ChainFileFound
  /\ ~Loadable
  /\ node' = Panicked
  /\ UNCHANGED <<built, disk, creations, saved>>

\* newTestProver: a chain of the built-in length, which is then saved.  The
\* creations beyond the bound share a number: where there is no chain file,
\* nothing of an earlier creation is left to be confused with.
Create ==
  /\ node.is \in {"down", "panicked"}
  /\ ~ChainFileFound
  /\ creations' = IF creations < MaxCreations THEN creations + 1 ELSE creations
  /\ node' = [is |-> "saving", open |-> FALSE, step |-> 1,
              prover |-> Created([number |-> creations', length |-> built])]
  /\ UNCHANGED <<built, disk, saved>>

\* The process is killed at any moment.
Crash ==
  /\ node.is \in {"saving", "serving"}
  /\ node' = Down
  /\ UNCHANGED <<built, disk, creations, saved>>

\* readme.md: "To benchmark longer dummy chains like in the paper, in line 387
\* in `evaluation/full_node/main.go` increase the value `1 << 10`".
Rebuild ==
  /\ node.is \in {"down", "panicked"}
  /\ \E length \in Lengths : length > built /\ built' = length
  /\ UNCHANGED <<disk, node, creations, saved>>

Next ==
  \/ CreateFile \/ EncodeFile \/ SaveError
  \/ Load \/ LoadError \/ Create
  \/ Crash \/ Rebuild

Spec == Init /\ [][Next]_vars

-----------------------------------------------------------------------------
(* Properties                                                              *)

Serving == node.is = "serving"

\* TestSaveAndLoad, with stops and failures in between: whatever happened
\* before, and whatever length the binary has by now, a node that serves holds
\* a chain as it was created: all epochs it had then, in their order, none of
\* them another chain's.
ServesWholeChain == Serving => node.prover = Created(node.prover.creation)

\* Once a save has succeeded, every later start of the node succeeds: it
\* panics only if a save was cut short and none ever completed.
SavedChainLoads == saved => ChainFileFound /\ Loadable

\* A stored chain is never replaced: the keys that clients hold stay valid
\* across restarts and rebuilds.
ChainNeverReplaced ==
  [][\A f \in FileNames \ {Nextk0} :
       disk[f].is \in {"header", "part"} => disk'[f] = disk[f]]_vars
=============================================================================
