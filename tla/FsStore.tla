------------------------------ MODULE FsStore -------------------------------
(***************************************************************************)
(* The filesystem storage (pkg/storage/fs/fs.go): a page is written to a   *)
(* temporary file that is renamed when it is complete.  The writers are    *)
(* goroutines of one process, which may be killed between any two system   *)
(* calls; when the power fails, what was not synced is lost as well.       *)
(*                                                                         *)
(* The model is the directory of one scan.  A file has Size blocks.  The   *)
(* directory is made when it is not there, and nobody syncs the directory  *)
(* of the storage, which holds its name: until the system has written that *)
(* one back, a power loss may take the whole scan.                         *)
(***************************************************************************)
EXTENDS Integers

CONSTANTS
  FsPage,     \* sequence numbers of the scan
  FsBytes,    \* what a page may be made of
  FsWriter,   \* goroutines that call Store
  Size,       \* blocks of a page
  NoFile

File == [of : FsBytes, len : 0..Size, synced : BOOLEAN]

ASSUME FsAssumption == Size \in Nat \ {0} /\ NoFile \notin File \cup FsBytes

VARIABLES
  scanDir,    \* the scan's directory: not there, only made, or on the disk
  entry,      \* entry[k]: the file <k>.jpg names, or NoFile
  older,      \* older[k]: what it may name again after a power loss
  fsStep,     \* where each call of Store is
  target,     \* finalPath of the call
  temp,       \* its temporary file, or NoFile
  trouble,    \* whether copy or sync has failed
  litter      \* temporary files of calls that were killed, by the page they were for

fsCalls == <<fsStep, target, temp, trouble>>
fsVars == <<scanDir, entry, older, fsCalls, litter>>

FsTypeOK ==
  /\ scanDir \in {"none", "made", "durable"}
  /\ entry \in [FsPage -> File \cup {NoFile}]
  /\ older \in [FsPage -> SUBSET (File \cup {NoFile})]
  /\ fsStep \in [FsWriter -> {"idle", "copy", "sync", "check", "rename", "syncdir"}]
  /\ target \in [FsWriter -> FsPage]
  /\ temp \in [FsWriter -> File \cup {NoFile}]
  /\ trouble \in [FsWriter -> BOOLEAN]
  /\ litter \subseteq FsPage

(* Pages of earlier processes may have been deleted, or none stored.       *)
FsInit ==
  /\ scanDir \in {"none", "durable"}
  /\ entry = [k \in FsPage |-> NoFile]
  /\ older = [k \in FsPage |-> {}]
  /\ fsStep = [w \in FsWriter |-> "idle"]
  /\ target \in [FsWriter -> FsPage]
  /\ temp = [w \in FsWriter |-> NoFile]
  /\ trouble = [w \in FsWriter |-> FALSE]
  /\ litter = {}

-----------------------------------------------------------------------------
(* Store                                                                   *)

FsGoes(w, s) == fsStep' = [fsStep EXCEPT ![w] = s]

MkdirAll == scanDir' = IF scanDir = "none" THEN "made" ELSE scanDir

(* The temporary file's name ends in a fresh UUID.                         *)
CreateTemp(w, k, b) ==
  /\ fsStep[w] = "idle"
  /\ MkdirAll
  /\ \/ /\ FsGoes(w, "copy")
        /\ target' = [target EXCEPT ![w] = k]
        /\ temp' = [temp EXCEPT ![w] = [of |-> b, len |-> 0, synced |-> FALSE]]
        /\ trouble' = [trouble EXCEPT ![w] = FALSE]
     \/ UNCHANGED fsCalls    \* OpenFile fails
  /\ UNCHANGED <<entry, older, litter>>

CopyBlock(w) ==
  /\ fsStep[w] = "copy" /\ temp[w].len < Size
  /\ temp' = [temp EXCEPT ![w] = [of |-> temp[w].of, len |-> temp[w].len + 1, synced |-> FALSE]]
  /\ UNCHANGED <<scanDir, entry, older, fsStep, target, trouble, litter>>

(* io.Copy ends at the end of the page or with an error.                   *)
CopyEnds(w) ==
  /\ fsStep[w] = "copy"
  /\ FsGoes(w, "sync")
  /\ trouble' = [trouble EXCEPT ![w] = temp[w].len < Size]
  /\ UNCHANGED <<scanDir, entry, older, target, temp, litter>>

(* Mutant: the file is not synced before it is renamed.                    *)
SyncNothing(w) == UNCHANGED <<temp, trouble>>

SyncFile(w) ==
  \/ /\ temp' = [temp EXCEPT ![w] = [of |-> temp[w].of, len |-> temp[w].len, synced |-> TRUE]]
     /\ UNCHANGED trouble
  \/ trouble' = [trouble EXCEPT ![w] = TRUE] /\ UNCHANGED temp

(* Sync and Close are called whatever Copy has returned.                   *)
Sync(w) ==
  /\ fsStep[w] = "sync"
  /\ FsGoes(w, "check")
  /\ SyncFile(w)
  /\ UNCHANGED <<scanDir, entry, older, target, litter>>

RemoveTemp(w) == temp' = [temp EXCEPT ![w] = NoFile]

MayRename(w) == ~trouble[w]

CheckTemp(w) ==
  /\ fsStep[w] = "check"
  /\ \/ MayRename(w) /\ FsGoes(w, "rename") /\ UNCHANGED temp
     \/ FsGoes(w, "idle") /\ RemoveTemp(w)    \* after an error, Close's own included
  /\ UNCHANGED <<scanDir, entry, older, target, trouble, litter>>

Rename(w) ==
  /\ fsStep[w] = "rename"
  /\ FsGoes(w, "syncdir")
  /\ entry' = [entry EXCEPT ![target[w]] = temp[w]]
  /\ older' = [older EXCEPT ![target[w]] = @ \cup {entry[target[w]]}]
  /\ temp' = [temp EXCEPT ![w] = NoFile]
  /\ UNCHANGED <<scanDir, target, trouble, litter>>

RenameFails(w) ==
  /\ fsStep[w] = "rename"
  /\ FsGoes(w, "idle") /\ RemoveTemp(w)
  /\ UNCHANGED <<scanDir, entry, older, target, trouble, litter>>

(* The names in the scan's directory are synced, its own name in the       *)
(* storage's directory is not.  Errors here are ignored.  A reader that cannot be rewound makes Store   *)
(* return an error for a page that is stored.                              *)
SyncDir(w) ==
  /\ fsStep[w] = "syncdir"
  /\ FsGoes(w, "idle")
  /\ older' \in {older, [k \in FsPage |-> {}]}
  /\ UNCHANGED <<scanDir, entry, target, temp, trouble, litter>>

-----------------------------------------------------------------------------
Delete(k) ==
  /\ entry[k] # NoFile
  /\ entry' = [entry EXCEPT ![k] = NoFile]
  /\ older' = [older EXCEPT ![k] = @ \cup {entry[k]}]
  /\ UNCHANGED <<scanDir, fsCalls, litter>>

(* The extension of a temporary name is that of its UUID.                  *)
IsPage(name) == name.ext = "jpg"

(* The names in the scan's directory.                                      *)
Names ==
  {[page |-> k, ext |-> "jpg"] : k \in {j \in FsPage : entry[j] # NoFile}}
    \cup {[page |-> target[w], ext |-> "tmp"] : w \in {v \in FsWriter : temp[v] # NoFile}}
    \cup {[page |-> k, ext |-> "tmp"] : k \in litter}

FsListPages == {n.page : n \in {m \in Names : IsPage(m)}}

-----------------------------------------------------------------------------
(* The system and the end of the process (external)                        *)

(* Some time after it was made the directory is on the disk.               *)
WriteBack ==
  /\ scanDir = "made" /\ scanDir' = "durable"
  /\ UNCHANGED <<entry, older, fsCalls, litter>>

AllCallsEnd ==
  /\ fsStep' = [w \in FsWriter |-> "idle"]
  /\ temp' = [w \in FsWriter |-> NoFile]
  /\ UNCHANGED <<target, trouble>>

Left == litter \cup {target[w] : w \in {v \in FsWriter : temp[v] # NoFile}}

Kill == AllCallsEnd /\ litter' = Left /\ UNCHANGED <<scanDir, entry, older>>

(* What is left of a file when the power fails.                            *)
Remains(f) ==
  IF f = NoFile \/ f.synced THEN {f}
  ELSE {[of |-> f.of, len |-> n, synced |-> TRUE] : n \in 0..f.len}

DirSurvives ==
  /\ scanDir # "none" /\ scanDir' = "durable"
  /\ entry' \in [FsPage -> File \cup {NoFile}]
  /\ \A k \in FsPage : \E f \in {entry[k]} \cup older[k] : entry'[k] \in Remains(f)
  /\ litter' \in SUBSET Left

DirLost ==
  /\ scanDir # "durable" /\ scanDir' = "none"
  /\ entry' = [k \in FsPage |-> NoFile]
  /\ litter' = {}

PowerFails ==
  /\ AllCallsEnd
  /\ DirSurvives \/ DirLost
  /\ older' = [k \in FsPage |-> {}]

-----------------------------------------------------------------------------
FsNext ==
  \/ \E w \in FsWriter :
       \/ \E k \in FsPage, b \in FsBytes : CreateTemp(w, k, b)
       \/ CopyBlock(w) \/ CopyEnds(w) \/ Sync(w) \/ CheckTemp(w)
       \/ Rename(w) \/ RenameFails(w) \/ SyncDir(w)
  \/ \E k \in FsPage : Delete(k)
  \/ WriteBack \/ Kill \/ PowerFails

FsSpec == FsInit /\ [][FsNext]_fsVars

-----------------------------------------------------------------------------
(* Properties                                                              *)

(* What a file is as a page: a part of one is no page at all.              *)
PageOf(f) == IF f = NoFile THEN NoFile ELSE IF f.len = Size THEN f.of ELSE f

FsStored == [k \in FsPage |-> PageOf(entry[k])]

(* Without its directory a page is not there.                              *)
FsBehind ==
  [k \in FsPage |-> {PageOf(f) : f \in older[k]} \cup (IF scanDir = "durable" THEN {} ELSE {NoFile})]

FsPages ==
  INSTANCE PageStore WITH
    Key <- FsPage, Listable <- FsPage, Bytes <- FsBytes, Unreadable <- {}, NoPage <- NoFile,
    stored <- FsStored, listed <- FsListPages, behind <- FsBehind

(* Whatever fails and wherever the process or the power ends, a page is    *)
(* there whole or not at all, the temporary files that are left are never  *)
(* listed, and what a power loss brings back is what the name has stood    *)
(* for since it was last on the disk: the directory implements PageStore.  *)
FsImplementsStore == FsPages!Spec
=============================================================================
