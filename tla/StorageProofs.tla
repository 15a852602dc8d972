---------------------------- MODULE StorageProofs ----------------------------
(***************************************************************************)
(* Both storages implement PageStore, for every set of pages and callers,  *)
(* every size of a page and every number of retries.                       *)
(***************************************************************************)
EXTENDS FsStore, B2Store, TLAPS

-----------------------------------------------------------------------------
(* The filesystem                                                          *)

Whole(f) == f = NoFile \/ (f \in File /\ f.len = Size /\ f.synced = TRUE)

(* What a name stands for, or may stand for again, was renamed to it.      *)
NamesWhole == \A k \in FsPage : Whole(entry[k]) /\ \A f \in older[k] : Whole(f)

(* The checks between the copy and the rename.                             *)
TempChecked ==
  \A w \in FsWriter :
    /\ fsStep[w] \in {"copy", "sync", "check", "rename"} => temp[w] \in File
    /\ fsStep[w] = "sync" /\ trouble[w] = FALSE => temp[w].len = Size
    /\ fsStep[w] = "check" /\ trouble[w] = FALSE => Whole(temp[w])
    /\ fsStep[w] = "rename" => Whole(temp[w])

FsTyped ==
  /\ entry \in [FsPage -> File \cup {NoFile}]
  /\ older \in [FsPage -> SUBSET (File \cup {NoFile})]
  /\ fsStep \in [FsWriter -> {"idle", "copy", "sync", "check", "rename", "syncdir"}]
  /\ target \in [FsWriter -> FsPage]
  /\ temp \in [FsWriter -> File \cup {NoFile}]
  /\ trouble \in [FsWriter -> BOOLEAN]

FsInv == FsTyped /\ NamesWhole /\ TempChecked

(* Temporary names are not listed, whoever has left them.                  *)
LEMMA ListedPages == FsListPages = {k \in FsPage : entry[k] # NoFile}
<1>1. ASSUME NEW k \in FsListPages PROVE k \in FsPage /\ entry[k] # NoFile
  <2>1. PICK n \in Names : n.page = k /\ n.ext = "jpg"
    BY DEF FsListPages, IsPage
  <2>2. n \in {[page |-> j, ext |-> "jpg"] : j \in {i \in FsPage : entry[i] # NoFile}}
    BY <2>1 DEF Names
  <2> QED
    BY <2>1, <2>2
<1>2. ASSUME NEW k \in FsPage, entry[k] # NoFile PROVE k \in FsListPages
  <2>1. [page |-> k, ext |-> "jpg"] \in Names
    BY <1>2 DEF Names
  <2> QED
    BY <2>1 DEF FsListPages, IsPage
<1> QED
  BY <1>1, <1>2

(* The page of a whole file is what it is made of.                         *)
LEMMA PageOfWhole ==
  ASSUME NEW f, Whole(f)
  PROVE  /\ f = NoFile => PageOf(f) = NoFile
         /\ f # NoFile => PageOf(f) = f.of /\ PageOf(f) \in FsBytes /\ PageOf(f) # NoFile
BY FsAssumption DEF Whole, PageOf, File

(* A file that was synced is all there after a power loss.                 *)
LEMMA WholeRemains == ASSUME NEW f, Whole(f) PROVE Remains(f) = {f}
BY DEF Whole, Remains

(* Whatever comes of it, syncing a file changes nothing else of it.        *)
LEMMA SyncKeeps ==
  ASSUME FsTyped, NEW w \in FsWriter, temp[w] \in File, Sync(w)
  PROVE  \E f \in File : temp' = [temp EXCEPT ![w] = f] /\ f.len = temp[w].len
<1>1. CASE temp' = [temp EXCEPT ![w] = [of |-> temp[w].of, len |-> temp[w].len, synced |-> TRUE]]
  <2> DEFINE f == [of |-> temp[w].of, len |-> temp[w].len, synced |-> TRUE]
  <2>1. f \in File /\ f.len = temp[w].len
    BY DEF File
  <2> QED
    BY <1>1, <2>1
<1>2. CASE UNCHANGED temp
  <2>1. temp' = [temp EXCEPT ![w] = temp[w]]
    BY <1>2 DEF FsTyped
  <2> QED
    BY <2>1
<1> QED
  BY <1>1, <1>2 DEF Sync, SyncFile

(* One call of Store is at its next step.                                  *)
LEMMA FsTypedStep == ASSUME FsInv, [FsNext]_fsVars PROVE FsTyped'
<1> USE FsAssumption DEF FsInv, FsTyped, FsGoes, fsCalls
<1>1. ASSUME NEW w \in FsWriter, NEW k \in FsPage, NEW b \in FsBytes, CreateTemp(w, k, b)
      PROVE  FsTyped'
  <2>1. CASE UNCHANGED fsCalls
    BY <1>1, <2>1 DEF CreateTemp
  <2>2. [of |-> b, len |-> 0, synced |-> FALSE] \in File
    BY DEF File
  <2>3. CASE /\ FsGoes(w, "copy") /\ target' = [target EXCEPT ![w] = k]
             /\ temp' = [temp EXCEPT ![w] = [of |-> b, len |-> 0, synced |-> FALSE]]
             /\ trouble' = [trouble EXCEPT ![w] = FALSE]
    <3>1. UNCHANGED <<entry, older>>
      BY <1>1 DEF CreateTemp
    <3>2. temp' \in [FsWriter -> File \cup {NoFile}]
      BY <2>2, <2>3
    <3> QED
      BY <2>3, <3>1, <3>2
  <2> QED
    BY <1>1, <2>1, <2>3 DEF CreateTemp
<1>2. ASSUME NEW w \in FsWriter, CopyBlock(w) PROVE FsTyped'
  <2>1. temp[w] \in File /\ temp[w].len + 1 \in 0..Size
    BY <1>2 DEF CopyBlock, File, TempChecked
  <2> QED
    BY <1>2, <2>1 DEF CopyBlock, File
<1>3. ASSUME NEW w \in FsWriter, CopyEnds(w) PROVE FsTyped'
  BY <1>3 DEF CopyEnds
<1>4. ASSUME NEW w \in FsWriter, Sync(w) PROVE FsTyped'
  <2>1. temp[w] \in File
    BY <1>4 DEF Sync, TempChecked
  <2>2. temp' \in [FsWriter -> File \cup {NoFile}]
    BY <2>1, <1>4, SyncKeeps DEF FsTyped
  <2>3. trouble' \in [FsWriter -> BOOLEAN]
    BY <1>4 DEF Sync, SyncFile
  <2> QED
    BY <1>4, <2>2, <2>3 DEF Sync
<1>5. ASSUME NEW w \in FsWriter, CheckTemp(w) \/ RenameFails(w) \/ SyncDir(w) PROVE FsTyped'
  BY <1>5 DEF CheckTemp, RenameFails, SyncDir, RemoveTemp
<1>6. ASSUME NEW w \in FsWriter, Rename(w) PROVE FsTyped'
  BY <1>6 DEF Rename
<1>7. ASSUME NEW k \in FsPage, Delete(k) PROVE FsTyped'
  BY <1>7 DEF Delete
<1>8. CASE Kill
  BY <1>8 DEF Kill, AllCallsEnd
<1>9. CASE PowerFails
  BY <1>9 DEF PowerFails, AllCallsEnd, DirSurvives, DirLost
<1>10. CASE WriteBack
  BY <1>10 DEF WriteBack
<1>11. CASE UNCHANGED fsVars
  BY <1>11 DEF fsVars
<1> QED
  BY <1>1, <1>2, <1>3, <1>4, <1>5, <1>6, <1>7, <1>8, <1>9, <1>10, <1>11 DEF FsNext

(* The invariant of the filesystem storage is inductive.                   *)
LEMMA FsInvStep == ASSUME FsInv, [FsNext]_fsVars PROVE FsInv'
<1>1. FsTyped'
  BY FsTypedStep DEF FsInv
<1>2. NamesWhole'
  <2> USE FsAssumption DEF FsInv, FsTyped, NamesWhole
  <2>1. ASSUME NEW w \in FsWriter, Rename(w) PROVE NamesWhole'
    <3>1. Whole(temp[w])
      BY <2>1 DEF TempChecked, Rename
    <3> QED
      BY <2>1, <3>1 DEF Rename
  <2>2. ASSUME NEW w \in FsWriter, SyncDir(w) PROVE NamesWhole'
    BY <2>2 DEF SyncDir
  <2>3. ASSUME NEW k \in FsPage, Delete(k) PROVE NamesWhole'
    BY <2>3 DEF Delete, Whole
  <2>4. CASE PowerFails
    <3>1. ASSUME NEW k \in FsPage PROVE Whole(entry'[k])
      <4>1. CASE DirSurvives
        <5>1. PICK f \in {entry[k]} \cup older[k] : entry'[k] \in Remains(f)
          BY <4>1 DEF DirSurvives
        <5>2. Whole(f)
          BY <5>1
        <5> QED
          BY <5>1, <5>2, WholeRemains
      <4>2. CASE DirLost
        BY <4>2 DEF DirLost, Whole
      <4> QED
        BY <2>4, <4>1, <4>2 DEF PowerFails
    <3> QED
      BY <2>4, <3>1 DEF PowerFails
  <2>5. CASE UNCHANGED <<entry, older>>
    BY <2>5
  <2> QED
    BY <2>1, <2>2, <2>3, <2>4, <2>5
       DEF FsNext, CreateTemp, CopyBlock, CopyEnds, Sync, CheckTemp, RenameFails, WriteBack, Kill,
           fsVars
<1>3. TempChecked'
  <2> USE FsAssumption DEF FsInv, FsTyped, TempChecked, FsGoes
  <2>1. ASSUME NEW w \in FsWriter, NEW k \in FsPage, NEW b \in FsBytes, CreateTemp(w, k, b)
        PROVE  TempChecked'
    <3>1. CASE UNCHANGED fsCalls
      BY <3>1 DEF fsCalls
    <3>2. [of |-> b, len |-> 0, synced |-> FALSE] \in File
      BY DEF File
    <3> QED
      BY <2>1, <1>1, <3>1, <3>2 DEF CreateTemp
  <2>2. ASSUME NEW w \in FsWriter, CopyBlock(w) PROVE TempChecked'
    BY <2>2, <1>1 DEF CopyBlock, File
  <2>3. ASSUME NEW w \in FsWriter, CopyEnds(w) PROVE TempChecked'
    <3>1. temp[w] \in File /\ UNCHANGED temp /\ fsStep' = [fsStep EXCEPT ![w] = "sync"]
      BY <2>3 DEF CopyEnds
    <3>2. trouble'[w] = FALSE => ~(temp[w].len < Size)
      BY <2>3 DEF CopyEnds
    <3>3. temp[w].len \in 0..Size
      BY <3>1 DEF File
    <3>4. trouble'[w] = FALSE => temp[w].len = Size
      BY <3>2, <3>3
    <3>5. \A v \in FsWriter : v # w => trouble'[v] = trouble[v]
      BY <2>3 DEF CopyEnds
    <3> QED
      BY <3>1, <3>4, <3>5
  <2>4. ASSUME NEW w \in FsWriter, Sync(w) PROVE TempChecked'
    <3>1. /\ temp[w] \in File /\ (trouble[w] = FALSE => temp[w].len = Size)
          /\ fsStep' = [fsStep EXCEPT ![w] = "check"]
      BY <2>4 DEF Sync
    <3>2. \A v \in FsWriter : v # w => trouble'[v] = trouble[v]
      BY <2>4 DEF Sync, SyncFile
    <3>3. PICK f \in File : temp' = [temp EXCEPT ![w] = f] /\ f.len = temp[w].len
      BY <2>4, <3>1, SyncKeeps
    <3>4. trouble'[w] = FALSE => temp'[w].synced = TRUE /\ trouble[w] = FALSE
      <4>1. CASE temp' = [temp EXCEPT ![w] = [of |-> temp[w].of, len |-> temp[w].len, synced |-> TRUE]]
                 /\ UNCHANGED trouble
        <5>1. temp'[w] = [of |-> temp[w].of, len |-> temp[w].len, synced |-> TRUE]
          BY <4>1
        <5> QED
          BY <4>1, <5>1
      <4>2. CASE trouble' = [trouble EXCEPT ![w] = TRUE]
        BY <4>2
      <4> QED
        BY <2>4, <4>1, <4>2 DEF Sync, SyncFile
    <3> QED
      BY <3>1, <3>2, <3>3, <3>4 DEF Whole
  <2>5. ASSUME NEW w \in FsWriter, CheckTemp(w) PROVE TempChecked'
    BY <2>5, <1>1 DEF CheckTemp, MayRename, RemoveTemp
  <2>6. ASSUME NEW w \in FsWriter, Rename(w) \/ RenameFails(w) \/ SyncDir(w) PROVE TempChecked'
    BY <2>6, <1>1 DEF Rename, RenameFails, SyncDir, RemoveTemp
  <2>7. CASE Kill \/ PowerFails
    BY <2>7 DEF Kill, PowerFails, AllCallsEnd
  <2>8. CASE UNCHANGED fsCalls
    BY <2>8 DEF fsCalls
  <2> QED
    BY <2>1, <2>2, <2>3, <2>4, <2>5, <2>6, <2>7, <2>8 DEF FsNext, Delete, WriteBack, fsVars
<1> QED
  BY <1>1, <1>2, <1>3 DEF FsInv

(* The pages are those that ListPages shows.                               *)
LEMMA FsLists == FsInv => FsPages!Lists
<1> SUFFICES ASSUME FsInv PROVE FsPages!Lists
  OBVIOUS
<1>1. ASSUME NEW k \in FsPage PROVE FsStored[k] # NoFile <=> entry[k] # NoFile
  BY PageOfWhole DEF FsInv, NamesWhole, FsStored
<1> QED
  BY <1>1, ListedPages DEF FsPages!Lists

(* A name that is given to another file, and may fall back to the last.    *)
LEMMA FsBecomes ==
  ASSUME FsInv, NEW k \in FsPage, NEW f, entry' = [entry EXCEPT ![k] = f],
         older' = [older EXCEPT ![k] = @ \cup {entry[k]}], UNCHANGED scanDir
  PROVE  FsPages!Becomes(k, PageOf(f))
<1> USE DEF FsInv, FsTyped
<1>1. FsStored' = [FsStored EXCEPT ![k] = PageOf(f)]
  BY DEF FsStored
<1>2. FsBehind' = [FsBehind EXCEPT ![k] = @ \cup {FsStored[k]}]
  <2>1. ASSUME NEW j \in FsPage, j # k PROVE FsBehind'[j] = FsBehind[j]
    BY <2>1 DEF FsBehind
  <2>2. FsBehind'[k] = FsBehind[k] \cup {FsStored[k]}
    BY DEF FsBehind, FsStored
  <2>3. /\ FsBehind' = [j \in FsPage |-> FsBehind'[j]]
        /\ DOMAIN FsBehind = FsPage
    BY DEF FsBehind
  <2> QED
    BY <2>1, <2>2, <2>3
<1> QED
  BY <1>1, <1>2 DEF FsPages!Becomes

(* What may come back is a page or nothing.                                *)
BehindTyped == FsBehind \in [FsPage -> SUBSET (FsBytes \cup {NoFile})]

LEMMA FsBehindTyped == FsInv => BehindTyped
<1> SUFFICES ASSUME FsInv, NEW k \in FsPage
             PROVE  FsBehind[k] \subseteq FsBytes \cup {NoFile}
  BY DEF BehindTyped, FsBehind
<1>1. ASSUME NEW f \in older[k] PROVE PageOf(f) \in FsBytes \cup {NoFile}
  BY PageOfWhole DEF FsInv, NamesWhole
<1> QED
  BY <1>1 DEF FsBehind

(* No name stands for anything else: the steps of the calls.               *)
LEMMA FsStutters ==
  ASSUME FsInv, FsInv', UNCHANGED <<entry, older>>, scanDir' = "durable" <=> scanDir = "durable"
  PROVE  UNCHANGED FsPages!vars
<1>1. UNCHANGED <<FsStored, FsBehind>>
  BY DEF FsStored, FsBehind
<1>2. UNCHANGED FsListPages
  <2>1. FsPages!Lists
    BY FsLists
  <2>2. FsPages!Lists'
    BY FsLists, PTL
  <2> QED
    BY <1>1, <2>1, <2>2 DEF FsPages!Lists
<1> QED
  BY <1>1, <1>2 DEF FsPages!vars

(* Each step on the directory is one of the storage that PageStore         *)
(* describes, or changes no page of it.                                    *)
LEMMA FsStep == ASSUME FsInv, [FsNext]_fsVars PROVE [FsPages!Next]_FsPages!vars
<1>a. FsInv'
  BY FsInvStep
<1>b. FsPages!Lists'
  BY <1>a, FsLists, PTL
<1>c. FsBehind' \in [FsPage -> SUBSET (FsBytes \cup {NoFile})]
  <2>1. BehindTyped'
    BY <1>a, FsBehindTyped, PTL
  <2> QED
    BY <2>1 DEF BehindTyped
<1>1. ASSUME NEW w \in FsWriter, Rename(w) PROVE FsPages!Next
  <2>1. target[w] \in FsPage /\ Whole(temp[w]) /\ temp[w] # NoFile
    BY <1>1, FsAssumption DEF Rename, FsInv, FsTyped, TempChecked
  <2>2. PageOf(temp[w]) \in FsBytes
    BY <2>1, PageOfWhole
  <2>3. FsPages!Becomes(target[w], PageOf(temp[w]))
    BY <1>1, <2>1, FsBecomes DEF Rename
  <2> QED
    BY <1>b, <2>1, <2>2, <2>3 DEF FsPages!Next, FsPages!Put
<1>2. ASSUME NEW k \in FsPage, Delete(k) PROVE FsPages!Next
  <2>1. FsPages!Becomes(k, NoFile)
    BY <1>2, FsBecomes DEF Delete, PageOf
  <2>2. FsStored[k] # NoFile
    BY <1>2, PageOfWhole DEF FsInv, NamesWhole, Delete, FsStored
  <2> QED
    BY <1>b, <2>1, <2>2 DEF FsPages!Next, FsPages!Delete
<1>3. ASSUME NEW w \in FsWriter, SyncDir(w) PROVE [FsPages!Next]_FsPages!vars
  <2>1. CASE UNCHANGED older
    BY <1>a, <1>3, <2>1, FsStutters DEF SyncDir
  <2>2. CASE older' = [k \in FsPage |-> {}]
    <3>1. (\A k \in FsPage : FsBehind'[k] \subseteq FsBehind[k]) /\ UNCHANGED FsStored
      BY <1>3, <2>2 DEF SyncDir, FsBehind, FsStored
    <3> QED
      BY <1>b, <1>c, <3>1 DEF FsPages!Next, FsPages!Settle, FsPages!Content
  <2> QED
    BY <1>3, <2>1, <2>2 DEF SyncDir
<1>4. CASE PowerFails
  <2>1. ASSUME NEW k \in FsPage PROVE FsStored'[k] \in {FsStored[k]} \cup FsBehind[k]
    <3>1. CASE DirSurvives
      <4>1. PICK f \in {entry[k]} \cup older[k] : entry'[k] \in Remains(f)
        BY <3>1 DEF DirSurvives
      <4>2. entry'[k] = f
        BY <4>1, WholeRemains DEF FsInv, NamesWhole
      <4> QED
        BY <4>1, <4>2 DEF FsStored, FsBehind
    <3>2. CASE DirLost
      BY <3>2 DEF DirLost, FsStored, FsBehind, PageOf
    <3> QED
      BY <1>4, <3>1, <3>2 DEF PowerFails
  <2>2. FsStored' \in [FsPage -> FsBytes \cup {NoFile}]
    BY <1>a, PageOfWhole DEF FsInv, NamesWhole, FsStored
  <2>3. ASSUME NEW k \in FsPage PROVE FsBehind'[k] \subseteq {FsStored'[k]}
    BY <1>4 DEF PowerFails, DirSurvives, DirLost, FsBehind, FsStored, PageOf
  <2> QED
    BY <1>b, <1>c, <2>1, <2>2, <2>3 DEF FsPages!Next, FsPages!PowerLoss, FsPages!Settled, FsPages!Content
<1>5. CASE WriteBack
  <2>1. (\A k \in FsPage : FsBehind'[k] \subseteq FsBehind[k]) /\ UNCHANGED FsStored
    BY <1>5 DEF WriteBack, FsBehind, FsStored
  <2> QED
    BY <1>b, <1>c, <2>1 DEF FsPages!Next, FsPages!Settle, FsPages!Content
<1>6. CASE UNCHANGED <<entry, older>> /\ (scanDir' = "durable" <=> scanDir = "durable")
  BY <1>a, <1>6, FsStutters
<1> QED
  BY <1>1, <1>2, <1>3, <1>4, <1>5, <1>6
     DEF MkdirAll, FsNext, CreateTemp, CopyBlock, CopyEnds, Sync, CheckTemp, RenameFails, Kill, fsVars

(* Whatever fails and wherever the process or the power ends, a page is    *)
(* there whole or not at all, and what is left of the calls is not listed. *)
THEOREM FilesImplementStore == FsSpec => FsImplementsStore
<1>1. FsInit => FsInv /\ FsPages!Init
  <2> SUFFICES ASSUME FsInit PROVE FsInv /\ FsPages!Init
    OBVIOUS
  <2>1. FsInv
    BY DEF FsInit, FsInv, FsTyped, NamesWhole, TempChecked, Whole
  <2>2. FsStored = [k \in FsPage |-> NoFile]
    BY DEF FsInit, FsStored, PageOf
  <2>3. FsPages!Settled
    BY <2>1, <2>2, FsBehindTyped DEF FsInit, BehindTyped, FsBehind, FsPages!Settled, FsPages!Content
  <2> QED
    BY <2>1, <2>2, <2>3, FsLists DEF FsPages!Init, FsPages!Content
<1>2. FsInv /\ [FsNext]_fsVars => FsInv' /\ [FsPages!Next]_FsPages!vars
  BY FsInvStep, FsStep
<1> QED
  BY <1>1, <1>2, PTL DEF FsSpec, FsImplementsStore, FsPages!Spec

-----------------------------------------------------------------------------
(* The bucket                                                              *)

(* Objects that Decrypt can tell the format of, and that are all there.    *)
Readable(o) ==
  /\ o \in Object /\ o.whole = TRUE
  /\ o.first = VersionV1 <=> o.format = "v1"

(* All but the old ones that Decrypt takes for new ones.                   *)
ObjectsReadable ==
  \A k \in ObjectKey : object[k] \in Unreadable \cup {NoObject} \/ Readable(object[k])

PutsReadable == \A c \in B2Caller : b2Step[c] = "put" => Readable(what[c])

B2Typed ==
  /\ object \in [ObjectKey -> Object \cup {NoObject}]
  /\ b2Step \in [B2Caller -> {"idle", "put", "read", "remove"}]
  /\ what \in [B2Caller -> Object \cup {NoObject}]
  /\ where \in [B2Caller -> ObjectKey]
  /\ position \in [B2Caller -> 0..Blocks]

B2Inv == B2Typed /\ ObjectsReadable /\ PutsReadable

(* What this program has written is read as it was.                        *)
LEMMA DecryptReadable == ASSUME NEW o, Readable(o) PROVE Decrypt(o) = o.of /\ Decrypt(o) \in B2Bytes
<1>1. o.format \in {"v1", "legacy"} /\ o.of \in B2Bytes
  BY DEF Readable, Object
<1> QED
  BY <1>1 DEF Readable, Decrypt

(* What can be read is no object that cannot, nor none.                    *)
LEMMA ReadableIsNot == ASSUME NEW o, Readable(o) PROVE o \notin Unreadable \cup {NoObject}
BY B2Assumption DEF Readable, Unreadable, Legacy

(* What stands for an object is there when the object is.                  *)
LEMMA StoredIsThere ==
  ASSUME B2Inv, NEW k \in ObjectKey
  PROVE  /\ B2Stored[k] # NoObject <=> object[k] # NoObject
         /\ B2Stored[k] \in B2Bytes \cup Unreadable \cup {NoObject}
<1>1. CASE object[k] \in Unreadable \cup {NoObject}
  BY <1>1 DEF B2Stored
<1>2. CASE Readable(object[k])
  BY <1>2, DecryptReadable, ReadableIsNot, B2Assumption DEF B2Stored
<1> QED
  BY <1>1, <1>2 DEF B2Inv, ObjectsReadable

(* What is put was encrypted by this program.                              *)
LEMMA EncryptReadable == ASSUME NEW b \in B2Bytes PROVE Readable(Encrypt(b))
BY DEF Readable, Encrypt, Object

(* A put that is accepted sends its reader from the start: a second try    *)
(* with what is left of the reader is refused for its length.              *)
LEMMA AcceptedIsWhole ==
  ASSUME B2Inv, NEW c \in B2Caller, b2Step[c] = "put", Accepted(c)
  PROVE  Arrives(c) = [object EXCEPT ![where[c]] = what[c]] /\ Readable(what[c])
<1>1. position[c] = 0
  BY B2Assumption DEF Accepted, Declared, B2Inv, B2Typed
<1> QED
  BY <1>1 DEF Arrives, Rest, B2Inv, PutsReadable

(* All that a step of a call may do to the bucket.                         *)
LEMMA BucketSteps ==
  ASSUME B2Inv, [B2Next]_b2Vars
  PROVE  \/ UNCHANGED object
         \/ \E k \in ObjectKey, o \in Object : Readable(o) /\ object' = [object EXCEPT ![k] = o]
         \/ \E k \in ObjectKey : object' = [object EXCEPT ![k] = NoObject]
<1>1. ASSUME NEW c \in B2Caller, NEW n \in 0..Blocks, PutSucceeds(c) \/ PutBreaks(c, n),
             object' = Arrives(c)
      PROVE  \E k \in ObjectKey, o \in Object : Readable(o) /\ object' = [object EXCEPT ![k] = o]
  <2>1. b2Step[c] = "put" /\ Accepted(c) /\ where[c] \in ObjectKey
    BY <1>1 DEF PutSucceeds, PutBreaks, B2Inv, B2Typed
  <2>2. Readable(what[c]) /\ what[c] \in Object /\ object' = [object EXCEPT ![where[c]] = what[c]]
    BY <1>1, <2>1, AcceptedIsWhole DEF Readable
  <2> QED
    BY <2>1, <2>2
<1>2. ASSUME NEW c \in B2Caller, B2Delete(c)
      PROVE  \E k \in ObjectKey : object' = [object EXCEPT ![k] = NoObject]
  BY <1>2 DEF B2Delete, B2Inv, B2Typed
<1>3. ASSUME NEW c \in B2Caller, NEW n \in 0..Blocks, PutBreaks(c, n)
      PROVE  object' = Arrives(c) \/ UNCHANGED object
  BY <1>3 DEF PutBreaks
<1>4. ASSUME NEW c \in B2Caller, PutSucceeds(c) PROVE object' = Arrives(c) /\ 0 \in 0..Blocks
  BY <1>4, B2Assumption DEF PutSucceeds
<1> QED
  BY <1>1, <1>2, <1>3, <1>4 DEF B2Next, StartPut, Lookup, PutFails, Read, CallFails, b2Vars

(* The invariant of the B2 storage is inductive.                           *)
LEMMA B2InvStep == ASSUME B2Inv, [B2Next]_b2Vars PROVE B2Inv'
<1>1. object' \in [ObjectKey -> Object \cup {NoObject}] /\ ObjectsReadable'
  BY BucketSteps DEF B2Inv, B2Typed, ObjectsReadable
<1>2. /\ b2Step' \in [B2Caller -> {"idle", "put", "read", "remove"}]
      /\ what' \in [B2Caller -> Object \cup {NoObject}]
      /\ where' \in [B2Caller -> ObjectKey]
      /\ position' \in [B2Caller -> 0..Blocks]
      /\ PutsReadable'
  <2> DEFINE CallsOK ==
        /\ b2Step \in [B2Caller -> {"idle", "put", "read", "remove"}]
        /\ what \in [B2Caller -> Object \cup {NoObject}]
        /\ where \in [B2Caller -> ObjectKey]
        /\ position \in [B2Caller -> 0..Blocks]
        /\ PutsReadable
  <2> USE B2Assumption DEF B2Inv, B2Typed, PutsReadable
  <2>1. ASSUME NEW c \in B2Caller, NEW k \in ObjectKey, NEW b \in B2Bytes, StartPut(c, k, b)
        PROVE  CallsOK'
    BY <2>1, EncryptReadable DEF StartPut, Readable
  <2>2. ASSUME NEW c \in B2Caller, NEW k \in ObjectKey, NEW s \in {"read", "remove"}, Lookup(c, k, s)
        PROVE  CallsOK'
    BY <2>2 DEF Lookup
  <2>3. ASSUME NEW c \in B2Caller, Ends(c) PROVE CallsOK'
    BY <2>3 DEF Ends
  <2>4. ASSUME NEW c \in B2Caller, NEW n \in 0..Blocks, PutBreaks(c, n) PROVE CallsOK'
    <3>1. CASE Ends(c)
      BY <2>3, <3>1
    <3>2. CASE position' = [position EXCEPT ![c] = @ + n] /\ UNCHANGED <<b2Step, what, where>>
      <4>1. position[c] + n \in 0..Blocks
        BY <2>4 DEF PutBreaks
      <4> QED
        BY <3>2, <4>1
    <3> QED
      BY <2>4, <3>1, <3>2 DEF PutBreaks
  <2>5. ASSUME NEW c \in B2Caller, Read(c) PROVE CallsOK'
    BY <2>5 DEF Read
  <2>6. CASE UNCHANGED b2Vars
    BY <2>6 DEF b2Vars, b2Calls
  <2> QED
    BY <2>1, <2>2, <2>3, <2>4, <2>5, <2>6 DEF B2Next, PutSucceeds, PutFails, B2Delete, CallFails
<1> QED
  BY <1>1, <1>2 DEF B2Inv, B2Typed

(* The listing shows what can be retrieved, and no thumbnail.              *)
LEMMA B2Lists == B2Inv => B2Pages!Lists
<1> SUFFICES ASSUME B2Inv PROVE B2Pages!Lists
  OBVIOUS
<1>1. ASSUME NEW k \in ObjectKey PROVE B2Stored[k] # NoObject <=> object[k] # NoObject
  BY StoredIsThere
<1>2. \A k : k \in [page : B2Page, kind : {"page"}] <=> k \in ObjectKey /\ k.kind = "page"
  BY DEF ObjectKey
<1> QED
  BY <1>1, <1>2 DEF B2Pages!Lists, B2ListPages, ScannedPageFromRemote

(* Each step on the bucket is one of the storage that PageStore describes, *)
(* or changes no page of it.                                               *)
LEMMA B2Step == ASSUME B2Inv, [B2Next]_b2Vars PROVE [B2Pages!Next]_B2Pages!vars
<1>a. B2Inv'
  BY B2InvStep
<1>b. B2Pages!Lists'
  BY <1>a, B2Lists, PTL
<1>c. B2Typed
  BY DEF B2Inv
<1>1. CASE UNCHANGED object
  BY <1>1 DEF B2Pages!vars, B2Stored, B2ListPages
<1>2. ASSUME NEW k \in ObjectKey, NEW o \in Object, Readable(o), object' = [object EXCEPT ![k] = o]
      PROVE  B2Pages!Next
  <2>1. B2Stored' = [B2Stored EXCEPT ![k] = o.of] /\ o.of \in B2Bytes
    <3>1. o.of \in B2Bytes /\ Decrypt(o) = o.of /\ o \notin Unreadable \cup {NoObject}
      BY <1>2, DecryptReadable, ReadableIsNot
    <3> QED
      BY <1>2, <1>c, <3>1 DEF B2Stored, B2Typed
  <2> QED
    BY <1>b, <2>1 DEF B2Pages!Next, B2Pages!Put, B2Pages!Becomes
<1>3. ASSUME NEW k \in ObjectKey, object' = [object EXCEPT ![k] = NoObject]
      PROVE  B2Pages!Next \/ UNCHANGED object
  <2>1. CASE object[k] = NoObject
    BY <1>3, <1>c, <2>1 DEF B2Typed
  <2>2. CASE object[k] # NoObject
    <3>1. B2Stored' = [B2Stored EXCEPT ![k] = NoObject]
      BY <1>3, <1>c DEF B2Stored, B2Typed
    <3>2. B2Stored[k] # NoObject
      BY <2>2, StoredIsThere
    <3> QED
      BY <1>b, <3>1, <3>2 DEF B2Pages!Next, B2Pages!Delete, B2Pages!Becomes
  <2> QED
    BY <2>1, <2>2
<1> QED
  BY <1>1, <1>2, <1>3, BucketSteps

(* With retries that start in the middle of the reader, answers that are   *)
(* lost and callers in each other's way, what Retrieve returns is a page   *)
(* that was stored whole, or nothing; whatever the nonces of old objects   *)
(* are, those that it cannot read are theirs.                              *)
THEOREM BucketImplementsStore == B2Spec => B2ImplementsStore
<1>1. B2Init => B2Inv /\ B2Pages!Init
  <2> SUFFICES ASSUME B2Init PROVE B2Inv /\ B2Pages!Init
    OBVIOUS
  <2>1. ASSUME NEW o \in Legacy PROVE o \in Object /\ (o \in Unreadable \/ Readable(o))
    BY DEF Legacy, Readable, Unreadable, Object
  <2>2. B2Inv
    <3>1. object \in [ObjectKey -> Object \cup {NoObject}] /\ ObjectsReadable
      BY <2>1 DEF B2Init, ObjectsReadable
    <3>2. where \in [B2Caller -> ObjectKey]
      BY DEF B2Init
    <3> QED
      BY <3>1, <3>2, B2Assumption DEF B2Init, B2Inv, B2Typed, PutsReadable
  <2>3. B2Stored \in [ObjectKey -> B2Bytes \cup Unreadable \cup {NoObject}]
    BY <2>2, StoredIsThere DEF B2Stored
  <2> QED
    BY <2>2, <2>3, B2Lists DEF B2Pages!Init, B2Pages!Settled, B2Pages!Content
<1>2. B2Inv /\ [B2Next]_b2Vars => B2Inv' /\ [B2Pages!Next]_B2Pages!vars
  BY B2InvStep, B2Step
<1> QED
  BY <1>1, <1>2, PTL DEF B2Spec, B2ImplementsStore, B2Pages!Spec
=============================================================================
