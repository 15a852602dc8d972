------------------------------ MODULE B2Store -------------------------------
(***************************************************************************)
(* The B2 storage (pkg/storage/b2/b2.go) with the encryption of its        *)
(* objects (pkg/crypt/odicrypt.go).  Pages are put with retries that go on *)
(* with the reader where the failed request left it; thumbnails are put    *)
(* once.  The bucket and the rclone backend in front of it are external.   *)
(*                                                                         *)
(* A nonce is its first byte, the one that Decrypt tells formats apart by. *)
(***************************************************************************)
EXTENDS Integers

CONSTANTS
  B2Page,     \* scan IDs and sequence numbers
  B2Bytes,    \* what a page or a thumbnail may be made of
  B2Caller,   \* goroutines
  Blocks,     \* blocks of an object
  LegacyNonce,\* first bytes of the nonces of legacy objects in the bucket
  Garbage,    \* what is not decrypted
  NoObject,
  MaxTries    \* bound: requests that fit in the 30 s of backoff.Retry

VersionV1 == 1
ObjectKey == [page : B2Page, kind : {"page", "thumb"}]
Object == [of : B2Bytes, format : {"v1", "legacy"}, first : LegacyNonce \cup {VersionV1},
           whole : BOOLEAN]

ASSUME B2Assumption ==
  /\ Blocks \in Nat \ {0} /\ MaxTries \in Nat
  /\ NoObject \notin Object \cup B2Bytes

VARIABLES
  object,    \* the bucket: object[k], or NoObject
  b2Step,    \* what each caller is at
  what,      \* the object it stores, or has found by a lookup, or NoObject
  where,     \* its key
  position,  \* of the reader that is put
  tries,
  returned     \* what its Retrieve has returned

b2Calls == <<b2Step, what, where, position, tries, returned>>
b2Vars == <<object, b2Calls>>

B2TypeOK ==
  /\ object \in [ObjectKey -> Object \cup {NoObject}]
  /\ b2Step \in [B2Caller -> {"idle", "put", "read", "remove"}]
  /\ what \in [B2Caller -> Object \cup {NoObject}]
  /\ where \in [B2Caller -> ObjectKey]
  /\ position \in [B2Caller -> 0..Blocks]
  /\ tries \in [B2Caller -> 0..MaxTries]
  /\ returned \in [B2Caller -> B2Bytes \cup {Garbage, NoObject}]

Legacy == [of : B2Bytes, format : {"legacy"}, first : LegacyNonce, whole : {TRUE}]

(* Old nonces are random, and one may begin with the version byte.         *)
Unreadable == {o \in Legacy : o.first = VersionV1}

B2Init ==
  /\ object \in [ObjectKey -> Legacy \cup {NoObject}]
  /\ \A k \in ObjectKey : k.kind = "thumb" => object[k] = NoObject
  /\ b2Step = [c \in B2Caller |-> "idle"]
  /\ what = [c \in B2Caller |-> NoObject]
  /\ where \in {f \in [B2Caller -> ObjectKey] : \A c, d \in B2Caller : f[c] = f[d]}
  /\ position = [c \in B2Caller |-> 0]
  /\ tries = [c \in B2Caller |-> 0]
  /\ returned = [c \in B2Caller |-> NoObject]

-----------------------------------------------------------------------------
(* odicrypt                                                                *)

(* Encrypt: always the new format, and a reader at its start.              *)
Encrypt(b) == [of |-> b, format |-> "v1", first |-> VersionV1, whole |-> TRUE]

(* Decrypt takes an object that begins with the version byte for the new   *)
(* format; the tag of GCM fails a part of an object and what is decrypted  *)
(* as the wrong one, and there is no second try with the other format.     *)
Decrypt(o) ==
  IF o.whole /\ o.format = (IF o.first = VersionV1 THEN "v1" ELSE "legacy") THEN o.of ELSE Garbage

-----------------------------------------------------------------------------
(* Store and StoreThumbnail                                                *)

Idle(c) == b2Step[c] = "idle"

Ends(c) ==
  /\ b2Step' = [b2Step EXCEPT ![c] = "idle"]
  /\ what' = [what EXCEPT ![c] = NoObject]
  /\ position' = [position EXCEPT ![c] = 0]
  /\ tries' = [tries EXCEPT ![c] = 0]
  /\ UNCHANGED <<where, returned>>

(* fileSize is taken once, here, with a rewound reader.                    *)
StartPut(c, k, b) ==
  /\ Idle(c)
  /\ b2Step' = [b2Step EXCEPT ![c] = "put"]
  /\ what' = [what EXCEPT ![c] = Encrypt(b)]
  /\ where' = [where EXCEPT ![c] = k]
  /\ UNCHANGED <<object, position, tries, returned>>

(* Mutant: the size is that of what the reader still has.                  *)
DeclaredRest(c) == Blocks - position[c]

Declared(c) == Blocks

(* A body that is shorter than its declared length is refused (net/http).  *)
Accepted(c) == Blocks - position[c] = Declared(c)

(* What the bucket has when the rest of the reader was sent.               *)
Rest(c) ==
  IF position[c] = 0 THEN what[c]
  ELSE [of |-> what[c].of, format |-> what[c].format, first |-> what[c].first, whole |-> FALSE]

Arrives(c) == [object EXCEPT ![where[c]] = Rest(c)]

PutSucceeds(c) ==
  /\ b2Step[c] = "put" /\ Accepted(c)
  /\ object' = Arrives(c)
  /\ Ends(c)

(* A transient error, after n blocks were read and perhaps after all of    *)
(* them have arrived.  Only Store has another try.                         *)
PutBreaks(c, n) ==
  /\ b2Step[c] = "put" /\ Accepted(c) /\ position[c] + n <= Blocks
  /\ object' \in {object} \cup (IF position[c] + n = Blocks THEN {Arrives(c)} ELSE {})
  /\ IF where[c].kind = "page" /\ tries[c] < MaxTries
       THEN /\ position' = [position EXCEPT ![c] = @ + n]
            /\ tries' = [tries EXCEPT ![c] = @ + 1]
            /\ UNCHANGED <<b2Step, what, where, returned>>
       ELSE Ends(c)

(* A permanent error, which a body that is too short is as well.           *)
PutFails(c) == b2Step[c] = "put" /\ Ends(c) /\ UNCHANGED object

-----------------------------------------------------------------------------
(* Retrieve, RetrieveThumbnail, Delete: a lookup, and then what is done    *)
(* with the object that was found.                                         *)

Lookup(c, k, next) ==
  /\ Idle(c)
  /\ where' = [where EXCEPT ![c] = k]
  /\ IF object[k] = NoObject
       THEN /\ returned' = [returned EXCEPT ![c] = NoObject]
            /\ UNCHANGED <<b2Step, what>>
       ELSE /\ b2Step' = [b2Step EXCEPT ![c] = next]
            /\ what' = [what EXCEPT ![c] = object[k]]
            /\ UNCHANGED returned
  /\ UNCHANGED <<object, position, tries>>

(* Open and read the version that was found.                               *)
Read(c) ==
  /\ b2Step[c] = "read"
  /\ b2Step' = [b2Step EXCEPT ![c] = "idle"]
  /\ what' = [what EXCEPT ![c] = NoObject]
  /\ returned' = [returned EXCEPT ![c] = Decrypt(what[c])]
  /\ UNCHANGED <<object, where, position, tries>>

(* B2Delete hides whatever the name stands for by then.                      *)
B2Delete(c) ==
  /\ b2Step[c] = "remove"
  /\ object' = [object EXCEPT ![where[c]] = NoObject]
  /\ Ends(c)

CallFails(c) == b2Step[c] \in {"read", "remove"} /\ Ends(c) /\ UNCHANGED object

(* scannedPageFromRemote: names of thumbnails are no page's.               *)
ScannedPageFromRemote(k) == k.kind = "page"

B2ListPages == {k \in ObjectKey : object[k] # NoObject /\ ScannedPageFromRemote(k)}

-----------------------------------------------------------------------------
B2Next ==
  \E c \in B2Caller :
    \/ \E k \in ObjectKey :
         \/ \E b \in B2Bytes : StartPut(c, k, b)
         \/ Lookup(c, k, "read")
         \/ k.kind = "page" /\ Lookup(c, k, "remove")
    \/ PutSucceeds(c) \/ (\E n \in 0..Blocks : PutBreaks(c, n)) \/ PutFails(c)
    \/ Read(c) \/ B2Delete(c) \/ CallFails(c)

B2Spec == B2Init /\ [][B2Next]_b2Vars

-----------------------------------------------------------------------------
(* Properties                                                              *)

B2Stored ==
  [k \in ObjectKey |->
     IF object[k] \in Unreadable \cup {NoObject} THEN object[k] ELSE Decrypt(object[k])]

B2Pages ==
  INSTANCE PageStore WITH
    Key <- ObjectKey, Listable <- [page : B2Page, kind : {"page"}],
    Bytes <- B2Bytes, Unreadable <- Unreadable, NoPage <- NoObject,
    stored <- B2Stored, listed <- B2ListPages, behind <- [k \in ObjectKey |-> {}]

(* With retries that start in the middle of the reader, answers that are   *)
(* lost and callers in each other's way: what Retrieve returns is a page   *)
(* that was stored whole, or nothing.  Only an old object whose nonce      *)
(* begins with the version byte is listed and never read, until it is      *)
(* stored anew or deleted.  The bucket implements PageStore.               *)
B2ImplementsStore == B2Pages!Spec
=============================================================================
