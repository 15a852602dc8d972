----------------------------- MODULE Documents ------------------------------
(***************************************************************************)
(* The document of one page in OpenSearch: Indexer.Index                   *)
(* (pkg/indexer/indexer.go) writes it whole from what OCR, the register of *)
(* companies and the language model say; handleDocumentSummary             *)
(* (internal/server/summary.go) reads it, has a summary made when it has   *)
(* none, and writes that into whatever the document is by then.            *)
(*                                                                         *)
(* A text is what one version of OCR makes of the page; a summary is the   *)
(* text it was made of.  OpenSearch, OCR and the model are external.       *)
(***************************************************************************)
EXTENDS Naturals

CONSTANTS
  Text,     \* what OCR may read, EmptyText among it
  EmptyText,
  Indexing, \* goroutines that index the page: uploads and reindexing
  Asking,   \* requests for its summary
  Nothing,
  MaxIndexed \* bound: times the page is indexed

Document == [text : Text, docType : BOOLEAN, summary : Text \cup {Nothing}]

ASSUME DocAssumption == EmptyText \in Text /\ MaxIndexed \in Nat /\ Nothing \notin Document

VARIABLES
  doc,      \* the document, or Nothing
  draft,    \* the text of each Index that is under way, or Nothing
  request,  \* the step of each request
  read,     \* the document it has read
  docWrites, \* times the document was written
  since,    \* history: requests that have read a document written over since
  raced     \* history: the summary in the document is that of such a request

docVars == <<doc, draft, request, read, docWrites, since, raced>>


DocTypeOK ==
  /\ doc \in Document \cup {Nothing}
  /\ draft \in [Indexing -> [text : Text, docType : BOOLEAN] \cup {Nothing}]
  /\ request \in [Asking -> {"idle", "read", "persist"}]
  /\ read \in [Asking -> Document \cup {Nothing}]
  /\ docWrites \in 0..MaxIndexed /\ since \subseteq Asking /\ raced \in BOOLEAN

DocInit ==
  /\ doc = Nothing
  /\ draft = [i \in Indexing |-> Nothing]
  /\ request = [r \in Asking |-> "idle"]
  /\ read = [r \in Asking |-> Nothing]
  /\ docWrites = 0 /\ since = {} /\ raced = FALSE

-----------------------------------------------------------------------------
(* Index: OCR, which ends it when it fails, and the model, which does not. *)
StartIndex(i, text) ==
  /\ draft[i] = Nothing /\ docWrites < MaxIndexed
  /\ \E classified \in BOOLEAN :
       draft' = [draft EXCEPT ![i] = [text |-> text, docType |-> classified]]
  /\ UNCHANGED <<doc, request, read, docWrites, since, raced>>

(* Mutant: what the draft does not say is kept, as in a partial update.    *)
WrittenOver(i) ==
  [text |-> draft[i].text, docType |-> draft[i].docType,
   summary |-> IF doc = Nothing THEN Nothing ELSE doc.summary]

(* The document is written whole, without a summary.                       *)
Written(i) == [text |-> draft[i].text, docType |-> draft[i].docType, summary |-> Nothing]

WriteDocument(i) ==
  /\ draft[i] # Nothing /\ docWrites < MaxIndexed
  /\ doc' = Written(i)
  /\ draft' = [draft EXCEPT ![i] = Nothing]
  /\ docWrites' = docWrites + 1
  /\ since' = {r \in Asking : request[r] # "idle"} /\ raced' = FALSE
  /\ UNCHANGED <<request, read>>

IndexDocFails(i) ==
  /\ draft[i] # Nothing
  /\ draft' = [draft EXCEPT ![i] = Nothing]
  /\ UNCHANGED <<doc, request, read, docWrites, since, raced>>

-----------------------------------------------------------------------------
(* handleDocumentSummary *)

(* Document.Get *)
ReadDocument(r) ==
  /\ request[r] = "idle" /\ doc # Nothing
  /\ request' = [request EXCEPT ![r] = "read"]
  /\ read' = [read EXCEPT ![r] = doc]
  /\ UNCHANGED <<doc, draft, docWrites, since, raced>>

EndsRequest(r) ==
  /\ request' = [request EXCEPT ![r] = "idle"]
  /\ read' = [read EXCEPT ![r] = Nothing]
  /\ since' = since \ {r}

(* The answer is the summary that is there, or that there is nothing to    *)
(* summarize; or there is no model, it fails, or it answers with nothing.  *)
AnswerUnchanged(r) ==
  /\ request[r] = "read" /\ EndsRequest(r)
  /\ UNCHANGED <<doc, draft, docWrites, raced>>

(* Only a document that has no summary and a text goes to the model.       *)
NeedsSummary(d) == d.summary = Nothing /\ d.text # EmptyText

Summarize(r) ==
  /\ request[r] = "read" /\ NeedsSummary(read[r])
  /\ request' = [request EXCEPT ![r] = "persist"]
  /\ UNCHANGED <<doc, draft, read, docWrites, since, raced>>

(* A partial update of the document as it is by now.                       *)
Persisted(r) == [text |-> doc.text, docType |-> doc.docType, summary |-> read[r].text]

(* persistSummary: that it fails is logged and the answer goes out.        *)
PersistSummary(r) ==
  /\ request[r] = "persist" /\ EndsRequest(r)
  /\ \/ doc' = Persisted(r) /\ raced' = (r \in since)
     \/ UNCHANGED <<doc, raced>>
  /\ UNCHANGED <<draft, docWrites>>

-----------------------------------------------------------------------------
DocNext ==
  \/ \E i \in Indexing :
       (\E t \in Text : StartIndex(i, t)) \/ WriteDocument(i) \/ IndexDocFails(i)
  \/ \E r \in Asking :
       ReadDocument(r) \/ AnswerUnchanged(r) \/ Summarize(r) \/ PersistSummary(r)

DocSpec == DocInit /\ [][DocNext]_docVars

-----------------------------------------------------------------------------
(* The summary a document carries was made of the text it carries, and so  *)
(* were the key facts that reminders and insights go by, unless the page   *)
(* was indexed anew between the request's Get and its Update: an older     *)
(* summary never survives a reindex in any other way.                      *)
SummaryStaleOnlyByRace ==
  doc # Nothing => \/ doc.summary \in {Nothing, doc.text}
                   \/ raced
=============================================================================
