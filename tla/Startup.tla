------------------------------- MODULE Startup -------------------------------
(***************************************************************************)
(* From the start of a process to its end: initializeIndexer and runServe  *)
(* (internal/cli/serve.go), the initialization of an Indexer               *)
(* (pkg/indexer/indexer.go) and of a Server, and Server.Run                *)
(* (internal/server/server.go).  Several processes start against one       *)
(* OpenSearch: servers, which try their initialization a few times, and    *)
(* commands, which have one try.                                           *)
(*                                                                         *)
(* OpenSearch is external.  Its client makes an error of every status from *)
(* 400 on, so createIndex never comes to its own look at a 400.            *)
(***************************************************************************)
EXTENDS Integers

CONSTANTS
  Process,
  Serving,   \* the processes that run "odi serve" with an OCR address
  Attempts   \* of initializeIndexer: 3

ASSUME StartAssumption == Serving \subseteq Process /\ Attempts \in Nat /\ Attempts >= 3

VARIABLES
  indices,   \* that exist
  step,      \* what each process does
  made,      \* of its initialization, from 0
  outage,    \* history: a dependency has failed it
  signalled, \* SIGINT or SIGTERM
  handling,  \* requests are being handled
  worker     \* the thumbnail processor is running

startVars == <<indices, step, made, outage, signalled, handling, worker>>

Index == {"documents", "digests"}
Initializing == {"ask documents", "make documents", "ask digests", "make digests", "ask ocr"}
StartStep == {"start", "backoff", "verify", "listen", "drain", "ended", "failed"} \cup Initializing

StartTypeOK ==
  /\ indices \subseteq Index
  /\ step \in [Process -> StartStep]
  /\ made \in [Process -> 0..(Attempts - 1)]
  /\ {outage, signalled, handling, worker} \subseteq SUBSET Process

StartInit ==
  /\ indices \in SUBSET Index
  /\ step = [p \in Process |-> "start"]
  /\ made = [p \in Process |-> 0]
  /\ outage = {} /\ signalled = {} /\ handling = {} /\ worker = {}

-----------------------------------------------------------------------------
(* initializeIndexer, indexer.init                                         *)

At(p, s) == step' = [step EXCEPT ![p] = s]

(* The context is looked at before each attempt.                           *)
StartAttempt(p) ==
  /\ step[p] = "start"
  /\ At(p, IF p \in signalled THEN "failed" ELSE "ask documents")
  /\ UNCHANGED <<indices, made, outage, signalled, handling, worker>>

(* Mutant: one retry.                                                      *)
AttemptsFewer(p) == IF p \in Serving THEN Attempts - 1 ELSE 1

AttemptsOf(p) == IF p \in Serving THEN Attempts ELSE 1

AttemptFails(p) ==
  IF made[p] + 1 < AttemptsOf(p)
    THEN At(p, "backoff") /\ made' = [made EXCEPT ![p] = @ + 1]
    ELSE At(p, "failed") /\ UNCHANGED made

(* Whether the retry or the end of the context comes first.                *)
Backoff(p) ==
  /\ step[p] = "backoff"
  /\ At(p, "start") \/ (p \in signalled /\ At(p, "failed"))
  /\ UNCHANGED <<indices, made, outage, signalled, handling, worker>>

(* createIndex: opensearchTargetExists, and what follows.                  *)
AskIndex(p, ask, i, make, next) ==
  /\ step[p] = ask
  /\ At(p, IF i \in indices THEN next ELSE make)
  /\ UNCHANGED <<indices, made, outage, signalled, handling, worker>>

MakeIndex(p, make, i, next) ==
  /\ step[p] = make
  /\ IF i \in indices THEN AttemptFails(p) ELSE At(p, next) /\ UNCHANGED made
  /\ indices' = indices \cup {i}
  /\ UNCHANGED <<outage, signalled, handling, worker>>

Initialize(p) ==
  \/ AskIndex(p, "ask documents", "documents", "make documents", "ask digests")
  \/ MakeIndex(p, "make documents", "documents", "ask digests")
  \/ AskIndex(p, "ask digests", "digests", "make digests", "ask ocr")
  \/ MakeIndex(p, "make digests", "digests", "ask ocr")

(* The health of the OCR server; a command goes on to its work from here.  *)
AskOcr(p) ==
  /\ step[p] = "ask ocr"
  /\ At(p, IF p \in Serving THEN "verify" ELSE "ended")
  /\ UNCHANGED <<indices, made, outage, signalled, handling, worker>>

(* A call fails or takes longer than the 30 s of an attempt, or the signal *)
(* ends its context.  The register of companies, which is opened before    *)
(* the indices are looked at, is a dependency as well.                     *)
DependencyFails(p) ==
  /\ step[p] \in Initializing
  /\ AttemptFails(p)
  /\ outage' = outage \cup {p}
  /\ UNCHANGED <<indices, signalled, handling, worker>>

-----------------------------------------------------------------------------
(* server.NewWithContext and Run                                           *)

(* pingOs, verifyIndex and, in Run, the worker and the listener.           *)
Verify(p) ==
  /\ step[p] = "verify"
  /\ IF "documents" \in indices
       THEN At(p, "listen") /\ worker' = worker \cup {p}
       ELSE At(p, "failed") /\ UNCHANGED worker
  /\ UNCHANGED <<indices, made, outage, signalled, handling>>

(* The verification fails otherwise, or the listener does, which Run       *)
(* returns; its deferred cancelBg ends the worker.                         *)
ServeFails(p) ==
  /\ step[p] \in {"verify", "listen"}
  /\ At(p, "failed")
  /\ outage' = outage \cup {p}
  /\ worker' = worker \ {p} /\ handling' = handling \ {p}
  /\ UNCHANGED <<indices, made, signalled>>

TakeRequest(p) ==
  /\ step[p] = "listen" /\ p \notin handling
  /\ handling' = handling \cup {p}
  /\ UNCHANGED <<indices, step, made, outage, signalled, worker>>

Respond(p) ==
  /\ p \in handling
  /\ handling' = handling \ {p}
  /\ UNCHANGED <<indices, step, made, outage, signalled, worker>>

(* Before and in Run; NotifyContext sees the first signal.                 *)
Signal(p) ==
  /\ p \in Serving \ signalled /\ step[p] \notin {"ended", "failed"}
  /\ signalled' = signalled \cup {p}
  /\ UNCHANGED <<indices, step, made, outage, handling, worker>>

(* cancelBg comes before Shutdown.                                         *)
CancelBackground(p) == worker' = worker \ {p}

StartShutdown(p) ==
  /\ step[p] = "listen" /\ p \in signalled
  /\ At(p, "drain")
  /\ CancelBackground(p)
  /\ UNCHANGED <<indices, made, outage, signalled, handling>>

(* Shutdown waits for the handlers, 30 s at most.                          *)
Drained(p) ==
  /\ step[p] = "drain"
  /\ \/ p \notin handling /\ At(p, "ended") /\ UNCHANGED outage
     \/ p \in handling /\ At(p, "failed") /\ outage' = outage \cup {p}
  /\ handling' = handling \ {p}
  /\ UNCHANGED <<indices, made, signalled, worker>>

-----------------------------------------------------------------------------
StartNext ==
  \E p \in Process :
    \/ StartAttempt(p) \/ Backoff(p) \/ Initialize(p) \/ AskOcr(p) \/ DependencyFails(p)
    \/ Verify(p) \/ ServeFails(p) \/ TakeRequest(p) \/ Respond(p)
    \/ Signal(p) \/ StartShutdown(p) \/ Drained(p)

StartSpec == StartInit /\ [][StartNext]_startVars

-----------------------------------------------------------------------------
(* Properties                                                              *)

(* However many processes start at once, a server that no dependency fails *)
(* and that nobody stops comes up: each index can be lost to another       *)
(* process once, and there is an attempt for each of them and one more.    *)
(* Commands have no such attempts.                                         *)
ServersComeUp ==
  \A p \in Serving : step[p] = "failed" => p \in outage \cup signalled
=============================================================================
