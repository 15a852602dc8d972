------------------------------- MODULE Watcher -------------------------------
(***************************************************************************)
(* The watch folder (pkg/watcher/watcher.go).  Events of a file re-arm its *)
(* timer; the function of a timer that has fired runs in a goroutine of    *)
(* its own, beside the loop that handles events and beside the others.     *)
(*                                                                         *)
(* The files are written by others, and fsnotify reports it; both are      *)
(* external.  Timers fire whenever they are armed.                         *)
(***************************************************************************)
EXTENDS Integers, FiniteSets

CONSTANTS
  Path,        \* files below the watched directories
  BaseName,    \* their names, as .done has them
  BaseOf,      \* filepath.Base
  NotAllowed,  \* paths that isAllowedMIME rejects
  MaxWrites    \* bound: writes in all

ASSUME WatchAssumption ==
  BaseOf \in [Path -> BaseName] /\ NotAllowed \subseteq Path /\ MaxWrites \in Nat

VARIABLES
  running,   \* Start has not returned
  present,   \* paths that exist
  events,    \* paths of queued Create and Write events
  timers,    \* [path, id] -> "armed" or "fired"
  pending,   \* the map of timers by path, 0 for none
  files,     \* calls of processFile: [path, id] -> step
  done,      \* names in .done
  due,       \* history: an event has been handled and no processFile has begun since
  writes

watchVars == <<running, present, events, timers, pending, files, done, due, writes>>

TimerId == 1..MaxWrites
Timer == [path : Path, id : TimerId]

WatchTypeOK ==
  /\ running \in BOOLEAN
  /\ present \subseteq Path /\ due \subseteq Path
  /\ events \in [Path -> 0..MaxWrites] /\ writes \in 0..MaxWrites
  /\ timers \in [Timer -> {"none", "armed", "fired"}]
  /\ pending \in [Path -> TimerId \cup {0}]
  /\ files \in [Timer -> {"none", "check", "process", "move"}]
  /\ done \subseteq BaseName

WatchInit ==
  /\ running = TRUE
  /\ present = {} /\ done = {} /\ due = {}
  /\ events = [p \in Path |-> 0]
  /\ timers = [t \in Timer |-> "none"]
  /\ pending = [p \in Path |-> 0]
  /\ files = [t \in Timer |-> "none"]
  /\ writes = 0

-----------------------------------------------------------------------------
(* Somebody creates a file or writes to it.                                *)
WriteFile(p) ==
  /\ writes < MaxWrites
  /\ writes' = writes + 1
  /\ present' = present \cup {p}
  /\ events' = IF running THEN [events EXCEPT ![p] = @ + 1] ELSE events
  /\ UNCHANGED <<running, timers, pending, files, done, due>>

(* handleEvent *)

(* A timer that was not used yet: AfterFunc makes a new one.               *)
Unused(i) == \A p \in Path :
  timers[[path |-> p, id |-> i]] = "none" /\ files[[path |-> p, id |-> i]] = "none"

FreshTimer(p) == [path |-> p, id |-> CHOOSE i \in TimerId : Unused(i)]

(* Mutant: pending has the names, as .done has.                            *)
StopTimerOfName(p) ==
  [t \in Timer |-> IF BaseOf[t.path] = BaseOf[p] /\ timers[t] = "armed" THEN "none" ELSE timers[t]]

(* Stop has no effect on a timer that has fired.                           *)
StopTimer(p) ==
  [t \in Timer |-> IF t.path = p /\ t.id = pending[p] /\ timers[t] = "armed" THEN "none" ELSE timers[t]]

Arm(p) ==
  /\ timers' = [StopTimer(p) EXCEPT ![FreshTimer(p)] = "armed"]
  /\ pending' = [pending EXCEPT ![p] = FreshTimer(p).id]

HandleEvent(p) ==
  /\ running /\ events[p] > 0
  /\ \E i \in TimerId : Unused(i)    \* there is one for every write
  /\ events' = [events EXCEPT ![p] = @ - 1]
  /\ IF p \in present
       THEN Arm(p) /\ due' = due \cup {p}
       ELSE UNCHANGED <<timers, pending, due>>
  /\ UNCHANGED <<running, present, files, done, writes>>

(* The context ends or Stop is called.  Timers are left alone.             *)
StopWatching ==
  /\ running
  /\ running' = FALSE
  /\ events' = [p \in Path |-> 0]
  /\ UNCHANGED <<present, timers, pending, files, done, due, writes>>

-----------------------------------------------------------------------------
(* The function of a timer                                                 *)

Fire(t) ==
  /\ timers[t] = "armed"
  /\ timers' = [timers EXCEPT ![t] = "fired"]
  /\ UNCHANGED <<running, present, events, pending, files, done, due, writes>>

(* It has the lock: the entry it deletes may be that of a newer timer.     *)
Begin(t) ==
  /\ timers[t] = "fired"
  /\ timers' = [timers EXCEPT ![t] = "none"]
  /\ pending' = [pending EXCEPT ![t.path] = 0]
  /\ files' = [files EXCEPT ![t] = "check"]
  /\ due' = due \ {t.path}
  /\ UNCHANGED <<running, present, events, done, writes>>

FileGoes(t, s) == files' = [files EXCEPT ![t] = s]

CheckFile(t) ==
  /\ files[t] = "check"
  /\ FileGoes(t, IF BaseOf[t.path] \in done \/ t.path \in NotAllowed THEN "none" ELSE "process")
  /\ UNCHANGED <<running, present, events, timers, pending, done, due, writes>>

(* processor returns, with an error if the file has gone.                  *)
ProcessFile(t) ==
  /\ files[t] = "process"
  /\ FileGoes(t, "none") \/ (t.path \in present /\ FileGoes(t, "move"))
  /\ UNCHANGED <<running, present, events, timers, pending, done, due, writes>>

MoveToDone(t) ==
  /\ files[t] = "move"
  /\ FileGoes(t, "none")
  /\ \/ t.path \in present /\ present' = present \ {t.path} /\ done' = done \cup {BaseOf[t.path]}
     \/ UNCHANGED <<present, done>>
  /\ UNCHANGED <<running, events, timers, pending, due, writes>>

-----------------------------------------------------------------------------
WatchNext ==
  \/ \E p \in Path : WriteFile(p) \/ HandleEvent(p)
  \/ \E t \in Timer : Fire(t) \/ Begin(t) \/ CheckFile(t) \/ ProcessFile(t) \/ MoveToDone(t)
  \/ StopWatching

WatchSpec == WatchInit /\ [][WatchNext]_watchVars

-----------------------------------------------------------------------------
(* Properties                                                              *)

(* After the last event of a file has been handled a processFile of it is  *)
(* still to begin, whatever timer was replaced, had fired already, or was  *)
(* deleted from pending by an older one.                                   *)
NoEventLost ==
  \A p \in due : \E t \in Timer : t.path = p /\ timers[t] # "none"
=============================================================================
