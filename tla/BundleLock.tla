----------------------------- MODULE BundleLock -----------------------------
(***************************************************************************)
(* The lock of a save bundle (bundle::Lock) and the processes that resume  *)
(* a match under it: each reads the manifest, takes the lock with a file   *)
(* that it creates, writes the attempt it counts, hosts the match and lets *)
(* go of the bundle.  A process may crash between any two steps.           *)
(*                                                                         *)
(* Every system call is a step of its own.  A lock file is known by the    *)
(* process that created it, because a process may write into a file that   *)
(* has been removed from under it.                                         *)
(***************************************************************************)
EXTENDS Naturals

CONSTANTS Process,      \* the servers started on one save directory, one process each
          MaxAttempts,  \* Expect::max_attempts
          KeepFinished, \* SaveSetup::keep_finished
          None

VARIABLES manifest,     \* the file, or None once the bundle is deleted
          lock,         \* the file: its creator and whether its body is written
          proc          \* where each process is, and its copy of the manifest

vars == <<manifest, lock, proc>>

At(p) == proc[p].at
Live(owner) == owner \in Process /\ At(owner) \notin {"new", "crashed", "exited"}
LockOf(p) == [owner |-> p, written |-> FALSE]

\* The process that hosted the match crashed.
Init ==
    /\ manifest = [status |-> "running", attempts |-> 0]
    /\ lock = [owner |-> None, written |-> TRUE]
    /\ proc = [p \in Process |-> [at |-> "new", tries |-> 2, copy |-> None]]

Goes(p, where) == proc' = [proc EXCEPT ![p].at = where]

-----------------------------------------------------------------------------
(* load.                                                                   *)

\* The manifest is read and judged before the lock is taken.
ReadManifest(p) ==
    /\ At(p) = "new"
    /\ proc' = IF manifest # None /\ manifest.status \in {"running", "stopped"}
               THEN [proc EXCEPT ![p].at = "creating", ![p].copy = manifest]
               ELSE [proc EXCEPT ![p].at = "idle"]
    /\ UNCHANGED <<manifest, lock>>

\* create_new fails when the file exists, and when its directory does not.
CreateLock(p) ==
    /\ At(p) = "creating"
    /\ IF manifest # None /\ lock = None
       THEN lock' = LockOf(p) /\ Goes(p, "writing")
       ELSE Goes(p, IF manifest = None THEN "idle" ELSE "judging") /\ UNCHANGED lock
    /\ UNCHANGED manifest

WriteOwner(p) ==
    /\ At(p) = "writing"
    /\ lock' = IF lock = LockOf(p) THEN [lock EXCEPT !.written = TRUE] ELSE lock
    /\ Goes(p, "locked")
    /\ UNCHANGED manifest

\* held_by_live_process: a lock that cannot be read counts as held.
HeldByLiveProcess == lock = None \/ ~lock.written \/ Live(lock.owner)

JudgeLock(p) ==
    /\ At(p) = "judging"
    /\ Goes(p, IF HeldByLiveProcess THEN "idle" ELSE "removing")
    /\ UNCHANGED <<manifest, lock>>

\* A stale lock is removed by its name, whatever file has it by now.
RemoveStale(p) ==
    /\ At(p) = "removing"
    /\ lock' = None
    /\ proc' = [proc EXCEPT ![p].at = IF lock = None \/ proc[p].tries = 1 THEN "idle" ELSE "creating",
                            ![p].tries = @ - 1]
    /\ UNCHANGED manifest

\* Whatever load refuses under the lock leaves the bundle as it was.
Refuse(p) ==
    /\ At(p) = "locked"
    /\ lock' = None
    /\ Goes(p, "idle")
    /\ UNCHANGED manifest

\* The attempt is counted on the copy that was read before.
CountAttempt(p) ==
    /\ At(p) = "locked" /\ manifest # None
    /\ LET counted == [proc[p].copy EXCEPT !.attempts = @ + 1]
       IN  IF counted.attempts > MaxAttempts
           THEN /\ manifest' = [counted EXCEPT !.status = "abandoned"]
                /\ lock' = None
                /\ Goes(p, "idle")
           ELSE /\ manifest' = counted
                /\ proc' = [proc EXCEPT ![p].at = "resuming", ![p].copy = counted]
                /\ UNCHANGED lock

-----------------------------------------------------------------------------
(* The writer of the resumed match.                                        *)

\* A write into a directory that is gone fails, and the match goes on unsaved.
Writes(p, status, where) ==
    IF manifest = None
    THEN Goes(p, where) /\ UNCHANGED manifest
    ELSE /\ manifest' = [proc[p].copy EXCEPT !.status = status]
         /\ proc' = [proc EXCEPT ![p].at = where, ![p].copy = manifest']

Reopen(p) == At(p) = "resuming" /\ Writes(p, "running", "hosting") /\ UNCHANGED lock

SetStatus(p) ==
    /\ At(p) = "hosting"
    /\ \E status \in {"finished", "stopped"} : Writes(p, status, "closing")
    /\ UNCHANGED lock

\* finish: the lock is dropped, and a finished bundle is deleted after it.
DropLock(p) ==
    /\ At(p) = "closing"
    /\ lock' = None
    /\ Goes(p, IF proc[p].copy.status = "finished" /\ ~KeepFinished THEN "deleting" ELSE "idle")
    /\ UNCHANGED manifest

DeleteBundle(p) ==
    /\ At(p) = "deleting"
    /\ manifest' = None /\ lock' = None
    /\ Goes(p, "idle")

-----------------------------------------------------------------------------
Crash(p) ==
    /\ At(p) \notin {"new", "crashed", "exited"}
    /\ Goes(p, "crashed")
    /\ UNCHANGED <<manifest, lock>>

Exit(p) == At(p) = "idle" /\ Goes(p, "exited") /\ UNCHANGED <<manifest, lock>>

Step(p) ==
    \/ ReadManifest(p) \/ CreateLock(p) \/ WriteOwner(p) \/ JudgeLock(p) \/ RemoveStale(p)
    \/ Refuse(p) \/ CountAttempt(p)
    \/ Reopen(p) \/ SetStatus(p) \/ DropLock(p) \/ DeleteBundle(p)
    \/ Crash(p) \/ Exit(p)

Next == \E p \in Process : Step(p)

Spec == Init /\ [][Next]_vars

-----------------------------------------------------------------------------
\* Two processes started on one save directory never resume the same match twice: at
\* most one of them has the match open (the comment on bundle::Lock).
ResumedByOne ==
    \A p, q \in Process :
        At(p) \in {"resuming", "hosting"} /\ At(q) \in {"resuming", "hosting"} => p = q
=============================================================================
