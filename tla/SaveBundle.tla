----------------------------- MODULE SaveBundle -----------------------------
(***************************************************************************)
(* A match's save bundle (src/src/savegame): the writer thread that keeps  *)
(* the journal of released turns, the newest state and the manifest while  *)
(* the match is played, and the load that takes a match up again after the *)
(* server stopped or crashed.                                              *)
(*                                                                         *)
(* The game thread only sends items, in the order things happen, and the   *)
(* writer carries them out one after the other.  A process crash loses     *)
(* what the writer has not done yet and may tear the record being          *)
(* appended; a machine crash also loses journal records not fsynced yet.   *)
(*                                                                         *)
(* Abstracted: a turn is the number of the server run that released it,    *)
(* which is what tells two versions of a turn apart; a state is the        *)
(* sequence of the turns it has gone through, and its checksum the state   *)
(* itself.  Hashes, the slot table, settings, the AI host's own state and  *)
(* a bundle that could not be created are left out, and so is a second     *)
(* process on the same directory: the lock is always free at a start.      *)
(***************************************************************************)
EXTENDS Integers, Sequences, SequencesExt

CONSTANTS
    MaxAttempts,  \* max_resume_attempts, 3 in the code
    MaxTurns,     \* bound on the turns of a match
    MaxRuns       \* bound on the starts of the server

ASSUME BoundAssumption ==
    MaxAttempts \in Nat /\ MaxTurns \in Nat /\ MaxRuns \in Nat \ {0}

VARIABLES
    phase,     \* of the game thread; "Closing" once it only waits for the writer
    run,       \* the number of this run of the server
    match,     \* the turns released, of the last run when the server is down
    world,     \* what the clients' simulations have gone through
    final,     \* the status the match of this run closes or has closed with, or "Running"
    writing,   \* what the writer is in the middle of
    failed,    \* Writer::failed: one IO error ends the saving
    journal,   \* the journal file, a torn record included
    synced,    \* how much of the journal has been fsynced
    state,     \* the STATE file, <<>> when there is none
    meta,      \* the STATE_META file, likewise
    manifest,  \* the MANIFEST file
    tailLost   \* history: a machine crash has lost journal records

game == <<phase, run, match, world, final>>
disk == <<journal, synced, state, meta, manifest, tailLost>>
vars == <<game, writing, failed, disk>>

Run == 1 .. MaxRuns

\* A record that was cut off by a crash or a failed write.
Torn == 0

Statuses == {"Running", "Stopped", "Finished", "Abandoned"}

Up == phase # "Down"

\* The writer can take the next item.
Ready == Up /\ writing = "idle" /\ ~failed

-----------------------------------------------------------------------------
(* Reading a bundle.                                                       *)

\* journal::read: the whole records before a torn one.
Readable(records) ==
    LET torn == SelectInSeq(records, LAMBDA r : r = Torn)
    IN  IF torn = 0 THEN records ELSE SubSeq(records, 1, torn - 1)

\* Mutant: a torn tail is left where it is.
TailKept(records) == records

\* read_journal cuts a torn tail off, so that what is appended next is readable.
TailCut(records) == Readable(records)

NoBase == [turn |-> 0, history |-> <<>>]

\* Mutant: the checksum is not looked at.
AnyState(content, of) == [turn |-> Len(of), history |-> content]

\* read_state: a state that is not the one its meta describes is not used.
SavedState(content, of) ==
    IF content = of THEN [turn |-> Len(of), history |-> content] ELSE NoBase

\* Mutant: a finished match counts as one that can go on.
ResumableUnlessAbandoned(status) == status # "Abandoned"

Resumable(status) == status \in {"Running", "Stopped"}

\* What returning clients load and are replayed up to the stopped turn (start_restore,
\* or the seed of Server::resume where there is no sidecar).  A sidecar does not use
\* a state past the stopped turn and rebuilds the match from turn 0.
Rebuilt(base, turns, sidecar) ==
    IF base.turn <= Len(turns)
    THEN base.history \o SubSeq(turns, base.turn + 1, Len(turns))
    ELSE IF sidecar THEN turns ELSE base.history

-----------------------------------------------------------------------------
(* The game thread.                                                        *)

\* SaveStarted has been carried out: a journal, and a manifest that says Running.
Init ==
    /\ phase = "InGame" /\ run = 1
    /\ match = <<>> /\ world = <<>> /\ final = "Running"
    /\ writing = "idle" /\ failed = FALSE
    /\ journal = <<>> /\ synced = 0 /\ state = <<>> /\ meta = <<>>
    /\ manifest = [status |-> "Running", attempts |-> 0]
    /\ tailLost = FALSE

\* release_turns sends the turn to the clients and to the writer.
Release ==
    /\ phase = "InGame"
    /\ Len(match) < MaxTurns
    /\ match' = Append(match, run)
    /\ world' = Append(world, run)
    /\ UNCHANGED <<phase, run, final, writing, failed, disk>>

\* resume_match: the returned players go on.
Restarted ==
    /\ phase = "Resuming"
    /\ phase' = "InGame"
    /\ UNCHANGED <<run, match, world, final, writing, failed, disk>>

\* The operator stops the server; the match is decided or everyone left; or nobody
\* came back, or the state could not be rebuilt (stop_saved, end_match, on_tick,
\* abandon).  What has been sent to the writer is still carried out.
Ends(status) ==
    /\ \/ status = "Stopped" /\ phase \in {"InGame", "Resuming"}
       \/ status = "Finished" /\ phase = "InGame"
       \/ status = "Abandoned" /\ phase = "Resuming"
    /\ phase' = "Closing"
    /\ final' = status
    /\ UNCHANGED <<run, match, world, writing, failed, disk>>

-----------------------------------------------------------------------------
(* The writer thread.                                                      *)

\* Writer::append, unsynced.
AppendTurn ==
    /\ Ready
    /\ Len(journal) < Len(match)
    /\ journal' = Append(journal, match[Len(journal) + 1])
    /\ UNCHANGED <<game, writing, failed, synced, state, meta, manifest, tailLost>>

\* Writer::flush, on SaveItem::Sync or when nothing came for a while.
Flush ==
    /\ Ready
    /\ synced' = Len(journal)
    /\ UNCHANGED <<game, writing, failed, journal, state, meta, manifest, tailLost>>

\* write_state, first half.  The state is of a turn the writer was sent before: a
\* checkpoint's or a client's while the match is played, and of the stopped turn when
\* it has been rebuilt.
WriteState ==
    /\ Ready
    /\ \E turn \in 1 .. Len(journal) :
         /\ phase = "Resuming" => turn = Len(journal)
         /\ state' = SubSeq(world, 1, turn)
    /\ writing' = "meta"
    /\ UNCHANGED <<game, failed, journal, synced, meta, manifest, tailLost>>

\* write_state, second half.
WriteMeta ==
    /\ Up /\ writing = "meta"
    /\ meta' = state
    /\ writing' = "idle"
    /\ UNCHANGED <<game, failed, journal, synced, state, manifest, tailLost>>

\* Writer::reopen.
Reopen ==
    /\ Up /\ writing = "reopen"
    /\ manifest' = [manifest EXCEPT !.status = "Running"]
    /\ writing' = "idle"
    /\ UNCHANGED <<game, failed, journal, synced, state, meta, tailLost>>

FlushedFirst(status) == status = "Stopped"

\* set_status, once everything sent before it has been carried out.  A flush that
\* fails ends the saving, but the status is written all the same.
SetStatus ==
    /\ phase = "Closing"
    /\ Ready
    /\ Len(journal) >= Len(match)
    /\ writing' = "status"
    /\ IF FlushedFirst(final)
       THEN \/ synced' = Len(journal) /\ UNCHANGED failed
            \/ failed' = TRUE /\ UNCHANGED synced
       ELSE UNCHANGED <<synced, failed>>
    /\ UNCHANGED <<game, journal, state, meta, manifest, tailLost>>

WriteStatus ==
    /\ Up /\ writing = "status"
    /\ manifest' = [manifest EXCEPT !.status = final]
    /\ writing' = "done"
    /\ UNCHANGED <<game, failed, journal, synced, state, meta, tailLost>>

\* Mutant: the writer carries on after an error.
NotLatched == FALSE

Latched == TRUE

\* Writer::fail: a write, other than the flush of set_status, fails.  A failed append
\* may leave part of its record; the other files are replaced whole or not at all.
WriteFails ==
    /\ Up /\ ~failed
    /\ failed' = Latched
    /\ journal' \in IF writing = "idle" /\ Len(journal) < Len(match)
                    THEN {journal, Append(journal, Torn)} ELSE {journal}
    /\ writing' = IF writing = "status" THEN "done" ELSE
                  IF writing = "done" THEN "done" ELSE "idle"
    /\ UNCHANGED <<game, synced, state, meta, manifest, tailLost>>

\* Writer::finish, and with it the process or the game.  That a finished bundle is
\* deleted unless the operator keeps them makes no difference: neither is resumed.
Finish ==
    /\ phase = "Closing"
    /\ (failed /\ writing = "idle") \/ writing = "done"
    /\ phase' = "Down"
    /\ writing' = "idle"
    /\ synced' = IF failed THEN synced ELSE Len(journal)
    /\ UNCHANGED <<run, match, world, final, failed, journal, state, meta, manifest, tailLost>>

-----------------------------------------------------------------------------
(* Crashes and starts.                                                     *)

\* The record being appended when the process dies may be torn.
Cut(records) ==
    IF Up /\ writing = "idle" /\ ~failed /\ Len(journal) < Len(match)
    THEN {records, Append(records, Torn)} ELSE {records}

Crash ==
    /\ Up
    /\ phase' = "Down"
    /\ writing' = "idle"
    /\ journal' \in Cut(journal)
    /\ final' = "Running"
    /\ UNCHANGED <<run, match, world, failed, synced, state, meta, manifest, tailLost>>

\* The files other than the journal are fsynced before they are renamed into place.
MachineCrash ==
    /\ phase' = "Down"
    /\ writing' = "idle"
    /\ \E kept \in synced .. Len(journal) :
         /\ kept < Len(journal)
         /\ journal' \in {SubSeq(journal, 1, kept), Append(SubSeq(journal, 1, kept), Torn)}
    /\ tailLost' = TRUE
    /\ final' = IF Up THEN "Running" ELSE final
    /\ UNCHANGED <<run, match, world, failed, synced, state, meta, manifest>>

\* Mutant: reopening the bundle counts as another attempt.
CountedTwice(attempts) == attempts + 2

\* Mutant: the attempt is not counted.
NotCounted(attempts) == attempts

Counted(attempts) == attempts + 1

\* resume::load and Server::resume.  Without a sidecar and a state the bundle is left
\* for a later start.
Start(sidecar) ==
    /\ phase = "Down"
    /\ run < MaxRuns
    /\ Resumable(manifest.status)
    /\ LET base == SavedState(state, meta)
           turns == Readable(journal)
           attempts == Counted(manifest.attempts)
       IN  /\ sidecar \/ base # NoBase
           /\ journal' = TailCut(journal)
           /\ synced' = IF turns # journal THEN Len(journal') ELSE synced
           /\ IF attempts > MaxAttempts
              THEN /\ manifest' = [status |-> "Abandoned", attempts |-> attempts]
                   /\ UNCHANGED <<game, writing, failed>>
              ELSE /\ manifest' = [manifest EXCEPT !.attempts = attempts]
                   /\ phase' = "Resuming"
                   /\ run' = run + 1
                   /\ match' = turns
                   /\ world' = Rebuilt(base, turns, sidecar)
                   /\ final' = "Running"
                   /\ writing' = "reopen"
                   /\ failed' = FALSE
    /\ UNCHANGED <<state, meta, tailLost>>

Orderly ==
    \/ Release \/ Restarted \/ \E status \in Statuses : Ends(status)
    \/ AppendTurn \/ Flush \/ WriteState \/ WriteMeta \/ Reopen
    \/ SetStatus \/ WriteStatus \/ Finish
    \/ \E sidecar \in BOOLEAN : Start(sidecar)

Next == Orderly \/ WriteFails \/ Crash \/ MachineCrash

Spec == Init /\ [][Next]_vars

\* The server is only ever stopped by its operator, and its disk never fails.
OrderlySpec == Init /\ [][Orderly]_vars

-----------------------------------------------------------------------------
(* Properties.                                                             *)

\* Every variable keeps its type.
TypeOK ==
    /\ phase \in {"InGame", "Resuming", "Closing", "Down"}
    /\ run \in Run
    /\ match \in Seq(Run) /\ world \in Seq(Run)
    /\ final \in Statuses
    /\ writing \in {"idle", "meta", "reopen", "status", "done"}
    /\ failed \in BOOLEAN /\ tailLost \in BOOLEAN
    /\ journal \in Seq(Run \cup {Torn})
    /\ synced \in 0 .. Len(journal)
    /\ state \in Seq(Run) /\ meta \in Seq(Run)
    /\ manifest \in [status : Statuses, attempts : 0 .. MaxAttempts + 1]

\* A match is taken up again as it was played, up to some turn of it, and never
\* from before a turn whose record was fsynced, whatever was torn, lost or failed
\* before (read_journal, Writer::append).
ResumesWhatWasPlayed ==
    [][ phase = "Down" /\ phase' = "Resuming" =>
          IsPrefix(match', match) /\ Len(match') >= synced ]_vars

\* The clients' simulation is of the very turns the server has, also after any
\* number of restarts from any saved state: a state never outlives the turns it is
\* of, unless a machine crash took them (write_state, read_state, start_restore).
WorldIsTheMatch == Up /\ ~tailLost => world = match

\* A match that was stopped is stopped at its last turn: everything played is on disk
\* for good by the time the manifest says so, unless writing failed (set_status).
StoppedKeepsEverything ==
    final = "Stopped" /\ ~failed /\ (writing = "done" \/ phase = "Down") =>
        match = Readable(SubSeq(journal, 1, synced))

\* The turns that were played are the ones the clients ran and the ones on disk.
NothingPlayedIsLost == WorldIsTheMatch /\ StoppedKeepsEverything

\* A match that was marked finished or abandoned is never played again, whichever
\* crash comes next (load, set_status).
OverIsOver ==
    [][ manifest.status \in {"Finished", "Abandoned"} =>
          manifest'.status = manifest.status /\ (phase = "Down" => phase' = "Down") ]_vars

\* A match that brings the server down every time it is resumed does so a limited
\* number of times (max_resume_attempts).
CrashLoopEnds == run <= MaxAttempts + 1

\* "The journal already holds every turn up to it" (the comment on the pulled
\* state): no saved state is of a turn that the journal does not have.
JournalCoversState == SavedState(state, meta).turn <= Len(Readable(journal))
=============================================================================
