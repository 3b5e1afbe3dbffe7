------------------------- MODULE SaveBundle_proofs -------------------------
(***************************************************************************)
(* Proofs about SaveBundle, for every number of attempts, turns and runs.  *)
(*                                                                         *)
(* The inductive invariant has two parts.  IInv is about the manifest and  *)
(* the writer's place alone: every run but the first was counted, and the  *)
(* writer of a match whose manifest says it is over has nothing left to    *)
(* write.  FilesInv is about what the files hold: the records are the      *)
(* first turns of the match and perhaps a torn one, only a server that is  *)
(* down or has failed leaves a torn one, and the saved states are of turns *)
(* that are recorded.                                                      *)
(***************************************************************************)
EXTENDS SaveBundle, SequenceTheorems, TLAPS

Over == {"Finished", "Abandoned"}

ManifestOK == manifest \in [status : Statuses, attempts : 0 .. MaxAttempts + 1]

\* Every run after the first is an attempt the manifest has counted.
RunsCounted == run \in Nat /\ run <= manifest.attempts + 1 /\ run <= MaxAttempts + 1

\* The attempts only ever run out at a start, which then gives the match up.
AttemptsLeft ==
    \/ manifest.attempts <= MaxAttempts
    \/ phase = "Down" /\ manifest.status = "Abandoned"

\* A running server whose match is over on disk only has to close it.
OverIsWritten == Up /\ manifest.status \in Over => writing = "done"

IInv ==
    /\ ManifestOK
    /\ final \in Statuses
    /\ RunsCounted
    /\ AttemptsLeft
    /\ OverIsWritten

-----------------------------------------------------------------------------

\* A match starts uncounted and running.
LEMMA InitIInv == Init => IInv
<1>. SUFFICES ASSUME Init PROVE IInv
  OBVIOUS
<1>. QED  BY BoundAssumption
          DEF Init, IInv, ManifestOK, Statuses, RunsCounted, AttemptsLeft, OverIsWritten, Over, Up

\* A start takes up a match that was running or stopped, within the attempts, or
\* gives it up and leaves the server down.
LEMMA StartKeeps ==
    ASSUME IInv, NEW sidecar \in BOOLEAN, Start(sidecar)
    PROVE  IInv' /\ manifest.status \notin Over
<1>. USE BoundAssumption
<1>1. /\ phase = "Down" /\ Resumable(manifest.status)
  BY DEF Start
<1>2. manifest.status \notin Over
  BY <1>1 DEF Resumable, Over
<1>3. manifest.attempts \in Nat /\ manifest.attempts <= MaxAttempts + 1
  BY DEF IInv, ManifestOK
<1>4. CASE manifest.attempts + 1 > MaxAttempts
  <2>1. /\ manifest' = [status |-> "Abandoned", attempts |-> manifest.attempts + 1]
        /\ UNCHANGED <<phase, run, final, writing>>
    BY <1>4 DEF Start, Counted, game
  <2>2. manifest.attempts <= MaxAttempts
    BY <1>2 DEF IInv, AttemptsLeft, Over
  <2>. QED  BY <1>1, <1>2, <1>3, <2>1, <2>2
            DEF IInv, ManifestOK, Statuses, RunsCounted, AttemptsLeft, OverIsWritten, Up
<1>5. CASE ~(manifest.attempts + 1 > MaxAttempts)
  <2>1. /\ manifest' = [manifest EXCEPT !.attempts = manifest.attempts + 1]
        /\ run' = run + 1 /\ final' = "Running"
    BY <1>5 DEF Start, Counted
  <2>2. manifest'.status = manifest.status /\ manifest'.attempts = manifest.attempts + 1
    BY <2>1 DEF IInv, ManifestOK
  <2>. QED  BY <1>2, <1>3, <1>5, <2>1, <2>2
            DEF IInv, ManifestOK, Statuses, RunsCounted, AttemptsLeft, OverIsWritten
<1>. QED  BY <1>2, <1>4, <1>5

\* The status is written with nothing else left to write; no other step of a running
\* server makes a match over, and a stop or a crash leaves the manifest alone.
LEMMA NextKeeps ==
    ASSUME IInv, [Next]_vars
    PROVE  IInv' /\ (manifest.status \in Over => manifest'.status = manifest.status)
<1>. USE BoundAssumption
<1>. USE DEF IInv, ManifestOK, Statuses, RunsCounted, AttemptsLeft, OverIsWritten, Over, Up
<1>1. CASE Release
  BY <1>1 DEF Release, disk
<1>2. CASE Restarted
  BY <1>2 DEF Restarted, disk
<1>3. ASSUME NEW status \in Statuses, Ends(status) PROVE IInv' /\ UNCHANGED manifest
  BY <1>3 DEF Ends, disk
<1>4. CASE AppendTurn
  BY <1>4 DEF AppendTurn, game, Ready
<1>5. CASE Flush
  BY <1>5 DEF Flush, game
<1>6. CASE WriteState
  BY <1>6 DEF WriteState, game, Ready
<1>7. CASE WriteMeta
  BY <1>7 DEF WriteMeta, game
<1>8. CASE Reopen
  BY <1>8 DEF Reopen, game
<1>9. CASE SetStatus
  BY <1>9 DEF SetStatus, game, Ready
<1>10. CASE WriteStatus
  BY <1>10 DEF WriteStatus, game
<1>11. CASE WriteFails
  BY <1>11 DEF WriteFails, game
<1>12. CASE Finish
  BY <1>12 DEF Finish
<1>13. CASE Crash
  BY <1>13 DEF Crash
<1>14. CASE MachineCrash
  BY <1>14 DEF MachineCrash
<1>15. ASSUME NEW sidecar \in BOOLEAN, Start(sidecar)
       PROVE  IInv' /\ manifest.status \notin Over
  BY <1>15, StartKeeps
<1>16. CASE UNCHANGED vars
  BY <1>16 DEF vars, game, disk
<1>. QED  BY <1>1, <1>2, <1>3, <1>4, <1>5, <1>6, <1>7, <1>8, <1>9, <1>10, <1>11, <1>12,
             <1>13, <1>14, <1>15, <1>16
          DEF Next, Orderly

\* The attempts and the writer's last step hold in every state (load, set_status).
THEOREM InvariantHolds == Spec => []IInv
<1>1. IInv /\ [Next]_vars => IInv'
  BY NextKeeps
<1>. QED  BY InitIInv, <1>1, PTL DEF Spec

\* A match that brings the server down whenever it is resumed is resumed at most
\* MaxAttempts times (the attempts that load counts).
THEOREM CrashLoopLimited == Spec => []CrashLoopEnds
<1>1. IInv => CrashLoopEnds
  BY DEF IInv, RunsCounted, CrashLoopEnds
<1>. QED  BY InvariantHolds, <1>1, PTL

\* A match that was marked finished or abandoned is never played again, whatever
\* crashes and starts follow (the status check of load).
THEOREM OverForGood == Spec => OverIsOver
<1>1. ASSUME IInv, [Next]_vars, manifest.status \in Over
      PROVE  manifest'.status = manifest.status /\ (phase = "Down" => phase' = "Down")
  <2>1. manifest'.status = manifest.status
    BY <1>1, NextKeeps
  <2>2. ASSUME phase = "Down" PROVE phase' = "Down"
    <3>1. \A sidecar \in BOOLEAN : ~Start(sidecar)
      BY <1>1 DEF Start, Resumable, Over
    <3>. QED  BY <1>1, <2>2, <3>1
              DEF Next, Orderly, Release, Restarted, Ends, AppendTurn, Flush, WriteState,
                  WriteMeta, Reopen, SetStatus, WriteStatus, WriteFails, Finish, Crash,
                  MachineCrash, Up, Ready, game, vars
  <2>. QED  BY <2>1, <2>2
<1>2. IInv /\ [Next]_vars =>
        [ manifest.status \in {"Finished", "Abandoned"} =>
            manifest'.status = manifest.status /\ (phase = "Down" => phase' = "Down") ]_vars
  BY <1>1 DEF Over
<1>. QED  BY InvariantHolds, <1>2, PTL DEF Spec, OverIsOver
-----------------------------------------------------------------------------
(* What the files hold.                                                    *)

PrefixOf(s, t) == Len(s) <= Len(t) /\ \A i \in 1 .. Len(s) : s[i] = t[i]

TornLast(records) == \A i \in 1 .. Len(records) : records[i] = Torn => i = Len(records)

\* The records on disk are the first turns of the match, and perhaps a torn one.
RecordsOfMatch ==
    \A i \in 1 .. Len(journal) :
        \/ journal[i] = Torn /\ i = Len(journal)
        \/ i <= Len(match) /\ journal[i] = match[i]

SyncedWhole == \A i \in 1 .. synced : journal[i] # Torn

\* Nothing is torn that a writer still appends to.
AppendsWhole == Up /\ ~failed => \A i \in 1 .. Len(journal) : journal[i] # Torn

\* Once the writer is at the final status, every turn is in the journal.
AllWritten ==
    writing \in {"status", "done"} =>
        /\ phase = "Closing"
        /\ ~failed => /\ Len(match) <= Len(journal)
                      /\ final = "Stopped" => synced = Len(journal)

StoppedComplete ==
    phase = "Down" /\ final = "Stopped" /\ ~failed =>
        Len(match) <= Len(journal) /\ synced = Len(journal)

\* The clients have simulated every turn, so that a state of any of them can be taken.
WorldLongEnough == Up => Len(match) <= Len(world)

\* Whatever states are on disk are of turns in the journal.
StatesCovered == ~tailLost => PrefixOf(state, journal) /\ PrefixOf(meta, journal)

FilesInv ==
    /\ TypeOK
    /\ RecordsOfMatch
    /\ SyncedWhole
    /\ AppendsWhole
    /\ AllWritten
    /\ StoppedComplete
    /\ WorldLongEnough
    /\ WorldIsTheMatch
    /\ StatesCovered

\* The first n elements of a sequence.
LEMMA FirstOnes ==
    ASSUME NEW S, NEW s, NEW n \in Nat, \A i \in 1 .. n : s[i] \in S
    PROVE  /\ SubSeq(s, 1, n) \in Seq(S)
           /\ Len(SubSeq(s, 1, n)) = n
           /\ \A i \in 1 .. n : SubSeq(s, 1, n)[i] = s[i]
<1>1. /\ SubSeq(s, 1, n) \in Seq(S)
      /\ Len(SubSeq(s, 1, n)) = IF 1 <= n THEN n - 1 + 1 ELSE 0
      /\ \A i \in 1 .. n - 1 + 1 : SubSeq(s, 1, n)[i] = s[1 + i - 1]
  BY SubSeqProperties
<1>. QED  BY <1>1

\* With a record torn at the end at most, all the others are read.
LEMMA ReadableWhole ==
    ASSUME NEW r \in Seq(Run \cup {Torn}), TornLast(r)
    PROVE  /\ Readable(r) \in Seq(Run)
           /\ Len(Readable(r)) <= Len(r)
           /\ \A i \in 1 .. Len(Readable(r)) : Readable(r)[i] = r[i]
           /\ \A i \in 1 .. Len(r) : r[i] # Torn => i <= Len(Readable(r))
           /\ (\A i \in 1 .. Len(r) : r[i] # Torn) => Readable(r) = r
           /\ Readable(r) = r => \A i \in 1 .. Len(r) : r[i] # Torn
<1>. DEFINE torn == {i \in 1 .. Len(r) : r[i] = Torn}
<1>1. Len(r) \in Nat /\ \A i \in 1 .. Len(r) : r[i] \in Run \cup {Torn}
  BY LenProperties, ElementOfSeq
<1>2. CASE torn = {}
  <2>1. SelectInSeq(r, LAMBDA x : x = Torn) = 0
    BY <1>2 DEF SelectInSeq
  <2>2. Readable(r) = r
    BY <2>1 DEF Readable
  <2>3. \A i \in 1 .. Len(r) : r[i] \in Run
    BY <1>1, <1>2
  <2>4. r \in Seq(Run)
    BY <1>1, <2>3
  <2>. QED  BY <1>1, <1>2, <2>2, <2>4
<1>3. CASE torn # {}
  <2>1. torn = {Len(r)} /\ Len(r) \in Nat \ {0} /\ r[Len(r)] = Torn
    BY <1>1, <1>3 DEF TornLast
  <2>2. Min(torn) = Len(r)
    BY <1>1, <2>1 DEF Min
  <2>3. SelectInSeq(r, LAMBDA x : x = Torn) = Len(r)
    BY <1>3, <2>2 DEF SelectInSeq
  <2>4. Readable(r) = SubSeq(r, 1, Len(r) - 1)
    BY <2>1, <2>3 DEF Readable
  <2>5. \A i \in 1 .. Len(r) - 1 : r[i] \in Run
    BY <1>1, <2>1
  <2>6. /\ Readable(r) \in Seq(Run)
        /\ Len(Readable(r)) = Len(r) - 1
        /\ \A i \in 1 .. Len(r) - 1 : Readable(r)[i] = r[i]
    <3>. DEFINE n == Len(r) - 1
    <3>1. n \in Nat /\ \A i \in 1 .. n : r[i] \in Run
      BY <2>1, <2>5
    <3>. HIDE DEF n
    <3>2. /\ SubSeq(r, 1, n) \in Seq(Run)
          /\ Len(SubSeq(r, 1, n)) = n
          /\ \A i \in 1 .. n : SubSeq(r, 1, n)[i] = r[i]
      BY <3>1, FirstOnes
    <3>. QED  BY <2>4, <3>2 DEF n
  <2>. QED  BY <1>1, <2>1, <2>6
<1>. QED  BY <1>2, <1>3

\* The records up to a torn one are turns of the match, as many as were fsynced.
LEMMA ReadableOfMatch ==
    ASSUME FilesInv
    PROVE  /\ TornLast(journal)
           /\ Len(Readable(journal)) <= Len(match)
           /\ \A i \in 1 .. Len(Readable(journal)) : Readable(journal)[i] = match[i]
           /\ synced <= Len(Readable(journal))
<1>1. journal \in Seq(Run \cup {Torn}) /\ Len(journal) \in Nat /\ Len(match) \in Nat
  BY LenProperties DEF FilesInv, TypeOK
<1>2. TornLast(journal)
  <2>. SUFFICES ASSUME NEW i \in 1 .. Len(journal), journal[i] = Torn PROVE i = Len(journal)
    BY DEF TornLast
  <2>1. match \in Seq(Run)
    BY DEF FilesInv, TypeOK
  <2>2. i <= Len(match) => match[i] \in Run
    BY <1>1, <2>1, ElementOfSeq
  <2>. QED  BY <2>2 DEF FilesInv, RecordsOfMatch, Run, Torn
<1>3. /\ Readable(journal) \in Seq(Run)
      /\ Len(Readable(journal)) <= Len(journal)
      /\ \A i \in 1 .. Len(Readable(journal)) : Readable(journal)[i] = journal[i]
      /\ \A i \in 1 .. Len(journal) : journal[i] # Torn => i <= Len(Readable(journal))
  BY <1>1, <1>2, ReadableWhole
<1>4. Len(Readable(journal)) \in Nat
  BY <1>3, LenProperties
<1>5. \A i \in 1 .. Len(Readable(journal)) : i <= Len(match) /\ journal[i] = match[i]
  <2>. SUFFICES ASSUME NEW i \in 1 .. Len(Readable(journal))
                PROVE  i <= Len(match) /\ journal[i] = match[i]
    OBVIOUS
  <2>1. journal[i] \in Run
    BY <1>3, ElementOfSeq
  <2>. QED  BY <1>1, <1>3, <1>4, <2>1 DEF FilesInv, RecordsOfMatch, Run, Torn
<1>6. synced <= Len(Readable(journal))
  <2>1. synced \in Nat /\ synced <= Len(journal)
    BY <1>1 DEF FilesInv, TypeOK
  <2>2. CASE synced = 0
    BY <1>4, <2>2
  <2>3. CASE synced # 0
    BY <1>1, <1>3, <2>1, <2>3 DEF FilesInv, SyncedWhole
  <2>. QED  BY <2>2, <2>3
<1>7. Len(Readable(journal)) <= Len(match)
  BY <1>1, <1>4, <1>5
<1>. QED  BY <1>2, <1>3, <1>5, <1>6, <1>7

\* A match starts with nothing written.
LEMMA InitFilesInv == Init => FilesInv
<1>. SUFFICES ASSUME Init PROVE FilesInv
  OBVIOUS
<1>1. <<>> \in Seq(Run) /\ <<>> \in Seq(Run \cup {Torn}) /\ Len(<<>>) = 0
  OBVIOUS
<1>2. TypeOK
  <2>1. run \in Run
    BY BoundAssumption DEF Init, Run
  <2>2. manifest \in [status : Statuses, attempts : 0 .. MaxAttempts + 1]
    BY InitIInv DEF IInv, ManifestOK
  <2>3. synced \in 0 .. Len(journal)
    BY <1>1 DEF Init
  <2>. QED  BY <1>1, <2>1, <2>2, <2>3 DEF Init, TypeOK, Statuses
<1>3. /\ journal = <<>> /\ match = <<>> /\ state = <<>> /\ meta = <<>> /\ world = <<>>
      /\ synced = 0 /\ phase = "InGame" /\ writing = "idle"
  BY DEF Init
<1>4. PrefixOf(<<>>, <<>>)
  BY <1>1 DEF PrefixOf
<1>5. RecordsOfMatch /\ SyncedWhole /\ AppendsWhole
  BY <1>1, <1>3 DEF RecordsOfMatch, SyncedWhole, AppendsWhole
<1>6. AllWritten /\ StoppedComplete /\ WorldLongEnough /\ WorldIsTheMatch /\ StatesCovered
  BY <1>1, <1>3, <1>4
     DEF AllWritten, StoppedComplete, WorldLongEnough, WorldIsTheMatch, StatesCovered
<1>. QED  BY <1>2, <1>5, <1>6 DEF FilesInv

\* What the steps below need of the types.
LEMMA FileTypes ==
    ASSUME TypeOK
    PROVE  /\ match \in Seq(Run) /\ Len(match) \in Nat
           /\ world \in Seq(Run) /\ Len(world) \in Nat
           /\ state \in Seq(Run) /\ Len(state) \in Nat
           /\ meta \in Seq(Run) /\ Len(meta) \in Nat
           /\ journal \in Seq(Run \cup {Torn}) /\ Len(journal) \in Nat
           /\ synced \in Nat /\ synced <= Len(journal)
           /\ run \in Run /\ Torn \notin Run
<1>1. /\ match \in Seq(Run) /\ world \in Seq(Run) /\ state \in Seq(Run)
      /\ meta \in Seq(Run) /\ journal \in Seq(Run \cup {Torn})
      /\ synced \in 0 .. Len(journal) /\ run \in Run
  BY DEF TypeOK
<1>2. Torn \notin Run
  BY DEF Torn, Run
<1>3. /\ Len(match) \in Nat /\ Len(world) \in Nat /\ Len(state) \in Nat
      /\ Len(meta) \in Nat /\ Len(journal) \in Nat
  BY <1>1, LenProperties
<1>. QED  BY <1>1, <1>2, <1>3

\* A turn is appended to the match and to what the clients simulate alike.
LEMMA ReleaseKeepsFiles == ASSUME IInv, FilesInv, Release PROVE FilesInv'
<1>. USE DEF FilesInv
<1>1. /\ match' = Append(match, run) /\ world' = Append(world, run)
      /\ phase = "InGame"
      /\ UNCHANGED <<phase, run, final, writing, failed, journal, synced, state, meta,
                     manifest, tailLost>>
  BY DEF Release, disk
<1>2. /\ match' \in Seq(Run) /\ Len(match') = Len(match) + 1
      /\ \A i \in 1 .. Len(match) : match'[i] = match[i]
  BY <1>1, FileTypes, AppendProperties
<1>3. world' \in Seq(Run) /\ Len(world') = Len(world) + 1
  BY <1>1, FileTypes, AppendProperties
<1>4. TypeOK'
  BY <1>1, <1>2, <1>3 DEF TypeOK
<1>5. RecordsOfMatch'
  BY <1>1, <1>2, FileTypes DEF RecordsOfMatch
<1>6. SyncedWhole' /\ AppendsWhole' /\ StatesCovered'
  BY <1>1 DEF SyncedWhole, AppendsWhole, StatesCovered, Up
<1>7. AllWritten' /\ StoppedComplete'
  BY <1>1 DEF AllWritten, StoppedComplete
<1>8. WorldLongEnough' /\ WorldIsTheMatch'
  BY <1>1, <1>2, <1>3, FileTypes DEF WorldLongEnough, WorldIsTheMatch, Up
<1>. QED  BY <1>4, <1>5, <1>6, <1>7, <1>8

\* The next turn of the match is recorded, by a writer that has torn nothing.
LEMMA AppendKeepsFiles == ASSUME IInv, FilesInv, AppendTurn PROVE FilesInv'
<1>. USE DEF FilesInv
<1>. DEFINE turn == match[Len(journal) + 1]
<1>1. /\ journal' = Append(journal, turn)
      /\ Len(journal) < Len(match)
      /\ phase # "Down" /\ writing = "idle" /\ ~failed
      /\ UNCHANGED <<phase, run, match, world, final, writing, failed, synced, state,
                     meta, manifest, tailLost>>
  BY DEF AppendTurn, Ready, Up, game
<1>2. turn \in Run
  BY <1>1, FileTypes, ElementOfSeq
<1>3. /\ journal' \in Seq(Run \cup {Torn}) /\ Len(journal') = Len(journal) + 1
      /\ \A i \in 1 .. Len(journal) : journal'[i] = journal[i]
      /\ journal'[Len(journal) + 1] = turn
  BY <1>1, <1>2, FileTypes, AppendProperties
<1>4. TypeOK'
  BY <1>1, <1>3, FileTypes DEF TypeOK
<1>5. \A i \in 1 .. Len(journal) : journal[i] # Torn
  BY <1>1 DEF AppendsWhole, Up
<1>6. \A i \in 1 .. Len(journal') : journal'[i] # Torn
  <2>. SUFFICES ASSUME NEW i \in 1 .. Len(journal') PROVE journal'[i] # Torn
    OBVIOUS
  <2>1. CASE i = Len(journal) + 1
    BY <1>2, <1>3, <2>1, FileTypes
  <2>2. CASE i # Len(journal) + 1
    <3>1. i \in 1 .. Len(journal)
      BY <1>3, <2>2, FileTypes
    <3>. QED  BY <1>3, <1>5, <3>1
  <2>. QED  BY <2>1, <2>2
<1>7. RecordsOfMatch'
  BY <1>1, <1>3, <1>5, FileTypes DEF RecordsOfMatch
<1>8. SyncedWhole' /\ AppendsWhole'
  BY <1>1, <1>3, <1>6, FileTypes DEF SyncedWhole, AppendsWhole
<1>9. StatesCovered'
  BY <1>1, <1>3, FileTypes DEF StatesCovered, PrefixOf
<1>10. AllWritten' /\ StoppedComplete' /\ WorldLongEnough' /\ WorldIsTheMatch'
  BY <1>1 DEF AllWritten, StoppedComplete, WorldLongEnough, WorldIsTheMatch, Up
<1>. QED  BY <1>4, <1>7, <1>8, <1>9, <1>10

\* A state is of a turn that the writer has recorded before.
LEMMA WriteStateKeepsFiles == ASSUME IInv, FilesInv, WriteState PROVE FilesInv'
<1>. USE DEF FilesInv
<1>1. /\ phase # "Down" /\ ~failed /\ writing = "idle" /\ writing' = "meta"
      /\ UNCHANGED <<phase, run, match, world, final, failed, journal, synced, meta,
                     manifest, tailLost>>
  BY DEF WriteState, Ready, Up, game
<1>2. PICK turn \in 1 .. Len(journal) : state' = SubSeq(world, 1, turn)
  BY DEF WriteState
<1>3. turn \in Nat /\ turn <= Len(journal)
  BY <1>2, FileTypes
<1>4. \A i \in 1 .. Len(journal) :
         journal[i] # Torn /\ i <= Len(match) /\ journal[i] = match[i]
  BY <1>1 DEF AppendsWhole, RecordsOfMatch, Up
<1>5. Len(journal) <= Len(match) /\ Len(match) <= Len(world)
  BY <1>1, <1>4, FileTypes DEF WorldLongEnough, Up
<1>6. \A i \in 1 .. turn : world[i] \in Run
  BY <1>3, <1>5, FileTypes, ElementOfSeq
<1>7. /\ state' \in Seq(Run) /\ Len(state') = turn
      /\ \A i \in 1 .. turn : state'[i] = world[i]
  BY <1>2, <1>3, <1>6, FirstOnes
<1>8. TypeOK'
  BY <1>1, <1>7 DEF TypeOK
<1>9. StatesCovered'
  BY <1>1, <1>3, <1>4, <1>7, FileTypes DEF StatesCovered, PrefixOf, WorldIsTheMatch, Up
<1>10. RecordsOfMatch' /\ SyncedWhole' /\ AppendsWhole'
  BY <1>1 DEF RecordsOfMatch, SyncedWhole, AppendsWhole, Up
<1>11. AllWritten' /\ StoppedComplete' /\ WorldLongEnough' /\ WorldIsTheMatch'
  BY <1>1 DEF AllWritten, StoppedComplete, WorldLongEnough, WorldIsTheMatch, Up
<1>. QED  BY <1>8, <1>9, <1>10, <1>11

\* The final status waits for every turn, and a stop for the flush as well.
LEMMA SetStatusKeepsFiles == ASSUME IInv, FilesInv, SetStatus PROVE FilesInv'
<1>. USE DEF FilesInv
<1>1. /\ phase = "Closing" /\ ~failed /\ writing' = "status"
      /\ Len(match) <= Len(journal)
      /\ UNCHANGED <<phase, run, match, world, final, journal, state, meta, manifest,
                     tailLost>>
  BY FileTypes DEF SetStatus, Ready, game
<1>2. \/ synced' = Len(journal) /\ UNCHANGED failed
      \/ final = "Stopped" /\ failed' = TRUE /\ UNCHANGED synced
      \/ final # "Stopped" /\ UNCHANGED <<synced, failed>>
  BY DEF SetStatus, FlushedFirst
<1>3. TypeOK'
  <2>1. synced' \in 0 .. Len(journal)
    BY <1>2, FileTypes
  <2>2. failed' \in BOOLEAN
    BY <1>2 DEF TypeOK
  <2>. QED  BY <1>1, <2>1, <2>2 DEF TypeOK
<1>4. \A i \in 1 .. Len(journal) : journal[i] # Torn
  BY <1>1 DEF AppendsWhole, Up
<1>5. RecordsOfMatch' /\ SyncedWhole' /\ AppendsWhole'
  BY <1>1, <1>2, <1>4 DEF RecordsOfMatch, SyncedWhole, AppendsWhole
<1>6. AllWritten'
  BY <1>1, <1>2 DEF AllWritten
<1>7. StoppedComplete' /\ WorldLongEnough' /\ WorldIsTheMatch' /\ StatesCovered'
  BY <1>1 DEF StoppedComplete, WorldLongEnough, WorldIsTheMatch, StatesCovered, Up
<1>. QED  BY <1>3, <1>5, <1>6, <1>7

\* A crash or a failed write leaves the records there were, or the first of them,
\* and perhaps a torn one.
LEMMA RecordsCut ==
    ASSUME TypeOK, RecordsOfMatch, SyncedWhole,
           NEW kept \in synced .. Len(journal), \A i \in 1 .. kept : journal[i] # Torn,
           NEW r \in {SubSeq(journal, 1, kept), Append(SubSeq(journal, 1, kept), Torn)}
    PROVE  /\ r \in Seq(Run \cup {Torn}) /\ Len(r) \in Nat /\ kept <= Len(r)
           /\ \A i \in 1 .. kept : r[i] = journal[i]
           /\ \A i \in 1 .. Len(r) :
                 \/ r[i] = Torn /\ i = Len(r)
                 \/ i <= Len(match) /\ r[i] = match[i]
           /\ \A i \in 1 .. synced : r[i] # Torn
<1>. DEFINE whole == SubSeq(journal, 1, kept)
<1>1. kept \in Nat /\ kept <= Len(journal) /\ synced <= kept
  BY FileTypes
<1>2. \A i \in 1 .. kept : journal[i] \in Run \cup {Torn}
  BY <1>1, FileTypes, ElementOfSeq
<1>3. /\ whole \in Seq(Run \cup {Torn}) /\ Len(whole) = kept
      /\ \A i \in 1 .. kept : whole[i] = journal[i]
  BY <1>1, <1>2, FirstOnes
<1>4. \A i \in 1 .. kept : i <= Len(match) /\ journal[i] = match[i]
  <2>. SUFFICES ASSUME NEW i \in 1 .. kept PROVE i <= Len(match) /\ journal[i] = match[i]
    OBVIOUS
  <2>1. i \in 1 .. Len(journal) /\ journal[i] # Torn
    BY <1>1, FileTypes
  <2>. QED  BY <2>1 DEF RecordsOfMatch
<1>5. r = whole \/ r = Append(whole, Torn)
  OBVIOUS
<1>. HIDE DEF whole
<1>6. CASE r = whole
  <2>1. r \in Seq(Run \cup {Torn}) /\ Len(r) = kept /\ \A i \in 1 .. kept : r[i] = journal[i]
    BY <1>3, <1>6
  <2>2. ASSUME NEW i \in 1 .. synced PROVE r[i] # Torn
    <3>1. i \in 1 .. kept
      BY <1>1, FileTypes
    <3>. QED  BY <2>1, <3>1
  <2>. QED  BY <1>1, <1>4, <2>1, <2>2
<1>7. CASE r = Append(whole, Torn)
  <2>1. /\ r \in Seq(Run \cup {Torn}) /\ Len(r) = kept + 1
        /\ \A i \in 1 .. kept : r[i] = whole[i]
        /\ r[kept + 1] = Torn
    BY <1>3, <1>7, AppendProperties
  <2>2. \A i \in 1 .. kept : r[i] = journal[i]
    BY <1>3, <2>1
  <2>3. ASSUME NEW i \in 1 .. Len(r)
        PROVE  \/ r[i] = Torn /\ i = Len(r)
               \/ i <= Len(match) /\ r[i] = match[i]
    <3>1. i = kept + 1 \/ i \in 1 .. kept
      BY <1>1, <2>1
    <3>. QED  BY <1>4, <2>1, <2>2, <3>1
  <2>4. \A i \in 1 .. synced : r[i] # Torn
    BY <1>1, <2>2, FileTypes
  <2>. QED  BY <1>1, <2>1, <2>2, <2>3, <2>4
<1>. QED  BY <1>5, <1>6, <1>7

\* A failed append may leave part of its record, and is the last.
LEMMA WriteFailsKeepsFiles == ASSUME IInv, FilesInv, WriteFails PROVE FilesInv'
<1>. USE DEF FilesInv
<1>1. /\ phase # "Down" /\ ~failed /\ failed' = TRUE
      /\ UNCHANGED <<phase, run, match, world, final, synced, state, meta, manifest,
                     tailLost>>
  BY DEF WriteFails, Latched, Up, game
<1>2. /\ writing' \in {"done", "idle"}
      /\ writing' = "done" => writing \in {"status", "done"}
  BY DEF WriteFails
<1>3. SubSeq(journal, 1, Len(journal)) = journal
  BY FileTypes, SubSeqFull
<1>4. Len(journal) \in synced .. Len(journal)
  BY FileTypes
<1>5. journal' \in {SubSeq(journal, 1, Len(journal)),
                   Append(SubSeq(journal, 1, Len(journal)), Torn)}
  BY <1>3 DEF WriteFails
<1>6. \A i \in 1 .. Len(journal) : journal[i] # Torn
  BY <1>1 DEF AppendsWhole, Up
<1>7. /\ journal' \in Seq(Run \cup {Torn}) /\ Len(journal') \in Nat
      /\ Len(journal) <= Len(journal')
      /\ \A i \in 1 .. Len(journal) : journal'[i] = journal[i]
      /\ \A i \in 1 .. Len(journal') :
            \/ journal'[i] = Torn /\ i = Len(journal')
            \/ i <= Len(match) /\ journal'[i] = match[i]
      /\ \A i \in 1 .. synced : journal'[i] # Torn
  BY <1>4, <1>5, <1>6, RecordsCut
<1>8. TypeOK'
  <2>1. synced \in 0 .. Len(journal')
    BY <1>7, FileTypes
  <2>. QED  BY <1>1, <1>2, <1>7, <2>1 DEF TypeOK
<1>9. RecordsOfMatch' /\ SyncedWhole' /\ AppendsWhole'
  BY <1>1, <1>7 DEF RecordsOfMatch, SyncedWhole, AppendsWhole
<1>10. StatesCovered'
  <2>. SUFFICES ASSUME ~tailLost PROVE PrefixOf(state, journal') /\ PrefixOf(meta, journal')
    BY <1>1 DEF StatesCovered
  <2>1. PrefixOf(state, journal) /\ PrefixOf(meta, journal)
    BY DEF StatesCovered
  <2>2. ASSUME NEW s, Len(s) \in Nat, PrefixOf(s, journal) PROVE PrefixOf(s, journal')
    <3>1. Len(journal) \in Nat
      BY FileTypes
    <3>2. Len(s) <= Len(journal) /\ \A i \in 1 .. Len(s) : s[i] = journal[i]
      BY <2>2 DEF PrefixOf
    <3>3. Len(s) <= Len(journal')
      BY <1>7, <2>2, <3>1, <3>2
    <3>4. ASSUME NEW i \in 1 .. Len(s) PROVE s[i] = journal'[i]
      <4>1. i \in 1 .. Len(journal)
        BY <2>2, <3>1, <3>2
      <4>. QED  BY <1>7, <3>2, <4>1
    <3>. QED  BY <3>3, <3>4 DEF PrefixOf
  <2>3. Len(state) \in Nat /\ Len(meta) \in Nat
    BY FileTypes
  <2>. QED  BY <2>1, <2>2, <2>3
<1>11. AllWritten' /\ StoppedComplete' /\ WorldLongEnough' /\ WorldIsTheMatch'
  BY <1>1, <1>2 DEF AllWritten, StoppedComplete, WorldLongEnough, WorldIsTheMatch, Up
<1>. QED  BY <1>8, <1>9, <1>10, <1>11

\* A process crash may tear the record being appended.
LEMMA CrashKeepsFiles == ASSUME IInv, FilesInv, Crash PROVE FilesInv'
<1>. USE DEF FilesInv
<1>1. /\ phase # "Down" /\ phase' = "Down" /\ writing' = "idle" /\ final' = "Running"
      /\ UNCHANGED <<run, match, world, failed, synced, state, meta, manifest, tailLost>>
  BY DEF Crash, Up
<1>2. CASE journal' = journal
  <2>1. TypeOK'
    BY <1>1, <1>2 DEF TypeOK, Statuses
  <2>2. RecordsOfMatch' /\ SyncedWhole' /\ AppendsWhole' /\ StatesCovered'
    BY <1>1, <1>2 DEF RecordsOfMatch, SyncedWhole, AppendsWhole, StatesCovered, Up
  <2>. QED  BY <1>1, <2>1, <2>2
            DEF AllWritten, StoppedComplete, WorldLongEnough, WorldIsTheMatch, Up
<1>3. CASE journal' # journal
  <2>1. SubSeq(journal, 1, Len(journal)) = journal
    BY FileTypes, SubSeqFull
  <2>2. Len(journal) \in synced .. Len(journal)
    BY FileTypes
  <2>3. ~failed /\ journal' = Append(journal, Torn)
    BY <1>3 DEF Crash, Cut
  <2>4. journal' \in {SubSeq(journal, 1, Len(journal)),
                     Append(SubSeq(journal, 1, Len(journal)), Torn)}
    BY <2>1, <2>3
  <2>5. \A i \in 1 .. Len(journal) : journal[i] # Torn
    BY <1>1, <2>3 DEF AppendsWhole, Up
  <2>6. /\ journal' \in Seq(Run \cup {Torn}) /\ Len(journal') \in Nat
        /\ Len(journal) <= Len(journal')
        /\ \A i \in 1 .. Len(journal) : journal'[i] = journal[i]
        /\ \A i \in 1 .. Len(journal') :
              \/ journal'[i] = Torn /\ i = Len(journal')
              \/ i <= Len(match) /\ journal'[i] = match[i]
        /\ \A i \in 1 .. synced : journal'[i] # Torn
    BY <2>2, <2>4, <2>5, RecordsCut
  <2>7. TypeOK'
    <3>1. synced \in 0 .. Len(journal')
      BY <2>6, FileTypes
    <3>. QED  BY <1>1, <2>6, <3>1 DEF TypeOK, Statuses
  <2>8. RecordsOfMatch' /\ SyncedWhole' /\ AppendsWhole'
    BY <1>1, <2>6 DEF RecordsOfMatch, SyncedWhole, AppendsWhole, Up
  <2>9. StatesCovered'
    BY <1>1, <2>6, FileTypes DEF StatesCovered, PrefixOf
  <2>. QED  BY <1>1, <2>7, <2>8, <2>9
            DEF AllWritten, StoppedComplete, WorldLongEnough, WorldIsTheMatch, Up
<1>. QED  BY <1>2, <1>3

\* A machine crash loses records that were not fsynced; a match that was stopped has
\* none of those.
LEMMA MachineCrashKeepsFiles == ASSUME IInv, FilesInv, MachineCrash PROVE FilesInv'
<1>. USE DEF FilesInv
<1>1. /\ phase' = "Down" /\ writing' = "idle" /\ tailLost' = TRUE
      /\ final' = IF Up THEN "Running" ELSE final
      /\ UNCHANGED <<run, match, world, failed, synced, state, meta, manifest>>
  BY DEF MachineCrash
<1>2. PICK kept \in synced .. Len(journal) :
         /\ kept < Len(journal)
         /\ journal' \in {SubSeq(journal, 1, kept), Append(SubSeq(journal, 1, kept), Torn)}
  BY DEF MachineCrash
<1>3. ASSUME NEW i \in 1 .. kept PROVE journal[i] # Torn
  <2>1. i \in 1 .. Len(journal) /\ i # Len(journal)
    BY <1>2, FileTypes
  <2>. QED  BY <2>1, ReadableOfMatch DEF TornLast
<1>4. /\ journal' \in Seq(Run \cup {Torn}) /\ Len(journal') \in Nat /\ kept <= Len(journal')
      /\ \A i \in 1 .. Len(journal') :
            \/ journal'[i] = Torn /\ i = Len(journal')
            \/ i <= Len(match) /\ journal'[i] = match[i]
      /\ \A i \in 1 .. synced : journal'[i] # Torn
  BY <1>2, <1>3, RecordsCut
<1>5. TypeOK'
  <2>1. synced \in 0 .. Len(journal')
    BY <1>2, <1>4, FileTypes
  <2>2. final' \in Statuses
    BY <1>1 DEF TypeOK, Statuses
  <2>. QED  BY <1>1, <1>4, <2>1, <2>2 DEF TypeOK
<1>6. RecordsOfMatch' /\ SyncedWhole' /\ AppendsWhole' /\ StatesCovered'
  BY <1>1, <1>4 DEF RecordsOfMatch, SyncedWhole, AppendsWhole, StatesCovered, Up
<1>7. StoppedComplete'
  <2>1. ~(phase = "Down" /\ final = "Stopped" /\ ~failed)
    BY <1>2, FileTypes DEF StoppedComplete
  <2>. QED  BY <1>1, <2>1 DEF StoppedComplete, Up
<1>. QED  BY <1>1, <1>5, <1>6, <1>7 DEF AllWritten, WorldLongEnough, WorldIsTheMatch, Up

\* What a state is of, and the rest of the turns, have the length of all the turns, and
\* are the turns where the state is of the first ones.
LEMMA StateAndRest ==
    ASSUME NEW S, NEW h \in Seq(S), NEW t \in Seq(S), Len(h) <= Len(t)
    PROVE  LET all == h \o SubSeq(t, Len(h) + 1, Len(t))
           IN  /\ all \in Seq(S)
               /\ Len(all) = Len(t)
               /\ (\A i \in 1 .. Len(h) : h[i] = t[i]) => all = t
<1>. DEFINE m == Len(h)
            n == Len(t)
            rest == SubSeq(t, m + 1, n)
            all == h \o rest
<1>1. m \in Nat /\ n \in Nat /\ m <= n
  BY LenProperties
<1>2. ASSUME NEW i \in m + 1 .. n PROVE t[i] \in S
  <2>1. i \in 1 .. Len(t)
    BY <1>1
  <2>. QED  BY <2>1, ElementOfSeq
<1>. HIDE DEF m, n
<1>3. /\ rest \in Seq(S)
      /\ Len(rest) = IF m + 1 <= n THEN n - (m + 1) + 1 ELSE 0
      /\ \A i \in 1 .. n - (m + 1) + 1 : rest[i] = t[m + 1 + i - 1]
  BY <1>1, <1>2, SubSeqProperties
<1>. HIDE DEF rest
<1>4. Len(rest) = n - m
  BY <1>1, <1>3
<1>5. /\ all \in Seq(S)
      /\ Len(all) = Len(h) + Len(rest)
      /\ \A i \in 1 .. Len(h) + Len(rest) :
            all[i] = IF i <= Len(h) THEN h[i] ELSE rest[i - Len(h)]
  BY <1>3, ConcatProperties
<1>. HIDE DEF all
<1>6. Len(all) = n
  BY <1>1, <1>4, <1>5 DEF m
<1>7. ASSUME \A i \in 1 .. Len(h) : h[i] = t[i] PROVE all = t
  <2>1. ASSUME NEW i \in 1 .. n PROVE all[i] = t[i]
    <3>1. all[i] = IF i <= m THEN h[i] ELSE rest[i - m]
      BY <1>1, <1>4, <1>5 DEF m
    <3>2. CASE i <= m
      BY <1>1, <1>7, <3>1, <3>2 DEF m
    <3>3. CASE ~(i <= m)
      <4>. DEFINE k == i - m
      <4>1. k \in 1 .. n - (m + 1) + 1 /\ m + 1 + k - 1 = i
        BY <1>1, <3>3
      <4>. HIDE DEF k
      <4>2. rest[k] = t[m + 1 + k - 1]
        BY <1>3, <4>1
      <4>3. rest[k] = t[i]
        BY <4>1, <4>2
      <4>. QED  BY <3>1, <3>3, <4>3 DEF k
    <3>. QED  BY <3>2, <3>3
  <2>. QED  BY <1>5, <1>6, <2>1, SeqEqual DEF n
<1>. QED  BY <1>5, <1>6, <1>7 DEF all, rest, m, n

\* Where no machine crash took records, what the clients are rebuilt from is the
\* match: the saved state is of its first turns.
LEMMA RebuiltIsTheMatch ==
    ASSUME FilesInv, NEW sidecar \in BOOLEAN, NEW rebuilt,
           rebuilt = Rebuilt(SavedState(state, meta), Readable(journal), sidecar)
    PROVE  /\ rebuilt \in Seq(Run)
           /\ Len(Readable(journal)) <= Len(rebuilt)
           /\ ~tailLost => rebuilt = Readable(journal)
<1>. USE DEF FilesInv
<1>. DEFINE turns == Readable(journal)
            base == SavedState(state, meta)
            history == base.history
<1>1. /\ turns \in Seq(Run) /\ Len(turns) \in Nat
      /\ \A i \in 1 .. Len(turns) : turns[i] = journal[i]
      /\ \A i \in 1 .. Len(journal) : journal[i] # Torn => i <= Len(turns)
  BY ReadableOfMatch, ReadableWhole, FileTypes, LenProperties
<1>2. /\ history \in Seq(Run) /\ base.turn = Len(history)
      /\ history = state \/ history = <<>>
  BY FileTypes DEF SavedState, NoBase
<1>3. Len(history) \in Nat
  BY <1>2, LenProperties
<1>4. rebuilt = IF Len(history) <= Len(turns)
                THEN history \o SubSeq(turns, Len(history) + 1, Len(turns))
                ELSE IF sidecar THEN turns ELSE history
  BY <1>2 DEF Rebuilt
<1>. HIDE DEF turns, history
<1>5. ASSUME ~tailLost
      PROVE  Len(history) <= Len(turns) /\ \A i \in 1 .. Len(history) : history[i] = turns[i]
  <2>1. ASSUME NEW i \in 1 .. Len(history) PROVE i <= Len(turns) /\ history[i] = turns[i]
    <3>1. history = state
      BY <1>2, <1>3, <2>1
    <3>2. i \in 1 .. Len(journal) /\ history[i] = journal[i]
      BY <1>5, <2>1, <3>1, FileTypes DEF StatesCovered, PrefixOf
    <3>3. history[i] \in Run
      BY <1>2, <2>1, ElementOfSeq
    <3>4. journal[i] # Torn
      BY <3>2, <3>3, FileTypes
    <3>5. i <= Len(turns)
      BY <1>1, <3>2, <3>4
    <3>. QED  BY <1>1, <1>3, <2>1, <3>2, <3>5
  <2>. QED  BY <1>1, <1>3, <2>1
<1>6. CASE Len(history) <= Len(turns)
  <2>1. /\ rebuilt \in Seq(Run) /\ Len(rebuilt) = Len(turns)
        /\ (\A i \in 1 .. Len(history) : history[i] = turns[i]) => rebuilt = turns
    BY <1>1, <1>2, <1>4, <1>6, StateAndRest
  <2>. QED  BY <1>1, <1>5, <2>1 DEF turns
<1>7. CASE ~(Len(history) <= Len(turns))
  <2>1. rebuilt = turns \/ rebuilt = history
    BY <1>4, <1>7
  <2>. QED  BY <1>1, <1>2, <1>3, <1>5, <1>7, <2>1 DEF turns
<1>. QED  BY <1>6, <1>7

\* A start cuts the torn record off, and takes up the turns that are left.
LEMMA StartKeepsFiles ==
    ASSUME IInv, FilesInv, NEW sidecar \in BOOLEAN, Start(sidecar) PROVE FilesInv'
<1>. USE DEF FilesInv
<1>. DEFINE turns == Readable(journal)
            rebuilt == Rebuilt(SavedState(state, meta), turns, sidecar)
<1>1. /\ phase = "Down" /\ run < MaxRuns
      /\ journal' = turns
      /\ synced' = IF turns # journal THEN Len(turns) ELSE synced
      /\ UNCHANGED <<state, meta, tailLost>>
  BY DEF Start, TailCut
<1>2. ManifestOK'
  BY StartKeeps DEF IInv
<1>3. /\ turns \in Seq(Run) /\ Len(turns) \in Nat /\ Len(turns) <= Len(journal)
      /\ \A i \in 1 .. Len(turns) : turns[i] = journal[i] /\ turns[i] \in Run
      /\ \A i \in 1 .. Len(journal) : journal[i] # Torn => i <= Len(turns)
      /\ (\A i \in 1 .. Len(journal) : journal[i] # Torn) => turns = journal
  BY ReadableOfMatch, ReadableWhole, FileTypes, LenProperties, ElementOfSeq
<1>4. /\ Len(turns) <= Len(match) /\ synced <= Len(turns)
      /\ \A i \in 1 .. Len(turns) : turns[i] = match[i]
  BY ReadableOfMatch
<1>5. turns \in Seq(Run \cup {Torn})
  BY <1>3
<1>6. /\ rebuilt \in Seq(Run) /\ Len(turns) <= Len(rebuilt)
      /\ ~tailLost => rebuilt = turns
  BY RebuiltIsTheMatch
<1>7. ASSUME NEW s \in Seq(Run), PrefixOf(s, journal) PROVE PrefixOf(s, turns)
  <2>1. Len(s) \in Nat
    BY LenProperties
  <2>2. ASSUME NEW i \in 1 .. Len(s) PROVE i <= Len(turns) /\ s[i] = turns[i]
    <3>1. s[i] \in Run
      BY <2>2, ElementOfSeq
    <3>2. i \in 1 .. Len(journal) /\ s[i] = journal[i]
      BY <1>7, <2>1, <2>2, FileTypes DEF PrefixOf
    <3>3. i <= Len(turns)
      BY <1>3, <3>1, <3>2, FileTypes
    <3>. QED  BY <1>3, <2>1, <2>2, <3>2, <3>3
  <2>. QED  BY <1>3, <2>1, <2>2 DEF PrefixOf
<1>. HIDE DEF turns, rebuilt
<1>8. synced' \in 0 .. Len(turns)
  BY <1>1, <1>3, <1>4, FileTypes
<1>9. StatesCovered'
  BY <1>1, <1>7, FileTypes DEF StatesCovered
<1>10. SyncedWhole' /\ AppendsWhole'
  <2>1. ASSUME NEW i \in 1 .. Len(turns) PROVE turns[i] # Torn
    BY <1>3, <2>1, FileTypes
  <2>. QED  BY <1>1, <1>3, <1>8, <2>1 DEF SyncedWhole, AppendsWhole
<1>11. CASE Counted(manifest.attempts) > MaxAttempts
  <2>1. UNCHANGED <<phase, run, match, world, final, writing, failed>>
    BY <1>11 DEF Start, game
  <2>2. TypeOK'
    BY <1>1, <1>2, <1>5, <1>8, <2>1 DEF TypeOK, ManifestOK
  <2>3. RecordsOfMatch'
    BY <1>1, <1>3, <1>4, <2>1, FileTypes DEF RecordsOfMatch
  <2>4. AllWritten' /\ WorldLongEnough' /\ WorldIsTheMatch'
    BY <1>1, <2>1 DEF AllWritten, WorldLongEnough, WorldIsTheMatch, Up
  <2>5. StoppedComplete'
    <3>. SUFFICES ASSUME final = "Stopped", ~failed
                  PROVE  Len(match) <= Len(turns) /\ synced' = Len(turns)
      BY <1>1, <2>1 DEF StoppedComplete
    <3>1. Len(match) <= Len(journal) /\ synced = Len(journal)
      BY <1>1 DEF StoppedComplete
    <3>2. turns = journal
      BY <1>3, <3>1 DEF SyncedWhole
    <3>. QED  BY <1>1, <3>1, <3>2
  <2>. QED  BY <1>9, <1>10, <2>2, <2>3, <2>4, <2>5
<1>12. CASE ~(Counted(manifest.attempts) > MaxAttempts)
  <2>1. /\ phase' = "Resuming" /\ run' = run + 1 /\ match' = turns /\ world' = rebuilt
        /\ final' = "Running" /\ writing' = "reopen" /\ failed' = FALSE
    BY <1>12 DEF Start, turns, rebuilt
  <2>2. run' \in Run
    BY <1>1, <2>1, FileTypes, BoundAssumption DEF Run
  <2>3. TypeOK'
    BY <1>1, <1>2, <1>3, <1>5, <1>6, <1>8, <2>1, <2>2 DEF TypeOK, ManifestOK, Statuses
  <2>4. RecordsOfMatch'
    BY <1>1, <1>3, <2>1 DEF RecordsOfMatch
  <2>5. AllWritten' /\ StoppedComplete'
    BY <2>1 DEF AllWritten, StoppedComplete
  <2>6. WorldLongEnough' /\ WorldIsTheMatch'
    BY <1>1, <1>6, <2>1 DEF WorldLongEnough, WorldIsTheMatch
  <2>. QED  BY <1>9, <1>10, <2>3, <2>4, <2>5, <2>6
<1>. QED  BY <1>11, <1>12

\* The steps that leave the records and the match as they are.
LEMMA OthersKeepFiles ==
    ASSUME IInv, FilesInv,
           \/ Restarted \/ \E status \in Statuses : Ends(status)
           \/ Flush \/ WriteMeta \/ Reopen \/ WriteStatus \/ Finish
           \/ UNCHANGED vars
    PROVE  FilesInv'
<1>. USE DEF FilesInv
<1>1. UNCHANGED <<run, match, world, failed, journal, state, tailLost>>
  BY DEF Restarted, Ends, Flush, WriteMeta, Reopen, WriteStatus, Finish, vars, game, disk
<1>2. /\ phase' \in {"InGame", "Resuming", "Closing", "Down"}
      /\ phase = "Down" => phase' = "Down"
      /\ final' \in Statuses
      /\ writing' \in {"idle", "meta", "reopen", "status", "done"}
  BY DEF Restarted, Ends, Flush, WriteMeta, Reopen, WriteStatus, Finish, vars, game, disk,
         Ready, Up, TypeOK, Statuses
<1>3. ManifestOK'
  <2>1. [Next]_vars
    BY DEF Next, Orderly
  <2>. QED  BY <2>1, NextKeeps DEF IInv
<1>4. \/ UNCHANGED synced
      \/ synced' = Len(journal) /\ ~failed /\ phase # "Down"
  BY DEF Restarted, Ends, Flush, WriteMeta, Reopen, WriteStatus, Finish, vars, game, disk,
         Ready, Up
<1>5. meta' \in {meta, state}
  BY DEF Restarted, Ends, Flush, WriteMeta, Reopen, WriteStatus, Finish, vars, game, disk
<1>6. TypeOK'
  <2>1. synced' \in 0 .. Len(journal)
    BY <1>4, FileTypes
  <2>2. meta' \in Seq(Run)
    BY <1>5, FileTypes
  <2>. QED  BY <1>1, <1>2, <1>3, <2>1, <2>2 DEF TypeOK, ManifestOK
<1>7. RecordsOfMatch' /\ SyncedWhole' /\ AppendsWhole'
  BY <1>1, <1>2, <1>4 DEF RecordsOfMatch, SyncedWhole, AppendsWhole, Up
<1>8. StatesCovered'
  BY <1>1, <1>5 DEF StatesCovered
<1>9. WorldLongEnough' /\ WorldIsTheMatch'
  BY <1>1, <1>2 DEF WorldLongEnough, WorldIsTheMatch, Up
<1>10. AllWritten' /\ StoppedComplete'
  <2>1. CASE Restarted \/ \E status \in Statuses : Ends(status)
    BY <2>1 DEF Restarted, Ends, AllWritten, StoppedComplete, disk
  <2>2. CASE Flush
    BY <2>2 DEF Flush, Ready, Up, AllWritten, StoppedComplete, game
  <2>3. CASE WriteMeta \/ Reopen
    BY <2>3 DEF WriteMeta, Reopen, Up, AllWritten, StoppedComplete, game
  <2>4. CASE WriteStatus
    BY <2>4 DEF WriteStatus, Up, AllWritten, StoppedComplete, game
  <2>5. CASE Finish
    BY <2>5 DEF Finish, AllWritten, StoppedComplete
  <2>6. CASE UNCHANGED vars
    BY <2>6 DEF vars, game, disk, AllWritten, StoppedComplete
  <2>. QED  BY <2>1, <2>2, <2>3, <2>4, <2>5, <2>6
<1>. QED  BY <1>6, <1>7, <1>8, <1>9, <1>10

\* The files hold the match whatever is torn, lost or written late (Writer::append,
\* write_state, read_journal).
THEOREM FilesHold == Spec => []FilesInv
<1>1. ASSUME IInv, FilesInv, [Next]_vars PROVE FilesInv'
  BY <1>1, ReleaseKeepsFiles, AppendKeepsFiles, WriteStateKeepsFiles, SetStatusKeepsFiles,
     WriteFailsKeepsFiles, CrashKeepsFiles, MachineCrashKeepsFiles, StartKeepsFiles,
     OthersKeepFiles
     DEF Next, Orderly
<1>2. IInv /\ FilesInv /\ [Next]_vars => FilesInv'
  BY <1>1
<1>. QED  BY InitFilesInv, InvariantHolds, <1>2, PTL DEF Spec

-----------------------------------------------------------------------------
(* The properties.                                                         *)

\* Every variable keeps its type.
THEOREM TypeCorrect == Spec => []TypeOK
<1>1. FilesInv => TypeOK
  BY DEF FilesInv
<1>. QED  BY FilesHold, <1>1, PTL

\* After any number of crashes, failed writes and resumes from any saved state the
\* clients simulate the turns the server has, unless a machine crash took some
\* (write_state, read_state, start_restore).
THEOREM WorldStaysTheMatch == Spec => []WorldIsTheMatch
<1>1. FilesInv => WorldIsTheMatch
  BY DEF FilesInv
<1>. QED  BY FilesHold, <1>1, PTL

\* Once a match is marked stopped, every turn of it is on disk for good, unless
\* writing failed (set_status, Writer::finish).
THEOREM StopKeepsEverything == Spec => []StoppedKeepsEverything
<1>1. ASSUME FilesInv PROVE StoppedKeepsEverything
  <2>. SUFFICES ASSUME final = "Stopped", ~failed, writing = "done" \/ phase = "Down"
                PROVE  match = Readable(SubSeq(journal, 1, synced))
    BY DEF StoppedKeepsEverything
  <2>. USE DEF FilesInv
  <2>1. Len(match) <= Len(journal) /\ synced = Len(journal)
    BY <1>1 DEF AllWritten, StoppedComplete
  <2>2. SubSeq(journal, 1, synced) = journal
    BY <1>1, <2>1, FileTypes, SubSeqFull
  <2>3. \A i \in 1 .. Len(journal) : journal[i] # Torn
    BY <1>1, <2>1 DEF SyncedWhole
  <2>4. Readable(journal) = journal /\ journal \in Seq(Run)
    BY <1>1, <2>3, ReadableOfMatch, ReadableWhole, FileTypes
  <2>5. Len(journal) <= Len(match) /\ \A i \in 1 .. Len(journal) : journal[i] = match[i]
    BY <1>1, <2>4, ReadableOfMatch
  <2>6. Len(journal) = Len(match)
    BY <1>1, <2>1, <2>5, FileTypes
  <2>7. journal = match
    BY <1>1, <2>4, <2>5, <2>6, FileTypes, SeqEqual
  <2>. QED  BY <2>2, <2>4, <2>7
<1>. QED  BY FilesHold, <1>1, PTL

\* The turns played are the ones simulated, and the ones on disk once stopped.
THEOREM NothingLost == Spec => []NothingPlayedIsLost
<1>1. WorldIsTheMatch /\ StoppedKeepsEverything => NothingPlayedIsLost
  BY DEF NothingPlayedIsLost
<1>. QED  BY <1>1, WorldStaysTheMatch, StopKeepsEverything, PTL

\* A match is taken up again as it was played, and never from before a turn whose
\* record was fsynced (read_journal, Writer::append).
THEOREM ResumedAsPlayed == Spec => ResumesWhatWasPlayed
<1>1. ASSUME FilesInv, [Next]_vars, phase = "Down", phase' = "Resuming"
      PROVE  IsPrefix(match', match) /\ Len(match') >= synced
  <2>. DEFINE turns == Readable(journal)
  <2>1. match' = turns
    <3>1. PICK sidecar \in BOOLEAN : Start(sidecar)
      BY <1>1 DEF Next, Orderly, Release, Restarted, Ends, AppendTurn, Flush, WriteState,
                  WriteMeta, Reopen, SetStatus, WriteStatus, WriteFails, Finish, Crash,
                  MachineCrash, Up, Ready, game, vars
    <3>. QED  BY <1>1, <3>1 DEF Start, game
  <2>2. /\ Len(turns) <= Len(match) /\ synced <= Len(turns)
        /\ \A i \in 1 .. Len(turns) : turns[i] = match[i]
    BY <1>1, ReadableOfMatch
  <2>3. turns \in Seq(Run) /\ Len(turns) \in Nat
    BY <1>1, ReadableOfMatch, ReadableWhole, FileTypes, LenProperties DEF FilesInv
  <2>4. match \in Seq(Run) /\ Len(match) \in Nat /\ synced \in Nat
    BY <1>1, FileTypes DEF FilesInv
  <2>. HIDE DEF turns
  <2>5. \A i \in 1 .. Len(turns) : match[i] \in Run
    BY <2>2, <2>3, <2>4, ElementOfSeq
  <2>6. /\ SubSeq(match, 1, Len(turns)) \in Seq(Run)
        /\ Len(SubSeq(match, 1, Len(turns))) = Len(turns)
        /\ \A i \in 1 .. Len(turns) : SubSeq(match, 1, Len(turns))[i] = match[i]
    BY <2>3, <2>5, FirstOnes
  <2>7. turns = SubSeq(match, 1, Len(turns))
    BY <2>2, <2>3, <2>6, SeqEqual
  <2>. QED  BY <2>1, <2>2, <2>3, <2>4, <2>7 DEF IsPrefix
<1>2. FilesInv /\ [Next]_vars =>
        [ phase = "Down" /\ phase' = "Resuming" =>
            IsPrefix(match', match) /\ Len(match') >= synced ]_vars
  BY <1>1
<1>. QED  BY FilesHold, <1>2, PTL DEF Spec, ResumesWhatWasPlayed
=============================================================================
