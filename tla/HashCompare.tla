----------------------------- MODULE HashCompare -----------------------------
(***************************************************************************)
(* Out-of-sync detection: the half of the relay's TurnManager              *)
(* (src/src/relay/turn.rs) that compares the state hashes clients report.  *)
(*                                                                         *)
(* Every client hashes each turn it simulates and reports the turns in     *)
(* sequence.  Once every player there has reported a turn, their hashes    *)
(* are compared: the reference is kept, and whoever differs from it is     *)
(* latched out of sync, which suspends comparison until they have left.    *)
(* Observers are judged against the references only.  The hosted-AI        *)
(* client takes no part in the turns that need a full hash.                *)
(*                                                                         *)
(* Abstracted: the hash itself (a model value), the client ids (which of   *)
(* the reporting players has the lowest one is a choice), the mismatch     *)
(* notices, and what lets a turn be released (TurnRelease).  Pending       *)
(* hashes are sets of reports instead of maps of maps.                     *)
(***************************************************************************)
EXTENDS Integers

CONSTANTS
    Peer,              \* peers that may take part in the match
    AiHost,            \* the peer that is the hosted-AI sidecar, or no peer at all
    Hash,              \* the hashes a client may report
    FullHashEvery,     \* FULL_HASH_EVERY, 20 in the code
    InitialReadyTurn,  \* INITIAL_READY_TURN, 3 in the code
    MaxTurn            \* bound: no turn is released past this one

ASSUME FullHashAssumption == FullHashEvery \in Nat \ {0}
ASSUME TurnAssumption == InitialReadyTurn \in Nat /\ MaxTurn \in Nat

VARIABLES
    readyTurn,        \* the last turn released
    clients,          \* registered peer -> its last reported turn, and its kind
    pending,          \* players' reports not compared yet
    outOfSync,        \* players known to be out of sync: comparison is latched off
    lastCompared,     \* the newest turn compared
    references,       \* compared turn -> the hash the players agreed on
    observerPending,  \* observers' reports waiting for a reference
    observersOut,     \* observers known to be out of sync
    reported          \* history: every report of the players there now

turnManager == <<pending, outOfSync, lastCompared, references, observerPending, observersOut>>
vars == <<readyTurn, clients, turnManager, reported>>

Registered == DOMAIN clients

\* watcher: an observer, live or delayed; the AI host counts as a player.
ClientTurn == [simulated : Nat, watcher : BOOLEAN]

Report == [turn : Nat, peer : Peer, hash : Hash]

\* needs_full_hash.  The AI host's complete state is never that of a player.
FullHash(turn) == turn = 1 \/ turn % FullHashEvery = 0

\* The peer's hash of this turn is one that the players' comparison waits for.
Compared(p, turn) == ~(p = AiHost /\ FullHash(turn))

Players(cs) == {p \in DOMAIN cs : ~cs[p].watcher}

-----------------------------------------------------------------------------
(* The comparison.                                                         *)

\* Mutant: a turn is compared while a player has yet to report it.
CompleteForAny(turn, cs, reports) == \E r \in reports : r.turn = turn

\* Every player there that has to report the turn has done so.
Complete(turn, cs, reports) ==
    /\ \E r \in reports : r.turn = turn
    /\ \A p \in Players(cs) : Compared(p, turn) =>
          \E r \in reports : r.turn = turn /\ r.peer = p

\* What may be the reference: the hash of the player with the lowest client id,
\* the AI host coming last.
ReferenceChoices(turn, reports) ==
    LET of == {r \in reports : r.turn = turn}
    IN  {r.hash : r \in IF \A r \in of : r.peer = AiHost
                        THEN of
                        ELSE {r \in of : r.peer # AiHost}}

Dissent(turn, hash, reports) ==
    {r.peer : r \in {s \in reports : s.turn = turn /\ s.hash # hash}}

\* A compared turn retires every older one.
Retire(turns, reports) == {r \in reports : \A t \in turns : r.turn > t}

\* compare, run on the candidate turns in ascending order.  Nothing happens while
\* a desync is latched, and it stops short of a complete turn only at one it latches.
CompareAll(candidates, cs, reports, waiting, latched, watchersOut) ==
    IF latched # {}
    THEN /\ pending' = reports
         /\ outOfSync' = latched
         /\ observerPending' = waiting
         /\ observersOut' = watchersOut
         /\ UNCHANGED <<lastCompared, references>>
    ELSE LET complete == {t \in candidates : Complete(t, cs, reports)}
         IN  \E done \in SUBSET complete : \E agreed \in [complete -> Hash] :
               LET dissent(t) == Dissent(t, agreed[t], reports)
               IN  /\ \A t \in complete : agreed[t] \in ReferenceChoices(t, reports)
                   /\ \A t \in done, u \in complete :
                         u < t => u \in done /\ dissent(u) = {}
                   /\ done # complete => \E t \in done : dissent(t) # {}
                   /\ pending' = Retire(done, reports)
                   /\ outOfSync' = UNION {dissent(t) : t \in done}
                   /\ lastCompared' \in done \cup {lastCompared}
                   /\ \A t \in done \cup {lastCompared} : t <= lastCompared'
                   /\ references' = [t \in DOMAIN references \cup done |->
                                        IF t \in done THEN agreed[t] ELSE references[t]]
                   /\ observersOut' = watchersOut \cup
                         {r.peer : r \in {s \in waiting :
                                            s.turn \in done /\ s.hash # agreed[s.turn]}}
                   /\ observerPending' = Retire(done, waiting)

-----------------------------------------------------------------------------
(* The handlers.                                                           *)

\* A match starts with everyone registered and nothing simulated; one rebuilt from
\* its save (TurnManager::resumed) has nobody yet and the references of the turns
\* its players had agreed on.
Init ==
    /\ \/ /\ readyTurn = InitialReadyTurn
          /\ \E starting \in SUBSET Peer \ {{}}, watching \in SUBSET Peer :
                clients = [p \in starting |->
                    [simulated |-> 0, watcher |-> p \in watching \ {AiHost}]]
          /\ references = [t \in {} |-> 0]
          /\ lastCompared = 0
       \/ /\ readyTurn \in InitialReadyTurn .. MaxTurn
          /\ clients = [p \in {} |-> 0]
          /\ lastCompared \in 0 .. readyTurn
          /\ \E older \in SUBSET (1 .. lastCompared - 1) :
                references \in [older \cup ({lastCompared} \ {0}) -> Hash]
    /\ pending = {} /\ observerPending = {} /\ reported = {}
    /\ outOfSync = {} /\ observersOut = {}

\* The next turn is released.
TurnReleased ==
    /\ Registered # {}
    /\ readyTurn < MaxTurn
    /\ readyTurn' = readyTurn + 1
    /\ UNCHANGED <<clients, turnManager, reported>>

\* Mutant: an observer may be judged by the desynced players' next hashes.
AlwaysMayCome(turn, cs) == TRUE

\* Nothing is agreed while a desync is latched, and nothing for a retired turn or
\* without a player.
ReferenceMayCome(turn, cs) ==
    /\ outOfSync = {}
    /\ turn > lastCompared
    /\ Players(cs) # {}

\* An observer is judged at once if the turn has its reference, or waits for it; a
\* player's report may complete a comparison, and is dropped while a desync is
\* latched.  A hash for a turn not released yet, or out of sequence, is a fault.
StateHash(p, hash) ==
    /\ p \in Registered
    /\ clients[p].simulated < readyTurn
    /\ LET turn == clients[p].simulated + 1
           report == [turn |-> turn, peer |-> p, hash |-> hash]
           watcher == clients[p].watcher
           cs == [clients EXCEPT ![p].simulated = turn]
       IN  /\ clients' = cs
           /\ reported' = IF watcher THEN reported ELSE reported \cup {report}
           /\ IF watcher
              THEN /\ IF turn \in DOMAIN references
                      THEN /\ observersOut' = IF references[turn] = hash
                                              THEN observersOut
                                              ELSE observersOut \cup {p}
                           /\ UNCHANGED observerPending
                      ELSE /\ observerPending' =
                                IF p \notin observersOut /\ ReferenceMayCome(turn, cs)
                                THEN observerPending \cup {report}
                                ELSE observerPending
                           /\ UNCHANGED observersOut
                   /\ UNCHANGED <<pending, outOfSync, lastCompared, references>>
              ELSE IF Compared(p, turn) /\ outOfSync = {}
              THEN CompareAll({turn}, cs, pending \cup {report}, observerPending,
                              outOfSync, observersOut)
              ELSE UNCHANGED turnManager
    /\ UNCHANGED readyTurn

\* Mutant: the offset between the two counters is taken off the wrong one.
OffsetFromHash(replayed) == replayed - (InitialReadyTurn + 1)

\* The turn a joiner counts as having hashed last: its replay already covers it,
\* while the turns it seals start a command delay further on.
LastHashed(replayed) == replayed

\* on_loaded_game: a joiner hashes from the turn after the one its replay ends at,
\* the ready turn, or the head of the delayed feed for a delayed observer.
LoadedGame(p, watcher) ==
    /\ p \notin Registered
    /\ p = AiHost => ~watcher
    /\ \E replayed \in InitialReadyTurn .. readyTurn :
         /\ ~watcher => replayed = readyTurn
         /\ clients' = [q \in Registered \cup {p} |->
                          IF q = p THEN [simulated |-> LastHashed(replayed), watcher |-> watcher]
                          ELSE clients[q]]
    /\ UNCHANGED <<readyTurn, turnManager, reported>>

\* Mutant: a departed client stays latched out of sync.
NeverUnlatched(p, latched) == latched

Unlatched(p, latched) == latched \ {p}

ReportsWithout(p, reports) == {r \in reports : r.peer # p}

\* Mutant: a departure never completes a comparison.
NothingToRecheck(reports) == {}

\* recheck_pending goes over every turn anybody has reported.
ToRecheck(reports) == {r.turn : r \in reports}

\* on_disconnected: the client is forgotten, and since comparison no longer waits
\* for it everything pending is compared again.
Disconnected(p) ==
    /\ p \in Registered
    /\ LET cs == [q \in Registered \ {p} |-> clients[q]]
           reports == ReportsWithout(p, pending)
       IN  /\ clients' = cs
           /\ CompareAll(ToRecheck(reports), cs, reports,
                         ReportsWithout(p, observerPending),
                         Unlatched(p, outOfSync), observersOut \ {p})
    /\ reported' = ReportsWithout(p, reported)
    /\ UNCHANGED readyTurn

Next ==
    \/ TurnReleased
    \/ \E p \in Peer, hash \in Hash : StateHash(p, hash)
    \/ \E p \in Peer, watcher \in BOOLEAN : LoadedGame(p, watcher)
    \/ \E p \in Peer : Disconnected(p)

Spec == Init /\ [][Next]_vars

-----------------------------------------------------------------------------
(* Properties.                                                             *)

\* Every variable keeps its type.
TypeOK ==
    /\ readyTurn \in Nat
    /\ Registered \subseteq Peer
    /\ clients \in [Registered -> ClientTurn]
    /\ pending \subseteq Report /\ observerPending \subseteq Report
    /\ reported \subseteq Report
    /\ outOfSync \subseteq Peer /\ observersOut \subseteq Peer
    /\ lastCompared \in Nat
    /\ DOMAIN references \subseteq Nat
    /\ references \in [DOMAIN references -> Hash]

\* No desync goes unnoticed: a player there that is not latched out of sync has
\* reported the agreed hash for every compared turn it had to report, across
\* suspended comparisons, late joiners and departures (compare).
NoSilentDesync ==
    \A r \in reported :
        r.peer \notin outOfSync /\ r.turn \in DOMAIN references /\ Compared(r.peer, r.turn)
            => r.hash = references[r.turn]

\* Comparison is only ever suspended by a player that is still there and did differ
\* from the reference of a turn: a desynced client that leaves takes its latch
\* along (out_of_sync, forget).
DesyncJustified ==
    \A p \in outOfSync :
        /\ p \in Players(clients)
        /\ \E r \in reported : /\ r.peer = p
                               /\ r.turn \in DOMAIN references
                               /\ r.hash # references[r.turn]

\* The latch tells the truth: whoever differs is latched, and whoever is latched
\* did differ.
LatchIsRight == NoSilentDesync /\ DesyncJustified

\* No comparison is missed: with nobody latched, a turn every player has reported
\* has been compared, also when the player that was missing has just left
\* (recheck_pending).
NoComparisonMissed ==
    outOfSync = {} => \A r \in pending : ~Complete(r.turn, clients, pending)

\* A compared turn retires every older one: all that can still be pending for such
\* a turn is a hash of the AI host, which the players did not wait for, and no
\* observer waits for a turn at or before it (the bound on pending hashes).
RetiredStaysRetired ==
    /\ \A r \in pending : r.turn <= lastCompared => r.peer = AiHost
    /\ \A r \in observerPending : r.turn > lastCompared

\* Nothing is left waiting that could be compared or will never be.
PendingIsDue == NoComparisonMissed /\ RetiredStaysRetired

\* What the players agreed on for a turn is final: observers a whole delay behind,
\* the save and a resumed match all rely on it (references).
ReferencesStable ==
    [][ \A t \in DOMAIN references :
          t \in DOMAIN references' /\ references'[t] = references[t] ]_vars
=============================================================================
