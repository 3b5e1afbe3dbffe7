----------------------------- MODULE MatchStream -----------------------------
(***************************************************************************)
(* What each client is sent of a running match: commands and turn seals as *)
(* they happen to the clients in the game, the same a number of turns late *)
(* to the delayed observers (src/src/relay/observer_feed.rs), and the      *)
(* replay from the match log that takes a joiner from the state it loads   *)
(* to where its stream goes on (src/src/relay/server_fsm.rs).              *)
(*                                                                         *)
(* A client asserts that the seals it is sent are contiguous, and it can   *)
(* only execute a command it has before the seal of its turn; view.broken  *)
(* records that one could not.                                             *)
(*                                                                         *)
(* Abstracted: when a turn may be released (TurnRelease), how a snapshot   *)
(* is fetched (which state a joiner ends up with is a choice), turn        *)
(* lengths, flares, and the checks on a command other than its turn.  A    *)
(* command is a number, in the order the server records them.              *)
(***************************************************************************)
EXTENDS Integers, Sequences, SequencesExt, FiniteSets

CONSTANTS
    Peer,             \* peers that may be in the match
    Player,           \* those whose slot is a player's
    DelayedObserver,  \* those who watch on the delayed feed
    CommandDelay,     \* COMMAND_DELAY, 4 in the code
    DelayTurns,       \* ObserverFeed::delay, 300 in the code
    MaxTurn,          \* bound: no turn past this one is released or commanded
    MaxCommands       \* bound on the commands of a match

ASSUME PeerAssumption ==
    /\ Player \subseteq Peer /\ DelayedObserver \subseteq Peer
    /\ Player \cap DelayedObserver = {}
ASSUME DelayAssumption == CommandDelay \in Nat \ {0} /\ DelayTurns \in Nat \ {0}
ASSUME BoundAssumption == MaxTurn \in Nat /\ MaxTurn >= CommandDelay - 1 /\ MaxCommands \in Nat \ {0}

VARIABLES
    phase,      \* "InGame", or "Resuming" while a restarted match waits
    readyTurn,  \* the last turn released
    head,       \* ObserverFeed::head, the last turn sealed to delayed observers
    log,        \* MatchLog: turn -> its commands, in the order they came in
    mode,       \* where each peer is on its way into the match
    view,       \* what each peer has of the match
    bound       \* HeldJoin::bound of a held joiner, 0 of anyone else

vars == <<phase, readyTurn, head, log, mode, view, bound>>

InitialReadyTurn == CommandDelay - 1

Turn == 1 .. MaxTurn

\* syncing: no state yet.  held: its state is newer than the delayed feed.
\* granted: it was sent JOIN and loads its state.  live, delayed: in the game.
Modes == {"out", "syncing", "held", "granted", "live", "delayed"}

\* A state taken at a turn holds the commands of the turns up to it.
Upto(turn, commands) == [t \in Turn |-> IF t <= turn THEN commands[t] ELSE <<>>]

StateAt(turn, commands) == [sealed |-> turn, commands |-> Upto(turn, commands), broken |-> FALSE]

NoState == StateAt(0, [t \in Turn |-> <<>>])

Recorded == Cardinality(UNION {{t} \X DOMAIN log[t] : t \in Turn})

LastCommandTurn ==
    LET used == {t \in Turn : log[t] # <<>>}
    IN  IF used = {} THEN 0 ELSE CHOOSE t \in used : \A u \in used : u <= t

Larger(m, n) == IF m >= n THEN m ELSE n

-----------------------------------------------------------------------------
(* Sending.                                                                *)

\* A client is sent the log's commands for a range of turns.
SendCommands(v, from, to) ==
    [sealed |-> v.sealed,
     commands |-> [t \in Turn |-> IF t \in from .. to THEN v.commands[t] \o log[t]
                                  ELSE v.commands[t]],
     broken |-> v.broken \/ \E t \in from .. to : t <= v.sealed /\ log[t] # <<>>]

\* A live client is relayed a command.
SendCommand(v, turn, command) ==
    [sealed |-> v.sealed,
     commands |-> [v.commands EXCEPT ![turn] = Append(@, command)],
     broken |-> v.broken \/ turn <= v.sealed]

\* A client is sent the seals of a range of turns.
SendSeals(v, from, to) ==
    IF from > to THEN v
    ELSE [sealed |-> to, commands |-> v.commands,
          broken |-> v.broken \/ from # v.sealed + 1]

\* Mutant: only the seals go out.
SealsOnly(v, from, to) == SendSeals(v, from, to)

\* A turn's commands go out right before its seal.
SendTurns(v, from, to) == SendSeals(SendCommands(v, from, to), from, to)

\* Mutant: a player who is rejoining does not count.
PlayersConnected(md) == \E p \in Player : md[p] = "live"

\* players_remain: one who is still loading counts.
PlayersRemain(md) == \E p \in Player : md[p] # "out"

\* Mutant: the head follows the live turn back as well.
HeadNotKept(ready, draining) == IF draining THEN ready ELSE ready - DelayTurns

\* Mutant: the delay is off by one.
HeadTooClose(ready, draining) ==
    Larger(head, IF draining THEN ready ELSE ready - DelayTurns + 1)

\* ObserverFeed::advance.  The head never moves back.
NextHead(ready, draining) ==
    Larger(head, IF draining THEN ready ELSE ready - DelayTurns)

\* due_joins: the feed has reached whatever the state may show.
Due(p, md, bd, newHead) == md[p] = "held" /\ bd[p] <= newHead

\* advance_feed, over the peers a handler leaves behind: the turns that fell due go
\* to the delayed observers, the joins that fell due to their joiners.
AdvanceFeed(ready, md, vw, bd) ==
    LET newHead == NextHead(ready, ~PlayersRemain(md))
    IN  /\ head' = newHead
        /\ view' = [p \in Peer |-> IF md[p] = "delayed"
                                   THEN SendTurns(vw[p], head + 1, newHead) ELSE vw[p]]
        /\ mode' = [p \in Peer |-> IF Due(p, md, bd, newHead) THEN "granted" ELSE md[p]]
        /\ bound' = [p \in Peer |-> IF Due(p, md, bd, newHead) THEN 0 ELSE bd[p]]

\* Context::release_turns, releasing the turns up to a new ready turn.
ReleaseTo(turn, md, vw) ==
    /\ readyTurn' = turn
    /\ AdvanceFeed(turn, md,
                   [p \in Peer |-> IF md[p] = "live"
                                   THEN SendSeals(vw[p], readyTurn + 1, turn) ELSE vw[p]],
                   [p \in Peer |-> IF md[p] = "held" THEN bound[p] ELSE 0])

-----------------------------------------------------------------------------
(* The handlers.                                                           *)

InGameMode(p) == IF p \in DelayedObserver THEN "delayed" ELSE "live"

\* Commands of a restarted match are those of the turns it had released; tried here
\* is at most one.
SavedLogs ==
    {[t \in Turn |-> IF t = u THEN <<1>> ELSE <<>>] : u \in 0 .. readyTurn}

\* A fresh match, everyone loaded, or one rebuilt from its save with nobody there
\* and the feed a delay behind (Server::resume).
Init ==
    /\ \/ /\ phase = "InGame"
          /\ readyTurn = InitialReadyTurn
          /\ log = [t \in Turn |-> <<>>]
          /\ \E starting \in SUBSET Peer \ {{}} :
                /\ mode = [p \in Peer |-> IF p \in starting THEN InGameMode(p) ELSE "out"]
                /\ view = [p \in Peer |-> IF p \in starting THEN StateAt(readyTurn, log)
                                          ELSE NoState]
       \/ /\ phase = "Resuming"
          /\ readyTurn \in InitialReadyTurn .. MaxTurn
          /\ log \in SavedLogs
          /\ mode = [p \in Peer |-> "out"]
          /\ view = [p \in Peer |-> NoState]
    /\ head = Larger(InitialReadyTurn, readyTurn - DelayTurns)
    /\ bound = [p \in Peer |-> 0]

InTheGame(p) == mode[p] \in {"live", "delayed"}

OpenForCommands(turn) == turn > readyTurn /\ turn - readyTurn <= CommandDelay

\* on_player_command: relayed live, the sender included, and recorded.  A turn out
\* of range is dropped.
PlayerCommand(p, turn) ==
    /\ InTheGame(p)
    /\ OpenForCommands(turn)
    /\ Recorded < MaxCommands
    /\ LET command == Recorded + 1
       IN  /\ log' = [log EXCEPT ![turn] = Append(@, command)]
           /\ view' = [q \in Peer |->
                IF mode[q] = "live" THEN SendCommand(view[q], turn, command) ELSE view[q]]
    /\ UNCHANGED <<phase, readyTurn, head, mode, bound>>

\* A seal, or the clock, releases the next turns.
TurnsReleased ==
    /\ phase = "InGame"
    /\ \E p \in Peer : InTheGame(p)
    /\ \E turn \in readyTurn + 1 .. readyTurn + CommandDelay :
         /\ turn <= MaxTurn
         /\ ReleaseTo(turn, mode, view)
    /\ UNCHANGED <<phase, log>>

\* admit_session into a running match: the peer is to be found a state.
Admitted(p) ==
    /\ mode[p] = "out"
    /\ mode' = [mode EXCEPT ![p] = "syncing"]
    /\ UNCHANGED <<phase, readyTurn, head, log, view, bound>>

\* Mutant: the joiner is not looked at until the feed moves by itself.
HoldWithoutAdvance(p, state, limit) ==
    IF p \in DelayedObserver
    THEN /\ view' = [view EXCEPT ![p] = state]
         /\ mode' = [mode EXCEPT ![p] = "held"]
         /\ bound' = [bound EXCEPT ![p] = limit]
         /\ UNCHANGED head
    ELSE /\ view' = [view EXCEPT ![p] = state]
         /\ mode' = [mode EXCEPT ![p] = "granted"]
         /\ UNCHANGED <<head, bound>>

\* deliver_snapshot: a delayed joiner waits on the feed, unless its state is due.
Deliver(p, state, limit) ==
    IF p \in DelayedObserver
    THEN AdvanceFeed(readyTurn, [mode EXCEPT ![p] = "held"],
                     [view EXCEPT ![p] = state], [bound EXCEPT ![p] = limit])
    ELSE /\ view' = [view EXCEPT ![p] = state]
         /\ mode' = [mode EXCEPT ![p] = "granted"]
         /\ UNCHANGED <<head, bound>>

\* A state the server has or has rebuilt, of a turn it knows: a checkpoint, the
\* seed of a resumed match, or a dump.
ServedByServer(p, turn) ==
    /\ mode[p] = "syncing"
    /\ turn \in 1 .. readyTurn
    /\ Deliver(p, StateAt(turn, log), turn)
    /\ UNCHANGED <<phase, readyTurn, log>>

\* on_snapshot_chunk: a state another client has sent, of whatever turn it was at
\* while serializing; it can be no newer than what that client was sealed.
ServedByClient(p, source, turn) ==
    /\ mode[p] = "syncing"
    /\ InTheGame(source)
    /\ turn \in 1 .. view[source].sealed
    /\ Deliver(p, StateAt(turn, view[source].commands),
               IF mode[source] = "delayed" THEN head ELSE readyTurn)
    /\ UNCHANGED <<phase, readyTurn, log>>

\* The live replay reaches the last turn that has commands already.
ReplayEnd == Larger(readyTurn + 1, LastCommandTurn)

\* on_loaded_game: the replay goes on from the turn the joiner has loaded, to the
\* ready turn and the commands beyond it, or for a delayed observer
\* (resume_delayed) to the feed's head.
LoadedGame(p) ==
    /\ mode[p] = "granted"
    /\ LET v == view[p]
       IN  view' = [view EXCEPT ![p] =
                IF p \in DelayedObserver
                THEN SendTurns(v, v.sealed + 1, head)
                ELSE SendSeals(SendCommands(v, v.sealed + 1, ReplayEnd),
                               v.sealed + 1, readyTurn)]
    /\ mode' = [mode EXCEPT ![p] = InGameMode(p)]
    /\ UNCHANGED <<phase, readyTurn, head, log, bound>>

\* on_disconnected: in a running match the departure may release turns, and with
\* the last player gone the feed drains.
Disconnected(p) ==
    /\ mode[p] # "out"
    /\ LET md == [mode EXCEPT ![p] = "out"]
           vw == [view EXCEPT ![p] = NoState]
       IN  IF phase = "InGame"
           THEN \E turn \in readyTurn .. readyTurn + CommandDelay :
                  /\ turn <= Larger(MaxTurn, readyTurn)
                  /\ ReleaseTo(turn, md, vw)
           ELSE /\ mode' = md /\ view' = vw
                /\ bound' = [bound EXCEPT ![p] = 0]
                /\ UNCHANGED <<readyTurn, head>>
    /\ UNCHANGED <<phase, log>>

\* resume_match: the restarted match goes on, and what was sealed meanwhile counts.
ResumeMatch ==
    /\ phase = "Resuming"
    /\ \E p \in Peer : InTheGame(p)
    /\ phase' = "InGame"
    /\ \E turn \in readyTurn .. readyTurn + CommandDelay :
         /\ turn <= Larger(MaxTurn, readyTurn)
         /\ ReleaseTo(turn, mode, view)
    /\ UNCHANGED log

Next ==
    \/ TurnsReleased
    \/ ResumeMatch
    \/ \E p \in Peer, turn \in Turn : PlayerCommand(p, turn) \/ ServedByServer(p, turn)
    \/ \E p, source \in Peer, turn \in Turn : ServedByClient(p, source, turn)
    \/ \E p \in Peer : Admitted(p) \/ LoadedGame(p) \/ Disconnected(p)

Spec == Init /\ [][Next]_vars

-----------------------------------------------------------------------------
(* Properties.                                                             *)

\* Every variable keeps its type.
TypeOK ==
    /\ phase \in {"InGame", "Resuming"}
    /\ readyTurn \in Nat /\ head \in Nat
    /\ log \in [Turn -> Seq(Nat)]
    /\ mode \in [Peer -> Modes]
    /\ view \in [Peer -> [sealed : Nat, commands : [Turn -> Seq(Nat)], broken : BOOLEAN]]
    /\ bound \in [Peer -> Nat]

\* Nobody is sent a seal out of order, or a command for a turn it was sealed
\* already: a client that is has no way on (the contiguous seals of
\* on_loaded_game, the turn check of on_player_command).
StreamNeverBreaks == \A p \in Peer : ~view[p].broken

\* A live client has every turn released and every command recorded, also for the
\* turns to come, whichever state it joined from (the bounds of the join replay).
LiveHasEverything ==
    \A p \in Peer : mode[p] = "live" =>
        view[p].sealed = readyTurn /\ view[p].commands = log

\* A delayed observer has the match up to the feed's head, all of it and nothing
\* past it, and a joiner is not sent a state past the head either (hold_join).
DelayedSeeTheHead ==
    \A p \in DelayedObserver :
        /\ mode[p] = "granted" => view[p].sealed <= head
        /\ mode[p] = "delayed" => view[p].sealed = head /\ view[p].commands = Upto(head, log)

\* While a player is there, or on the way back in, the feed moves on only to a turn
\* a whole delay behind the players (advance, players_remain).
FeedKeepsItsDistance ==
    [][ head' > head =>
          \/ \A p \in Player : mode'[p] = "out"
          \/ head' <= readyTurn' - DelayTurns ]_vars

\* No joiner waits longer than it has to: a held join is of a turn the feed has not
\* reached, and with no player left in a running match the feed is at the live turn
\* and nobody waits (advance_feed after hold_join and after every departure).
HeldOnlyWhileDue ==
    /\ \A p \in Peer : mode[p] = "held" => bound[p] > head
    /\ phase = "InGame" /\ ~PlayersRemain(mode) =>
          head = readyTurn /\ \A p \in Peer : mode[p] # "held"

\* Whoever comes, goes and joins in whatever order, every client has been sent
\* exactly what it is due.
EveryoneServed ==
    StreamNeverBreaks /\ LiveHasEverything /\ DelayedSeeTheHead /\ HeldOnlyWhileDue

\* All clients share one log of turns, of which each has a prefix.
Copy(p) ==
    IF InTheGame(p) THEN SubSeq(view[p].commands, 1, view[p].sealed) ELSE <<>>

Shared == INSTANCE TurnLog
            WITH Client <- Peer, Command <- 1 .. MaxCommands,
                 log <- SubSeq(log, 1, readyTurn),
                 copy <- [p \in Peer |-> Copy(p)]

\* The relay keeps its promise (TurnLog): what was released is final, and nobody is
\* sent anything else.
SharesOneLog == Shared!Spec

\* "Observers watch the match this many turns behind the players" and a rebuilt
\* match's feed "was already this far" (observer_feed.rs): while a restarted match
\* waits for its players nothing is played, so the feed has nothing new to show.
StoppedFeedHolds ==
    [][ phase = "Resuming" /\ phase' = "Resuming" => head' = head ]_vars
=============================================================================
