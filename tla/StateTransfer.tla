---------------------------- MODULE StateTransfer ----------------------------
(***************************************************************************)
(* How a client joins a running match: the relay finds a state for it      *)
(* (a stored checkpoint, a one-shot sidecar run, the state a resumed match *)
(* was saved at, or another client's), receives that state if a client     *)
(* serves it (src/src/relay/gamestate_transfer.rs), holds it back from a   *)
(* delayed observer, lets the joiner download it, and takes it into the    *)
(* game once it has loaded (src/src/relay/server_fsm.rs).                  *)
(*                                                                         *)
(* The relay is one record, and a handler that serves several joiners maps *)
(* it to the SET of records it may leave behind, so that each call within  *)
(* a handler sees what the one before it did.                              *)
(*                                                                         *)
(* Abstracted: bytes (a state is its turn, a transfer a number of chunks), *)
(* the AI host, pauses, when a turn is released (TurnRelease), the turn a  *)
(* source has hashed (any it may have), round trip times and desyncs among *)
(* the sources (any of those on the preferred feed), and the seals and     *)
(* commands a loaded client is caught up with (MatchStream).               *)
(***************************************************************************)
EXTENDS Integers, FiniteSets, FiniteSetsExt

CONSTANTS
    Peer,      \* peer ids; an id is handed to a new client once it is free
    Watcher,   \* those whose users watch on the delayed feed; the others play
    Starters,  \* the sets of players a match may begin with
    Delay,     \* ObserverFeed::delay
    Window,    \* WINDOW, 32 in the code
    Chunks,    \* the chunks of every state
    None,      \* an absent value
    MaxTurn,   \* bound on the turns released
    MaxClients \* bound on the clients ever admitted, those of Init included

\* Stands for INITIAL_READY_TURN.
InitialTurn == 1

ASSUME TransferAssumption ==
    /\ IsFiniteSet(Peer) /\ Watcher \subseteq Peer
    /\ \A starters \in Starters :
         starters \subseteq Peer \ Watcher /\ Cardinality(starters) <= MaxClients
    /\ {Delay, Window, Chunks, MaxClients} \subseteq Nat \ {0}
    /\ MaxTurn \in Nat /\ MaxTurn > InitialTurn

VARIABLES
    relay,   \* the game's Context, with what others are doing at its request
    loading  \* the state each joiner has downloaded and is loading

vars == <<relay, loading>>

Turn == 0 .. MaxTurn

Client == 1 .. MaxClients

\* A state, and the client it was fetched for: 0 when it is anyone's.
Snapshot == [turn : Turn, for : {0} \cup Client]
Anyones(turn) == [turn |-> turn, for |-> 0]

\* The client behind a peer id, and the turns it may name once it has loaded its state.
Sessions ==
    [client : Client, role : {"Syncing", "InGame"}, leaving : BOOLEAN, tried : SUBSET Peer,
     turns : (Turn \X Turn) \cup {None}]

\* A state that waits for the delayed feed, and one on its way to a joiner.
Helds == [bound : Turn, state : Snapshot]
Downloads == [left : 0 .. Chunks, inFlight : 1 .. Window, state : Snapshot]

\* A sidecar run that is waited for.
Dumps == [id : Nat, turn : Turn, waiting : SUBSET Peer]

ASSUME NoneAssumption ==
    /\ None \notin Peer /\ None \notin Turn /\ None \notin Turn \X Turn /\ None \notin Snapshot
    /\ None \notin Sessions /\ None \notin Helds /\ None \notin Downloads /\ None \notin Dumps

Larger(m, n) == IF m >= n THEN m ELSE n
Smaller(m, n) == IF m <= n THEN m ELSE n

\* The relay in a match that has just begun, or that waits to be resumed.
Fresh(phase, sidecar, seed, ready, session, clients) ==
    [phase |-> phase,
     sidecar |-> sidecar,     \* Config::sidecar_dumps
     seed |-> seed,           \* Resuming::seed, without a sidecar
     ready |-> ready,         \* the last turn released
     head |-> Larger(ready - Delay, InitialTurn),
     session |-> session,
     clients |-> clients,     \* how many were admitted
     incoming |-> {},         \* Transfers::incoming
     nextId |-> 1,            \* Transfers::next_request_id
     dump |-> None,           \* Context::dump
     nextDump |-> 1,
     restoring |-> phase = "Resuming" /\ sidecar,   \* checkpoints.pending
     waiting |-> {},          \* checkpoints.waiting
     states |-> {},           \* the turns of checkpoints.states
     pulledAt |-> ready,      \* ClientPull::last
     held |-> [p \in Peer |-> None],
     granted |-> [p \in Peer |-> None],
     out |-> [p \in Peer |-> None],
     serving |-> {},          \* the requests clients are answering
     runs |-> {}]             \* sidecar runs that have not answered

-----------------------------------------------------------------------------
(* Reading the relay.                                                      *)

Admitted(r, p) == r.session[p] # None
IsSyncing(r, p) == Admitted(r, p) /\ r.session[p].role = "Syncing"
IsInGame(r, p) == Admitted(r, p) /\ r.session[p].role = "InGame"

NewSession(client, role) ==
    [client |-> client, role |-> role, leaving |-> FALSE, tried |-> {}, turns |-> None]

\* players_remain
PlayersRemain(r) == \E p \in Peer \ Watcher : Admitted(r, p)

\* The last turn a client in the game has been sealed.
SealedTo(r, p) == IF p \in Watcher THEN r.head ELSE r.ready

\* CheckpointChain::at_or_before, for the newest turn a joiner may be shown.
Usable(r, joiner) == {t \in r.states : joiner \in Watcher => t <= r.head}

\* Clients that may be asked for their state, less those tried in vain.
Candidates(r, joiner) ==
    {p \in Peer \ {joiner} : IsInGame(r, p) /\ p \notin r.session[joiner].tried}

\* Those on the joiner's own feed come first.
Preferred(r, joiner) ==
    LET same == {p \in Candidates(r, joiner) : (p \in Watcher) = (joiner \in Watcher)}
    IN  IF same # {} THEN same ELSE Candidates(r, joiner)

CanDump(r, turn) == r.sidecar /\ turn >= 1

-----------------------------------------------------------------------------
(* The calls a handler is made of.                                         *)

\* Context::disconnect: the session stays until the connection is gone.
Dismiss(r, p) == [r EXCEPT !.session[p].leaving = TRUE]

\* advance_feed: a held state goes out once the feed has reached its bound.
AdvanceFeed(r) ==
    LET due == IF PlayersRemain(r) THEN r.ready - Delay ELSE r.ready
        head == Larger(r.head, due)
        released == {p \in Peer : r.held[p] # None /\ r.held[p].bound <= head}
    IN  [r EXCEPT !.head = head,
                  !.held = [p \in Peer |-> IF p \in released THEN None ELSE r.held[p]],
                  !.granted = [p \in Peer |-> IF p \in released THEN r.held[p].state
                                              ELSE r.granted[p]]]

\* refuse_unservable_join
Refuse(r, joiner) == IF IsSyncing(r, joiner) THEN Dismiss(r, joiner) ELSE r

\* deliver_snapshot
Deliver(r, joiner, state, turns, fits) ==
    LET expecting == [r EXCEPT !.session[joiner].turns = turns]
    IN  IF ~fits THEN Refuse(r, joiner)
        ELSE IF ~IsSyncing(r, joiner) THEN r
        ELSE IF joiner \in Watcher
        THEN AdvanceFeed([expecting EXCEPT
                 !.held[joiner] = [bound |-> turns[2], state |-> state]])
        ELSE [expecting EXCEPT !.granted[joiner] = state]

\* A state at hand, of exactly that turn; it may have outgrown what a client accepts.
DeliverStored(r, joiner, turn) ==
    {Deliver(r, joiner, Anyones(turn), <<turn, turn>>, fits) : fits \in BOOLEAN}

\* Mutant: a joiner behind a run that is under way is forgotten.
NotAttached(r, joiner, turn) ==
    IF r.dump # None THEN r
    ELSE [r EXCEPT !.dump = [id |-> r.nextDump, turn |-> turn, waiting |-> {joiner}],
                   !.nextDump = @ + 1,
                   !.runs = @ \cup {[id |-> r.nextDump, turn |-> turn]}]

\* request_state_dump: one run at a time, whatever turn a later joiner asks for.
RequestDump(r, joiner, turn) ==
    IF r.dump # None THEN [r EXCEPT !.dump.waiting = @ \cup {joiner}]
    ELSE [r EXCEPT !.dump = [id |-> r.nextDump, turn |-> turn, waiting |-> {joiner}],
                   !.nextDump = @ + 1,
                   !.runs = @ \cup {[id |-> r.nextDump, turn |-> turn]}]

\* Mutant: every request has the same id.
SameId(r) == 1

\* Transfers::allocate
RequestId(r) == r.nextId

\* expect, and the GAMESTATE_REQUEST.  floor is what the source has simulated.
AskSource(r, source, joiner, client) ==
    {[r EXCEPT
        !.nextId = @ + 1,
        !.incoming = @ \cup {[source |-> source, id |-> RequestId(r), joiner |-> joiner,
                              floor |-> floor, declared |-> 0, got |-> 0, clock |-> FALSE]},
        !.serving = @ \cup {[source |-> source, id |-> RequestId(r), for |-> client]}]
     : floor \in InitialTurn .. SealedTo(r, source)}

\* Where a joiner's state comes from, in the order start_snapshot_fetch tries.
Supply(r, joiner, allowDump) ==
    LET delayed == joiner \in Watcher
    IN  IF r.phase = "Resuming" /\ ~delayed /\ r.restoring THEN "restore"
        ELSE IF r.phase = "Resuming" /\ r.seed # None THEN "seed"
        ELSE IF Usable(r, joiner) # {} THEN "stored"
        ELSE IF allowDump /\ delayed /\ CanDump(r, r.head) THEN "feed dump"
        ELSE IF Candidates(r, joiner) # {} THEN "client"
        ELSE IF allowDump /\ CanDump(r, r.ready) THEN "live dump"
        ELSE "nobody"

\* start_snapshot_fetch
StartFetch(r, joiner, allowDump) ==
    LET supply == Supply(r, joiner, allowDump)
    IN  CASE supply = "restore" -> {[r EXCEPT !.waiting = @ \cup {joiner}]}
          [] supply = "seed" -> DeliverStored(r, joiner, r.seed)
          [] supply = "stored" -> DeliverStored(r, joiner, Max(Usable(r, joiner)))
          [] supply = "feed dump" -> {RequestDump(r, joiner, r.head)}
          [] supply = "client" ->
               UNION {AskSource(r, p, joiner, r.session[joiner].client) :
                      p \in Preferred(r, joiner)}
          [] supply = "live dump" -> {RequestDump(r, joiner, r.ready)}
          [] supply = "nobody" -> {Dismiss(r, joiner)}

\* retry_join
RetryJoin(r, joiner, failed) ==
    IF IsSyncing(r, joiner)
    THEN StartFetch([r EXCEPT !.session[joiner].tried = @ \cup {failed}], joiner, TRUE)
    ELSE {r}

\* CheckpointChain::store: none older than the newest, and of those the delayed feed
\* has passed only the last.
Store(r, turn) ==
    LET kept == r.states \cup {turn}
        passed == {t \in kept : t <= r.head}
    IN  IF \E t \in r.states : t >= turn THEN r
        ELSE [r EXCEPT !.states = {t \in kept : \A u \in passed : u <= t}]

\* A run that failed: a delayed observer tries a client, anyone else is turned away.
AfterFailedDump(r, joiner) ==
    IF ~IsSyncing(r, joiner) THEN {r}
    ELSE IF joiner \in Watcher THEN StartFetch(r, joiner, FALSE) ELSE {Dismiss(r, joiner)}

-----------------------------------------------------------------------------
(* Serving several joiners in one handler.                                 *)

\* A joiner whose source came to nothing, and one that waited and is handed what a run gave
\* for the state of a turn: how is "fits" or "too long" when there is one, else "failed".
Lost(joiner, source) == [joiner |-> joiner, how |-> "lost", source |-> source]
Answered(joiner, how, given, turn) ==
    [joiner |-> joiner, how |-> how, given |-> given, turn |-> turn]

Serve(r, c) ==
    CASE c.how = "lost" -> RetryJoin(r, c.joiner, c.source)
      [] c.how = "failed" -> AfterFailedDump(r, c.joiner)
      [] c.how \in {"fits", "too long"} ->
           {Deliver(r, c.joiner, Anyones(c.given), <<c.turn, c.turn>>, c.how = "fits")}

\* One call after the other in any order, each on what the calls before it left behind.
ServeAll(r, calls) ==
    LET after[done \in SUBSET calls] ==
            IF done = {} THEN {r}
            ELSE UNION {UNION {Serve(q, c) : q \in after[done \ {c}]} : c \in done}
    IN  after[calls]

-----------------------------------------------------------------------------
(* A transfer from a client to the relay.                                  *)

\* What the relay still expects of a request that a client is answering.
Expected(r, s) == {rx \in r.incoming : rx.source = s.source /\ rx.id = s.id}

Drop(r, rx) == [r EXCEPT !.incoming = @ \ {rx}]
Update(r, rx, new) == [r EXCEPT !.incoming = (@ \ {rx}) \cup {new}]

\* on_gamestate_response
OnResponse(r, rx, length) ==
    CASE length = "fits" -> Update(r, rx, [rx EXCEPT !.declared = Chunks, !.got = 0,
                                                     !.clock = FALSE])
      [] length = "too long" -> IF rx.joiner = None THEN Drop(r, rx)
                                ELSE Refuse(Drop(r, rx), rx.joiner)
      [] length = "empty" -> IF rx.joiner = None THEN Drop(r, rx) ELSE r

\* on_snapshot_chunk, once the last byte is in.  The source was no further than it was
\* sealed, and had simulated the floor.
OnState(r, rx, s) ==
    LET last == SealedTo(r, rx.source)
    IN  IF rx.joiner = None
        THEN {IF t \in rx.floor .. r.ready THEN Store(r, t) ELSE r : t \in Turn}
        ELSE {Deliver(r, rx.joiner, [turn |-> t, for |-> s.for], <<rx.floor, last>>, TRUE) :
              t \in rx.floor .. last}

\* Whoever waits for a transfer that came to nothing is served otherwise.
Fails(r, rx) ==
    IF rx.joiner = None THEN {Drop(r, rx)} ELSE RetryJoin(Drop(r, rx), rx.joiner, rx.source)

\* on_gamestate_chunk
OnChunk(r, rx, s, size) ==
    CASE rx.got + size > rx.declared -> Fails(r, rx)
      [] rx.got + size = rx.declared ->
           OnState(Drop(r, rx), rx, s)
      [] rx.got + size < rx.declared ->
           {Update(r, rx, [rx EXCEPT !.got = @ + size, !.clock = FALSE])}

\* A client announces the state it has serialized, once.
Responds(s, length) ==
    /\ \E rx \in Expected(relay, s) :
         rx.declared = 0 /\ relay' = OnResponse(relay, rx, length)
    /\ UNCHANGED loading

\* A client sends a chunk, a broken one more than it declared or before it declared any.
\* What it sends for a request the relay has given up meanwhile is ignored.
Sends(s, size) ==
    /\ \E rx \in Expected(relay, s) : relay' \in OnChunk(relay, rx, s, size)
    /\ UNCHANGED loading

\* on_tick and Transfers::stalled: a tick starts the clock of a transfer that has made
\* progress since the last, and drops those whose clock ran out.
Tick(expired) ==
    /\ relay.incoming # {}
    /\ expired \subseteq {rx \in relay.incoming : rx.clock}
    /\ LET r == [relay EXCEPT !.incoming = {[rx EXCEPT !.clock = TRUE] : rx \in @ \ expired}]
       IN  relay' \in ServeAll(r, {Lost(rx.joiner, rx.source) :
                                   rx \in {x \in expired : x.joiner # None}})
    /\ UNCHANGED loading

\* maybe_pull_client_state
PullsState ==
    /\ relay.phase = "InGame" /\ ~relay.sidecar
    /\ relay.incoming = {} /\ relay.ready > relay.pulledAt
    /\ LET r == [relay EXCEPT !.pulledAt = relay.ready]
           sources == {p \in Peer \ Watcher : IsInGame(r, p)}
       IN  IF sources = {} THEN relay' = r
           ELSE \E p \in sources : relay' \in AskSource(r, p, None, 0)
    /\ UNCHANGED loading

-----------------------------------------------------------------------------
(* Sidecar runs.                                                           *)

\* A state, one larger than a client accepts, or none.
Answers == {"fits", "too long", "failed"}

\* Mutant: any answer is taken for that of the run that is waited for.
WaitedFor(r, id) == r.dump # None

\* on_state_dumped: the answer of a run that was cancelled is dropped.
IsWaitedFor(r, id) == r.dump # None /\ r.dump.id = id

\* on_state_dumped
DumpAnswered(run, answer) ==
    /\ LET r == [relay EXCEPT !.runs = @ \ {run}]
       IN  IF ~IsWaitedFor(r, run.id) THEN relay' = r
           ELSE relay' \in ServeAll([r EXCEPT !.dump = None],
                    {Answered(p, answer, run.turn, r.dump.turn) : p \in r.dump.waiting})
    /\ UNCHANGED loading

\* on_checkpointed, with the state of a turn released since the newest one stored.
Checkpointed ==
    /\ relay.sidecar /\ relay.phase = "InGame"
    /\ \E t \in InitialTurn .. relay.ready : relay' = Store(relay, t)
    /\ UNCHANGED loading

\* Mutant: those waiting for a run that failed are left waiting.
RestoreFailedQuietly(r) == [r EXCEPT !.restoring = FALSE]

\* on_restored without a state: the match is given up, which ends the game.
RestoreFailed(r) ==
    [r EXCEPT !.restoring = FALSE, !.waiting = {}, !.phase = "Over",
              !.session = [p \in Peer |-> IF p \in r.waiting
                                          THEN [r.session[p] EXCEPT !.leaving = TRUE]
                                          ELSE r.session[p]]]

\* on_restored
Restored(answer) ==
    /\ relay.phase = "Resuming" /\ relay.restoring
    /\ LET r == [relay EXCEPT !.restoring = FALSE, !.waiting = {},
                              !.states = @ \cup {relay.ready}]
       IN  IF answer = "failed" THEN relay' = RestoreFailed(relay)
           ELSE relay' \in ServeAll(r,
                    {Answered(p, answer, r.ready, r.ready) : p \in relay.waiting})
    /\ UNCHANGED loading

-----------------------------------------------------------------------------
(* Clients and turns.                                                      *)

\* admit_session for a joiner.
Admits(p) ==
    /\ ~Admitted(relay, p) /\ relay.clients < MaxClients
    /\ LET client == relay.clients + 1
           r == [relay EXCEPT !.clients = client, !.session[p] = NewSession(client, "Syncing")]
       IN  relay' \in StartFetch(r, p, TRUE)
    /\ UNCHANGED loading

\* Transfers::forget: neither what the peer was sending nor what was fetched for it.
StillComing(r, p) == {rx \in r.incoming : rx.source # p /\ rx.joiner # p}

\* Joiners whose state the peer was sending.
Orphans(r, p) == {rx.joiner : rx \in {x \in r.incoming : x.source = p}} \ {p, None}

\* The peer's row in every table of the game.
Forgotten(r, p) ==
    [r EXCEPT !.session[p] = None, !.incoming = StillComing(r, p), !.granted[p] = None,
              !.out[p] = None, !.held[p] = None, !.waiting = @ \ {p},
              !.serving = {s \in r.serving : s.source # p}]

\* on_disconnected: a run nobody waits for is cancelled, though it may still answer.
WithoutWaiter(r, p) ==
    IF r.dump = None THEN r
    ELSE IF r.dump.waiting \subseteq {p} THEN [r EXCEPT !.dump = None]
    ELSE [r EXCEPT !.dump.waiting = @ \ {p}]

\* on_disconnected, at any time.  A held match releases nothing.
Disconnected(p) ==
    /\ Admitted(relay, p)
    /\ \E r \in ServeAll(Forgotten(relay, p), {Lost(q, p) : q \in Orphans(relay, p)}) :
         LET left == WithoutWaiter(r, p)
         IN  relay' = IF left.phase = "InGame" THEN AdvanceFeed(left) ELSE left
    /\ loading' = [loading EXCEPT ![p] = None]

\* release_turns, for one turn; TurnRelease says when.
Releases ==
    /\ relay.phase = "InGame" /\ relay.ready < MaxTurn
    /\ \E p \in Peer \ Watcher : IsInGame(relay, p)
    /\ relay' = AdvanceFeed([relay EXCEPT !.ready = @ + 1])
    /\ UNCHANGED loading

\* on_resume_command, by a player who is back, and resume_match.
Resumes ==
    /\ relay.phase = "Resuming" /\ ~relay.restoring
    /\ \E p \in Peer \ Watcher : IsInGame(relay, p)
    /\ relay' = AdvanceFeed([relay EXCEPT !.phase = "InGame"])
    /\ UNCHANGED loading

-----------------------------------------------------------------------------
(* A joiner downloads its state and loads it.                              *)

\* Mutant: the window is left out of account.
PumpAll(tx) == [tx EXCEPT !.left = 0, !.inFlight = @ + tx.left]

\* Transfers::pump
Pump(tx) ==
    LET n == Smaller(Window - tx.inFlight, tx.left)
    IN  [tx EXCEPT !.left = @ - n, !.inFlight = @ + n]

\* on_gamestate_request: what was granted, and that once.
Requests(p) ==
    /\ IsSyncing(relay, p) /\ relay.granted[p] # None
    /\ relay' = [relay EXCEPT
         !.granted[p] = None,
         !.out[p] = Pump([left |-> Chunks, inFlight |-> 0, state |-> relay.granted[p]])]
    /\ UNCHANGED loading

\* on_ack: none is an error, as are more than are in flight.
AckCounts(tx, n) == n \in 1 .. tx.inFlight

\* on_ack.  With the last one the joiner has all of it.
Acks(p, n) ==
    /\ relay.out[p] # None /\ AckCounts(relay.out[p], n)
    /\ LET tx == [relay.out[p] EXCEPT !.inFlight = @ - n]
       IN  IF tx.left = 0 /\ tx.inFlight = 0
           THEN /\ relay' = [relay EXCEPT !.out[p] = None]
                /\ loading' = [loading EXCEPT ![p] = tx.state]
           ELSE relay' = [relay EXCEPT !.out[p] = Pump(tx)] /\ UNCHANGED loading

\* on_loaded_game, which a client sends with the turn of the state it has loaded.  The
\* sources it had tried are of no use any more.
Loads(p) ==
    /\ loading[p] # None /\ IsSyncing(relay, p) /\ relay.session[p].turns # None
    /\ LET turns == relay.session[p].turns
           r == [relay EXCEPT !.session[p].turns = None]
       IN  relay' = IF loading[p].turn \in turns[1] .. turns[2]
                    THEN [r EXCEPT !.session[p] = NewSession(@.client, "InGame"),
                                   !.held[p] = None]
                    ELSE Dismiss(r, p)
    /\ loading' = [loading EXCEPT ![p] = None]

-----------------------------------------------------------------------------

\* A match that has begun.
InGameAtFirst(starters, sidecar) ==
    LET Number == CHOOSE f \in [starters -> 1 .. Cardinality(starters)] :
                    \A p, q \in starters : f[p] = f[q] => p = q
    IN  Fresh("InGame", sidecar, None, InitialTurn,
              [p \in Peer |-> IF p \in starters THEN NewSession(Number[p], "InGame") ELSE None],
              Cardinality(starters))

\* resume: the saved state is of the turn the match stopped at, or of an earlier one that
\* a sidecar rebuilds it from, and without a sidecar the replay goes on from.  One client
\* was admitted before.
ResumedAt(ready, sidecar, base) ==
    LET r == Fresh("Resuming", sidecar, IF sidecar THEN None ELSE base, ready,
                   [p \in Peer |-> None], 1)
    IN  [r EXCEPT !.restoring = sidecar /\ base # ready,
                  !.states = IF base = ready THEN {ready} ELSE {}]

Init ==
    /\ relay \in {InGameAtFirst(starters, sidecar) : starters \in Starters, sidecar \in BOOLEAN}
              \cup {ResumedAt(InitialTurn + 1, sidecar, base) :
                    sidecar \in BOOLEAN, base \in {InitialTurn, InitialTurn + 1}}
    /\ loading = [p \in Peer |-> None]

Next ==
    /\ relay.phase # "Over"
    /\ \/ \E p \in Peer : Admits(p) \/ Disconnected(p) \/ Requests(p) \/ Loads(p)
       \/ \E p \in Peer, n \in 1 .. Window : Acks(p, n)
       \/ \E s \in relay.serving : \/ \E length \in {"fits", "too long", "empty"} : Responds(s, length)
                                   \/ \E size \in {1, Chunks + 1} : Sends(s, size)
       \/ \E expired \in SUBSET relay.incoming : Tick(expired)
       \/ \E run \in relay.runs, answer \in Answers : DumpAnswered(run, answer)
       \/ \E answer \in Answers : Restored(answer)
       \/ PullsState \/ Checkpointed \/ Releases \/ Resumes

\* Ticks go on, so a clock that was started runs out unless there is progress, and every
\* run is answered.
Fairness ==
    /\ WF_vars(\E expired \in SUBSET relay.incoming : Tick(expired))
    /\ WF_vars(\/ \E run \in relay.runs, answer \in Answers : DumpAnswered(run, answer)
               \/ \E answer \in Answers : Restored(answer))

Spec == Init /\ [][Next]_vars /\ Fairness

-----------------------------------------------------------------------------
(* Properties.                                                             *)

\* Every table has its type.  A download always has a chunk in flight, or nothing would
\* ever be acknowledged, and it has as many as the window allows.
TypeOK ==
    /\ relay.phase \in {"InGame", "Resuming", "Over"}
    /\ {relay.ready, relay.head, relay.pulledAt} \subseteq Turn /\ relay.states \subseteq Turn
    /\ \A p \in Peer : /\ relay.session[p] \in Sessions \cup {None}
                       /\ relay.held[p] \in Helds \cup {None}
                       /\ relay.out[p] \in Downloads \cup {None}
                       /\ relay.out[p] # None =>
                            /\ relay.out[p].left + relay.out[p].inFlight <= Chunks
                            /\ relay.out[p].inFlight < Window => relay.out[p].left = 0
                       /\ {relay.granted[p], loading[p]} \subseteq Snapshot \cup {None}
    /\ \A rx \in relay.incoming : rx.got <= rx.declared /\ rx.declared \in {0, Chunks}
    /\ relay.dump # None => [id |-> relay.dump.id, turn |-> relay.dump.turn] \in relay.runs
                          /\ relay.dump.waiting # {}

\* What a joiner may be waiting for, while each loads what l says.
Fetched(r, p) == {rx \in r.incoming : rx.joiner = p}

AwaitsDump(r, p) == r.dump # None /\ p \in r.dump.waiting

Ways == {"client", "dump", "restore", "held", "granted", "download", "loading"}

Waits(r, l, p) ==
    {w \in Ways :
        CASE w = "client" -> Fetched(r, p) # {}
          [] w = "dump" -> AwaitsDump(r, p)
          [] w = "restore" -> p \in r.waiting
          [] w = "held" -> r.held[p] # None
          [] w = "granted" -> r.granted[p] # None
          [] w = "download" -> r.out[p] # None
          [] w = "loading" -> l[p] # None}

\* A joiner is always on exactly one way into the match, and nobody else is on any, in
\* whatever order sources fail, runs are answered or cancelled, and clients come and go
\* (start_snapshot_fetch, retry_join, on_state_dumped, on_restored, on_disconnected).
\* Two would serve it two states, and none would leave it loading for ever.
OnOneWay ==
    relay.phase # "Over" =>
        \A p \in Peer :
            /\ Cardinality(Fetched(relay, p)) <= 1
            /\ Cardinality(Waits(relay, loading, p)) =
                  IF IsSyncing(relay, p) /\ ~relay.session[p].leaving THEN 1 ELSE 0

\* The states a client is being handed.
InHand(r, l, p) ==
    {r.granted[p], l[p]} \cup {IF r.out[p] = None THEN None ELSE r.out[p].state}

\* A client is only ever handed a state that anyone may have or that was fetched for it,
\* never for an earlier client of its peer id; of a turn its LOADED_GAME may name, or the
\* relay would kick it for an honest answer; and a delayed observer none its feed has not
\* reached (deliver_snapshot, Transfers::forget, due_joins, on_loaded_game).
OwnState ==
    \A p \in Peer : \A state \in InHand(relay, loading, p) \ {None} :
        /\ Admitted(relay, p) /\ state.for \in {0, relay.session[p].client}
        /\ relay.session[p].turns # None
        /\ state.turn \in relay.session[p].turns[1] .. relay.session[p].turns[2]
        /\ p \in Watcher => state.turn <= relay.head

\* Waiting for a state.
Unserved(p) ==
    /\ relay.phase # "Over"
    /\ Fetched(relay, p) # {} \/ AwaitsDump(relay, p) \/ p \in relay.waiting

\* Nobody waits for ever on a client, a run or a restore, whatever becomes of them: with
\* the last client admitted, each finds a state or is turned away (retry_join,
\* Transfers::stalled, on_state_dumped, on_restored).
JoinsEnd == []<>(\A p \in Peer : ~Unserved(p))
=============================================================================
