# A TLA+ model of veredus

veredus is a dedicated multiplayer server for 0 A.D.  It simulates nothing: it
relays commands between clients that all run the same simulation in lockstep,
decides when a turn may be simulated, compares the hashes the clients report,
brings late joiners and delayed observers up to date, and saves a running match
so that a restarted server can take it up again.  This directory models those
protocols, checks them with TLC on small instances and proves the most important
safety properties with TLAPS for every instance.

Paths below are relative to the repository's `src/`.

## Inventory

| Component | State it keeps | Operations | Interacts with |
|---|---|---|---|
| Turn release (`relay/turn.rs`) | ready turn; per client its last sealed turn, kind and feed | register, seal, forget, release | state machine (every handler), clock |
| Hash comparison (`relay/turn.rs`) | pending hashes, references, who is out of sync | report a hash, compare, recheck, forget | save writer (settled hashes), checkpoints (references) |
| Match log and stream (`relay/turn.rs`, `relay/server_fsm.rs`) | commands and length of every turn | record, broadcast, replay to a joiner | turn release, joins, save writer |
| Delayed observer feed (`relay/observer_feed.rs`) | the head, held joins, flares | advance, hold a join, release due joins | match log, joins |
| Joins and state transfers (`relay/gamestate_transfer.rs`, `relay/server_fsm.rs`) | transfers in both directions, grants, sources tried | fetch from a client, a checkpoint or a dump; chunk, acknowledge, stall, retry | sessions, checkpoints, feed |
| Sessions and admission (`relay/session.rs`, `auth.rs`, `slots.rs`, `server_fsm.rs`) | sessions, controller, slot table | handshake, authenticate, admit, assign, share and reclaim a slot, leave | everything keyed by peer or UUID |
| Match lifecycle (`relay/server_fsm.rs`) | the phase, Setup to PostGame | start, load, begin, decide, stop, resume | all of the above |
| Pause budget (`relay/pause_budget.rs`, `monitor.rs`) | pausers, what is left of each quota, automatic pause | pause, unpause, tick, inherit on reconnect | sessions, slots |
| Rate limits (`relay/rate_limit.rs`, `ingress.rs`) | token buckets, quotas per turn | charge, refill | dispatch of messages |
| AI host (`relay/server_fsm.rs`, `sidecar.rs`) | the sidecar client, its last pulled state, a healing in progress | spawn, lose, heal, pull state | release, hashes, checkpoints |
| Checkpoints and dumps (`relay/server_fsm.rs`, `relay/game_server.rs`) | chain of states, one run in flight, a dump and who waits for it | request, answer, fail, decide the match | joins, lifecycle |
| Save bundle (`savegame/*`) | files on disk, the writer's queue and error latch | append, flush, write state, set status; load | game thread (by a channel), lifecycle |
| Bundle lock (`savegame/bundle.rs`) | a file naming a process | acquire, take over, drop | other server processes |
| Game thread (`relay/game_server.rs`) | inputs queue, effects, runs in flight | drain effects in order, shut down | ENet task, writer, sidecar, lobby |
| ENet task (`relay/enet_task.rs`) | budgets per peer, disconnects to come | receive, send, drain | game thread (by channels) |
| ENet port (`enet/c/*`) | per slot: connection state, session ids, queues, windows, fragments | connect, send, acknowledge, resend, time out, three ways to disconnect | ENet task, the network |
| Main task, game pool (`main.rs`, `game_pool.rs`) | games and their threads, ports; names and accounts in use; saved matches still to be hosted | take a "hostme" or a saved match, create, destroy, shut down | lobby accounts, game threads |
| Lobby accounts (`lobby/*`) | the game an account hosts, what it has listed, a debounce window, its session | assign, release, list, relist, report the end | main task, game threads, the lobby's bot |

Each game has one thread that owns the whole state machine, so a handler runs to
its end before the next.  What interleaves is the messages of the clients,
connections coming and going, ticks, and the answers of sidecar runs; beside it run
the save writer, the checkpoint workers, the ENet task, the account tasks and
the main task, which it meets only in channels.  That is the grain of the
models: one action per handler, or per write, receive or system call where
several of them run at once.

What is hard here: clients joining and leaving at any point of a lockstep
protocol; several kinds of client that count differently (players, observers,
delayed observers, the AI host); the seam between a replay and the live stream;
two counters per client that differ by the command delay; clocks that step
back; answers to questions nobody asks any more; a bundle of several files
that a crash may leave in any combination; a datagram protocol with wrapping
sequence numbers; and ends of games that cross releases of their accounts.
`PROJECT.json` lists each hazard at its line, with the properties that would catch it
or the reason why none does.

What makes each component correct:

- Release: no player is left behind, no client is far ahead, observers lag no
  more than allowed, nobody waits for a seal already given, and the AI host and
  the clock never run the match away.
- Hashes: every desync is noticed, nobody is held out of sync for a client that
  left, no comparison is lost, and what was agreed is final.
- Stream and feed: all clients have a prefix of one log, without gap or repeat;
  delayed observers never see past the head, and never wait for nothing.
- Joins: every joiner is on exactly one way into the match, and served or
  dismissed in the end; no state reaches the wrong peer or shows the future.
- Sessions, slots: a player's slot waits for it and for nobody else, and so does
  what is left of its quota; no pause outlives its client.
- Pause budget: no time is charged twice, given back, or escaped by leaving, and
  no match is held for ever.
- Lifecycle: holds that overlap agree, a heal ends, a match ends with one
  outcome, which nothing overwrites.
- Bundle: what is resumed is what was played; a stopped match is complete; a
  match that is over stays over; a crash loop ends.
- Lock: one process hosts a bundle.
- ENet: each session is a FIFO link; a client dismissed after the queue has
  been handed the queue; no slot stays half open.
- Lobby and pool: every game's end is told once and frees what the game held; the
  lobby ends up showing each game as it is.

## Modules

| Module | Models | Extended or instantiated by |
|---|---|---|
| `TurnRelease` | turn release and the clock of scripted matches | `TurnRelease_proofs`, `MCTurnRelease` |
| `HashCompare` | hash comparison | `HashCompare_proofs`, `MCHashCompare` |
| `TurnLog` | abstract: one log, and every client a prefix of it | `MatchStream` (refinement) |
| `MatchStream` | match log, live stream, join replay, delayed feed | `MatchStream_proofs`, `MCMatchStream` |
| `StateTransfer` | joins, from admission to the first seal of the joiner | `StateTransfer_proofs`, `MCStateTransfer` |
| `PauseBudget` | the quotas, as operators on a record | `Seats` |
| `Seats` | sessions, slots, controller, pauses, from setup to the end | `Seats_proofs`, `MCSeats` |
| `MatchLifecycle` | phases, AI host, checkpoints and verdict, the game thread and its effects | `MatchLifecycle_proofs`, `MCMatchLifecycle` |
| `SaveBundle` | the save writer, crashes, and the load | `SaveBundle_proofs`, `MCSaveBundle` |
| `BundleLock` | several processes on one bundle | `MCBundleLock` |
| `FifoLink` | abstract: what the relay counts on from a connection | `EnetLink` (refinement) |
| `EnetPeer` | one end of an ENet connection, as operators on a record | `EnetLink` |
| `EnetLink` | the relay's host and a client's with the network between | `MCEnetLink` |
| `LobbyAccount` | one account's task, as operators on a record | `LobbyHosting` |
| `LobbyHosting` | main task, accounts, games and the lobby's bot | `LobbyHosting_proofs`, `MCLobbyHosting` |

`Seats` is composed with `PauseBudget`, `EnetLink` with two instances of `EnetPeer`'s record
per session, and `LobbyHosting` with `LobbyAccount`.  Otherwise the modules share no
variables: each abstracts what another one details, and only allows more.  The
`TurnManager` in the code holds both release and comparison, but the two only meet
in the ready turn, which `HashCompare` moves on by a step of its own.  `MatchStream`
releases any number of turns that `TurnRelease` could (never more than the command
delay in one step), and takes any state that `StateTransfer` could serve.  `StateTransfer`
loses and fails sidecar runs as `MatchLifecycle` may.  All of them take their clients'
messages in order and once per session, which is what `FifoLink` promises.

Definitions whose comment calls them a mutant state a plausible bug in the definition that
follows them.  No specification uses them: each is substituted for its original,
under the configuration of the run, to see that the property it stands for can
fail.

### TurnRelease

`clients` is `TurnManager::clients` reduced to what release looks at; `readyTurn`
is `ready_turn`; `config` the lag limit and whether the match is scripted;
`now` and `anchor` are `Context::now` and `pace_anchor`.

`Blocks`, `AiAlone`, `EveryoneAhead` are `blocks` and `everyone_ahead`.  The
loop of `release_paced` is not unrolled: `RestsAt` says at which turn it comes to
rest, and `Release` is `release_turns` with the clock's part.  The handlers are
`TurnSealed` (`on_turn_sealed`), `LoadedGame` (`on_loaded_game` with
`resume_delayed`), `Disconnected`, `AllLoaded`, `ResumeMatch` and `Tick`.
A match starts fresh, with everyone in setup registered at once, or is one
rebuilt from its save with nobody registered.

### HashCompare

`pending`, `references`, `outOfSync`, `observersOut`, `observerPending` and
`lastCompared` are the fields of those names.  `CompareAll` is `compare` over
the turns a handler asks for: `StateHash` (`on_state_hash`) for one turn,
`Disconnected` (`forget` and `recheck_pending`) for all pending ones.  Which
reporting player has the lowest client id is a choice, so the reference may be
any player's hash; the AI host's comes last.  `reported` is a history variable,
and what makes a missed desync visible.

### MatchStream and TurnLog

`view[p]` is what client `p` has: the turns sealed to it, their commands, and
whether it was ever sent something it cannot take (a seal out of order, or a
command for a turn already sealed).  `mode` is where a peer is on its way in,
`head` the head of the feed and `bound` the turn a held join waits for.
`PlayerCommand`, `TurnsReleased`, `Admitted`, `ServedByServer`, `ServedByClient`,
`LoadedGame`, `Disconnected` and `ResumeMatch` are the handlers, with
`AdvanceFeed` (`advance_feed`) inside those that run it.  `TurnLog` is refined with
the log up to the ready turn for the log and each client's sealed commands for its copy.

### SaveBundle

A turn is the number of the server run that released it, so that two versions of
a turn differ; a saved state is the sequence of turns it has been through.
`match` is what the game thread has released, `world` what the clients have
simulated; the files are `journal` (with how much of it is `synced`), `state`,
`meta` and `manifest`.  The game thread's steps are `Release`, `Ends` and
`Restarted`.  The writer works off what it was sent, in order, one write at a
time: `AppendTurn`, `Flush`, `WriteState` and `WriteMeta`, `Reopen`, `SetStatus` and
`WriteStatus`, `Finish`.  `WriteFails` may happen at any write, `Crash` loses the process
and `MachineCrash` the records not fsynced as well, either with the last record torn.
`Start` is `resume::load` with `Server::resume`, with or without a sidecar.

### StateTransfer

The relay is one record, `relay`, and a handler that serves several joiners maps it to
the set of records it may leave (`ServeAll`): one call for each, in any order, and each sees
what the ones before it did, such as a dump that was requested or a source that was asked.  `session` holds who is loading or in the game, with the sources it was
tried on; `incoming` the transfers from clients, by request id; `dump` and `runs` the
state dump that is waited for and every run that has not answered yet, cancelled
ones included; `waiting` those who wait for the restore of a resumed match; `held` the
states the delayed feed has not reached; `granted` and `out` what a joiner may fetch
and is fetching.  The actions are `Admits` (`begin_join`, `start_snapshot_fetch`),
`Disconnected`, `Responds` and `Sends` (a source announces and sends), `Requests` and `Acks`,
`Loads` (`on_loaded_game`), `Tick` (stalls and the end of a resumed match's wait),
`DumpAnswered`, `Restored`, `PullsState`, `Checkpointed`, `Releases` and `Resumes`.

A client that serves a state is taken to announce each response once, as the stock
client does.  `InitialTurn` stands for the code's `INITIAL_READY_TURN`.  The clearing of
the checkpoint chain when the AI host is lost is not modelled here.

### PauseBudget and Seats

`PauseBudget` holds the quotas: what is left to whom, who pauses and who is absent, the
moments they were last charged at, and whether the match is held.  `Seats` adds the
sessions by UUID, the slot table with the rows of those who left, the controller, and
who has resigned or forfeited.  `Authenticate` is `on_authenticate` with `admit`,
`Slots::recover` and `inherit`; `Dismiss`, `Kicked` and `Disconnected` are apart, because a
client told to go stays in the session table until its connection is gone.
`MapPlayerIdToSlot`, `StartSettings`, `LoadedGame`, `LoadingTimedOut`, `JoinerLoaded`,
`ShareCommand`, `PlayerPause`, `Resign`, `MatchDecided` and `Tick` are the handlers of those
names.  `Tick` moves the clock, which may also step back `Skews` times, and says whom
the away check finds silent.

`Seated` is the conjunction of `SessionsHaveRows`, `OneRowEach`, `RoomToReturn`, `ControllerHere`
and `PausersPlay`.  The steps of a handshake are merged into `Authenticate`, since what
comes before leaves nothing but a count of pending sessions.  `slots` is a function from
the UUIDs of the rows: the code keeps a list, but every search of it is by UUID, slot or name,
and where it takes the first match the model takes any.  Addresses, bans, rate
limits, readiness and status lines are left out.

### MatchLifecycle

`match` is the state machine with every phase it goes through, `process` the AI host's
sidecar as the game thread sees it, `run` the checkpoint worker, `files` the status and
the outcome on disk, `thread` the game thread.  A handler adds what it asks for to
`match.effects`, and `Drain` carries the effects out at the end of an iteration,
so that several inputs may be handled before any effect is: `MaxInputs` bounds how many
effects may be waiting when a further input is handled.  The effects are kept as a set, with
the last word on the AI host's process and on the status of the bundle: of those modelled
only these have an order that matters, since a later one undoes an earlier one, and the
others concern different things.  `Close` is the way out of the thread's
loop up to the last write, `ProcessDies` and `ExitReported` the two steps between the loss of
the AI host and the relay's hearing of it, `RunEnds`, `RunWrites` and `CheckpointArrives`
the three between a verdict and the same.  `MatchConsistent` is the conjunction of
`HoldsAgree`, `AiHostAwaited` and `DecidedIsFinal`.

### BundleLock

Each process is a program counter and its copy of the manifest, and every system call
is a step: the manifest is read, the lock created, its owner written, the lock judged,
a stale one removed, the attempt counted, and so on to the deletion of the bundle.  A
process may crash between any two.

### EnetPeer, EnetLink and FifoLink

`EnetPeer` is one end of a connection: its state, its session ids, the commands to be
sent, sent and not acknowledged, and received and not handed over, and the windows of the
reliable channel.  `EnetLink` puts a host of `Slots` ends against one client.  `net` is the set of
datagrams ever sent, and `Receive` may take any of them at any time: nothing else is
needed for loss, repetition and reordering.  A call of the service function is `Serve`,
any number of `Receive`, and `Finish`; `Send`, `Dismiss` (after the queue), `DismissNow` and `Kick` (at once) are
what the ENet task does with the game thread's orders, `Open` and `Quit` the client's side.
`got`, `sent`, `up` and `known` are what the applications know, and with them `EnetLink` refines
`FifoLink`.  `LinkConsistent` is the conjunction of `OldestFits`, `WindowsBooked` and `FarewellLast`.

Left out: unreliable packets, which the relay never sends, bandwidth throttling,
compression, the cut of a datagram at 32 commands or the MTU, and
`connected.rs`, most of which the relay does not use.  The states `CONNECTION_PENDING` and
`CONNECTION_SUCCEEDED` are never entered by the way the relay uses the host.

### LobbyAccount and LobbyHosting

`LobbyAccount` is one account's task: the game assigned to it, what it last sent to the
bot, what it still owes in its debounce window, and its session.  `LobbyHosting` has the
main task (`main`: saved matches still to be hosted, accounts in use, names of active
hosts, and where it is in its loop), the tasks with their control queues, the games with
their channel of events, and `room`, what the bot shows.  `MainStep` is one step of
`run_pool_lobby_mode` or `run_personal_mode`, `TaskStep` one branch of an account's `select!`,
`LobbyStep` what the session with the lobby does, `GameStep` what a game's thread and its players
do, `TakeSignal` a shutdown.  `HostingConsistent` is the conjunction of `EndsAreTold`,
`ReservedForAReason`, `SavedFirst` and `NamesHeld`.  `Owed` counts who will tell of the end of
a game: the order its account has not read, the assignment, the report the main task has not
read.  `main.refused` keeps the accounts that took no assignment, which stay reserved in the
code; no step reads it.  `NamesHeld` is about the names that keep a host from a second game, in
both directions: a name is taken only while a game of that host is in the pool, and a game in the
pool has its host's name taken, with one exception, `SharedName`.  A saved match may run
with its host's name free once an earlier saved match of that host is gone (finding 4).

The lobby and its bot are external.  Of them it is assumed that a resumed session loses
nothing, and that a new one keeps only a suffix, in order, of what was not yet
sent.  Rated reports, strikes by connection data, the forwarding of auth tokens,
who asks to join, and the standalone mode, which hosts one game, are left out.
`PlayerArrives` always puts a running personal game back on the lobby, while the code does
so for a client that comes unprompted from its owner's address (`relay/server_fsm.rs:2658`).
The two differ only when the owner comes in by way of the lobby, with the account that
hosts, which the repository's README says not to do.

## Runs

| Run | Distinct states | Shows |
|---|---|---|
| `turn_release` | 44 297 | release is safe under every order of seals, joins and departures, loses no wake-up, and makes progress |
| `hash_compare` | 103 023 | no desync is missed or unjustly held, comparison is never lost, references are final |
| `match_stream` | 126 073 | every stream is whole across joins, departures and drains; refines `TurnLog` |
| `match_stream_resumed` | violation | a resumed match drains the feed while it waits |
| `state_transfer` | 130 073 | every joiner is on exactly one way in, handed only its own state, and served or turned away |
| `seats` | 96 424 | sessions, slots, controller and pauses agree; a seat and its quota wait for their player; no hold is for ever |
| `match_lifecycle` | 174 060 | holds agree with what clients show, a verdict becomes the outcome, a final outcome stays, a heal ends |
| `save_bundle` | 421 435 | the bundle survives stops, crashes and failures at every step |
| `save_bundle_journal` | violation | a saved state can be ahead of its journal |
| `bundle_lock` | violation | two processes can resume one match |
| `enet_link` | 120 049 | over a network that loses, repeats and reorders each session is a FIFO link; slots settle; refines `FifoLink` |
| `lobby_hosting` | 247 037 | ends of games are told once, the listing ends right, games go and the server stops |

Every run allows deadlock, because the bounds on turns, commands, messages, clients
and server runs stop a behaviour that in the program would go on, and because some
of the modelled things end: a match that is over, a server that has stopped.

### Bounds, and why they are enough

- `turn_release`: two clients, each of which may be a player, an observer or a
  delayed one and may come back as another, and the AI host: enough for one that
  blocks beside one that does not, for the AI host alone, and for the last
  blocker leaving.  The command delay is 2 (4 in the code), with turns up to 4, so
  that one release can cover two turns and seals can run into the window.  The lag
  limit is none or 1, the clock runs 0..4 with an interval of 1 and the code's
  backlog of 2, so it can fall behind by more than the backlog and step back.
- `hash_compare`: the same clients and two hashes, so two players can differ and
  the AI host can differ from both; three turns with a full hash at 1 and 3, so
  that the AI host is excused on either side of a turn it takes part in.  Peers
  and hashes are symmetric.
- `match_stream`: a player, a live observer and a delayed one, a delay of 2 turns
  (300 in the code) and a command delay of 2 in 5 turns, so that a state may be
  newer than the feed and the feed may catch up; two commands, which may be for one
  turn and in either order of turns.
- `state_transfer`: a player to begin with, a second one and a delayed observer, with
  three clients ever admitted, so that a peer id gets a second tenant while the
  first one's transfers are under way; two turns with a delay of 1, two chunks with a window of 1,
  so that a download can be half done; fresh and resumed matches, with and
  without sidecar dumps.
- `seats`: two players and an observer around two shareable slots, one of the players
  with a second UUID to come back under, three sessions with one observer and one handshake at
  a time, so that every limit of admission is met; a quota of 2 with a charge of at
  least 1 and one step back of the clock.
- `match_lifecycle`: one person, two turns with a checkpoint every second one, two
  checkpoint runs and two attempts to heal, one effect waiting when a further input is
  handled; with saving and dumps, saving only, and dumps in a scripted match.  Two
  runs are needed for an answer that is overtaken, and two attempts for a
  heal that is retried and one that is given up.
- `save_bundle`: three turns, two resume attempts and four runs of the server, so
  that every kind of crash can follow every other and the attempts run out.  Three
  turns are enough for a torn record with whole ones before it, a
  state with turns on both sides and a lost tail of two.
- `bundle_lock`: two processes are enough for the race; the whole space has 2 413
  states without the invariant.
- `enet_link`: six windows of two sequence numbers, of which three stay free (16
  of 4096, 8 free, in the code), and eight plans, each of which lets one thing happen
  in full: a farewell behind data; pings and the kick of a slow peer; messages both ways
  and a client that leaves; a slot taken again after a farewell, and after an
  abrupt end; fragments; two slots; and fourteen messages, which make the sequence
  numbers wrap.  In the last one a datagram is lost for good once seven
  sequence numbers have passed it; without a limit of some kind sixteen-bit numbers are
  not safe on any network.
- `lobby_hosting`: seven plans: two accounts that hear the same sender; two senders for one
  account; two saved matches of one host on two accounts; two saved matches for one
  account, whose task may die; one game through lost sessions; a player's own saved
  match through a lost session; and a player's games one after another.  The
  control queue holds 4 (16 in the code), more than the plans put in it.

### Fairness

- `MatchProgresses`: for each peer, weak fairness of `BlockingSeal`: a client that blocks
  release goes on sealing.  The code relies on just that: there is no timeout on a
  stalled player, who "blocks the match until it disconnects", and the transport
  turns a client that stopped into a disconnect, which is one way of no longer
  blocking (`SlotsSettle` is the transport's side of it).  No fairness is assumed
  of anybody who does not block, of joins, departures, or the clock.  The
  property is stated for matches without the clock; a scripted match waits for its tick.
- `JoinsEnd`: ticks that have something to expire, and answers of sidecar runs, which
  are killed after a limit.  Nothing is assumed of the clients: a source that stays silent is
  what the stall limit is for.
- `HoldsEnd`: time passes.  Nothing is assumed of any player.
- `HealEnds`: the game thread carries its effects out, hears of the exit of a process it
  started and of the answer of a run; a run ends and writes, and the deadline of a heal passes.
- `SlotsSettle`: the relay goes on calling the host's service function, and a slot's
  resend timer goes on expiring while commands are unacknowledged.  Nothing is assumed
  of the network, not even that any datagram arrives.
- `GamesGoAndServerStops`: the main task takes its steps, and an account's task takes what is
  in its queues and wakes from its pauses.  Nothing is assumed of players,
  signals or the lobby.

The violation runs need no fairness: each refutes a safety property.

## Proofs

All are about `Spec`, for every value of the constants, under the named
assumptions of the module: the command delay and periods are positive, limits
and bounds are naturals, and `None` is a value of its own.  Nothing is assumed about the number of peers.

`TurnRelease_proofs`: `TypeCorrect`, `LockstepSafety` (no player is left behind),
`ReachSafety` (`WithinReach`, from `WindowSafety` and `LagSafety`), `AiHostHeld`.  The inductive
invariant is the conjunction of the checked ones with one fact more, that whoever is on the
delayed feed is an observer; without it a delayed player would not block, and could
be left behind.  `AheadMeansSealed` says what `EveryoneAhead` gives, and
`ReleaseAdvances` that release, whichever handler runs it, keeps all the bounds its
client table satisfied: it moves turn by turn, and stops at the first turn
somebody has not sealed past.  Each action then shows only that the table it hands
over qualifies.

`HashCompare_proofs`: `TypeCorrect`, `LatchRight` (`LatchIsRight`, from `DesyncNoticed` and
`LatchJustified`), `PendingDue` (`PendingIsDue`, from `NothingMissed` and `RetirementHolds`),
`AgreementFinal`.  The checked invariants are
not inductive: that a reference stays final needs that no report for its turn can
still arrive from somebody it would be compared with.  The strengthening says
where reports stand: a client has reported only turns it simulated, once each
(`ReportsInSequence`); what is pending was reported by players still there, on turns
they are compared on (`PendingReported`), and has no reference yet
(`PendingUnsettled`); no player owes a report for a turn that has a reference
(`NothingOwed`); and only the AI host may be behind the newest compared turn
(`NobodyBehind`).  `CompareAllDoes` characterises one run of the comparison and
`CompareAllKeeps` what it keeps, once for both handlers that run it.

`SaveBundle_proofs`: all the properties the passing run checks: `TypeCorrect`,
`CrashLoopLimited`, `OverForGood`, `NothingLost` (`NothingPlayedIsLost`, from `WorldStaysTheMatch` and
`StopKeepsEverything`) and `ResumedAsPlayed`.  The inductive invariant has two parts.  `IInv` is about the
manifest and the writer's place only: every run but the first was counted, the
attempts run out at a start that gives the match up, and once the manifest of a
running server says the match is over nothing is left to write.  `FilesInv` says
what the files hold.  The records are the first turns of the match and perhaps a
torn one; that one is never below what was fsynced, and never there while a
writer still appends, which is why cutting the tail at a load loses no turn that
was fsynced and hides none written later.  While no machine crash has taken
records, both state files are prefixes of the journal, so whichever state a load picks and
whatever `write_state` was interrupted in, the replay of the rest gives the match
(`RebuiltIsTheMatch`, `StateAndRest`).  For a stop, the final status waits
until every turn is written and flushed, or the writing has failed.
`RecordsCut` is what a torn append, a process crash and a machine crash share.

`MatchStream_proofs`: all the properties the passing run checks: `TypeCorrect`, `StreamsServed`
(`EveryoneServed`), `FeedDistance` (`FeedKeepsItsDistance`), `SharedLog` (`SharesOneLog`, the refinement of
`TurnLog`).  `EveryoneServed` says of the clients in the game what they were sent; the
inductive invariant says it of everybody by where they are on their way in (`PeerServed`):
nothing of those who are out, the state of some turn of the log of those served or held,
no newer than the feed for a delayed observer, and all up to the ready turn or the head of
those who play.  `TurnsReach`, `SealsReach` and `ReplayReaches` say what a client has that was
sent the feed's turns, the live seals or the replay; `FeedAdvances`, which every handler
that moves the feed uses, what `advance_feed` makes of the peers handed to it.  For the
refinement, `PastIsFinal` says that a command is only ever recorded past the ready turn, so the
log up to there is append-only, and `CopyIsPrefix` that what a client has sealed is a prefix of it.

`Seats_proofs`: `TypeCorrect`, `AlwaysSeated` (`Seated`), `SeatsAreKept` (`SeatsKept`).  The conjuncts of
`Seated` lean on each other and need three facts more.  `OneHolderEach`: slots that may not be shared
have one row, so no row that was left behind is refused to the client who comes back.
`RoomInSetup`: while there is no row to return to, the sessions leave one place; from
the start of the match the rows of those who left are counted instead.
`FiniteTables`, without which numbers of sessions mean nothing.  That a quota stays within its
limits whatever the clock does needs `AgesWithin`: no moment it was last charged at
lies further ahead than the clock has stepped back.

`MatchLifecycle_proofs`: `TypeCorrect`, `Consistent` (`MatchConsistent`), `OutcomeStays` (`FinalStays`).  Between an
input and the next `Drain` the machine is ahead of what the thread has done, so the inductive
invariant speaks of the two together (`Fits`): with what is asked for counted as done, the
pauses shown are those of who is in the game (`Pauses`), the AI host is where its phase
has it (`AiPlace`) and one that is awaited has a process (`Processes`), the run that is waited for is the
one in flight (`Runs`), and the run that decided the match was the last to write (`Decided`).
`VerdictComes` holds only between inputs, not within them: no verdict is waited for that no run
will give.  Each handler has a lemma of two parts: it is `Quiet`, that is, keeps what was asked for and
leaves the checkpoints alone; and what it leaves is `Calm`.  `AfterFits` adds what every input ends
with.  Some handlers in a tick run when the game is already over, in states where
nothing fits any more; that is why `Calm` asks nothing of those, and why only `Quiet`
is carried through.  Checking the invariant with TLC under more waiting inputs than the run
has showed a slip in an earlier version of the model, where an AI host that was healed kept the
verdict that was waited for, which `ai_host_healed` drops with the rest of the heal; and the proof
needed neither of the bounds it first had on `ai_heal_attempts` and the interval of checkpoints,
each of which may be 0.

`LobbyHosting_proofs`: `TypeCorrect`, `Consistent` (`HostingConsistent`), `LobbyShown`
(`LobbyShowsTheGame`).  The channels are unbounded sequences, so the inductive invariant says
what may be in them.  Of an account the main task has no game on, there is no report in the events and no order in the control queue
(releases of hostings that failed may pile up in it).  Of one with a game, one of three tells of its
end (`Telling`): the order is in the queue with no release behind it, which would take the assignment
back unreported; or the game is assigned, with no release waiting; or its end is reported, once.
That a task which died may have left a report behind is why `Told1` speaks of the reports apart from
the task.  Names and accounts are kept apart by one account for each name that is taken and for
each game in the pool (`NamesPlaced`, `GamesPlaced`), and a job is for an account without a game and,
unless a saved match, for a sender without a name (`JobPlaced`).  That only a saved match can run
with its host's name free follows from who claimed the name (`Claims`, `NamesKept`): the game
itself, which then holds it, or a saved match hosted before, which holds it or is gone; and saved
matches are hosted before all others (`SavedCameFirst`).  Account handlers are shown once to
leave the assignment alone (`Keeps`), and most steps then only have to show which channel they touch
(`StepKeeps`, `TaskKeeps`).  It needs no bound on the queue: with a capacity of 0 no game is hosted.

`LobbyShown` rests on a second inductive invariant beside it, `AllInTouch`, since what is settled
says nothing of how it got there: a session may be lost at any point, and the bot then forgets what
the account told it.  Of an account with a session, `InSession` says that hearing everything in `out`
makes the bot's occupant the one the account takes itself to be (`Seen`), unless the news of a
new session, which will have it tell everything again, is still unread.  `InGame` says that reading everything
in a game's channel makes what the account knows of it (`Known`) what the game is (`AsItIs`),
from the moment the order to host it is in the control queue; and that no listing comes behind
the start of the match, where it would undo the state "running".  `Books` ties the fields of the
account together: a listing pending has its window open while there is a session to send it in,
and a game that was taken off the lobby leaves nothing behind to tell.  Where a sequence of
stanzas or events leads is said without a fold, which would need an induction over data: there
is a function on 0..Len that starts at one end and goes on element by element to the other
(`Hears`, `Learns`).  Appending to the sequence and taking its head are then one lemma each
(`HearsOneMore`, `HearsTheFirst`, ...).  A new session has the bot hear only the rest
of what was on its way, so `HearsTheRest` compares two occupants through the same stanzas: the new
one lists what the old one would have, or nothing.  Each handler `Works`: what it adds to
`out` takes the occupant from what the account was to what it is.

`StateTransfer_proofs`: `TypeCorrect`, `OneWay` (`OnOneWay`), `Own` (`OwnState`), and `JoinersAccounted`,
the inductive invariant, `Accounted`, which has two parts.  `Sound` holds at every moment, in the middle of a handler
too.  Requests are numbered, and what a client serves under a number is for the client that the
relay asked for (`FetchedForIts`); one transfer is under way for a joiner (`FetchedOnce`); the run
that is waited for will answer, and no other run has its number (`RunWaitedFor`), which is why an
answer that passes the check of the number is of the turn that was asked for; and what is
held back or handed out is for its client, and no newer than the feed it watches (`HandsOwn`).
`OwnState` alone is not inductive: it says nothing of what is still on its way to the relay.
`Placed` says who is on which way into the match.  It holds between handlers only: when a source is lost
or a run answers, several joiners are on none until they have been served, and one that has left
may still be among those who wait for a run.  So `Placed` is parametrised by those to be
served and the one that has gone.  One lemma for each call (`StartFetchKeeps`, `RetryJoinKeeps`,
`RequestDumpKeeps`, `AskSourceKeeps`, `DeliverKeeps`, ...) says that it puts its joiner on one
way, or dismisses it, and leaves everybody else's place alone; `ServeAllKeeps` follows the calls of a handler
in whatever order, by a least counterexample over the number of those served, since the
recursion in `ServeAll` is over sets (`AfterExists` shows that it defines a function at
all).  Each handler's lemma then says that what it does before its calls leaves just those
joiners to be served.

Only model-checked: the release properties about lost wake-ups and the clock; all
liveness properties (`MatchProgresses`, `JoinsEnd`, `HoldsEnd`, `HealEnds`, `SlotsSettle`,
`GamesGoAndServerStops`), which are outside the prover's reach;
`EnetLink` with its refinement, whose windows are bounded by arithmetic modulo 2^16 and folds
over sequences, which the provers do not manage.

## Findings

1. `relay/server_fsm.rs:1347`: while a resumed match waits for its players, an
   observer who is back first finds no player there, so the feed drains to the
   stopped turn, and the delay is gone when the match goes on.  (`StoppedFeedHolds`)
2. `savegame/writer.rs:276`: a state is fsynced before the journal records of the
   turns it covers, so after a machine crash it may be ahead of the journal,
   which the code takes to be impossible.  (`JournalCoversState`)
3. `savegame/bundle.rs:176`: a lock judged stale is removed by name in a later system call.
   A process that judged it before another one took it over removes the new
   lock, and both resume the match.  (`ResumedByOne`)
4. `main.rs:521`: of two saved matches of one host, the end of the first frees the host's name
   (`main.rs:773`), and the host may ask for another game while the second still runs.  The
   comment at `main.rs:518` says: "Two saved matches can share a host, and ending the
   first must not free that host's name while the second still runs."  This has no run of its
   own: `NamesHeld` says how far it goes, and the third plan of `lobby_hosting` reaches it.
   A game that was asked for never runs with its host's name free, and a saved match only
   once an earlier one of that host is gone.

`WorldIsTheMatch`, a part of `NothingPlayedIsLost`, excludes matches that met the second: once a
machine crash has lost journal records a stale state may be taken for one of a
turn released anew.

### Observations

Met while modelling, and stated by no run.  The models do what the code does in each
case, unless it is said otherwise; the properties are worded so as not to claim more.

- `relay/turn.rs:418`: the comment at `turn.rs:57` says that no older turn can complete once
  a turn is compared.  The AI host is not waited for in turns with a full hash, so with
  the players gone an older turn may complete on its hash alone.
- `savegame/resume.rs:235` counts every resume and nothing resets the count, so a match
  stopped and resumed in good order `max_resume_attempts` times is abandoned at the
  next start, though the limit is meant for crashes.
- `lobby/mod.rs:336`: the control queue of an account can fill up with releases of hostings
  that failed, so a full queue does not mean that the task is gone.  At a shutdown the
  `Shutdown` is lost with it and the join waits for ever.
- An account whose task died stays reserved, and the saved match that was given to it is lost
  until the next start of the server.
- A player's own account goes on being shown as playing after the match has ended, until
  the player leaves.
- A game thread that loses its ENet thread (`game_server.rs:380`) after a checkpoint has
  decided the match leaves the outcome as progress only.
- Two inputs handled in one iteration may put `Finished` behind `Stopped` in the effects, so
  that a match that was kept has a finished bundle (comments in `server_fsm.rs` say that
  one that is kept is stopped).
- `relay/server_fsm.rs:3102`: the number of attempts is compared after the first heal has been
  tried, so with `ai_heal_attempts = 0` the AI players are brought back once all the same
  (`config.rs:671` says how many times a match tries).
- A pauser who was kicked but lingers makes the number of pausers equal to that of the
  players one too early (`monitor.rs`).
- A session dismissed in setup that lingers when the match begins is registered with
  turn release until ENet confirms that it is gone.
- `config.rs` admits an `enet_max_waiting_bytes` too small for any data in transit; `EnetPeer`
  assumes that more may wait than a peer keeps in flight.
- An order of the game thread names a slot.  By the time the ENet task reads it the slot may
  have a new tenant, who is sent the message or dismissed in the other's place
  (`enet_task.rs:212`).
- `enet/c/protocol.rs`: a late `VERIFY_CONNECT` or `DISCONNECT` of an earlier session fails a client that is
  connecting, since session ids are two bits; the branch at 2075 is not reachable.
- `savegame/bundle.rs:167`: a crash between creating the lock and writing its owner leaves a
  lock that counts as held.  `resume.rs:201` writes the manifest back from a copy read
  before the lock was taken.

## Not modelled

- What a message says beyond what the protocol turns on: chat, ratings, turn
  lengths, flares, the wording of notices, the wire format.
- Rate limits, ingress and inbound budgets: counters of one peer at a time.
- The queue in which sidecar runs wait for a slot, and what a run does.
- XMPP, HTTP, processes and files outside the bundle: I/O.
- Configuration, command line, metrics, the showcase: no protocol state.
- In the bundle: hash records, the slot table and the AI host's own state.
- In ENet: what is listed above with its modules.

## Plan

1. Proofs: the parts of `LinkConsistent` in `EnetLink` that do not speak of the windows, such as what
   the phases of a slot and its client may be together.
2. The queue for sidecar runs (`sidecar.rs`, `acquire_run`): a bounded number of runs,
   among games that wait for each other's slots.
3. The hash records and the slot table of the bundle, with the load that restores them into
   `HashCompare` and `Seats`.
4. Rate limits and inbound budgets, for the numeric edges of their buckets.
