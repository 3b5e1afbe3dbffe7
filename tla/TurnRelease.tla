----------------------------- MODULE TurnRelease -----------------------------
(***************************************************************************)
(* Lockstep turn release: the part of the relay's TurnManager              *)
(* (src/src/relay/turn.rs) that decides when a turn may be simulated, with *)
(* the handlers of src/src/relay/server_fsm.rs that drive it.              *)
(*                                                                         *)
(* Every client seals turns in sequence; the server releases turn n+1 once *)
(* every client that blocks release has sealed past n.  Observers block    *)
(* only when a lag limit says so, clients on the delayed feed never do,    *)
(* the headless AI host may not run the match alone, and a scripted match  *)
(* is paced by the wall clock on top of that.                              *)
(*                                                                         *)
(* Abstracted: the hash counters of a client (HashCompare), what is sent   *)
(* for a released turn (MatchStream), and how a peer gets to load a game.  *)
(* A message the handlers reject changes nothing here; the disconnect it   *)
(* may cause is an ordinary Disconnected step.                             *)
(***************************************************************************)
EXTENDS Integers

CONSTANTS
    Peer,          \* peers that may take part in the match
    AiHost,        \* the peer that is the hosted-AI sidecar, or no peer at all
    CommandDelay,  \* turns between sealing a turn and its release, 4 in the code
    LagLimits,     \* the values tried for Config::observer_lag_limit
    NoLimit,       \* the limit that is None
    Interval,      \* clock ticks per paced turn, Config::pace_interval
    PaceBacklog,   \* PACE_BACKLOG_TURNS, 2 in the code
    MaxTurn,       \* bound: no client seals a turn past this one
    MaxClock       \* bound on the wall clock

ASSUME DelayAssumption == CommandDelay \in Nat \ {0}
ASSUME LimitAssumption == NoLimit \notin Nat /\ LagLimits \subseteq Nat \cup {NoLimit}
ASSUME PaceAssumption == Interval \in Nat \ {0} /\ PaceBacklog \in Nat \ {0}
ASSUME BoundAssumption == MaxTurn \in Nat /\ MaxClock \in Nat

VARIABLES
    phase,      \* "Loading", "InGame" (PostGame releases the same way) or "Resuming"
    config,     \* the observer lag limit and whether the match is scripted
    readyTurn,  \* the last turn released
    clients,    \* registered peer -> what release knows of it
    now,        \* the wall clock as of the last tick
    anchor      \* Context::pace_anchor, the time the next paced turn counts from

vars == <<phase, config, readyTurn, clients, now, anchor>>

\* One below the command delay, so that turn CommandDelay is the first release.
InitialReadyTurn == CommandDelay - 1

\* pace_anchor before the clock was first consulted.
Unset == -1

Phases == {"Loading", "InGame", "Resuming"}

ClientTurn == [readyTurn : Nat, observer : BOOLEAN, delayed : BOOLEAN, aiHost : BOOLEAN]

Registered == DOMAIN clients

-----------------------------------------------------------------------------
(* When a turn may be released.                                            *)

\* Mutant: an observer blocks only once it is past the limit.
BlocksOneTurnLate(c, limit, turn) ==
    ~c.delayed /\ (~c.observer \/ (limit # NoLimit /\ turn - c.readyTurn > limit))

\* There is no timeout: a stalled player blocks until it disconnects.  The lag is
\* a saturating difference, so a limit of 0 makes every observer block.
Blocks(c, limit, turn) ==
    /\ ~c.delayed
    /\ \/ ~c.observer
       \/ limit # NoLimit /\ (turn - c.readyTurn >= limit \/ limit = 0)

HumansBlock(cs, limit, turn) ==
    \E p \in DOMAIN cs : ~cs[p].aiHost /\ Blocks(cs[p], limit, turn)

\* Mutant: the AI host releases turns by itself.
AiNeverAlone(cs, limit, turn, clocked) == FALSE

\* Only the AI host would block, and no clock paces it.
AiAlone(cs, limit, turn, clocked) ==
    /\ ~clocked
    /\ ~HumansBlock(cs, limit, turn)
    /\ \E p \in DOMAIN cs : cs[p].aiHost /\ Blocks(cs[p], limit, turn)

\* Alone, the AI host is paced by everyone there, whether they block or not.
Blockers(cs, limit, turn, clocked) ==
    IF AiAlone(cs, limit, turn, clocked)
    THEN DOMAIN cs
    ELSE {p \in DOMAIN cs : Blocks(cs[p], limit, turn)}

\* Mutant: a turn is released one too early.
EveryoneThere(cs, limit, turn, clocked) ==
    /\ Blockers(cs, limit, turn, clocked) # {}
    /\ \A p \in Blockers(cs, limit, turn, clocked) : cs[p].readyTurn >= turn

\* With nobody blocking, or nobody but the AI host there, the match holds.
EveryoneAhead(cs, limit, turn, clocked) ==
    LET blockers == Blockers(cs, limit, turn, clocked)
    IN  /\ blockers # {}
        /\ \A p \in blockers : cs[p].readyTurn > turn
        /\ (\A p \in DOMAIN cs : cs[p].aiHost) => ~AiAlone(cs, limit, turn, clocked)

-----------------------------------------------------------------------------
(* The wall clock of a scripted match.                                     *)

\* Mutant: a clock that stepped back makes a whole backlog due.
ReanchoredBehind(a, t) ==
    IF a = Unset \/ t < a THEN t - Interval * PaceBacklog ELSE a

\* pace_anchor once clock_allowance has run at time t: set on first use, moved
\* back with a clock that stepped back, moved up when the match fell behind.
Reanchored(a, t) ==
    IF a = Unset \/ t < a THEN t
    ELSE IF t - a > Interval * PaceBacklog THEN t - Interval
    ELSE a

\* Mutant: a match that was held up catches up all at once.
AllowanceUncapped(a, t) == IF a = Unset \/ t < a THEN 0 ELSE (t - a) \div Interval

Allowance(a, t) ==
    IF a = Unset \/ t < a THEN 0
    ELSE IF t - a > Interval * PaceBacklog THEN 1
    ELSE IF (t - a) \div Interval > PaceBacklog THEN PaceBacklog
    ELSE (t - a) \div Interval

\* Mutant: a departure releases one turn at most.
RestsAfterOne(n, cs, limit, clocked, allowance) ==
    n = readyTurn + (IF EveryoneAhead(cs, limit, readyTurn, clocked) THEN 1 ELSE 0)

\* The turns release_paced may come to rest at, of which there is exactly one:
\* every turn on the way was releasable, and the next one is not, by the clients
\* or by the clock.  Nobody is ever registered further than CommandDelay ahead
\* (SealWindow), so the range is wide enough.
RestsAt(n, cs, limit, clocked, allowance) ==
    /\ \A m \in readyTurn .. n - 1 : EveryoneAhead(cs, limit, m, clocked)
    /\ clocked => n - readyTurn <= allowance
    /\ \/ ~EveryoneAhead(cs, limit, n, clocked)
       \/ clocked /\ n - readyTurn = allowance

\* Context::release_turns over the clients a handler leaves behind, at the time
\* it runs; Server::release_turns does nothing until a resumed match restarts.
Release(cs, t) ==
    IF phase' = "Resuming" THEN UNCHANGED <<readyTurn, anchor>>
    ELSE \E n \in readyTurn .. readyTurn + CommandDelay :
            /\ RestsAt(n, cs, config.lagLimit, config.scripted, Allowance(anchor, t))
            /\ readyTurn' = n
            /\ anchor' = IF config.scripted
                         THEN Reanchored(anchor, t) + Interval * (n - readyTurn)
                         ELSE anchor

-----------------------------------------------------------------------------
(* The handlers.                                                           *)

Without(p) == [q \in Registered \ {p} |-> clients[q]]

With(p, c) == [q \in Registered \cup {p} |-> IF q = p THEN c ELSE clients[q]]

\* What a peer may be in the match: a player, an observer, or an observer on the
\* delayed feed.  The AI host counts as a player.
Roles(p) ==
    {r \in [observer : BOOLEAN, delayed : BOOLEAN] :
        /\ r.delayed => r.observer
        /\ p = AiHost => ~r.observer}

\* TurnManager::register, with mark_ai_host for the AI host.
NewClient(p, r, sealed) ==
    [readyTurn |-> sealed, observer |-> r.observer, delayed |-> r.delayed,
     aiHost |-> p = AiHost]

\* A fresh match: begin_match registers every session in setup, all at once.
InitFresh ==
    /\ phase = "Loading"
    /\ readyTurn = InitialReadyTurn
    /\ \E starting \in SUBSET Peer \ {{}} :
         \E role \in [starting -> [observer : BOOLEAN, delayed : BOOLEAN]] :
            /\ \A p \in starting : role[p] \in Roles(p)
            /\ clients = [p \in starting |-> NewClient(p, role[p], InitialReadyTurn)]

\* A match rebuilt from its save: released through the turn it stopped at, and
\* nobody is registered, since every client comes back as a joiner.
InitResumed ==
    /\ phase = "Resuming"
    /\ readyTurn \in InitialReadyTurn .. MaxTurn
    /\ clients = [p \in {} |-> 0]

Init ==
    /\ InitFresh \/ InitResumed
    /\ config \in [lagLimit : LagLimits, scripted : BOOLEAN]
    /\ now = 0
    /\ anchor = Unset

\* Everybody still there has loaded the map, by a report or by a departure.
AllLoaded ==
    /\ phase = "Loading"
    /\ Registered # {}
    /\ phase' = "InGame"
    /\ UNCHANGED <<config, readyTurn, clients, now, anchor>>

\* Mutant: the bound is off by one.
MaySealTooFew(turn) == turn < readyTurn + CommandDelay

\* The TurnSealAhead check: no client can simulate a turn that was never released.
MaySeal(turn) == turn <= readyTurn + CommandDelay

\* on_turn_sealed: a client seals its next turn, at most CommandDelay past the
\* ready turn.  Anything else is a fault and changes nothing.
TurnSealed(p) ==
    /\ phase # "Loading"
    /\ p \in Registered
    /\ LET turn == clients[p].readyTurn + 1
           sealed == [clients EXCEPT ![p].readyTurn = turn]
       IN  /\ MaySeal(turn)
           /\ turn <= MaxTurn
           /\ clients' = sealed
           /\ UNCHANGED phase
           /\ Release(sealed, now)
    /\ UNCHANGED <<config, now>>

\* on_loaded_game: a joiner replayed up to the ready turn owes the seal
\* CommandDelay past it.  On the delayed feed (resume_delayed) the replay ends
\* at the feed's head, which is never past the ready turn.
LoadedGame(p) ==
    /\ phase # "Loading"
    /\ p \notin Registered
    /\ readyTurn + CommandDelay - 1 <= MaxTurn
    /\ \E replayed \in InitialReadyTurn .. readyTurn :
         \E r \in Roles(p) :
            /\ replayed # readyTurn => r.delayed
            /\ clients' = With(p, NewClient(p, r, replayed + CommandDelay - 1))
    /\ UNCHANGED <<phase, config, readyTurn, now, anchor>>

\* on_disconnected: the peer is forgotten and no longer blocks release.
Disconnected(p) ==
    /\ p \in Registered
    /\ clients' = Without(p)
    /\ UNCHANGED phase
    /\ Release(Without(p), now)
    /\ UNCHANGED <<config, now>>

\* resume_match: a resumed match is restarted, and every seal that came in while
\* it waited counts at once.
ResumeMatch ==
    /\ phase = "Resuming"
    /\ phase' = "InGame"
    /\ Release(clients, now)
    /\ UNCHANGED <<config, clients, now>>

\* A tick moves the clock, forwards or back; in a scripted match turns fall due
\* between seals too.  The clock is kept only where it paces release.
Tick(t) ==
    /\ config.scripted
    /\ now' = t
    /\ UNCHANGED phase
    /\ IF phase = "InGame"
       THEN Release(clients, t)
       ELSE UNCHANGED <<readyTurn, anchor>>
    /\ UNCHANGED <<config, clients>>

Next ==
    \/ AllLoaded
    \/ ResumeMatch
    \/ \E p \in Peer : TurnSealed(p) \/ LoadedGame(p) \/ Disconnected(p)
    \/ \E t \in 0 .. MaxClock : Tick(t)

Spec == Init /\ [][Next]_vars

\* A client that blocks release is simulating and seals on (or disconnects): the
\* code sets no timeout and relies on it.  Nothing is asked of an observer that
\* does not block.
BlockingSeal(p) ==
    /\ p \in Blockers(clients, config.lagLimit, readyTurn, config.scripted)
    /\ TurnSealed(p)

FairSpec == Spec /\ \A p \in Peer : WF_vars(BlockingSeal(p))

-----------------------------------------------------------------------------
(* Properties.                                                             *)

\* Every variable keeps its type; a resumed match never goes back to loading.
TypeOK ==
    /\ phase \in Phases
    /\ config \in [lagLimit : LagLimits, scripted : BOOLEAN]
    /\ readyTurn \in Nat
    /\ DOMAIN clients \subseteq Peer
    /\ clients \in [DOMAIN clients -> ClientTurn]
    /\ now \in 0 .. MaxClock
    /\ anchor \in Nat \cup {Unset}

\* No player is ever left behind: a turn is released only once every player there
\* has sealed it, through joins, departures and the restart of a resumed match
\* (everyone_ahead; what the lockstep protocol rests on).
NoPlayerLeftBehind ==
    \A p \in Registered :
        ~clients[p].observer => readyTurn <= clients[p].readyTurn

\* Nobody is ever registered more than CommandDelay turns past the ready turn, so
\* one release never runs the match further than that (the TurnSealAhead check
\* with the turn a joiner is registered at).
SealWindow ==
    \A p \in Registered : clients[p].readyTurn <= readyTurn + CommandDelay

\* With a lag limit a live observer is never left further behind than the limit:
\* it starts to block exactly in time (blocks, observer_lag_limit).
ObserverLagBounded ==
    config.lagLimit # NoLimit =>
        \A p \in Registered :
            ~clients[p].delayed => readyTurn - clients[p].readyTurn <= config.lagLimit

\* Nobody is out of reach of the turn being released, in either direction.
WithinReach == SealWindow /\ ObserverLagBounded

\* No wake-up is lost: in a running match not paced by the clock, a step that
\* registers nobody leaves no turn unreleased that everyone is ahead of.  (A joiner
\* into a match nobody was blocking is registered ahead already, and release
\* follows with the seal it owes.)
NoMissedRelease ==
    [][ phase' = "InGame" /\ ~config.scripted /\ DOMAIN clients' \subseteq Registered
        => ~EveryoneAhead(clients', config.lagLimit, readyTurn', FALSE) ]_vars

\* The AI host, which runs as fast as the engine can, never takes the match past
\* the people in it: without a clock every released turn was sealed by someone
\* else still there (ai_alone in everyone_ahead).
AiHostNeverRunsAhead ==
    [][ readyTurn' > readyTurn /\ ~config.scripted
        => \E p \in DOMAIN clients' :
              ~clients'[p].aiHost /\ clients'[p].readyTurn >= readyTurn' ]_vars

\* A scripted match never runs ahead of the wall clock, and one that was held up
\* catches up at most PaceBacklog turns at a time: each released turn uses up an
\* interval, and the anchor stays behind the clock (clock_allowance).
PacedByClock ==
    [][ config.scripted /\ readyTurn' > readyTurn
        => /\ readyTurn' - readyTurn <= PaceBacklog
           /\ anchor' <= now'
           /\ anchor' >= anchor + Interval * (readyTurn' - readyTurn) ]_vars

\* As long as a person blocks release the match moves on, whoever comes and goes
\* and however an observer that does not block stalls.
MatchProgresses ==
    \A n \in InitialReadyTurn .. MaxTurn - CommandDelay :
        phase = "InGame" /\ ~config.scripted /\ readyTurn = n
        ~> readyTurn # n \/ ~HumansBlock(clients, config.lagLimit, readyTurn)
=============================================================================
