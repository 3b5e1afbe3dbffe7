-------------------------------- MODULE Seats --------------------------------
(***************************************************************************)
(* Who is in a game and on which slot: the handshake of a connection, its  *)
(* admission, the slot table and what happens to a seat when its client    *)
(* leaves and comes back, the controller, kicks and bans, and the match    *)
(* being held for players who are away                                     *)
(* (src/src/relay/server_fsm.rs, slots.rs, session.rs, auth.rs), with the  *)
(* pause quota of PauseBudget.                                             *)
(*                                                                         *)
(* The game is in lobby mode: a client claims the name its lobby account   *)
(* vouches for.  What leaves no trace is left out: a connection the relay  *)
(* refuses (a banned address, too many handshakes from one, a mismatched   *)
(* build), an attempt to authenticate it refuses, a message it ignores.    *)
(*                                                                         *)
(* Abstracted: the order of the rows (a client recovers any row it may),   *)
(* peer ids and addresses (an admitted session is known by its             *)
(* uuid, those still in the handshake are counted), readiness, bans and    *)
(* the rate limits, what a joiner downloads (StateTransfer), turn release, *)
(* the AI host and personal mode.                                          *)
(***************************************************************************)
EXTENDS PauseBudget, Functions

CONSTANTS
    Name,             \* sanitized names
    Hosts,            \* the names the controller may have (lobby_host_name)
    Welcome,          \* the names LateObserverPolicy lets in
    Watchers,         \* the names of those who come only to watch
    Slot,             \* the playable slots
    AiPlayers,        \* how many further players the settings list
    MaxSessions,      \* Config::max_sessions
    ObserverLimit,    \* Config::observer_limit
    MaxPending,       \* bound on the sessions still in the handshake, the one asking included
    SharedSlots,      \* Config::shared_slots
    ReleaseController,\* Config::release_controller_on_leave
    None,             \* an absent value
    MaxRows           \* bound on the rows of the slot table

ASSUME SeatsAssumption ==
    /\ Uuid \subseteq Name \X Nat
    /\ Hosts \subseteq Name /\ Welcome \subseteq Name /\ Watchers \subseteq Name
    /\ None \notin Uuid
    /\ Slot \subseteq Nat \ {0}
    /\ {AiPlayers, ObserverLimit} \subseteq Nat /\ {MaxSessions, MaxPending, MaxRows} \subseteq Nat \ {0}
    /\ {SharedSlots, ReleaseController} \subseteq BOOLEAN

VARIABLES
    phase,      \* of the match: "setup", "loading", "ingame" or "postgame"
    sessions,   \* the admitted ones of Context::sessions, by uuid
    slots,      \* Context::slots, the rows by uuid
    controller, \* Context::controller
    forfeited,  \* Context::forfeited, of the rows there are
    resigned,   \* Context::resigned
    budget,     \* Context::pause_budget
    skews       \* how often the clock has stepped backwards

vars == <<phase, sessions, slots, controller, forfeited, resigned, budget, skews>>

Unassigned == -1

\* Admitted: the name and the role.
Session == [name : Name, role : {"setup", "syncing", "ingame"}]

Row == [name : Name, slot : Slot \cup {Unassigned}, connected : BOOLEAN]

Plays(row) == row.slot # Unassigned

\* slot_of is a playable slot.
IsPlayer(u) == u \in DOMAIN slots /\ slots[u].slot \in Slot

ConnectedPlayers == {u \in DOMAIN slots : slots[u].connected /\ Plays(slots[u])}
DisconnectedPlayers == {u \in DOMAIN slots : ~slots[u].connected /\ Plays(slots[u])}

\* How many sessions may be in the handshake (on_connected, on_syn_ack,
\* reap_stalled_handshakes) while one of them authenticates.
Handshakes == 1 .. MaxPending

\* sessions.len(), while `pending` of them are in the handshake.
Present(pending) == Cardinality(DOMAIN sessions) + pending

\* Guids are random: one issued is any that nothing refers to.
FreshUuids(name) ==
    {u \in Uuid : u[1] = name /\ u \notin DOMAIN sessions /\ u # controller /\ u \notin DOMAIN slots}

\* The least of those kept for the name stands for all.
IssueUuid(name) == {u \in FreshUuids(name) : \A v \in FreshUuids(name) : u[2] <= v[2]}

\* A table with one entry set, or replaced.
With(table, u, entry) == [v \in DOMAIN table \cup {u} |-> IF v = u THEN entry ELSE table[v]]

-----------------------------------------------------------------------------
(***************************************************************************)
(* The slot table.                                                         *)
(***************************************************************************)

Disconnect(row) == [name |-> row.name, slot |-> row.slot, connected |-> FALSE]

Seat(row, slot) == [name |-> row.name, slot |-> slot, connected |-> row.connected]

MarkDisconnected(table, us) ==
    [u \in DOMAIN table |-> IF u \in us THEN Disconnect(table[u]) ELSE table[u]]

\* A row left behind, its slot not held by a connected client as well.
Free(table, u) ==
    /\ ~table[u].connected
    /\ \/ SharedSlots \/ ~Plays(table[u])
       \/ \A v \in DOMAIN table : ~(table[v].connected /\ table[v].slot = table[u].slot)

\* A mutant of Recoverable: any row left behind will do.
RecoverAny(table, u, name) == {v \in DOMAIN table : Free(table, v)}

\* The rows a client may take over: by uuid first, then by name.
Recoverable(table, u, name) ==
    LET left == {v \in DOMAIN table : Free(table, v)}
    IN  IF u \in left THEN {u} ELSE {v \in left : table[v].name = name}

\* A mutant of PurgeDisconnected: who left during setup is kept.
PurgeNobody(table) == table

\* Slots::purge_disconnected.
PurgeDisconnected(table) == Restrict(table, {u \in DOMAIN table : table[u].connected})

\* Slots::assign: whoever held the slot holds none now.
AssignSlot(table, slot, u) ==
    [v \in DOMAIN table |->
        IF v = u THEN Seat(table[v], slot)
        ELSE IF slot # Unassigned /\ table[v].slot = slot THEN Seat(table[v], Unassigned)
             ELSE table[v]]

\* Slots::share: the partner holds the slot as well.
ShareSlot(table, slot, u) ==
    [v \in DOMAIN table |-> IF v = u THEN Seat(table[v], slot) ELSE table[v]]

-----------------------------------------------------------------------------
(***************************************************************************)
(* Arriving.                                                               *)
(***************************************************************************)

Init ==
    /\ phase = "setup"
    /\ sessions = << >>
    /\ slots = << >>
    /\ controller = None
    /\ forfeited = {} /\ resigned = {}
    /\ budget = NewBudget
    /\ skews = 0

\* What on_authenticate checks ahead of admit.
Accepted(name) ==
    /\ phase # "loading"
    /\ phase = "setup" => controller # None \/ name \in Hosts
    /\ \A u \in DOMAIN sessions : sessions[u].name # name

\* A match that runs takes a late observer in, while every player who left
\* still finds a place.
RoomForObserver(pending) ==
    /\ AtLeastZero(Present(pending) - Cardinality(ConnectedPlayers)) <= ObserverLimit
    /\ Present(pending) + Cardinality(DisconnectedPlayers) < MaxSessions

\* admit, for a client called name.
Admits(name, pending) ==
    IF phase = "setup" THEN Present(pending) < MaxSessions
    ELSE /\ phase # "postgame"
         /\ \/ \E v \in DisconnectedPlayers : slots[v].name = name
            \/ name \in Welcome /\ RoomForObserver(pending)

(***************************************************************************)
(* on_authenticate by a client lobby auth has vouched for, as one of       *)
(* `pending` that have come through on_connected and on_syn_ack, then      *)
(* admit_session: the first host in becomes the controller, and a client   *)
(* of a running match takes over the row it left, with its pause quota.    *)
(***************************************************************************)
Authenticate(name, pending) ==
    /\ Accepted(name) /\ Admits(name, pending)
    /\ \E u \in IssueUuid(name) :
          LET left == IF phase = "ingame" THEN Recoverable(slots, u, name) ELSE {}
              Admitted(slot) == [name |-> name, slot |-> slot, connected |-> TRUE]
          IN  /\ sessions' = With(sessions, u,
                                  [name |-> name,
                                   role |-> IF phase = "setup" THEN "setup" ELSE "syncing"])
              /\ controller' = IF controller = None /\ name \in Hosts THEN u ELSE controller
              /\ \/ /\ left = {} /\ Cardinality(DOMAIN slots) < MaxRows
                    /\ slots' = With(slots, u, Admitted(Unassigned))
                    /\ UNCHANGED <<budget, forfeited>>
                 \/ \E old \in left :
                    /\ slots' = With(Restrict(slots, DOMAIN slots \ {old}), u,
                                     Admitted(slots[old].slot))
                    /\ budget' = Inherit(budget, old, u)
                    /\ forfeited' = forfeited \ {old}
    /\ UNCHANGED <<phase, resigned, skews>>

-----------------------------------------------------------------------------
(***************************************************************************)
(* Leaving.                                                                *)
(***************************************************************************)

\* A fault, a flood or a join that found no state: any client may be told to
\* leave (disconnect).  Its seat counts as left at once, its session stays
\* until ENet confirms that the connection is gone.
Dismiss(u) ==
    /\ slots' = MarkDisconnected(slots, {u})
    /\ UNCHANGED <<phase, sessions, controller, forfeited, resigned, budget, skews>>

Remaining(us) == Restrict(sessions, DOMAIN sessions \ us)

\* on_disconnected for each of us: what the game remembers of them.
Departed(us) ==
    /\ sessions' = Remaining(us)
    /\ slots' = MarkDisconnected(slots, us)
    /\ budget' = UnpausedAll(budget, us)
    /\ controller' = IF ReleaseController /\ controller \in us THEN None ELSE controller

\* finish_if_everyone_loaded, of the sessions s.
EveryoneLoaded(s) ==
    /\ \A u \in DOMAIN s : s[u].role # "setup"
    /\ \E u \in DOMAIN s : s[u].role = "ingame"

\* ENet reports the connection gone, for whatever reason.
Disconnected(u) ==
    /\ Departed({u})
    /\ phase' = IF phase = "loading" /\ EveryoneLoaded(Remaining({u})) THEN "ingame" ELSE phase
    /\ UNCHANGED <<forfeited, resigned, skews>>

-----------------------------------------------------------------------------
(***************************************************************************)
(* Setup and loading.                                                      *)
(***************************************************************************)

\* on_map_player_id_to_slot, for any row of the table; the controller leaves
\* those who watch unassigned.
MapPlayerIdToSlot(slot, u) ==
    /\ phase = "setup" /\ controller \in DOMAIN sessions
    /\ slots[u].name \in Watchers => slot = Unassigned
    /\ slots' = AssignSlot(slots, slot, u)
    /\ UNCHANGED <<phase, sessions, controller, forfeited, resigned, budget, skews>>

\* on_share_command: a player shares its slot with an observer.
ShareCommand(u, partner) ==
    /\ phase = "setup" /\ SharedSlots
    /\ u # partner /\ sessions[partner].name \notin Watchers
    /\ partner \in DOMAIN slots /\ ~Plays(slots[partner])
    /\ IsPlayer(u) /\ slots' = ShareSlot(slots, slots[u].slot, partner)
    /\ UNCHANGED <<phase, sessions, controller, forfeited, resigned, budget, skews>>

\* on_start_settings: only the controller starts the match, once all are ready.
SettingsAccepted == phase = "setup" /\ controller \in DOMAIN sessions

\* begin_match: the rows of those who left are forgotten.
StartSettings ==
    /\ SettingsAccepted
    /\ phase' = "loading"
    /\ slots' = PurgeDisconnected(slots)
    /\ forfeited' = forfeited \cap DOMAIN slots'
    /\ UNCHANGED <<sessions, controller, resigned, budget, skews>>

Loaded(session) == [name |-> session.name, role |-> "ingame"]

\* on_loaded_game of a client on the loading screen.
LoadedGame(u) ==
    /\ phase = "loading" /\ sessions[u].role = "setup"
    /\ sessions' = [sessions EXCEPT ![u] = Loaded(@)]
    /\ phase' = IF EveryoneLoaded(sessions') THEN "ingame" ELSE phase
    /\ UNCHANGED <<slots, controller, forfeited, resigned, budget, skews>>

-----------------------------------------------------------------------------
(***************************************************************************)
(* The match.                                                              *)
(***************************************************************************)

\* A joiner has loaded the state it was given (StateTransfer), and is in.
JoinerLoaded(u) ==
    /\ phase = "ingame" /\ sessions[u].role = "syncing"
    /\ sessions' = [sessions EXCEPT ![u] = Loaded(@)]
    /\ UNCHANGED <<phase, slots, controller, forfeited, resigned, budget, skews>>

\* on_kicked: the target gives its player up.
Kicked(u) ==
    /\ controller \in DOMAIN sessions /\ u # controller
    /\ forfeited' = IF phase = "postgame" THEN {}
                    ELSE forfeited \cup ({u} \cap DOMAIN slots)
    /\ slots' = MarkDisconnected(slots, {u})
    /\ UNCHANGED <<phase, sessions, controller, resigned, budget, skews>>

\* on_player_pause: only a player with quota left can pause.
PlayerPause(u, pause) ==
    /\ phase \in {"ingame", "postgame"} /\ sessions[u].role = "ingame"
    /\ pause => IsPlayer(u) /\ budget.left[u] > 0
    /\ budget' = IF pause THEN Paused(budget, u) ELSE Unpaused(budget, u)
    /\ UNCHANGED <<phase, sessions, slots, controller, forfeited, resigned, skews>>

\* end_match.  Nothing asks any more who resigned or gave up, so the model
\* forgets it.
EndMatch == phase' = "postgame" /\ resigned' = {} /\ forfeited' = {}

\* resigned_out: at most one player has not resigned.
LastOneLeft(out) == Cardinality(Slot \ out) + AiPlayers <= 1

\* on_player_command with a resign, and what on_input makes of it.
Resign(u) ==
    /\ phase = "ingame" /\ sessions[u].role = "ingame"
    /\ IsPlayer(u)
    /\ LET now == resigned \cup {slots[u].slot}
       IN  IF LastOneLeft(now) THEN EndMatch
           ELSE resigned' = now /\ UNCHANGED <<phase, forfeited>>
    /\ UNCHANGED <<sessions, slots, controller, budget, skews>>

\* end_match: a checkpoint run saw the match decided, or it hit its cap.
MatchDecided ==
    /\ phase = "ingame"
    /\ EndMatch
    /\ UNCHANGED <<sessions, slots, controller, budget, skews>>

\* afk_absent: the players a match is held for, `silent` being those not
\* heard from for too long.
Away(u, silent) ==
    u \in DOMAIN sessions =>
        ~slots[u].connected \/ sessions[u].role # "ingame" \/ u \in silent

Absent(silent) ==
    {u \in DOMAIN slots :
        /\ Plays(slots[u]) /\ slots[u].slot \notin resigned /\ u \notin forfeited
        /\ budget.left[u] > 0
        /\ Away(u, silent)
        /\ \A v \in DOMAIN slots : slots[v].slot = slots[u].slot /\ v # u => Away(v, silent)}

\* loading_timed_out: those still loading count as gone at once.
Laggards == {u \in DOMAIN sessions : sessions[u].role = "setup"}

\* on_tick of a running or decided match, the clock having moved by `step`.
Tick(step, silent) ==
    /\ phase \in {"ingame", "postgame"}
    /\ step = -1 => skews < Skews
    /\ skews' = IF step = -1 THEN skews + 1 ELSE skews
    /\ budget' = Check(budget, step, Cardinality(ConnectedPlayers),
                       IF phase = "ingame" THEN Absent(silent) ELSE {})
    /\ UNCHANGED <<phase, sessions, slots, controller, forfeited, resigned>>

\* on_tick while loading, once the loading screen has timed out.
LoadingTimedOut ==
    /\ phase = "loading" /\ Laggards # {}
    /\ Departed(Laggards)
    /\ phase' = IF EveryoneLoaded(Remaining(Laggards)) THEN "ingame" ELSE phase
    /\ UNCHANGED <<forfeited, resigned, skews>>

Ingame == {u \in DOMAIN sessions : sessions[u].role = "ingame"}

Steps == {-1, 0, 1}

Next ==
    \/ \E name \in Name, pending \in Handshakes : Authenticate(name, pending)
    \/ \E slot \in Slot \cup {Unassigned}, u \in DOMAIN slots : MapPlayerIdToSlot(slot, u)
    \/ StartSettings \/ LoadingTimedOut \/ MatchDecided
    \/ \E u \in DOMAIN sessions :
          \/ Dismiss(u) \/ Disconnected(u) \/ Kicked(u)
          \/ \E partner \in DOMAIN sessions : ShareCommand(u, partner)
          \/ LoadedGame(u) \/ JoinerLoaded(u) \/ Resign(u)
          \/ \E pause \in BOOLEAN : PlayerPause(u, pause)
    \/ \E step \in Steps, silent \in SUBSET Ingame : Tick(step, silent)

\* The game thread ticks for ever, and the clock goes on.
TimePasses ==
    \E silent \in SUBSET Ingame : Tick(1, silent)

Spec == Init /\ [][Next]_vars /\ WF_vars(TimePasses)

-----------------------------------------------------------------------------

(***************************************************************************)
(* Every variable has its type; above all, no quota leaves 0 .. Budget,    *)
(* whatever the clock does (PauseBudget's saturating arithmetic).          *)
(***************************************************************************)
TypeOK ==
    /\ phase \in {"setup", "loading", "ingame", "postgame"}
    /\ DOMAIN sessions \subseteq Uuid /\ sessions \in [DOMAIN sessions -> Session]
    /\ DOMAIN slots \subseteq Uuid /\ slots \in [DOMAIN slots -> Row]
    /\ controller \in Uuid \cup {None}
    /\ forfeited \subseteq Uuid /\ resigned \subseteq Slot
    /\ budget \in PauseBudgets
    /\ skews \in 0 .. Skews

Started == phase # "setup"

\* Names are told apart among the admitted, and a row that counts as
\* connected is that of a session with its name (on_authenticate, reap).
SessionsHaveRows ==
    /\ \A u, v \in DOMAIN sessions : u # v => sessions[u].name # sessions[v].name
    /\ \A u \in DOMAIN slots : IF u \in DOMAIN sessions THEN sessions[u].name = slots[u].name
                               ELSE ~slots[u].connected

\* In a match a name has one row, through every departure and return, with
\* observers in between (Slots::recover).
OneRowEach == Started =>
    \A u, v \in DOMAIN slots : u # v => slots[u].name # slots[v].name

\* Whoever is in and whoever left a seat behind fit in max_sessions, one
\* place being free for the handshake of the one coming back (admit).
RoomToReturn == Started =>
    Cardinality({u \in DOMAIN slots : slots[u].connected \/ Plays(slots[u])}) < MaxSessions

\* The controller is never somebody who is gone (on_disconnected).
ControllerHere ==
    ReleaseController /\ controller # None => controller \in DOMAIN sessions

\* Whoever pauses is a player in the game: a pause does not outlive its
\* client's stay, on any of the ways out (clear_pausing).
PausersPlay ==
    \A u \in budget.pausing : IsPlayer(u) /\ u \in DOMAIN sessions /\ sessions[u].role = "ingame"

(***************************************************************************)
(* Sessions, the slot table, the controller and the pauses agree at every  *)
(* moment of a game, whoever comes, goes or comes back under a new uuid,   *)
(* and whatever is pending meanwhile.                                      *)
(***************************************************************************)
Seated == SessionsHaveRows /\ OneRowEach /\ RoomToReturn /\ ControllerHere /\ PausersPlay

(***************************************************************************)
(* Once a match has begun no player loses its slot, and nobody wins one    *)
(* (Slots::recover, admit); the quota of its name never grows either, so   *)
(* that nobody renews it by leaving and coming back, or by a clock that    *)
(* steps backwards (PauseBudget::inherit, check).                          *)
(***************************************************************************)
SeatsKept ==
    [][Started =>
        /\ \A u \in DOMAIN slots : Plays(slots[u]) =>
              \E v \in DOMAIN slots' : /\ slots'[v].name = slots[u].name
                                       /\ slots'[v].slot = slots[u].slot
                                       /\ budget'.left[v] <= budget.left[u]
        /\ \A v \in DOMAIN slots' : Plays(slots'[v]) =>
              \E u \in DOMAIN slots : /\ slots'[v].name = slots[u].name
                                      /\ slots'[v].slot = slots[u].slot]_vars

(***************************************************************************)
(* A match held for players who are away is not held for ever: they use    *)
(* their quota up, come back, give up or the match ends, whatever the      *)
(* others pause and although coming back begins the wait anew              *)
(* (PauseBudget::check, afk_absent).                                       *)
(***************************************************************************)
HoldsEnd == budget.held ~> ~budget.held
=============================================================================
