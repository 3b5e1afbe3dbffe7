---------------------------- MODULE LobbyHosting ----------------------------
(***************************************************************************)
(* Hosting games from lobby accounts: the main task that turns "hostme"    *)
(* requests and saved matches into games (run_pool_lobby_mode) or hosts    *)
(* one player's games one after another (run_personal_mode), the account   *)
(* tasks (LobbyAccount), the threads of the games, and the lobby's game    *)
(* bot.                                                                    *)
(*                                                                         *)
(* The main task, the account tasks and the games' threads run             *)
(* concurrently and meet only in their channels.  The sessions of the      *)
(* accounts with the lobby end, resume and start anew at any time; the bot *)
(* forgets a game when the session that listed it leaves the room.         *)
(***************************************************************************)
EXTENDS LobbyAccount, FiniteSetsExt

CONSTANTS Plans,        \* the ways the server is run
          Name,         \* the names people have in the lobby
          ControlCap    \* the capacity of an account's control queue (16)

ASSUME HostingAssumption ==
    /\ ControlCap \in Nat
    /\ None \notin Nat \cup Name \cup (Nat \X Nat)
    /\ None \notin [attrs : Nat \X Nat, running : BOOLEAN]
    /\ \A p \in Plans :
         /\ p.personal \in BOOLEAN /\ p.accounts \in Nat \ {0} /\ p.games \in Nat
         /\ p.saved \in Seq([host : Name, account : Nat]) /\ p.senders \subseteq Name
         /\ p.personal => p.accounts = 1 /\ p.name \in Name

VARIABLES plan, main, tasks, room, games, events, left

vars == <<plan, main, tasks, room, games, events, left>>

Accounts == 1 .. plan.accounts
GameIds == 1 .. plan.games

\* The bot has forgotten whatever the account's occupant listed.
Absent == [listing |-> None, busy |-> FALSE]

NoGame ==
    [phase |-> "none", host |-> None, resumed |-> FALSE, here |-> FALSE, rev |-> 0,
     account |-> 0, chan |-> <<>>]

\* The main task, about to host the saved matches or its own first game.  What was
\* refused is kept for the properties alone.
Begins ==
    [at |-> IF plan.personal THEN "next" ELSE "saving", job |-> None,
     saved |-> plan.saved, inUse |-> {}, refused |-> {}, active |-> {},
     senderOf |-> [a \in Accounts |-> None], gameOf |-> [a \in Accounts |-> None],
     next |-> 1]

Init ==
    /\ plan \in Plans
    /\ main = Begins
    /\ tasks = [a \in Accounts |->
                  [acc |-> Started(plan.personal), live |-> "running", control |-> <<>>,
                   link |-> IF a = 1 THEN "connecting" ELSE "asleep", news |-> <<>>]]
    /\ room = [a \in Accounts |-> Absent]
    /\ games = [g \in GameIds |-> NoGame]
    /\ events = <<>>
    /\ left = plan.left

Spend(what) == left[what] > 0 /\ left' = [left EXCEPT ![what] = @ - 1]

Running(g) == games[g].phase \in {"boot", "setup", "match", "over"}

\* In the pool: created and not destroyed.
Pooled(g) == games[g].phase \notin {"none", "destroyed"}

-----------------------------------------------------------------------------
(* The manager's side of an account.                                       *)

\* try_send: the queue may be full, or its task gone.
Accepts(a) == tasks[a].live = "running" /\ Len(tasks[a].control) < ControlCap

Told(a, message) ==
    IF Accepts(a) THEN [tasks EXCEPT ![a].control = Append(@, message)] ELSE tasks

Control(kind) == [kind |-> kind, game |-> 0]

\* reserve_free: the account that hosted the match before when it is free, else the
\* first that is.
FreeAccount(preferred) ==
    LET free == Accounts \ main.inUse
    IN  IF preferred \in free THEN preferred ELSE Min(free)

Reserved(m, job) == [m EXCEPT !.at = "hosting", !.job = job, !.inUse = @ \cup {job.account}]

\* LobbyGames::hosted: two saved matches can share a host, and only the first of them
\* holds its name, which is free once that one ends.  (Personal mode keeps the game's id alone.)
Hosted(m, job, g) ==
    [m EXCEPT !.active = @ \cup {job.host},
              !.senderOf = IF job.host \in m.active THEN @ ELSE [@ EXCEPT ![job.account] = job.host],
              !.gameOf[job.account] = g,
              !.next = g + 1]

\* An account that took no assignment is not given back.
Refused(m, job, g) == [m EXCEPT !.refused = @ \cup {job.account}, !.next = g + 1]

\* Where the main task goes on once a job is done.
Resumes(m, job, done) ==
    [m EXCEPT !.job = None,
              !.at = IF plan.personal THEN (IF done THEN "waiting" ELSE "quitting")
                     ELSE IF job.saved THEN "saving" ELSE "waiting"]

-----------------------------------------------------------------------------
(* The main task.                                                          *)

\* host_saved_matches: saved matches take free accounts ahead of any hostme.
HostSaved ==
    /\ main.at = "saving"
    /\ IF main.saved = <<>> \/ Accounts \subseteq main.inUse
       THEN main' = [main EXCEPT !.at = "waiting"]
       ELSE LET match == Head(main.saved)
                job == [account |-> FreeAccount(match.account), host |-> match.host, saved |-> TRUE]
            IN  main' = Reserved([main EXCEPT !.saved = Tail(@)], job)
    /\ UNCHANGED <<plan, tasks, room, games, events, left>>

\* run_personal_mode: the one account hosts the next game; the first one may be a
\* saved match.
HostPersonal ==
    /\ main.at = "next"
    /\ main' = IF 1 \in main.inUse
               THEN [main EXCEPT !.at = "quitting"]
               ELSE Reserved([main EXCEPT !.saved = <<>>],
                             [account |-> 1, host |-> plan.name, saved |-> main.saved # <<>>])
    /\ UNCHANGED <<plan, tasks, room, games, events, left>>

Released(m, a) == [m EXCEPT !.inUse = @ \ {a}]

\* host_lobby_game fails at the password hash or in create_game.
HostFails ==
    /\ main.at = "hosting"
    /\ Spend("fails")
    /\ main' = Resumes(Released(main, main.job.account), main.job, FALSE)
    /\ tasks' = Told(main.job.account, Control("release"))
    /\ UNCHANGED <<plan, room, games, events>>

\* create_game: the threads of the game are started.
Created(job) ==
    [NoGame EXCEPT !.phase = "boot", !.host = job.host, !.resumed = job.saved,
                   !.account = job.account]

\* host_lobby_game after the password hash: the game's threads are started and it is
\* handed to its account.  An account that takes no assignment stays reserved, and its
\* game is destroyed at once.
HostGame ==
    /\ main.at = "hosting"
    /\ main.next \in GameIds
    /\ LET job == main.job
           g == main.next
           taken == Accepts(job.account)
       IN  /\ games' = [games EXCEPT ![g] = IF taken THEN Created(job)
                                            ELSE [Created(job) EXCEPT !.phase = "destroyed"]]
           /\ tasks' = Told(job.account, [kind |-> "assign", game |-> g])
           /\ main' = Resumes(IF taken THEN Hosted(main, job, g) ELSE Refused(main, job, g),
                              job, taken)
    /\ UNCHANGED <<plan, room, events, left>>

\* A hostme is skipped while its sender hosts a game or when the account is busy.
TakeHostme ==
    /\ main.at = "waiting" /\ events # <<>> /\ Head(events).kind = "hostme"
    /\ LET event == Head(events)
           skipped == \/ plan.personal
                      \/ event.sender \in main.active
                      \/ event.account \in main.inUse
       IN  main' = IF skipped THEN main
                   ELSE Reserved(main, [account |-> event.account, host |-> event.sender, saved |-> FALSE])
    /\ events' = Tail(events)
    /\ UNCHANGED <<plan, tasks, room, games, left>>

\* Mutant: a game's end leaves the name of its host taken.
FreedWithoutName(m, a) == [m EXCEPT !.senderOf[a] = None, !.gameOf[a] = None]

\* The end of an account's game frees its host's name.
Freed(m, a) ==
    [m EXCEPT !.active = @ \ {m.senderOf[a]}, !.senderOf[a] = None, !.gameOf[a] = None]

\* destroy_game joins the threads of the game, which have ended, or end because they
\* are told to.
Destroyed(dead) == [g \in GameIds |-> IF g \in dead THEN [games[g] EXCEPT !.phase = "destroyed"]
                                                     ELSE games[g]]

\* An account's game has ended, and the main task goes on at `then`.
EndsGame(then) ==
    /\ main.at = "waiting" /\ events # <<>> /\ Head(events).kind = "ended"
    /\ LET a == Head(events).account
       IN  /\ games' = Destroyed({main.gameOf[a]})
           /\ main' = [Released(Freed(main, a), a) EXCEPT !.at = then]
           /\ tasks' = Told(a, Control("release"))
    /\ events' = Tail(events)
    /\ UNCHANGED <<plan, room, left>>

TakeGameEnded == ~plan.personal /\ EndsGame("saving")

\* In personal mode a fresh game is hosted.
TakePersonalEnded == plan.personal /\ EndsGame("next")

\* A signal, or every account task gone, ends the loop.
TakeSignal ==
    /\ main.at = "waiting"
    /\ \/ Spend("signals")
       \/ /\ events = <<>> /\ \A a \in Accounts : tasks[a].live # "running"
          /\ UNCHANGED left
    /\ main' = [main EXCEPT !.at = "quitting"]
    /\ UNCHANGED <<plan, tasks, room, games, events>>

\* LobbyManager::shutdown sends every task its Shutdown ...
ShutAccounts ==
    /\ main.at = "quitting"
    /\ main' = [main EXCEPT !.at = "closing"]
    /\ tasks' = [a \in Accounts |-> Told(a, Control("shutdown"))[a]]
    /\ UNCHANGED <<plan, room, games, events, left>>

\* ... and waits for them; then the pool is dropped, and every game with it.
DropPool ==
    /\ main.at = "closing"
    /\ \A a \in Accounts : tasks[a].live # "running"
    /\ main' = [main EXCEPT !.at = "stopped"]
    /\ games' = Destroyed({g \in GameIds : Pooled(g)})
    /\ UNCHANGED <<plan, tasks, room, events, left>>

-----------------------------------------------------------------------------
(* The account tasks.                                                      *)

\* Between two clients a task sleeps, and before its first one it is staggered.
Awake(a) == tasks[a].live = "running" /\ tasks[a].link # "asleep"

Handled(a, acc) == tasks' = [tasks EXCEPT ![a].acc = acc]

TakeControl(a) ==
    /\ Awake(a) /\ tasks[a].control # <<>>
    /\ LET message == Head(tasks[a].control)
           acc == tasks[a].acc
           rest == [tasks EXCEPT ![a].control = Tail(@)]
       IN  \/ /\ message.kind = "assign"
              /\ tasks' = [rest EXCEPT ![a].acc = OnAssign(acc, message.game)]
           \/ /\ message.kind = "release"
              /\ tasks' = [rest EXCEPT ![a].acc = OnRelease(acc)]
           \/ /\ message.kind = "shutdown"
              /\ tasks' = [rest EXCEPT ![a].acc = OnShutdown(acc), ![a].live = "exited"]
    /\ UNCHANGED <<plan, main, room, games, events, left>>

TakeGameEvent(a) ==
    /\ Awake(a) /\ tasks[a].acc.assigned # None
    /\ games[tasks[a].acc.assigned].chan # <<>>
    /\ LET acc == tasks[a].acc
           g == acc.assigned
           event == Head(games[g].chan)
       IN  /\ Handled(a, CASE event.kind = "listing" -> OnListing(acc, event.attrs)
                           [] event.kind = "started" -> OnStarted(acc)
                           [] event.kind = "ended" -> OnEnded(acc)
                           [] event.kind = "unlisted" -> OnUnlisted(acc))
           /\ games' = [games EXCEPT ![g].chan = Tail(@)]
    /\ UNCHANGED <<plan, main, room, events, left>>

\* The game's channel is drained and closed: the match ended.
TakeGameEnd(a) ==
    /\ Awake(a) /\ tasks[a].acc.assigned # None
    /\ LET g == tasks[a].acc.assigned
       IN  games[g].chan = <<>> /\ games[g].phase \in {"gone", "destroyed"}
    /\ Handled(a, OnGone(tasks[a].acc))
    /\ events' = Append(events, [kind |-> "ended", account |-> a, sender |-> None])
    /\ UNCHANGED <<plan, main, room, games, left>>

DebounceFires(a) ==
    /\ Awake(a) /\ tasks[a].acc.debounce
    /\ Handled(a, OnDebounce(tasks[a].acc))
    /\ UNCHANGED <<plan, main, room, games, events, left>>

\* A sender's hostme reaches every account in the room on its own.
HearHostme(a) ==
    /\ Awake(a) /\ HearsHostme(tasks[a].acc)
    /\ \E s \in plan.senders :
         events' = Append(events, [kind |-> "hostme", account |-> a, sender |-> s])
    /\ Spend("hostmes")
    /\ UNCHANGED <<plan, main, tasks, room, games>>

\* The client reports a session, new or resumed.
TakeOnline(a) ==
    /\ Awake(a) /\ tasks[a].news # <<>>
    /\ tasks' = [tasks EXCEPT ![a].acc = OnOnline(@, Head(tasks[a].news) = "resumed"),
                              ![a].news = Tail(@)]
    /\ UNCHANGED <<plan, main, room, games, events, left>>

\* The client's stream ended for good: the task replaces the client after a pause.
StreamEnds(a) ==
    /\ Awake(a) /\ tasks[a].news = <<>>
    /\ Spend("ends")
    /\ tasks' = [tasks EXCEPT ![a].acc = OnStreamEnd(@), ![a].link = "asleep"]
    /\ UNCHANGED <<plan, main, room, games, events>>

Wake(a) ==
    /\ tasks[a].live = "running" /\ tasks[a].link = "asleep"
    /\ tasks' = [tasks EXCEPT ![a].link = "connecting"]
    /\ UNCHANGED <<plan, main, room, games, events, left>>

\* A task that panics takes its channels along; its game runs on unseen.
Dies(a) ==
    /\ tasks[a].live = "running"
    /\ Spend("deaths")
    /\ tasks' = [tasks EXCEPT ![a].live = "dead", ![a].control = <<>>]
    /\ UNCHANGED <<plan, main, room, games, events>>

-----------------------------------------------------------------------------
(* The lobby.  The client reconnects on its own.                           *)

Alive(a) == tasks[a].live = "running"

Drop(a) ==
    /\ tasks[a].link = "up"
    /\ Spend("drops")
    /\ tasks' = [tasks EXCEPT ![a].link = "down"]
    /\ UNCHANGED <<plan, main, room, games, events>>

\* A resumed session lost nothing that was sent.
ResumeSession(a) ==
    /\ Alive(a) /\ tasks[a].link = "down"
    /\ tasks' = [tasks EXCEPT ![a].link = "up", ![a].news = Append(@, "resumed")]
    /\ UNCHANGED <<plan, main, room, games, events, left>>

\* A new session: the old occupant has left the room by then, and only what had not
\* been sent yet survives, in order.
NewSession(a) ==
    /\ Alive(a) /\ tasks[a].link \in {"connecting", "down", "left"}
    /\ \E k \in 1 .. Len(tasks[a].acc.out) + 1 :
         tasks' = [tasks EXCEPT ![a].link = "up", ![a].news = Append(@, "new"),
                                ![a].acc.out = SubSeq(@, k, Len(@))]
    /\ room' = [room EXCEPT ![a] = Absent]
    /\ UNCHANGED <<plan, main, games, events, left>>

\* The lobby notices that a session is gone, and the bot deletes its game.
LeaveRoom(a) ==
    /\ tasks[a].link \in {"down", "asleep", "connecting"} \/ ~Alive(a)
    /\ tasks[a].link = "down" \/ room[a] # Absent
    /\ room' = [room EXCEPT ![a] = Absent]
    /\ tasks' = [tasks EXCEPT ![a].link = IF @ = "down" \/ ~Alive(a) THEN "left" ELSE @]
    /\ UNCHANGED <<plan, main, games, events, left>>

\* What the lobby and its bot make of a stanza.
Heard(occupant, stanza) ==
    CASE stanza.kind = "register" ->
           [occupant EXCEPT !.listing = [attrs |-> stanza.attrs, running |-> FALSE]]
      [] stanza.kind = "changestate" ->
           IF occupant.listing = None THEN occupant ELSE [occupant EXCEPT !.listing.running = TRUE]
      [] stanza.kind = "unregister" -> [occupant EXCEPT !.listing = None]
      [] stanza.kind \in {"join", "available"} -> [occupant EXCEPT !.busy = FALSE]
      [] stanza.kind = "playing" -> [occupant EXCEPT !.busy = TRUE]

Deliver(a) ==
    /\ tasks[a].link = "up" /\ tasks[a].acc.out # <<>>
    /\ room' = [room EXCEPT ![a] = Heard(@, Head(tasks[a].acc.out))]
    /\ tasks' = [tasks EXCEPT ![a].acc.out = Tail(@)]
    /\ UNCHANGED <<plan, main, games, events, left>>

-----------------------------------------------------------------------------
(* The games' threads.                                                     *)

\* In personal mode a game is listed only while its player is in it.
Hidden(game) == plan.personal /\ ~game.here

Listing(g, rev) == [kind |-> "listing", attrs |-> <<g, rev>>]
Event(kind) == [kind |-> kind, attrs |-> None]

\* The game's end of its channel.
Push(g, game, more) ==
    games' = [games EXCEPT ![g] = [game EXCEPT !.chan = @ \o more]]

\* listen lists a fresh game at once, and resume a saved match as one in progress.
Open(g) ==
    /\ games[g].phase = "boot"
    /\ LET game == [games[g] EXCEPT !.phase = IF @ = "boot" /\ games[g].resumed THEN "match" ELSE "setup"]
       IN  Push(g, game, IF Hidden(game) THEN <<>>
                         ELSE IF game.resumed THEN <<Listing(g, 0), Event("started")>>
                         ELSE <<Listing(g, 0)>>)
    /\ UNCHANGED <<plan, main, tasks, room, events, left>>

\* The slots or the settings change during setup.
ChangeSlots(g) ==
    /\ games[g].phase = "setup" /\ ~Hidden(games[g]) /\ games[g].rev < plan.revs
    /\ Push(g, [games[g] EXCEPT !.rev = @ + 1], <<Listing(g, games[g].rev + 1)>>)
    /\ UNCHANGED <<plan, main, tasks, room, events, left>>

\* enter_loading.
StartMatch(g) ==
    /\ games[g].phase = "setup"
    /\ Push(g, [games[g] EXCEPT !.phase = "match"],
            IF Hidden(games[g]) THEN <<>> ELSE <<Event("started")>>)
    /\ UNCHANGED <<plan, main, tasks, room, events, left>>

\* end_match.
Decide(g) ==
    /\ games[g].phase = "match"
    /\ Push(g, [games[g] EXCEPT !.phase = "over"], <<Event("ended")>>)
    /\ UNCHANGED <<plan, main, tasks, room, events, left>>

\* The player of a personal account comes in: in setup the slots list the game, a
\* running match is listed again.
PlayerArrives(g) ==
    /\ games[g].phase \in {"setup", "match"} /\ Hidden(games[g]) /\ games[g].rev < plan.revs
    /\ LET rev == games[g].rev + 1
       IN  Push(g, [games[g] EXCEPT !.here = TRUE, !.rev = rev],
                <<Listing(g, rev)>> \o
                IF games[g].phase = "match" THEN <<Event("started")>> ELSE <<>>)
    /\ UNCHANGED <<plan, main, tasks, room, events, left>>

PlayerLeaves(g) ==
    /\ Running(g) /\ games[g].here
    /\ Push(g, [games[g] EXCEPT !.here = FALSE], <<Event("unlisted")>>)
    /\ UNCHANGED <<plan, main, tasks, room, events, left>>

\* The server thread returns, or panics, in any phase.
Exit(g) ==
    /\ Running(g)
    /\ Push(g, [games[g] EXCEPT !.phase = "gone", !.here = FALSE], <<>>)
    /\ UNCHANGED <<plan, main, tasks, room, events, left>>

-----------------------------------------------------------------------------
MainStep ==
    \/ HostSaved \/ HostPersonal \/ HostFails \/ HostGame
    \/ TakeHostme \/ TakeGameEnded \/ TakePersonalEnded
    \/ ShutAccounts \/ DropPool

TaskStep(a) ==
    \/ TakeControl(a) \/ TakeGameEvent(a) \/ TakeGameEnd(a) \/ DebounceFires(a)
    \/ HearHostme(a) \/ TakeOnline(a) \/ StreamEnds(a) \/ Wake(a) \/ Dies(a)

LobbyStep(a) == Drop(a) \/ ResumeSession(a) \/ NewSession(a) \/ LeaveRoom(a) \/ Deliver(a)

GameStep(g) ==
    \/ Open(g) \/ ChangeSlots(g) \/ StartMatch(g) \/ Decide(g)
    \/ PlayerArrives(g) \/ PlayerLeaves(g) \/ Exit(g)

Next ==
    \/ MainStep \/ TakeSignal
    \/ \E a \in Accounts : TaskStep(a) \/ LobbyStep(a)
    \/ \E g \in GameIds : GameStep(g)

Spec == Init /\ [][Next]_vars

\* The threads and tasks are scheduled, select! takes every branch that stays ready,
\* and a task's pause ends.  Nothing is assumed of players, signals or the lobby.
FairSpec ==
    /\ Spec
    /\ WF_vars(MainStep)
    /\ \A a \in 1 .. 2 :
         /\ WF_vars(a \in Accounts /\ TakeControl(a))
         /\ WF_vars(a \in Accounts /\ (TakeGameEvent(a) \/ TakeGameEnd(a)))
         /\ WF_vars(a \in Accounts /\ Wake(a))

-----------------------------------------------------------------------------
(* The properties.                                                         *)

TypeOK ==
    /\ plan \in Plans
    /\ main.at \in {"saving", "next", "hosting", "waiting", "quitting", "closing", "stopped"}
    /\ main.at = "hosting" => main.job \in [account : Accounts, host : Name, saved : BOOLEAN]
    /\ main.inUse \subseteq Accounts
    /\ main.next \in 1 .. plan.games + 1
    /\ \A a \in Accounts :
         /\ tasks[a].live \in {"running", "exited", "dead"}
         /\ tasks[a].link \in {"asleep", "connecting", "up", "down", "left"}
         /\ Len(tasks[a].control) <= ControlCap
         /\ tasks[a].acc.assigned \in GameIds \cup {None}
         /\ (tasks[a].acc.debounce => tasks[a].acc.pending # None)
    /\ \A g \in GameIds :
         games[g].phase \in {"none", "boot", "setup", "match", "over", "gone", "destroyed"}

\* The reports of the end of an account's game that the main task has not read, and
\* the orders to host a game that its account has not.
Reports(a) == {i \in DOMAIN events : events[i].kind = "ended" /\ events[i].account = a}

Orders(a, g) ==
    {i \in DOMAIN tasks[a].control : tasks[a].control[i] = [kind |-> "assign", game |-> g]}

Owed(g) ==
    LET a == games[g].account
    IN  Cardinality(Reports(a)) + Cardinality(Orders(a, g))
          + (IF tasks[a].acc.assigned = g THEN 1 ELSE 0)

\* The end of every game in the pool will be told exactly once: its account is on its
\* way to it, hosts it or has just reported it, unless that task is gone.
EndsAreTold ==
    \A g \in GameIds : Pooled(g) =>
        /\ main.gameOf[games[g].account] = g
        /\ tasks[games[g].account].live # "running" \/ Owed(g) = 1

\* An account is reserved only for a game, for the one being hosted on it, or because
\* it refused one, its task gone or its queue full; and no game runs on one that is not.
ReservedForAReason ==
    \A a \in Accounts :
        /\ main.gameOf[a] # None => a \in main.inUse
        /\ a \in main.inUse => \/ main.gameOf[a] # None
                               \/ main.at = "hosting" /\ main.job.account = a
                               \/ a \in main.refused

\* A saved match waits only while there is no account to host it.
SavedFirst ==
    ~plan.personal /\ main.at = "waiting" /\ main.saved # <<>> => Accounts \subseteq main.inUse

\* An earlier saved match of the host is gone.
SharedName(g) ==
    \E h \in 1 .. g - 1 :
        games[h].resumed /\ games[h].host = games[g].host /\ games[h].phase = "destroyed"

\* A name is taken only while a game of that host is in the pool.  A game that was asked
\* for holds its host's name, and no sender has two of them.  A saved match holds it too,
\* unless it shared the name with one that went before: saved matches of one host have one
\* claim on the name between them, and the code gives it up with the first to end, which
\* the comment at LobbyGames::hosted says it must not.
NamesHeld ==
    /\ \A s \in main.active : \E g \in GameIds : Pooled(g) /\ games[g].host = s
    /\ \A g \in GameIds : Pooled(g) /\ games[g].host \notin main.active =>
          games[g].resumed /\ SharedName(g)
    /\ \A g, h \in GameIds :
         Pooled(g) /\ Pooled(h) /\ ~games[g].resumed /\ ~games[h].resumed /\ games[g].host = games[h].host
         => g = h

HostingConsistent ==
    main.at # "stopped" => EndsAreTold /\ ReservedForAReason /\ SavedFirst /\ NamesHeld

\* Nothing is on its way between a game's thread, its account and the bot.
Settled(a) ==
    LET task == tasks[a]
    IN  /\ Alive(a) /\ task.link = "up" /\ task.news = <<>> /\ task.acc.out = <<>>
        /\ task.control = <<>> /\ ~task.acc.debounce
        /\ task.acc.assigned # None =>
             LET game == games[task.acc.assigned]
             IN  game.chan = <<>> /\ game.phase \notin {"boot", "gone", "destroyed"}

\* What the lobby should show of a game.
Shown(g) ==
    IF games[g].phase \in {"setup", "match"} /\ ~Hidden(games[g])
    THEN [attrs |-> <<g, games[g].rev>>, running |-> games[g].phase = "match"]
    ELSE None

\* Through every loss of the session, the lobby ends up showing the account's game as
\* it is, and none that is decided, over or left by its player; and the player of a
\* personal account is shown playing while in it.
LobbyShowsTheGame ==
    \A a \in Accounts : Settled(a) =>
        LET g == tasks[a].acc.assigned
        IN  IF g = None THEN room[a] = Absent
            ELSE /\ room[a].listing = Shown(g)
                 /\ room[a].busy = (plan.personal /\ games[g].here)

Lingers(g) == g \in GameIds /\ games[g].phase = "gone" /\ Alive(games[g].account)

\* Every game that ends is taken out of the pool, unless its account's task is gone, and
\* a shutdown comes to its end (GameEnded, destroy_game, LobbyManager::shutdown).
GamesGoAndServerStops ==
    /\ \A g \in 1 .. 3 : Lingers(g) ~> ~Lingers(g)
    /\ (main.at \in {"quitting", "closing"}) ~> (main.at = "stopped")
=============================================================================
