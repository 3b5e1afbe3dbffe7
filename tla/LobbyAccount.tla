---------------------------- MODULE LobbyAccount ----------------------------
(***************************************************************************)
(* The task of one lobby account (run_account): what it knows of the game  *)
(* it hosts, the register requests it owes the game bot, and what it sends.*)
(*                                                                         *)
(* The task is a record and a handler maps it to the record after the      *)
(* handler.  What it sends is appended to `out`.  The attributes of a      *)
(* listing, its players and its map included, are the game and a number    *)
(* that changes with them.                                                 *)
(***************************************************************************)
EXTENDS Sequences

CONSTANT None

Stanza(kind) == [kind |-> kind, attrs |-> None]

\* A task as it starts, in personal mode or in the pool.
Started(personal) ==
    [personal |-> personal, assigned |-> None, unlisted |-> FALSE,
     lastSent |-> None, pending |-> None, debounce |-> FALSE, started |-> FALSE,
     playing |-> FALSE, bound |-> FALSE, out |-> <<>>]

Put(task, kind) == [task EXCEPT !.out = Append(@, Stanza(kind))]

PutIf(condition, task, kind) == IF condition THEN Put(task, kind) ELSE task

-----------------------------------------------------------------------------
(* The register requests an account owes the bot.                          *)

\* Mutant: the window of a listing that is dropped stays open.
ClearKeepsWindow(task) ==
    [task EXCEPT !.lastSent = None, !.pending = None, !.started = FALSE]

\* The bot's view is gone or belongs to another game.
Clear(task) ==
    [task EXCEPT !.lastSent = None, !.pending = None, !.debounce = FALSE, !.started = FALSE]

\* A listing waits for its window to close, unless the bot has it already.
Offer(task, attrs) ==
    IF task.pending = None /\ task.lastSent = attrs
    THEN task
    ELSE [task EXCEPT !.pending = attrs, !.debounce = TRUE]

Closed(task) == [task EXCEPT !.debounce = FALSE, !.pending = None]

Register(task, attrs) ==
    [task EXCEPT !.lastSent = attrs,
                 !.out = Append(@, [kind |-> "register", attrs |-> attrs])]

Flush(task) ==
    IF task.pending \in {None, task.lastSent}
    THEN Closed(task)
    ELSE Register(Closed(task), task.pending)

\* Mutant: a game that has started is listed again without saying so.
ResendRegister(task) ==
    LET newest == IF task.pending # None THEN task.pending ELSE task.lastSent
    IN  IF newest = None THEN [task EXCEPT !.debounce = FALSE]
                         ELSE Register(Closed(task), newest)

\* The bot forgot the game with the session, so it is listed again; the register
\* resets the game's state, so what it was follows.
Resend(task) ==
    LET newest == IF task.pending # None THEN task.pending ELSE task.lastSent
    IN  IF newest = None
        THEN [task EXCEPT !.debounce = FALSE]
        ELSE PutIf(task.started, Register(Closed(task), newest), "changestate")

\* Personal mode shows its player the way a stock client does.
SetPlaying(task, value) ==
    IF task.personal /\ task.playing # value
    THEN PutIf(task.bound, [task EXCEPT !.playing = value],
               IF value THEN "playing" ELSE "available")
    ELSE task

-----------------------------------------------------------------------------
(* The branches of the task's select.                                      *)

OnAssign(task, game) == Clear([task EXCEPT !.assigned = game, !.unlisted = FALSE])

OnRelease(task) ==
    SetPlaying(Clear([task EXCEPT !.assigned = None, !.unlisted = FALSE]), FALSE)

OnListing(task, attrs) ==
    SetPlaying([Offer(task, attrs) EXCEPT !.unlisted = FALSE], TRUE)

\* The bot expects the final register before the change of state.
OnStarted(task) ==
    LET told == IF task.bound THEN Put(Flush(task), "changestate") ELSE task
    IN  [told EXCEPT !.started = TRUE]

OnEnded(task) ==
    [PutIf(task.bound, Clear(task), "unregister") EXCEPT !.unlisted = TRUE]

OnUnlisted(task) ==
    LET off == PutIf(task.bound /\ ~task.unlisted, Clear(task), "unregister")
    IN  SetPlaying([off EXCEPT !.unlisted = TRUE], FALSE)

\* The game's thread dropped its sender.
OnGone(task) ==
    LET off == PutIf(task.bound /\ ~task.unlisted, Clear(task), "unregister")
    IN  SetPlaying([off EXCEPT !.assigned = None, !.unlisted = FALSE], FALSE)

\* A listing whose window closes offline stays for resend.
OnDebounce(task) == IF task.bound THEN Flush(task) ELSE [task EXCEPT !.debounce = FALSE]

\* A resumed session never left the room, so the bot still has the game.
OnOnline(task, resumed) ==
    LET joined == Put([task EXCEPT !.bound = TRUE], "join")
        shown == PutIf(task.personal /\ task.playing, joined, "playing")
    IN  IF resumed THEN shown ELSE Resend(shown)

\* Mutant: a client that is replaced takes the game along.
OnStreamEndForgets(task) ==
    [task EXCEPT !.bound = FALSE, !.out = <<>>, !.assigned = None]

\* The client is replaced, with whatever it had not sent.
OnStreamEnd(task) == [task EXCEPT !.bound = FALSE, !.out = <<>>]

OnShutdown(task) == PutIf(task.assigned # None /\ task.bound, task, "unregister")

\* handle_muc_message: a "hostme" counts only for an idle account of the pool.
HearsHostme(task) == ~task.personal /\ task.assigned = None /\ task.bound
=============================================================================
