--------------------------- MODULE MatchLifecycle ---------------------------
(***************************************************************************)
(* A game from setup, or from a saved match, to its end: the phases of the *)
(* relay's state machine, the AI host that is lost and healed, the         *)
(* checkpoint that may find the match decided, and the game thread that    *)
(* feeds the machine and carries out what it asks for                      *)
(* (src/src/relay/server_fsm.rs, game_server.rs).                          *)
(*                                                                         *)
(* The machine is the record `match`; every handler maps it to the next    *)
(* one and adds what it asks for to `effects`.  The game thread hands it   *)
(* one input after another and carries the effects out, in their order, at *)
(* the end of its iteration (Drain), so several inputs may be handled      *)
(* before any effect is.  Of that order `effects` keeps what matters: the  *)
(* last word on the AI host's process and on the status of the bundle.     *)
(*                                                                         *)
(* Left to other modules: admission, the controller and the pause quotas   *)
(* (Seats; here a person is let in whenever the phase allows it, Host is   *)
(* the controller, and the hold for absent players is any tick's choice),  *)
(* how joiners and savers get a state (StateTransfer), which turns are     *)
(* released (TurnRelease), what the save bundle makes of a status          *)
(* (SaveBundle).  A start from a savegame is refused by the code, so the   *)
(* phase AwaitSavegame does not occur; the length cap is a decision.       *)
(***************************************************************************)
EXTENDS Integers, FiniteSets

CONSTANTS
    Person,      \* who may come
    Host,        \* the controller
    Config,      \* the settings a server may run with
    Attempts,    \* Config::ai_heal_attempts
    Interval,    \* Config::checkpoint_interval_turns, 0 for none
    MaxTurn,     \* bound on the turns released
    MaxRuns,     \* bound on the checkpoint runs
    MaxInputs    \* bound on the effects asked for when another input is handled before Drain

ASSUME LifecycleAssumption ==
    /\ Host \in Person
    /\ Config \subseteq [saving : BOOLEAN, dumps : BOOLEAN, scripted : BOOLEAN]
    /\ {Attempts, Interval} \subseteq Nat
    /\ {MaxTurn, MaxRuns, MaxInputs} \subseteq Nat \ {0}

VARIABLES
    config,  \* Context::config
    match,   \* the state machine, AnyServer
    process, \* AiHostSlot of the game thread
    run,     \* the checkpoint worker and its answer
    files,   \* what is left of the match: the status of its bundle and its outcome
    thread   \* the game thread: "playing", "closing" or "closed"

vars == <<config, match, process, run, files, thread>>

NoVerdict == -1
Due == 0

NoAi == [at |-> "none", heal |-> 0, verdict |-> NoVerdict]

Back == [at |-> "in", heal |-> 0, verdict |-> NoVerdict]

Away(heal, verdict) == [at |-> "away", heal |-> heal, verdict |-> verdict]

\* The AI host: where it is, the attempt to bring it back (0 when it is not
\* being healed; the first is made whatever the limit), and the verdict on the
\* match that its loss waits for: none, one that is due, or that of a
\* checkpoint run.
AiHosts ==
    [at : {"none", "away", "loading", "syncing", "in"}, heal : {1} \cup 0 .. Attempts,
     verdict : {NoVerdict, Due} \cup 1 .. MaxRuns]

\* loaded: in the game, its JOINED still to come.
Roles == {"out", "setup", "syncing", "loaded", "ingame"}

NoRun == [id |-> 0, turn |-> 0, scratch |-> FALSE]

\* Turn 1 stands for INITIAL_READY_TURN.
InitialTurn == 1

Statuses == {"started", "finished", "stopped", "abandoned"}

\* What the machine asks the game thread for, messages to clients apart.
Effects == {"spawn", "stop", "checkpoint", "ended", "over"} \cup Statuses

\* What is to be carried out: all of it, and the last of what concerns the
\* AI host's process and the status, "kept" when nothing does.
Asked == [all : SUBSET Effects, process : {"kept", "spawn", "stop"}, status : {"kept"} \cup Statuses]

NothingAsked == [all |-> {}, process |-> "kept", status |-> "kept"]

AlsoAsked(asked, effect) ==
    [all |-> asked.all \cup {effect},
     process |-> IF effect \in {"spawn", "stop"} THEN effect ELSE asked.process,
     status |-> IF effect \in Statuses THEN effect ELSE asked.status]

NoWorker == [stage |-> "idle", id |-> 0, result |-> "failed", cancelled |-> FALSE]

Matches ==
    [phase : {"setup", "await", "loading", "ingame", "resuming", "postgame"},
     role : [Person -> Roles],
     told : SUBSET Person,           \* whose client shows the relay's own pause
     ai : AiHosts,
     hosted : BOOLEAN,               \* a match to be resumed has AI players
     aiState : BOOLEAN,              \* Context::ai_state
     afk : BOOLEAN,                  \* PauseBudget::auto_paused
     turn : InitialTurn .. MaxTurn,
     base : 0 .. MaxTurn,            \* turn of the last of CheckpointChain::states, 0 for none
     probe : 0 .. MaxTurn,           \* CheckpointChain::probe, 0 for none
     prefetch : BOOLEAN,
     pending : [id : 0 .. MaxRuns, turn : 0 .. MaxTurn, scratch : BOOLEAN],
     nextId : 1 .. MaxRuns + 1,
     failures : 0 .. 1, disabled : BOOLEAN,
     resolvedBy : 0 .. MaxRuns,
     abandoned : BOOLEAN, kept : BOOLEAN,
     effects : Asked]

NewMatch ==
    [phase |-> "setup", role |-> [p \in Person |-> "out"], told |-> {}, ai |-> NoAi,
     hosted |-> FALSE, aiState |-> FALSE, afk |-> FALSE, turn |-> InitialTurn,
     base |-> 0, probe |-> 0, prefetch |-> FALSE, pending |-> NoRun, nextId |-> 1,
     failures |-> 0, disabled |-> FALSE, resolvedBy |-> 0,
     abandoned |-> FALSE, kept |-> FALSE, effects |-> NothingAsked]

Healing(m) == m.ai.heal > 0

InGame(m) == {p \in Person : m.role[p] \in {"loaded", "ingame"}}

Here(m) == {p \in Person : m.role[p] # "out"}

Emit(m, effect) == [m EXCEPT !.effects = AlsoAsked(@, effect)]

EmitIf(condition, m, effect) == IF condition THEN Emit(m, effect) ELSE m

-----------------------------------------------------------------------------
(***************************************************************************)
(* The AI host is lost, and healed.                                        *)
(***************************************************************************)

\* A mutant of ServerPause: whoever ends first lifts the pause.
PauseAtOnce(m, pause) ==
    [m EXCEPT !.told = IF pause THEN @ \cup InGame(m) ELSE @ \ InGame(m)]

\* server_pause: the hold for absent players and the heal share one pause.
ServerPause(m, pause) ==
    IF ~pause /\ (m.afk \/ Healing(m)) THEN m
    ELSE [m EXCEPT !.told = IF pause THEN @ \cup InGame(m) ELSE @ \ InGame(m)]

\* spawn_ai_host
SpawnAiHost(m) == Emit(Emit(m, "stop"), "spawn")

\* ai_heal_gave_up
HealGaveUp(m) ==
    LET gone == Emit([m EXCEPT !.ai = NoAi], "stop")
    IN  IF m.phase = "resuming" THEN gone
        ELSE IF config.scripted
        THEN Emit(EmitIf(config.saving, gone, "finished"), "over")
        ELSE IF config.saving /\ m.aiState
        THEN Emit(Emit([gone EXCEPT !.kept = TRUE], "stopped"), "over")
        ELSE IF Healing(m) THEN ServerPause(gone, FALSE) ELSE gone

\* A mutant of RetryHeal: attempts are not counted.
RetryForEver(m) ==
    IF m.ai.verdict # NoVerdict THEN m ELSE SpawnAiHost([m EXCEPT !.ai.at = "away"])

\* A mutant of RetryHeal: one attempt too many.
RetryOnceMore(m) ==
    IF m.ai.verdict # NoVerdict THEN m
    ELSE IF m.ai.heal > Attempts THEN HealGaveUp(m)
    ELSE SpawnAiHost([m EXCEPT !.ai = Away(@.heal + 1, NoVerdict)])

\* retry_ai_heal, of a match whose AI host is being healed.
RetryHeal(m) ==
    IF m.ai.verdict # NoVerdict THEN m
    ELSE IF m.ai.heal >= Attempts THEN HealGaveUp(m)
    ELSE SpawnAiHost([m EXCEPT !.ai = Away(@.heal + 1, NoVerdict)])

\* ai_host_lost
AiHostLost(m) ==
    LET away == [m EXCEPT !.ai.at = "away"]
        healing(verdict) == [m EXCEPT !.ai = Away(1, verdict)]
    IN  IF Healing(m) THEN RetryHeal(away)
        ELSE IF m.phase = "ingame" /\ config.dumps THEN ServerPause(healing(Due), TRUE)
        ELSE IF ~m.aiState THEN HealGaveUp(away)
        ELSE SpawnAiHost(IF m.phase = "resuming" THEN healing(NoVerdict)
                         ELSE ServerPause(healing(NoVerdict), TRUE))

\* on_disconnected of the AI host's connection.
AiHostLeft(m) ==
    IF m.phase \in {"ingame", "resuming"} THEN AiHostLost(m)
    ELSE Emit([m EXCEPT !.ai = NoAi], "stop")

\* on_ai_host_exited in the phases that heal; a start that waits for the AI
\* host is refused by AwaitAiHost.
AiHostExited(m) ==
    IF m.phase \notin {"ingame", "resuming"} \/ m.ai.at = "none" THEN m
    ELSE IF m.ai.at # "away" THEN AiHostLost(m)
    ELSE IF Healing(m) THEN RetryHeal(m) ELSE m

\* on_joined of the AI host, ai_host_healed
AiHostHealed(m) ==
    LET back == [m EXCEPT !.ai = Back]
    IN  IF Healing(m) /\ m.phase # "resuming" THEN ServerPause(back, FALSE) ELSE back

-----------------------------------------------------------------------------
(***************************************************************************)
(* The match ends, or is checked.                                          *)
(***************************************************************************)

\* What only a match that can still be won has a use for.
Unchecked(m) ==
    [m EXCEPT !.base = 0, !.probe = 0, !.prefetch = FALSE, !.pending = NoRun, !.failures = 0,
              !.disabled = FALSE, !.aiState = FALSE, !.hosted = FALSE]

\* end_match, decided by the checkpoint run `by`, or otherwise (0).
EndMatch(m, by) ==
    LET ended == Emit(m, "ended")
        freed == IF Healing(m) THEN ServerPause(Emit([ended EXCEPT !.ai = NoAi], "stop"), FALSE)
                 ELSE ended
    IN  EmitIf(config.saving, [Unchecked(freed) EXCEPT !.phase = "postgame", !.resolvedBy = by],
               "finished")

\* maybe_checkpoint's `due`.
CheckpointDue(m) ==
    IF m.prefetch \/ m.ai.verdict = Due THEN m.turn > m.base
    ELSE \/ m.turn >= m.base + Interval
         \/ m.probe # 0 /\ m.turn > m.probe /\ m.turn > m.base

\* maybe_checkpoint
MaybeCheckpoint(m) ==
    IF \/ ~config.dumps \/ Interval = 0 \/ m.disabled \/ m.pending # NoRun \/ ~CheckpointDue(m)
       \/ m.nextId > MaxRuns
    THEN m
    ELSE Emit([m EXCEPT !.pending = [id |-> m.nextId, turn |-> m.turn, scratch |-> m.base = 0],
                        !.nextId = @ + 1, !.prefetch = FALSE,
                        !.probe = IF @ < m.turn THEN 0 ELSE @,
                        !.ai.verdict = IF @ = Due THEN m.nextId ELSE @],
              "checkpoint")

\* The run whose verdict is waited for is in flight, or has yet to begin.
StillOpen(m) ==
    IF m.ai.verdict = Due THEN m.pending # NoRun ELSE m.ai.verdict = m.pending.id

\* settle_ai_verdict
SettleVerdict(m) ==
    LET settled == [m EXCEPT !.ai.verdict = NoVerdict]
    IN  IF m.ai.verdict = NoVerdict \/ StillOpen(m) THEN m
        ELSE IF m.aiState THEN SpawnAiHost(settled) ELSE HealGaveUp(settled)

\* The end of Server<InGame>::on_input: after every input that did not end
\* the match.
AfterInput(m) ==
    IF m.phase = "ingame" THEN SettleVerdict(MaybeCheckpoint(m)) ELSE m

\* abandon
Abandon(m) ==
    IF m.abandoned THEN m
    ELSE Emit(EmitIf(config.saving, [m EXCEPT !.abandoned = TRUE], "abandoned"), "over")

\* The end of Server<Resuming>::on_input: a match without its AI players is
\* not worth restarting.
AfterResuming(m) ==
    IF m.phase = "resuming" /\ m.hosted /\ m.ai.at = "none" THEN Abandon(m) ELSE m

After(m) == AfterInput(AfterResuming(m))

\* on_checkpointed: the answer to run `id`, "failed", "open" or "decided".
Checkpointed(m, id, result) ==
    LET done == [m EXCEPT !.pending = NoRun]
        failed == IF m.pending.scratch THEN [done EXCEPT !.disabled = TRUE]
                  ELSE IF m.failures = 1 THEN [done EXCEPT !.failures = 0, !.base = 0]
                  ELSE [done EXCEPT !.failures = 1]
        stored == [done EXCEPT !.failures = 0,
                               !.base = IF @ < m.pending.turn THEN m.pending.turn ELSE @]
    IN  IF m.pending.id # id THEN AfterInput(m)
        ELSE IF result = "failed" THEN AfterInput(failed)
        ELSE IF result = "decided" THEN EndMatch(stored, id)
        ELSE AfterInput(stored)

\* on_restored
Restored(m, id, result) ==
    LET done == [m EXCEPT !.pending = NoRun]
    IN  IF m.pending.id # id THEN m
        ELSE IF result = "failed" THEN Abandon(done)
        ELSE [done EXCEPT !.base = m.pending.turn]

-----------------------------------------------------------------------------
(***************************************************************************)
(* Setup and loading.                                                      *)
(***************************************************************************)

\* refuse_start
RefuseStart(m) ==
    LET refused == Emit([m EXCEPT !.phase = "setup", !.ai = NoAi], "stop")
    IN  EmitIf(config.scripted, refused, "over")

\* hold_for_ai_host
HoldForAiHost(m) ==
    Emit([m EXCEPT !.phase = "await", !.ai.at = "away"], "spawn")

\* finish_if_everyone_loaded and all_loaded
FinishLoading(m) ==
    IF /\ m.phase = "loading" /\ m.ai.at # "loading"
       /\ \A p \in Person : m.role[p] # "setup"
       /\ InGame(m) # {} \/ m.ai.at = "in"
    THEN EmitIf(config.saving, [m EXCEPT !.phase = "ingame"], "started")
    ELSE m

\* on_disconnected of some people.
Gone(m, ps) ==
    [m EXCEPT !.role = [p \in Person |-> IF p \in ps THEN "out" ELSE m.role[p]],
              !.told = @ \ ps]

\* loading_timed_out: who is still loading counts as gone at once.
LoadingTimedOut(m) ==
    LET present == Gone(m, {p \in Person : m.role[p] = "setup"})
    IN  FinishLoading(IF m.ai.at = "loading" THEN AiHostLeft(present) ELSE present)

-----------------------------------------------------------------------------
(***************************************************************************)
(* The clock: what Tick does of it, in the order of on_tick.               *)
(***************************************************************************)

\* idle_shutdown_due
IdleShutdown(m) ==
    IF Here(m) # {} \/ m.phase = "resuming" THEN m
    ELSE Emit(EmitIf(m.phase = "ingame" /\ config.saving, m, "finished"), "over")

\* check_ai_heal_timeout
HealTimedOut(m) == IF Healing(m) THEN RetryHeal(m) ELSE m

\* PauseBudget::check and on_budget_event: whether the match is held for
\* players who are away.
CheckBudget(m, absent) ==
    LET afk == absent /\ m.phase = "ingame"
    IN  IF m.phase \notin {"ingame", "postgame"} \/ afk = m.afk THEN m
        ELSE IF afk THEN [m EXCEPT !.afk = TRUE, !.told = @ \cup InGame(m), !.prefetch = TRUE]
        ELSE ServerPause([m EXCEPT !.afk = FALSE, !.prefetch = FALSE], FALSE)

\* admit_timed_out, loading_timed_out, gave_up or close_due, by phase.
PhaseTimedOut(m) ==
    CASE m.phase = "await" -> RefuseStart(m)
      [] m.phase = "loading" -> LoadingTimedOut(m)
      [] m.phase = "resuming" /\ Here(m) = {} -> Abandon(m)
      [] m.phase = "postgame" -> Emit(m, "over")
      [] OTHER -> m

\* release_turns, where the clients, or the clock of a scripted match, may
\* have made the next turn due.
Releases(m) ==
    {m} \cup (IF m.phase \in {"ingame", "postgame"} /\ m.turn < MaxTurn
              THEN {[m EXCEPT !.turn = @ + 1]} ELSE {})

\* One tick, with the limits that are over at it: the set of its results.
Ticked(before, idle, heal, phase, absent) ==
    LET idled == {IF idle THEN IdleShutdown(m) ELSE m : m \in {before}}
        healed == {IF heal THEN HealTimedOut(m) ELSE m : m \in idled}
        checked == {CheckBudget(m, absent) : m \in healed}
        paced == IF config.scripted THEN UNION {Releases(m) : m \in checked} ELSE checked
        late(m) == phase \/ (m.phase = "postgame" /\ Here(m) = {})
        limited == {IF late(m) THEN PhaseTimedOut(m) ELSE m : m \in paced}
    IN  {After(m) : m \in limited}

-----------------------------------------------------------------------------
(***************************************************************************)
(* The game thread.                                                        *)
(***************************************************************************)

\* AiHostSlot::spawn and its stop: the process before is let go first, and
\* one that cannot be spawned counts as one that has exited.
ProcessAfter(asked, works) ==
    [at |-> CASE asked.process = "kept" -> process.at
              [] asked.process = "stop" -> "none"
              [] asked.process = "spawn" -> IF works THEN "dialing" ELSE "none",
     exited |-> process.exited \/ ("spawn" \in asked.all /\ ~works)]

\* The bundle, and the outcome: what the run that decided the match wrote
\* last becomes final, `by` being that run.
FilesAfter(asked, by) ==
    LET ended == "ended" \in asked.all
    IN  [status |-> IF asked.status = "kept" THEN files.status ELSE asked.status,
         outcome |-> IF ended /\ files.last # 0 /\ files.last = by THEN "final" ELSE files.outcome,
         last |-> IF ended THEN 0 ELSE files.last]

\* The machine goes with its thread; what outcome_request asked of it is left.
Dropped(m) ==
    [NewMatch EXCEPT !.phase = m.phase, !.turn = m.turn, !.resolvedBy = m.resolvedBy, !.kept = m.kept]

Begun(id) == [stage |-> "running", id |-> id, result |-> "failed", cancelled |-> FALSE]

Cancelled(worker, cancelled) ==
    [stage |-> worker.stage, id |-> worker.id, result |-> worker.result, cancelled |-> cancelled]

\* The end of an iteration: drain carries out what the machine m asks for.
DrainOf(m, works) ==
    LET over == "over" \in m.effects.all
        after == ProcessAfter(m.effects, works)
    IN  /\ match' = IF over THEN Dropped(m) ELSE [m EXCEPT !.effects = NothingAsked]
        /\ process' = [at |-> IF over THEN "none" ELSE after.at, exited |-> after.exited]
        /\ files' = FilesAfter(m.effects, m.resolvedBy)
        /\ run' = Cancelled(IF "checkpoint" \in m.effects.all THEN Begun(m.nextId - 1) ELSE run, over)
        /\ thread' = IF over THEN "closing" ELSE "playing"
        /\ UNCHANGED config

\* A process may fail to start.
Works(m) == IF "spawn" \in m.effects.all THEN BOOLEAN ELSE {TRUE}

Drain ==
    /\ thread = "playing" /\ match.effects # NothingAsked
    /\ \E works \in Works(match) : DrainOf(match, works)

\* An iteration starts with the exit of the AI host, and goes on with the rest.
Awaits == thread = "playing" /\ ~process.exited

\* A limit may be over where it runs.
Limit(running) == IF running THEN BOOLEAN ELSE {FALSE}

\* An iteration with a tick; the tick is the last input before drain.
Tick(idle, heal, phase, absent) ==
    /\ Awaits
    /\ \E m \in Ticked(match, idle, heal, phase, absent) :
           \E works \in Works(m) : DrainOf(m, works)

\* Another input is handled in the same iteration.
Handles(m) ==
    /\ Awaits /\ Cardinality(match.effects.all) < MaxInputs
    /\ match' = m

\* take_exit
ExitReported ==
    /\ thread = "playing" /\ (process.at = "dead" \/ process.exited)
    /\ Cardinality(match.effects.all) < MaxInputs
    /\ match' = (IF match.phase = "await" THEN RefuseStart(match) ELSE After(AiHostExited(match)))
    /\ process' = [at |-> IF process.at = "dead" THEN "none" ELSE process.at, exited |-> FALSE]
    /\ UNCHANGED <<config, run, files, thread>>

\* The answer of the worker is taken off its channel.
CheckpointArrives ==
    /\ Awaits /\ run.stage = "answered"
    /\ match' = CASE match.phase = "ingame" -> Checkpointed(match, run.id, run.result)
                   [] match.phase = "resuming" -> After(Restored(match, run.id, run.result))
                   [] OTHER -> match
    /\ files' = IF run.result = "failed" THEN files ELSE [files EXCEPT !.last = run.id]
    /\ run' = NoWorker
    /\ UNCHANGED <<config, process, thread>>

\* The end of run, once its loop is left: the process is let go and the runs in
\* flight are told to stop.
LeavesLoop(to) ==
    /\ thread' = to
    /\ process' = [process EXCEPT !.at = "none"]
    /\ run' = [run EXCEPT !.cancelled = TRUE]
    /\ match' = Dropped(match)
    /\ UNCHANGED config

\* saved_on_stop: only a running match is worth resuming.
SavedOnStop == config.saving /\ match.phase \in {"ingame", "resuming"}

\* stop: a match that is kept is marked so before anyone is dropped.
Marked == IF SavedOnStop THEN [files EXCEPT !.status = "stopped"] ELSE files

\* The operator's stop, at the end of an iteration.  A match that is kept has
\* no outcome to replay.
StopRequested ==
    /\ thread = "playing" /\ match.effects = NothingAsked
    /\ LeavesLoop(IF SavedOnStop THEN "stopped" ELSE "closing")
    /\ files' = Marked

\* The ENet thread has died: the game thread ends with what the inputs of
\* this iteration asked for undone.
EnetDies ==
    /\ Awaits
    /\ LeavesLoop("lost")
    /\ UNCHANGED files

\* outcome_request: a match that ran, is over and was not decided by a run.
WantsOutcome ==
    /\ thread \in {"closing", "lost"} /\ config.dumps /\ match.turn > InitialTurn /\ ~match.kept
    /\ match.phase = "ingame" \/ (match.phase = "postgame" /\ match.resolvedBy = 0)

\* A mutant of WorkerGone: a worker that is told to stop counts as gone.
WorkerTold == run.cancelled

\* CheckpointSlot::stop has joined the worker.
WorkerGone == run.stage \in {"idle", "answered"}

\* spawn_outcome: the match is replayed for its outcome, if it has one.
Replayed(replayed) ==
    IF WantsOutcome /\ replayed THEN [files EXCEPT !.outcome = "final"] ELSE files

\* The thread has ended.
Close(replayed) ==
    /\ thread # "playing" /\ thread # "closed" /\ WorkerGone
    /\ thread' = "closed"
    /\ files' = Replayed(replayed)
    /\ UNCHANGED <<config, match, process, run>>

-----------------------------------------------------------------------------
(***************************************************************************)
(* The world around the game thread.                                       *)
(***************************************************************************)

\* The checkpoint worker's run ends, and it looks at its cancel flag; a
\* cancelled run is one that failed.
RunEnds(result) ==
    /\ run.stage = "running"
    /\ run.cancelled => result = "failed"
    /\ run' = [run EXCEPT !.result = result,
                          !.stage = IF result = "failed" THEN "answered" ELSE "writing"]
    /\ UNCHANGED <<config, match, process, files, thread>>

\* It writes the progress of the match to the outcome file, and answers.
RunWrites ==
    /\ run.stage = "writing"
    /\ files' = [files EXCEPT !.outcome = "progress"]
    /\ run' = [run EXCEPT !.stage = "answered"]
    /\ UNCHANGED <<config, match, process, thread>>

\* The AI host's process dies of itself; so far nobody has looked.
ProcessDies ==
    /\ process.at \in {"dialing", "dialed"}
    /\ process' = [process EXCEPT !.at = "dead"]
    /\ UNCHANGED <<config, match, run, files, thread>>

Input(m) == Handles(m) /\ UNCHANGED <<config, process, run, files, thread>>

\* The AI host dials in, on_authenticate.
AiHostArrives ==
    /\ process.at = "dialing" /\ match.ai.at = "away"
    /\ match.phase \in {"await", "ingame", "resuming"}
    /\ Handles(IF match.phase = "await" THEN [match EXCEPT !.phase = "loading", !.ai.at = "loading"]
               ELSE After([match EXCEPT !.ai.at = "syncing"]))
    /\ process' = [process EXCEPT !.at = "dialed"]
    /\ UNCHANGED <<config, run, files, thread>>

\* It has loaded the match, or the state it was given.
AiHostLoads ==
    \/ match.ai.at = "loading" /\ Input(FinishLoading([match EXCEPT !.ai.at = "in"]))
    \/ match.ai.at = "syncing" /\ Input(After(AiHostHealed(match)))

\* ENet reports its connection gone.
AiHostDrops ==
    /\ match.ai.at \notin {"none", "away"}
    /\ \E m \in Releases(FinishLoading(AiHostLeft(match))) : Input(After(m))

\* A state pulled from it is kept for its next loss.
AiStatePulled ==
    /\ match.phase = "ingame" /\ match.ai.at = "in"
    /\ Input(After([match EXCEPT !.aiState = TRUE]))

\* A state pulled from a player joins the checkpoints.
StatePulled(turn) ==
    /\ match.phase = "ingame" /\ InGame(match) # {}
    /\ match.base < turn /\ turn <= match.turn
    /\ Input(After([match EXCEPT !.base = turn]))

TurnReleased ==
    /\ config.scripted \/ InGame(match) # {}
    /\ \E m \in Releases(match) \ {match} : Input(After(m))

\* on_authenticate, as Seats has it.
Arrives(p) ==
    /\ match.role[p] = "out"
    /\ match.phase \in {"setup", "await", "ingame", "resuming"}
    /\ match.phase = "setup" => ~config.scripted
    /\ Input(After([match EXCEPT !.role[p] = IF match.phase \in {"setup", "await"} THEN "setup"
                                             ELSE "syncing"]))

\* on_start_settings
StartSettings(hosted) ==
    /\ match.phase = "setup" /\ match.role[Host] = "setup"
    /\ Input(IF hosted THEN HoldForAiHost(match) ELSE [match EXCEPT !.phase = "loading"])

\* on_loaded_game of those loading the match, and of those joining it.
Loads(p) ==
    \/ match.phase = "loading" /\ match.role[p] = "setup"
       /\ Input(FinishLoading([match EXCEPT !.role[p] = "ingame"]))
    \/ match.role[p] = "syncing" /\ Input(After([match EXCEPT !.role[p] = "loaded"]))

\* on_joined: the joiner hears of the pause it missed.
Joined(p) ==
    /\ match.role[p] = "loaded"
    /\ LET held == match.afk \/ Healing(match) \/ match.phase = "resuming"
       IN  Input(After([match EXCEPT !.role[p] = "ingame",
                                     !.told = IF held THEN @ \cup {p} ELSE @]))

\* on_disconnected: a player that leaves may have decided the match.
Leaves(p) ==
    /\ match.role[p] # "out"
    /\ LET left == Gone(match, {p})
           probe == [left EXCEPT !.probe = IF @ = 0 THEN left.turn ELSE @]
       IN  CASE match.phase = "await" ->
                    Input(IF left.role[Host] = "out" /\ ~config.scripted THEN RefuseStart(left) ELSE left)
             [] match.phase = "loading" -> Input(FinishLoading(left))
             [] match.phase = "ingame" -> \E m \in Releases(left) \cup Releases(probe) : Input(After(m))
             [] OTHER -> Input(After(left))

\* A player resigns, and resigned_out: the last one left has won.
Resigns(p) ==
    /\ match.phase = "ingame" /\ p \in InGame(match)
    /\ \/ Input(EndMatch(match, 0))
       \/ Input(After([match EXCEPT !.probe = IF @ = 0 THEN match.turn ELSE @]))

\* on_resume_command, resume_match
Resumes(p) ==
    /\ match.phase = "resuming" /\ p \in InGame(match)
    /\ match.pending = NoRun /\ ~Healing(match)
    /\ Input([match EXCEPT !.phase = "ingame", !.hosted = FALSE, !.told = @ \ InGame(match)])

-----------------------------------------------------------------------------

\* Server<Idle>::resume of a bundle, with resume_ai_host and start_restore.
Resumed(hosted, base) ==
    LET saved == [NewMatch EXCEPT !.phase = "resuming", !.hosted = hosted]
        healing == [saved EXCEPT !.ai = Away(1, NoVerdict), !.aiState = TRUE]
        back == IF hosted THEN SpawnAiHost(healing) ELSE saved
    IN  IF base = back.turn THEN [back EXCEPT !.base = base]
        ELSE IF ~config.dumps THEN back
        ELSE Emit([back EXCEPT !.nextId = 2,
                               !.pending = [id |-> 1, turn |-> back.turn, scratch |-> base = 0]],
                  "checkpoint")

Init ==
    /\ config \in Config
    /\ \/ /\ match = IF config.scripted THEN HoldForAiHost(NewMatch) ELSE NewMatch
          /\ files = [status |-> "none", outcome |-> "none", last |-> 0]
       \/ /\ config.saving /\ ~config.scripted
          /\ \E hosted \in BOOLEAN, base \in {0, InitialTurn} : match = Resumed(hosted, base)
          /\ files = [status |-> "started", outcome |-> "none", last |-> 0]
    /\ process = [at |-> "none", exited |-> FALSE]
    /\ run = NoWorker
    /\ thread = "playing"

Next ==
    \/ Drain
    \/ \E idle \in Limit(Here(match) = {}), heal \in Limit(Healing(match)),
           phase, absent \in BOOLEAN : Tick(idle, heal, phase, absent)
    \/ ExitReported \/ CheckpointArrives \/ StopRequested \/ EnetDies
    \/ \E replayed \in BOOLEAN : Close(replayed)
    \/ \E result \in {"failed", "open", "decided"} : RunEnds(result)
    \/ RunWrites \/ ProcessDies
    \/ AiHostArrives \/ AiHostLoads \/ AiHostDrops \/ AiStatePulled \/ TurnReleased
    \/ \E turn \in InitialTurn .. MaxTurn : StatePulled(turn)
    \/ \E hosted \in BOOLEAN : StartSettings(hosted)
    \/ \E p \in Person : Arrives(p) \/ Loads(p) \/ Joined(p) \/ Leaves(p) \/ Resigns(p) \/ Resumes(p)

\* The clock goes on until the limit of a heal is over.
HealOverdue == Healing(match) /\ \E absent \in BOOLEAN : Tick(FALSE, TRUE, FALSE, absent)

Fairness ==
    /\ WF_vars(Drain) /\ WF_vars(ExitReported) /\ WF_vars(HealOverdue) /\ WF_vars(CheckpointArrives)
    /\ WF_vars(\E result \in {"failed", "open", "decided"} : RunEnds(result))
    /\ WF_vars(RunWrites)

Spec == Init /\ [][Next]_vars /\ Fairness

-----------------------------------------------------------------------------

\* Every variable stays in its type; in particular the attempts at a heal
\* stay within Config::ai_heal_attempts.
TypeOK ==
    /\ config \in Config /\ match \in Matches
    /\ process \in [at : {"none", "dialing", "dialed", "dead"}, exited : BOOLEAN]
    /\ run \in [stage : {"idle", "running", "writing", "answered"}, id : 0 .. MaxRuns,
                result : {"failed", "open", "decided"}, cancelled : BOOLEAN]
    /\ files \in [status : Statuses \cup {"none"}, outcome : {"none", "progress", "final"},
                  last : 0 .. MaxRuns]
    /\ thread \in {"playing", "closing", "stopped", "lost", "closed"}

Held == match.afk \/ Healing(match) \/ match.phase = "resuming"

\* Two holds share one pause of the relay's, and each may begin and end while
\* the other lasts; so every client in the game shows it exactly while one
\* of them, or the wait of a resumed match, is on.
HoldsAgree ==
    thread = "playing" /\ "over" \notin match.effects.all =>
        \A p \in Person : match.role[p] = "ingame" => (p \in match.told <=> Held)

\* Between iterations the machine and the process it asked for fit: none runs
\* that nobody waits for, an AI host that is awaited is on its way or its
\* failure is about to be reported, and a verdict that is waited for is one
\* that a checkpoint run will give.
AiHostAwaited ==
    thread = "playing" /\ match.effects = NothingAsked =>
        /\ process.at # "none" => match.ai.at # "none"
        /\ match.ai.at = "away" /\ match.ai.verdict = NoVerdict =>
              process.at \in {"dialing", "dead"} \/ process.exited
        /\ match.ai.verdict # NoVerdict => match.pending # NoRun

\* A match that a checkpoint run decided is not replayed for its outcome, so
\* what that run wrote must have become it.
DecidedIsFinal ==
    match.resolvedBy # 0 /\ match.effects = NothingAsked /\ thread \in {"playing", "closing"} =>
        files.outcome = "final"

\* The machine agrees with what the game thread made of its effects: the
\* pauses the clients show, the process and the run it waits for, and the
\* outcome on disk.
MatchConsistent == HoldsAgree /\ AiHostAwaited /\ DecidedIsFinal

\* A final outcome is never overwritten by the progress of a checkpoint run
\* that was in flight when the match ended.
FinalStays == [][files.outcome = "final" => files'.outcome = "final"]_vars

\* A match held for its AI players is held for a bounded time: whatever the
\* processes, the runs and the people do, the heal succeeds, gives up, or ends
\* with the match.
HealEnds == (thread = "playing" /\ Healing(match)) ~> (thread # "playing" \/ ~Healing(match))
=============================================================================
