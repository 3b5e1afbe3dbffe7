------------------------- MODULE MatchLifecycle_proofs -------------------------
(***************************************************************************)
(* Proofs about MatchLifecycle, for every set of people, every number of   *)
(* attempts at a heal, interval of checkpoints and bound on turns, runs    *)
(* and inputs: what the game thread made of the machine's effects agrees   *)
(* with the machine, and a final outcome is never overwritten.             *)
(*                                                                         *)
(* An input leaves effects that are still to be carried out, so the        *)
(* inductive invariant speaks of the machine and of what it asks for       *)
(* together: the process there will be, the run there will be.  Each       *)
(* handler has a lemma of two parts.  Quiet: it leaves checkpoints and     *)
(* verdicts alone, and keeps what it was asked for.  Calm: the pauses, the *)
(* AI host's place and its process fit afterwards, unless the game is      *)
(* over.  What an input ends with, After, then sees to the checkpoint that *)
(* is due and to the verdict that is waited for.                           *)
(***************************************************************************)
EXTENDS MatchLifecycle, FiniteSetTheorems, TLAPS

\* The machine has ended the game.
Over(m) == "over" \in m.effects.all

\* A process that is wanted in the end was asked for.
Sound(m) == m \in Matches /\ (m.effects.process = "spawn" => "spawn" \in m.effects.all)

\* Why the match is held.
HeldBy(m) == m.afk \/ Healing(m) \/ m.phase = "resuming"

\* The pauses that clients show, those still on their way into the game included.
Pauses(m) ==
    /\ m.told \subseteq InGame(m)
    /\ m.told # {} => HeldBy(m)
    /\ HeldBy(m) => \A p \in Person : m.role[p] = "ingame" => p \in m.told
    /\ m.phase \notin {"ingame", "postgame"} => ~m.afk

\* Where the AI host may be in each phase.
AiPlace(m) ==
    /\ m.phase = "setup" => m.ai.at = "none"
    /\ m.phase = "await" => m.ai.at = "away"
    /\ m.phase = "loading" => m.ai.at \in {"none", "loading", "in"}
    /\ m.phase = "postgame" => m.ai.at \in {"none", "in"}
    /\ m.phase \in {"ingame", "resuming"} =>
          m.ai.at # "loading" /\ (m.ai.heal = 0 <=> m.ai.at \in {"none", "in"})
    /\ m.phase \notin {"ingame", "resuming"} => m.ai.heal = 0
    /\ m.phase # "ingame" \/ m.ai.heal = 0 => m.ai.verdict = NoVerdict

\* The process p, once what is asked for is done, is that of an AI host that
\* is awaited, and one that is awaited is on its way.
Processes(m, p) ==
    LET asked == m.effects.process
    IN  /\ asked = "spawn" \/ (asked = "kept" /\ p.at # "none") => m.ai.at # "none"
        /\ m.ai.at = "away" /\ m.ai.verdict = NoVerdict =>
              \/ asked = "spawn" \/ p.exited
              \/ asked = "kept" /\ p.at \in {"dialing", "dead"}

\* Unless the game is over, when nothing of it matters any more.
Calm(m, p) == Over(m) \/ (Pauses(m) /\ AiPlace(m) /\ Processes(m, p))

\* Before a match there is nothing to check.
Early(m) == m.phase \in {"setup", "await", "loading"}

\* One checkpoint run at a time, the one that is waited for, until the match
\* is decided.
Runs(m, w) ==
    IF m.phase = "postgame" THEN m.pending = NoRun
    ELSE IF Early(m) \/ m.pending = NoRun
    THEN m.pending = NoRun /\ w.stage = "idle" /\ "checkpoint" \notin m.effects.all
    ELSE /\ m.pending.id = m.nextId - 1 /\ m.pending.id # 0
         /\ IF "checkpoint" \in m.effects.all THEN w.stage = "idle"
            ELSE w.stage # "idle" /\ w.id = m.pending.id

\* The run that decided the match was the last, and what it wrote is the
\* outcome or about to be.
Decided(m, w, f) ==
    /\ f.outcome = "final" => m.resolvedBy # 0
    /\ m.resolvedBy # 0 =>
          /\ m.phase = "postgame" /\ w.stage = "idle" /\ "checkpoint" \notin m.effects.all
          /\ \/ f.outcome = "final"
             \/ "ended" \in m.effects.all /\ f.last = m.resolvedBy

\* The machine and what the game thread has made of it fit.
Fits(m, p, w, f) == Sound(m) /\ Calm(m, p) /\ Runs(m, w) /\ Decided(m, w, f)

\* A verdict that is waited for will be given.
VerdictComes(m) == Over(m) \/ m.ai.verdict = NoVerdict \/ m.pending # NoRun

\* What is to be said of what is left once the game thread is leaving.
Leaving ==
    /\ files.outcome = "final" => run.stage \in {"idle", "answered"}
    /\ thread = "closing" /\ match.resolvedBy # 0 => files.outcome = "final"

\* The inductive invariant: while the game is played everything fits; after
\* that only the outcome and its run are left to speak of.
IInv ==
    /\ TypeOK
    /\ IF thread = "playing"
       THEN Fits(match, process, run, files) /\ VerdictComes(match)
       ELSE Leaving

-----------------------------------------------------------------------------
(* A machine and the one a handler makes of it.                            *)

\* Phase, people, pauses and checkpoints are as before.
SameGame(m, n) ==
    /\ n.phase = m.phase /\ n.role = m.role /\ n.told = m.told /\ n.afk = m.afk
    /\ n.pending = m.pending /\ n.nextId = m.nextId /\ n.resolvedBy = m.resolvedBy

\* What is asked for stays asked for, and no run is besides.
StillAsks(m, n) ==
    /\ m.effects.all \subseteq n.effects.all
    /\ "checkpoint" \in n.effects.all => "checkpoint" \in m.effects.all

\* A step that leaves checkpoints and verdicts alone.
Quiet(m, n) ==
    /\ Sound(m) => Sound(n)
    /\ StillAsks(m, n)
    /\ n.pending = m.pending /\ n.nextId = m.nextId /\ n.resolvedBy = m.resolvedBy
    /\ n.phase = "postgame" <=> m.phase = "postgame"
    /\ Early(n) => Early(m)

\* A quiet step keeps the runs and the outcome as they are.
LEMMA QuietRuns ==
    ASSUME NEW m, NEW n, Quiet(m, n), NEW w, NEW f
    PROVE  /\ Runs(m, w) => Runs(n, w)
           /\ Decided(m, w, f) => Decided(n, w, f)
BY DEF Quiet, StillAsks, Runs, Decided, Early

\* Quiet steps compose.
LEMMA QuietTwice ==
    ASSUME NEW l, NEW m, NEW n, Quiet(l, m), Quiet(m, n)
    PROVE  Quiet(l, n)
BY DEF Quiet, StillAsks, Early

\* take_effects finds what was emitted, and nothing else has changed.
LEMMA EmitFields ==
    ASSUME NEW m \in Matches, NEW effect \in Effects, NEW n, n = Emit(m, effect)
    PROVE  /\ n \in Matches /\ n.ai = m.ai /\ SameGame(m, n)
           /\ n.aiState = m.aiState /\ n.hosted = m.hosted /\ n.turn = m.turn /\ n.base = m.base
           /\ n.effects.all = m.effects.all \cup {effect}
           /\ n.effects.process = IF effect \in {"spawn", "stop"} THEN effect ELSE m.effects.process
BY DEF Emit, Matches, AlsoAsked, Asked, Effects, SameGame

\* Every effect but a checkpoint is quiet.
LEMMA EmitQuiet ==
    ASSUME NEW m, Sound(m), NEW effect \in Effects \ {"checkpoint"}, NEW n, n = Emit(m, effect)
    PROVE  Quiet(m, n) /\ Sound(n)
<1>1. m \in Matches /\ effect \in Effects /\ effect # "checkpoint"
  BY DEF Sound
<1>2. /\ n \in Matches /\ SameGame(m, n)
      /\ n.effects.all = m.effects.all \cup {effect}
      /\ n.effects.process = IF effect \in {"spawn", "stop"} THEN effect ELSE m.effects.process
  BY <1>1, EmitFields
<1>3. Sound(n)
  BY <1>2 DEF Sound
<1>4. StillAsks(m, n)
  BY <1>1, <1>2 DEF StillAsks
<1>. QED  BY <1>2, <1>3, <1>4 DEF Quiet, SameGame, Early

\* A word to the bundle or of the end changes nothing else.
LEMMA EmitCalm ==
    ASSUME NEW m, Sound(m), NEW effect \in {"ended", "over"} \cup Statuses, NEW n,
           n = Emit(m, effect), NEW p
    PROVE  /\ Quiet(m, n) /\ Sound(n) /\ SameGame(m, n) /\ n.ai = m.ai
           /\ n.aiState = m.aiState /\ n.hosted = m.hosted
           /\ n.effects.process = m.effects.process
           /\ effect \in n.effects.all
           /\ Pauses(m) => Pauses(n)
           /\ Calm(m, p) => Calm(n, p)
<1>1. /\ m \in Matches /\ effect \in Effects \ {"checkpoint"} /\ effect \notin {"spawn", "stop"}
  BY DEF Sound, Effects, Statuses
<1>2. Quiet(m, n) /\ Sound(n)
  BY <1>1, EmitQuiet
<1>3. /\ SameGame(m, n) /\ n.ai = m.ai /\ n.aiState = m.aiState /\ n.hosted = m.hosted
      /\ n.effects.all = m.effects.all \cup {effect} /\ n.effects.process = m.effects.process
  BY <1>1, EmitFields
<1>4. Pauses(m) => Pauses(n)
  BY <1>3 DEF SameGame, Pauses, HeldBy, Healing, InGame
<1>5. Calm(m, p) => Calm(n, p)
  BY <1>3, <1>4 DEF SameGame, Calm, Over, AiPlace, Processes
<1>. QED  BY <1>2, <1>3, <1>4, <1>5

\* The same of an effect that depends on a condition.
LEMMA EmitIfCalm ==
    ASSUME NEW m, Sound(m), NEW effect \in {"ended", "over"} \cup Statuses, NEW condition,
           NEW n, n = EmitIf(condition, m, effect), NEW p
    PROVE  /\ Quiet(m, n) /\ Sound(n) /\ SameGame(m, n) /\ n.ai = m.ai
           /\ n.aiState = m.aiState /\ n.hosted = m.hosted
           /\ n.effects.process = m.effects.process
           /\ Pauses(m) => Pauses(n)
           /\ Calm(m, p) => Calm(n, p)
<1>1. CASE n = m
  BY <1>1 DEF Quiet, StillAsks, SameGame, Early
<1>2. CASE n = Emit(m, effect)
  BY <1>2, EmitCalm
<1>. QED  BY <1>1, <1>2 DEF EmitIf

\* A change of the AI host alone.
LEMMA AiFields ==
    ASSUME NEW m \in Matches, NEW ai \in AiHosts, NEW n, n = [m EXCEPT !.ai = ai]
    PROVE  /\ n \in Matches /\ n.ai = ai /\ SameGame(m, n) /\ n.effects = m.effects
           /\ n.aiState = m.aiState /\ n.hosted = m.hosted /\ n.turn = m.turn /\ n.base = m.base
BY DEF Matches, SameGame

\* The values the handlers give to the AI host.
LEMMA AiTypes ==
    /\ NoAi \in AiHosts
    /\ \A heal \in {1} \cup 0 .. Attempts, verdict \in {NoVerdict, Due} :
          Away(heal, verdict) \in AiHosts
<1>1. 0 \in 0 .. Attempts
  BY LifecycleAssumption
<1>. QED  BY <1>1 DEF NoAi, Away, AiHosts

\* A heal is a number of attempts.
LEMMA AiRange ==
    ASSUME NEW m \in Matches
    PROVE  m.ai \in AiHosts /\ m.ai.heal \in Nat /\ (Healing(m) <=> m.ai.heal # 0)
BY LifecycleAssumption DEF Matches, AiHosts, Healing

\* A change of the AI host that leaves alone whether it is being healed.
LEMMA AiQuiet ==
    ASSUME NEW m, Sound(m), NEW ai \in AiHosts, NEW n, n = [m EXCEPT !.ai = ai]
    PROVE  /\ Quiet(m, n) /\ Sound(n) /\ SameGame(m, n) /\ n.ai = ai /\ n.effects = m.effects
           /\ n.aiState = m.aiState /\ n.hosted = m.hosted
           /\ Pauses(m) /\ (ai.heal = 0 <=> m.ai.heal = 0) => Pauses(n)
<1>1. m \in Matches
  BY DEF Sound
<1>2. /\ n \in Matches /\ n.ai = ai /\ SameGame(m, n) /\ n.effects = m.effects
      /\ n.aiState = m.aiState /\ n.hosted = m.hosted
  BY <1>1, AiFields
<1>3. Quiet(m, n) /\ Sound(n)
  BY <1>2 DEF Sound, Quiet, StillAsks, SameGame, Early
<1>4. (Healing(m) <=> m.ai.heal # 0) /\ (Healing(n) <=> n.ai.heal # 0)
  BY <1>1, <1>2, AiRange
<1>. QED  BY <1>2, <1>3, <1>4 DEF SameGame, Pauses, HeldBy, InGame

\* Those who may be shown a pause.
Audiences == SUBSET Person

\* What server_pause does to the machine.
Telling(m, shown) == [m EXCEPT !.told = shown]

\* To tell of a pause is quiet.
LEMMA ToldFields ==
    ASSUME NEW m, Sound(m), NEW shown \in Audiences, NEW n, n = Telling(m, shown)
    PROVE  Quiet(m, n) /\ Sound(n)
<1>1. n \in Matches /\ n.told = shown
  BY DEF Sound, Matches, Telling, Audiences
<1>. QED  BY <1>1 DEF Sound, Quiet, StillAsks, Matches, Telling, Early

\* The pause begins.
LEMMA Paused ==
    ASSUME NEW m, Sound(m), NEW n, n = ServerPause(m, TRUE)
    PROVE  /\ Quiet(m, n) /\ Sound(n) /\ n.ai = m.ai /\ n.effects = m.effects
           /\ n.aiState = m.aiState /\ n.hosted = m.hosted /\ n.phase = m.phase
           /\ n.role = m.role /\ n.afk = m.afk /\ n.told = m.told \cup InGame(m)
<1>. DEFINE shown == m.told \cup InGame(m)
<1>1. shown \in Audiences
  BY DEF Sound, Matches, InGame, Audiences
<1>2. n = Telling(m, shown)
  BY DEF ServerPause, Telling
<1>. HIDE DEF shown
<1>3. Quiet(m, n) /\ Sound(n)
  BY <1>1, <1>2, ToldFields
<1>4. /\ n.ai = m.ai /\ n.effects = m.effects
      /\ n.aiState = m.aiState /\ n.hosted = m.hosted /\ n.phase = m.phase
      /\ n.role = m.role /\ n.afk = m.afk /\ n.told = shown
  BY <1>1, <1>2 DEF Telling, Sound, Matches
<1>. QED  BY <1>3, <1>4 DEF shown

\* It ends, unless there is another reason for it.
LEMMA Unpaused ==
    ASSUME NEW m, Sound(m), NEW n, n = ServerPause(m, FALSE)
    PROVE  /\ Quiet(m, n) /\ Sound(n) /\ n.ai = m.ai /\ n.effects = m.effects
           /\ n.aiState = m.aiState /\ n.hosted = m.hosted /\ n.phase = m.phase
           /\ n.role = m.role /\ n.afk = m.afk
           /\ n.told = IF m.afk \/ Healing(m) THEN m.told ELSE m.told \ InGame(m)
<1>1. m \in Matches
  BY DEF Sound
<1>2. CASE n = m /\ (m.afk \/ Healing(m))
  BY <1>1, <1>2 DEF Sound, Quiet, StillAsks, Early
<1>3. CASE n = [m EXCEPT !.told = m.told \ InGame(m)] /\ ~(m.afk \/ Healing(m))
  <2>. DEFINE shown == m.told \ InGame(m)
  <2>1. shown \in Audiences /\ n = Telling(m, shown)
    BY <1>1, <1>3 DEF Matches, Telling, Audiences
  <2>. HIDE DEF shown
  <2>2. Quiet(m, n) /\ Sound(n)
    BY <2>1, ToldFields
  <2>3. /\ n.ai = m.ai /\ n.effects = m.effects
        /\ n.aiState = m.aiState /\ n.hosted = m.hosted /\ n.phase = m.phase
        /\ n.role = m.role /\ n.afk = m.afk /\ n.told = shown
    BY <2>1 DEF Telling, Sound, Matches
  <2>. QED  BY <1>3, <2>2, <2>3 DEF shown
<1>. QED  BY <1>2, <1>3 DEF ServerPause

-----------------------------------------------------------------------------
(* The AI host is lost, and healed.                                        *)

\* spawn_ai_host asks for the old process to go and for a new one, in this order.
LEMMA SpawnFields ==
    ASSUME NEW m, Sound(m), NEW n, n = SpawnAiHost(m)
    PROVE  /\ Quiet(m, n) /\ Sound(n) /\ SameGame(m, n) /\ n.ai = m.ai
           /\ n.aiState = m.aiState /\ n.hosted = m.hosted
           /\ n.effects.process = "spawn"
           /\ Pauses(m) => Pauses(n)
<1>. DEFINE k == Emit(m, "stop")
<1>1. n = Emit(k, "spawn") /\ {"stop", "spawn"} \subseteq Effects \ {"checkpoint"}
  BY DEF SpawnAiHost, Effects
<1>2. m \in Matches
  BY DEF Sound
<1>3. /\ k \in Matches /\ k.ai = m.ai /\ SameGame(m, k) /\ k.aiState = m.aiState /\ k.hosted = m.hosted
  BY <1>1, <1>2, EmitFields
<1>4. Quiet(m, k) /\ Sound(k)
  BY <1>1, EmitQuiet
<1>. HIDE DEF k
<1>5. /\ n.ai = k.ai /\ SameGame(k, n) /\ n.aiState = k.aiState /\ n.hosted = k.hosted
      /\ n.effects.process = "spawn"
  BY <1>1, <1>3, EmitFields
<1>6. Quiet(k, n) /\ Sound(n)
  BY <1>1, <1>4, EmitQuiet
<1>7. SameGame(m, n) /\ n.ai = m.ai
  BY <1>3, <1>5 DEF SameGame
<1>8. Pauses(m) => Pauses(n)
  BY <1>7 DEF SameGame, Pauses, HeldBy, Healing, InGame
<1>. QED  BY <1>3, <1>4, <1>5, <1>6, <1>7, <1>8, QuietTwice

\* Nobody is awaited, and nothing runs.
LEMMA NobodyAwaited ==
    ASSUME NEW n, Over(n) \/ Pauses(n), n.ai = NoAi, n.effects.process = "stop",
           n.phase # "await", NEW p
    PROVE  Calm(n, p)
BY DEF Calm, AiPlace, Processes, NoAi

\* Somebody is awaited, and asked for, or a verdict is.
LEMMA Awaited ==
    ASSUME NEW n, Over(n) \/ Pauses(n), n.phase \in {"ingame", "resuming"},
           n.ai.at \in {"away", "syncing"}, n.ai.heal # 0,
           n.phase # "ingame" => n.ai.verdict = NoVerdict,
           n.effects.process = "spawn" \/ n.ai.verdict # NoVerdict, NEW p
    PROVE  Calm(n, p)
BY DEF Calm, AiPlace, Processes

\* ai_heal_gave_up: the AI host is gone for good; the game is over, or the
\* pause of the heal is lifted.
LEMMA HealGaveUpFields ==
    ASSUME NEW m, Sound(m), NEW n, n = HealGaveUp(m)
    PROVE  /\ Quiet(m, n) /\ Sound(n) /\ n.phase = m.phase
           /\ n.ai = NoAi /\ n.effects.process = "stop"
           /\ Pauses(m) => Over(n) \/ Pauses(n)
<1>. DEFINE k == [m EXCEPT !.ai = NoAi]
            gone == Emit(k, "stop")
<1>1. m \in Matches /\ "stop" \in Effects \ {"checkpoint"} /\ {"finished", "stopped"} \subseteq Statuses
  BY DEF Sound, Effects, Statuses
<1>2. /\ k \in Matches /\ k.ai = NoAi /\ SameGame(m, k) /\ k.effects = m.effects
  BY <1>1, AiFields, AiTypes
<1>3. Quiet(m, k) /\ Sound(k)
  BY <1>2 DEF Sound, Quiet, StillAsks, SameGame, Early
<1>. HIDE DEF k
<1>4. /\ gone \in Matches /\ gone.ai = NoAi /\ SameGame(m, gone) /\ gone.effects.process = "stop"
  BY <1>1, <1>2, EmitFields DEF SameGame
<1>5. Quiet(m, gone) /\ Sound(gone)
  BY <1>1, <1>3, EmitQuiet, QuietTwice
<1>6. n = IF m.phase = "resuming" THEN gone
          ELSE IF config.scripted
          THEN Emit(EmitIf(config.saving, gone, "finished"), "over")
          ELSE IF config.saving /\ m.aiState
          THEN Emit(Emit([gone EXCEPT !.kept = TRUE], "stopped"), "over")
          ELSE IF Healing(m) THEN ServerPause(gone, FALSE) ELSE gone
  BY DEF HealGaveUp, gone, k
<1>. HIDE DEF gone
<1>7. CASE n = gone /\ (m.phase = "resuming" \/ ~Healing(m))
  <2>1. ~Healing(gone)
    BY <1>4 DEF Healing, NoAi
  <2>2. Pauses(m) => Pauses(gone)
    BY <1>4, <1>7, <2>1 DEF SameGame, Pauses, HeldBy, InGame
  <2>. QED  BY <1>4, <1>5, <1>7, <2>2 DEF SameGame
<1>8. CASE n = Emit(EmitIf(config.saving, gone, "finished"), "over")
  <2>. DEFINE l == EmitIf(config.saving, gone, "finished")
  <2>1. /\ Quiet(gone, l) /\ Sound(l) /\ SameGame(gone, l) /\ l.ai = gone.ai
        /\ l.effects.process = "stop"
    BY <1>1, <1>4, <1>5, EmitIfCalm
  <2>. HIDE DEF l
  <2>2. /\ Quiet(l, n) /\ Sound(n) /\ SameGame(l, n) /\ n.ai = l.ai
        /\ n.effects.process = "stop" /\ "over" \in n.effects.all
    BY <1>8, <2>1, EmitCalm DEF l
  <2>3. Quiet(m, n)
    BY <1>5, <2>1, <2>2, QuietTwice
  <2>. QED  BY <1>4, <2>1, <2>2, <2>3 DEF SameGame, Over
<1>9. CASE n = Emit(Emit([gone EXCEPT !.kept = TRUE], "stopped"), "over")
  <2>. DEFINE j == [gone EXCEPT !.kept = TRUE]
              l == Emit(j, "stopped")
  <2>1. /\ Quiet(gone, j) /\ Sound(j) /\ SameGame(gone, j) /\ j.ai = gone.ai
        /\ j.effects.process = "stop"
    BY <1>4, <1>5 DEF Quiet, Sound, SameGame, StillAsks, Matches, Early
  <2>. HIDE DEF j
  <2>2. /\ Quiet(j, l) /\ Sound(l) /\ SameGame(j, l) /\ l.ai = j.ai
        /\ l.effects.process = "stop"
    BY <1>1, <2>1, EmitCalm
  <2>. HIDE DEF l
  <2>3. /\ Quiet(l, n) /\ Sound(n) /\ SameGame(l, n) /\ n.ai = l.ai
        /\ n.effects.process = "stop" /\ "over" \in n.effects.all
    BY <1>9, <2>2, EmitCalm DEF l, j
  <2>4. Quiet(m, n)
    BY <1>5, <2>1, <2>2, <2>3, QuietTwice
  <2>. QED  BY <1>4, <2>1, <2>2, <2>3, <2>4 DEF SameGame, Over
<1>10. CASE n = ServerPause(gone, FALSE) /\ m.phase # "resuming"
  <2>2. /\ Quiet(gone, n) /\ Sound(n)
        /\ n.ai = gone.ai /\ n.effects = gone.effects /\ n.phase = gone.phase /\ n.role = gone.role
        /\ n.afk = gone.afk
        /\ n.told = IF gone.afk \/ Healing(gone) THEN gone.told ELSE gone.told \ InGame(gone)
    BY <1>5, <1>10, Unpaused
  <2>3. ~Healing(gone)
    BY <1>4 DEF Healing, NoAi
  <2>4. Pauses(m) => Pauses(n)
    BY <1>4, <1>10, <2>2, <2>3 DEF SameGame, Pauses, HeldBy, Healing, InGame
  <2>. QED  BY <1>4, <1>5, <2>2, <2>4, QuietTwice DEF SameGame
<1>. QED  BY <1>6, <1>7, <1>8, <1>9, <1>10

\* Nothing takes back the end of the game.
LEMMA StaysOver ==
    ASSUME NEW m, NEW n, Quiet(m, n), Over(m)
    PROVE  Over(n)
BY DEF Quiet, StillAsks, Over, Early

\* A retry asks for another process, or gives up; with a verdict waited for, it
\* waits.
LEMMA RetryHealCalm ==
    ASSUME NEW m, Sound(m), m.ai.heal # 0,
           \/ Over(m)
           \/ /\ Pauses(m) /\ m.phase \in {"ingame", "resuming"}
              /\ m.ai.at \in {"away", "syncing"}
              /\ m.phase = "ingame" \/ m.ai.verdict = NoVerdict,
           NEW n, n = RetryHeal(m), NEW p
    PROVE  Quiet(m, n) /\ Sound(n) /\ n.phase = m.phase /\ Calm(n, p)
<1>1. m \in Matches /\ m.ai \in AiHosts /\ m.ai.heal \in Nat
  BY AiRange DEF Sound
<1>o. ASSUME Quiet(m, n), Over(m)
      PROVE  Calm(n, p)
  BY <1>o, StaysOver DEF Calm
<1>2. CASE n = m /\ m.ai.verdict # NoVerdict
  <2>1. CASE Over(m)
    BY <1>2, <2>1 DEF Quiet, StillAsks, Calm, Early
  <2>2. CASE ~Over(m)
    BY <1>2, <2>2, Awaited DEF Quiet, StillAsks, Early
  <2>. QED  BY <2>1, <2>2
<1>3. CASE n = HealGaveUp(m)
  <2>1. /\ Quiet(m, n) /\ Sound(n) /\ n.phase = m.phase
        /\ n.ai = NoAi /\ n.effects.process = "stop"
        /\ Pauses(m) => Over(n) \/ Pauses(n)
    BY <1>3, HealGaveUpFields
  <2>2. CASE Over(m)
    BY <1>o, <2>1, <2>2
  <2>3. CASE ~Over(m)
    <3>1. (Over(n) \/ Pauses(n)) /\ n.phase # "await"
      BY <2>1, <2>3
    <3>. QED  BY <2>1, <3>1, NobodyAwaited
  <2>. QED  BY <2>2, <2>3
<1>4. CASE n = SpawnAiHost([m EXCEPT !.ai = Away(@.heal + 1, NoVerdict)]) /\ m.ai.heal < Attempts
  <2>. DEFINE ai == Away(m.ai.heal + 1, NoVerdict)
              k == [m EXCEPT !.ai = ai]
  <2>1. n = SpawnAiHost(k)
    BY <1>4
  <2>2. ai \in AiHosts /\ ai.heal # 0 /\ ai.at = "away" /\ ai.verdict = NoVerdict
    BY <1>1, <1>4, LifecycleAssumption DEF Away, AiHosts
  <2>. HIDE DEF ai
  <2>3. /\ Quiet(m, k) /\ Sound(k) /\ SameGame(m, k) /\ k.ai = ai
        /\ Pauses(m) => Pauses(k)
    BY <2>2, AiQuiet
  <2>. HIDE DEF k
  <2>4. /\ Quiet(k, n) /\ Sound(n) /\ SameGame(k, n) /\ n.ai = k.ai
        /\ n.effects.process = "spawn"
        /\ Pauses(k) => Pauses(n)
    BY <2>1, <2>3, SpawnFields
  <2>5. Quiet(m, n)
    BY <2>3, <2>4, QuietTwice
  <2>7. n.phase = m.phase /\ n.ai = ai
    BY <2>3, <2>4 DEF SameGame
  <2>8. Calm(n, p)
    <3>1. CASE Over(m)
      BY <1>o, <2>5, <3>1
    <3>2. CASE ~Over(m)
      BY <2>2, <2>3, <2>4, <2>7, <3>2, Awaited
    <3>. QED  BY <3>1, <3>2
  <2>. QED  BY <2>4, <2>5, <2>7, <2>8
<1>5. m.ai.heal >= Attempts \/ m.ai.heal < Attempts
  BY <1>1, LifecycleAssumption
<1>. QED  BY <1>2, <1>3, <1>4, <1>5 DEF RetryHeal

\* The AI host is lost: the heal begins, is tried again, or is given up at once.
LEMMA AiHostLostCalm ==
    ASSUME NEW m, Sound(m), Over(m) \/ Pauses(m), m.phase \in {"ingame", "resuming"},
           Over(m) \/ m.phase = "ingame" \/ m.ai.verdict = NoVerdict,
           NEW n, n = AiHostLost(m), NEW p
    PROVE  Quiet(m, n) /\ Sound(n) /\ n.phase = m.phase /\ Calm(n, p)
<1>. DEFINE gone == [m.ai EXCEPT !.at = "away"]
            away == [m EXCEPT !.ai = gone]
            healing(verdict) == [m EXCEPT !.ai = Away(1, verdict)]
<1>1. m \in Matches /\ m.ai \in AiHosts /\ (Healing(m) <=> m.ai.heal # 0)
  BY AiRange DEF Sound
<1>2. /\ gone \in AiHosts /\ gone.at = "away" /\ gone.heal = m.ai.heal
      /\ gone.verdict = m.ai.verdict
  BY <1>1 DEF AiHosts
<1>. HIDE DEF gone
<1>3. /\ Quiet(m, away) /\ Sound(away) /\ SameGame(m, away) /\ away.ai = gone
      /\ away.aiState = m.aiState
      /\ Pauses(m) => Pauses(away)
  BY <1>2, AiQuiet
<1>4. Over(away) \/ Pauses(away)
  BY <1>3, StaysOver
<1>5. away.phase = m.phase
  BY <1>3 DEF SameGame
<1>6. n = IF Healing(m) THEN RetryHeal(away)
          ELSE IF m.phase = "ingame" /\ config.dumps THEN ServerPause(healing(Due), TRUE)
          ELSE IF ~m.aiState THEN HealGaveUp(away)
          ELSE SpawnAiHost(IF m.phase = "resuming" THEN healing(NoVerdict)
                           ELSE ServerPause(healing(NoVerdict), TRUE))
  BY <1>1 DEF AiHostLost, gone, Matches, AiHosts
<1>. HIDE DEF away
<1>7. CASE n = RetryHeal(away) /\ Healing(m)
  <2>1. Over(m) => Over(away)
    BY <1>3, StaysOver
  <2>2. Quiet(away, n) /\ Sound(n) /\ n.phase = away.phase /\ Calm(n, p)
    BY <1>1, <1>2, <1>3, <1>4, <1>5, <1>7, <2>1, RetryHealCalm
  <2>. QED  BY <1>3, <1>5, <2>2, QuietTwice
<1>8. CASE n = HealGaveUp(away)
  <2>1. /\ Quiet(away, n) /\ Sound(n) /\ n.phase = away.phase
        /\ n.ai = NoAi /\ n.effects.process = "stop"
        /\ Pauses(away) => Over(n) \/ Pauses(n)
    BY <1>3, <1>8, HealGaveUpFields
  <2>2. Over(n) \/ Pauses(n)
    BY <1>4, <2>1, StaysOver
  <2>3. n.phase # "await" /\ n.phase = m.phase
    BY <1>5, <2>1
  <2>4. Calm(n, p)
    BY <2>1, <2>2, <2>3, NobodyAwaited
  <2>. QED  BY <1>3, <2>1, <2>3, <2>4, QuietTwice
<1>. DEFINE paused(verdict) == ServerPause(healing(verdict), TRUE)
<1>9. ASSUME NEW verdict \in {NoVerdict, Due}, NEW h, h = healing(verdict)
      PROVE  /\ Quiet(m, h) /\ Sound(h) /\ SameGame(m, h)
             /\ h.ai.at = "away" /\ h.ai.heal = 1 /\ h.ai.verdict = verdict
  <2>. DEFINE ai == Away(1, verdict)
  <2>1. ai \in AiHosts /\ ai.at = "away" /\ ai.heal = 1 /\ ai.verdict = verdict
    BY AiTypes DEF Away
  <2>2. h = [m EXCEPT !.ai = ai]
    BY <1>9
  <2>. HIDE DEF ai
  <2>3. Quiet(m, h) /\ Sound(h) /\ SameGame(m, h) /\ h.ai = ai
    BY <2>1, <2>2, AiQuiet
  <2>. QED  BY <2>1, <2>3
<1>. HIDE DEF healing
<1>10. ASSUME NEW h, Quiet(m, h), Sound(h), SameGame(m, h), h.ai.heal = 1,
              NEW l, l = ServerPause(h, TRUE)
       PROVE  /\ Quiet(m, l) /\ Sound(l) /\ l.phase = m.phase /\ l.ai = h.ai
              /\ Over(l) \/ Pauses(l)
  <2>1. Quiet(m, h) /\ Sound(h) /\ SameGame(m, h) /\ h.ai.heal = 1
    BY <1>10
  <2>2. /\ Quiet(h, l) /\ Sound(l) /\ l.ai = h.ai /\ l.phase = h.phase
        /\ l.role = h.role /\ l.afk = h.afk /\ l.told = h.told \cup InGame(h)
    BY <1>10, <2>1, Paused
  <2>3. Quiet(m, l)
    BY <2>1, <2>2, QuietTwice
  <2>4. Over(m) => Over(l)
    BY <2>3, StaysOver
  <2>5. Healing(l)
    BY <2>1, <2>2 DEF Healing
  <2>6. Pauses(m) => Pauses(l)
    BY <2>1, <2>2, <2>5 DEF Pauses, SameGame, HeldBy, InGame
  <2>. QED  BY <2>1, <2>2, <2>3, <2>4, <2>6 DEF SameGame
<1>11. CASE n = paused(Due) /\ m.phase = "ingame"
  <2>1. /\ Quiet(m, healing(Due)) /\ Sound(healing(Due)) /\ SameGame(m, healing(Due))
        /\ healing(Due).ai.at = "away" /\ healing(Due).ai.heal = 1
        /\ healing(Due).ai.verdict = Due
    BY <1>9
  <2>2. /\ Quiet(m, n) /\ Sound(n) /\ n.phase = m.phase /\ n.ai = healing(Due).ai
        /\ Over(n) \/ Pauses(n)
    BY <1>10, <1>11, <2>1
  <2>3. Due # NoVerdict /\ 1 # 0
    BY DEF Due, NoVerdict
  <2>4. /\ n.phase = "ingame" /\ n.ai.at = "away" /\ n.ai.heal # 0
        /\ n.ai.verdict # NoVerdict
    BY <1>11, <2>1, <2>2, <2>3
  <2>5. Calm(n, p)
    BY <2>2, <2>4, Awaited
  <2>. QED  BY <2>2, <2>5
<1>12. ASSUME NEW h, /\ Quiet(m, h) /\ Sound(h) /\ h.phase = m.phase
                     /\ h.ai.at = "away" /\ h.ai.heal = 1 /\ h.ai.verdict = NoVerdict
                     /\ Over(h) \/ Pauses(h),
              n = SpawnAiHost(h)
       PROVE  Quiet(m, n) /\ Sound(n) /\ n.phase = m.phase /\ Calm(n, p)
  <2>1. /\ Quiet(h, n) /\ Sound(n) /\ SameGame(h, n) /\ n.ai = h.ai
        /\ n.effects.process = "spawn"
        /\ Pauses(h) => Pauses(n)
    BY <1>12, SpawnFields
  <2>2. Over(n) \/ Pauses(n)
    BY <1>12, <2>1, StaysOver
  <2>3. n.phase = m.phase
    BY <1>12, <2>1 DEF SameGame
  <2>4. Calm(n, p)
    BY <1>12, <2>1, <2>2, <2>3, Awaited
  <2>. QED  BY <1>12, <2>1, <2>3, <2>4, QuietTwice
<1>13. CASE n = SpawnAiHost(healing(NoVerdict)) /\ m.phase = "resuming"
  <2>. DEFINE h == healing(NoVerdict)
  <2>1. /\ Quiet(m, h) /\ Sound(h) /\ SameGame(m, h)
        /\ h.ai.at = "away" /\ h.ai.heal = 1 /\ h.ai.verdict = NoVerdict
    BY <1>9
  <2>. HIDE DEF h
  <2>2. Over(m) => Over(h)
    BY <2>1, StaysOver
  <2>3. Pauses(m) => Pauses(h)
    BY <1>13, <2>1 DEF Pauses, SameGame, HeldBy, InGame
  <2>4. h.phase = m.phase /\ n = SpawnAiHost(h)
    BY <1>13, <2>1 DEF SameGame, h
  <2>. QED  BY <1>12, <2>1, <2>2, <2>3, <2>4
<1>14. CASE n = SpawnAiHost(paused(NoVerdict))
  <2>. DEFINE h == healing(NoVerdict)
              l == ServerPause(h, TRUE)
  <2>1. /\ Quiet(m, h) /\ Sound(h) /\ SameGame(m, h)
        /\ h.ai.at = "away" /\ h.ai.heal = 1 /\ h.ai.verdict = NoVerdict
    BY <1>9
  <2>2. /\ Quiet(m, l) /\ Sound(l) /\ l.phase = m.phase /\ l.ai = h.ai
        /\ Over(l) \/ Pauses(l)
    BY <1>10, <2>1
  <2>3. n = SpawnAiHost(l)
    BY <1>14
  <2>. HIDE DEF h, l
  <2>. QED  BY <1>12, <2>1, <2>2, <2>3
<1>. QED  BY <1>6, <1>7, <1>8, <1>11, <1>13, <1>14

\* Its connection goes in any phase.
LEMMA AiHostLeftCalm ==
    ASSUME NEW m, Sound(m), NEW p, Calm(m, p), m.phase # "await" \/ Over(m),
           NEW n, n = AiHostLeft(m)
    PROVE  Quiet(m, n) /\ Sound(n) /\ n.phase = m.phase /\ Calm(n, p)
<1>1. CASE m.phase \in {"ingame", "resuming"} /\ n = AiHostLost(m)
  <2>1. Over(m) \/ (Pauses(m) /\ (m.phase # "ingame" => m.ai.verdict = NoVerdict))
    BY DEF Calm, AiPlace
  <2>. QED  BY <1>1, <2>1, AiHostLostCalm
<1>2. CASE m.phase \notin {"ingame", "resuming"} /\ n = Emit([m EXCEPT !.ai = NoAi], "stop")
  <2>. DEFINE k == [m EXCEPT !.ai = NoAi]
  <2>1. /\ Quiet(m, k) /\ Sound(k) /\ SameGame(m, k) /\ k.ai = NoAi
        /\ Pauses(m) /\ (NoAi.heal = 0 <=> m.ai.heal = 0) => Pauses(k)
    BY AiTypes, AiQuiet
  <2>2. n = Emit(k, "stop") /\ "stop" \in Effects \ {"checkpoint"} /\ k \in Matches
    BY <1>2, <2>1 DEF Effects, Sound
  <2>. HIDE DEF k
  <2>3. Quiet(k, n) /\ Sound(n)
    BY <2>1, <2>2, EmitQuiet
  <2>4. SameGame(k, n) /\ n.ai = k.ai /\ n.effects.process = "stop"
    BY <2>2, EmitFields
  <2>5. Quiet(m, n) /\ n.phase = m.phase /\ n.ai = NoAi
    BY <2>1, <2>3, <2>4, QuietTwice DEF SameGame
  <2>6. CASE Over(m)
    BY <2>3, <2>4, <2>5, <2>6, StaysOver DEF Calm
  <2>7. CASE ~Over(m)
    <3>1. Pauses(m) /\ m.ai.heal = 0
      BY <1>2, <2>7 DEF Calm, AiPlace
    <3>2. Pauses(k)
      BY <2>1, <3>1 DEF NoAi
    <3>3. Pauses(n)
      BY <2>4, <3>2 DEF Pauses, SameGame, HeldBy, Healing, InGame
    <3>4. n.phase # "await"
      BY <2>5, <2>7
    <3>. QED  BY <2>3, <2>4, <2>5, <3>3, <3>4, NobodyAwaited
  <2>. QED  BY <2>6, <2>7
<1>. QED  BY <1>1, <1>2 DEF AiHostLeft

\* The exit that was reported is not looked at again.
LEMMA AiHostExitedCalm ==
    ASSUME NEW m, Sound(m), NEW p, Calm(m, p), m.phase # "await" \/ Over(m),
           NEW n, n = AiHostExited(m), NEW q, q.at = p.at \/ q.at = "none"
    PROVE  Quiet(m, n) /\ Sound(n) /\ n.phase = m.phase /\ Calm(n, q)
<1>1. m \in Matches /\ (Healing(m) <=> m.ai.heal # 0)
  BY AiRange DEF Sound
<1>2. Over(m) \/ (Pauses(m) /\ (m.phase # "ingame" => m.ai.verdict = NoVerdict))
  BY DEF Calm, AiPlace
<1>3. CASE n = m /\ (m.phase \notin {"ingame", "resuming"} \/ m.ai.at = "none" \/ ~Healing(m))
  <2>1. CASE Over(m)
    BY <1>3, <2>1 DEF Calm, Quiet, StillAsks, Early
  <2>2. CASE ~Over(m)
    <3>1. m.ai.at # "away"
      BY <1>1, <1>3, <2>2 DEF Calm, AiPlace, Matches
    <3>. QED  BY <1>3, <2>2, <3>1 DEF Calm, Quiet, StillAsks, Processes, Early
  <2>. QED  BY <2>1, <2>2
<1>4. CASE m.phase \in {"ingame", "resuming"} /\ n = AiHostLost(m)
  BY <1>2, <1>4, AiHostLostCalm
<1>5. CASE m.phase \in {"ingame", "resuming"} /\ n = RetryHeal(m) /\ Healing(m) /\ m.ai.at = "away"
  BY <1>1, <1>2, <1>5, RetryHealCalm
<1>. QED  BY <1>3, <1>4, <1>5 DEF AiHostExited

\* It has caught up.
LEMMA AiHostHealedCalm ==
    ASSUME NEW m, Sound(m), NEW p, Calm(m, p), m.ai.at = "syncing", NEW n, n = AiHostHealed(m)
    PROVE  Quiet(m, n) /\ Sound(n) /\ n.phase = m.phase /\ Calm(n, p)
<1>. DEFINE k == [m EXCEPT !.ai = Back]
<1>1. Back \in AiHosts /\ Back.at = "in" /\ Back.heal = 0 /\ Back.verdict = NoVerdict
  BY LifecycleAssumption DEF Back, AiHosts
<1>2. /\ Quiet(m, k) /\ Sound(k) /\ SameGame(m, k) /\ k.ai = Back /\ k.effects = m.effects
  BY <1>1, AiQuiet
<1>3. (Healing(m) <=> m.ai.heal # 0) /\ ~Healing(k)
  BY <1>1, <1>2, AiRange DEF Sound, Healing
<1>4. n = IF Healing(m) /\ m.phase # "resuming" THEN ServerPause(k, FALSE) ELSE k
  BY DEF AiHostHealed
<1>. HIDE DEF k
<1>5. /\ Quiet(m, n) /\ Sound(n) /\ n.ai = k.ai /\ n.effects = m.effects
      /\ n.phase = m.phase /\ n.role = m.role /\ n.afk = m.afk
      /\ n.told = IF m.afk \/ ~(Healing(m) /\ m.phase # "resuming") THEN m.told
                  ELSE m.told \ InGame(m)
  <2>1. CASE n = k /\ ~(Healing(m) /\ m.phase # "resuming")
    BY <1>2, <2>1 DEF SameGame
  <2>2. CASE n = ServerPause(k, FALSE) /\ Healing(m) /\ m.phase # "resuming"
    <3>1. /\ Quiet(k, n) /\ Sound(n) /\ n.ai = k.ai /\ n.effects = k.effects
          /\ n.phase = k.phase /\ n.role = k.role /\ n.afk = k.afk
          /\ n.told = IF k.afk \/ Healing(k) THEN k.told ELSE k.told \ InGame(k)
      BY <1>2, <2>2, Unpaused
    <3>. QED  BY <1>2, <1>3, <2>2, <3>1, QuietTwice DEF SameGame, InGame
  <2>. QED  BY <1>4, <2>1, <2>2
<1>6. CASE Over(m)
  BY <1>5, <1>6, StaysOver DEF Calm
<1>7. CASE ~Over(m)
  <2>1. Pauses(m) /\ AiPlace(m) /\ Processes(m, p)
    BY <1>7 DEF Calm
  <2>2. ~Healing(n) /\ n.ai.at = "in" /\ n.ai.heal = 0 /\ n.ai.verdict = NoVerdict
    BY <1>1, <1>2, <1>3, <1>5 DEF Healing
  <2>3. m.phase \in {"ingame", "resuming"} /\ Healing(m)
    BY <1>3, <2>1 DEF AiPlace, Sound, Matches
  <2>4. Pauses(n)
    BY <1>5, <2>1, <2>2, <2>3 DEF Pauses, HeldBy, InGame
  <2>5. AiPlace(n) /\ Processes(n, p)
    BY <1>5, <2>1, <2>2, <2>3 DEF AiPlace, Processes
  <2>. QED  BY <1>5, <2>4, <2>5 DEF Calm
<1>. QED  BY <1>6, <1>7

-----------------------------------------------------------------------------
(* The match ends, or is checked.                                          *)

\* The checkpoint chain is dropped.
LEMMA UncheckedFields ==
    ASSUME NEW m \in Matches, NEW n, n = Unchecked(m)
    PROVE  /\ n \in Matches
           /\ n.phase = m.phase /\ n.role = m.role /\ n.told = m.told /\ n.ai = m.ai
           /\ n.afk = m.afk /\ n.pending = NoRun /\ n.resolvedBy = m.resolvedBy
           /\ n.effects = m.effects
<1>. DEFINE a == [m EXCEPT !.base = 0, !.probe = 0, !.prefetch = FALSE]
            b == [a EXCEPT !.pending = NoRun, !.failures = 0, !.disabled = FALSE]
            c == [b EXCEPT !.aiState = FALSE, !.hosted = FALSE]
<1>. DEFINE Run == [id : 0 .. MaxRuns, turn : 0 .. MaxTurn, scratch : BOOLEAN]
<1>0. 0 \in 0 .. MaxTurn /\ 0 \in 0 .. 1 /\ NoRun \in Run
  BY LifecycleAssumption DEF NoRun
<1>1. a \in Matches
  BY <1>0 DEF Matches
<1>2. /\ a.phase = m.phase /\ a.role = m.role /\ a.told = m.told /\ a.ai = m.ai
      /\ a.afk = m.afk /\ a.resolvedBy = m.resolvedBy /\ a.effects = m.effects
  BY DEF Matches
<1>5. n = c
  BY DEF Unchecked, Matches
<1>. HIDE DEF a
<1>3. b \in Matches
  BY <1>0, <1>1 DEF Matches
<1>4. b.pending = NoRun
  BY <1>1 DEF Matches
<1>6. /\ b.phase = a.phase /\ b.role = a.role /\ b.told = a.told /\ b.ai = a.ai
      /\ b.afk = a.afk /\ b.resolvedBy = a.resolvedBy /\ b.effects = a.effects
  BY <1>1 DEF Matches
<1>. HIDE DEF b
<1>7. c \in Matches
  BY <1>3 DEF Matches
<1>8. /\ c.phase = b.phase /\ c.role = b.role /\ c.told = b.told /\ c.ai = b.ai
      /\ c.afk = b.afk /\ c.resolvedBy = b.resolvedBy /\ c.effects = b.effects
      /\ c.pending = b.pending
  BY <1>3 DEF Matches
<1>. HIDE DEF c
<1>. QED  BY <1>2, <1>4, <1>5, <1>6, <1>7, <1>8

\* The match ends: no heal and no run is waited for any more.
LEMMA EndMatchCalm ==
    ASSUME NEW m, Sound(m), NEW p, Calm(m, p), m.phase = "ingame", NEW by \in 0 .. MaxRuns,
           NEW n, n = EndMatch(m, by)
    PROVE  /\ Sound(n) /\ Calm(n, p) /\ StillAsks(m, n)
           /\ n.phase = "postgame" /\ n.pending = NoRun /\ n.resolvedBy = by
           /\ "ended" \in n.effects.all
<1>. DEFINE e == Emit(m, "ended")
            k == [e EXCEPT !.ai = NoAi]
            s == Emit(k, "stop")
            f == IF Healing(m) THEN ServerPause(s, FALSE) ELSE e
            u == Unchecked(f)
            v == [u EXCEPT !.phase = "postgame", !.resolvedBy = by]
<1>0. /\ "stop" \in Effects \ {"checkpoint"} /\ "finished" \in {"ended", "over"} \cup Statuses
      /\ "ended" \in {"ended", "over"} \cup Statuses
  BY DEF Effects, Statuses
<1>1. /\ Quiet(m, e) /\ Sound(e) /\ SameGame(m, e) /\ e.ai = m.ai
      /\ "ended" \in e.effects.all /\ Calm(e, p)
  BY <1>0, EmitCalm
<1>n. n = EmitIf(config.saving, v, "finished")
  BY DEF EndMatch
<1>. HIDE DEF e
<1>2. /\ Quiet(e, k) /\ Sound(k) /\ SameGame(e, k) /\ k.ai = NoAi
  BY <1>1, AiTypes, AiQuiet
<1>3. k \in Matches
  BY <1>2 DEF Sound
<1>. HIDE DEF k
<1>4. Quiet(k, s) /\ Sound(s)
  BY <1>0, <1>2, EmitQuiet
<1>5. s.ai = k.ai /\ SameGame(k, s) /\ s.effects.process = "stop"
  BY <1>0, <1>3, EmitFields
<1>6. Quiet(e, s) /\ SameGame(e, s) /\ s.ai = NoAi
  BY <1>2, <1>4, <1>5, QuietTwice DEF SameGame
<1>. HIDE DEF s
<1>f. f = IF Healing(m) THEN ServerPause(s, FALSE) ELSE e
  OBVIOUS
<1>. HIDE DEF f
<1>7. /\ Quiet(e, f) /\ Sound(f) /\ f.phase = "ingame"
      /\ Over(f) \/ (Pauses(f) /\ f.ai.heal = 0 /\ f.ai.at \in {"none", "in"}
                     /\ f.ai.verdict = NoVerdict /\ Processes(f, p))
  <2>1. CASE f = e /\ ~Healing(m)
    <3>1. e.phase = "ingame" /\ e.ai.heal = 0
      BY <1>1, <2>1, AiRange DEF SameGame, Sound
    <3>. QED  BY <1>1, <2>1, <3>1 DEF Quiet, StillAsks, Calm, AiPlace, Early
  <2>2. CASE f = ServerPause(s, FALSE)
    <3>1. /\ Quiet(s, f) /\ Sound(f) /\ f.ai = s.ai /\ f.effects = s.effects
          /\ f.phase = s.phase /\ f.role = s.role /\ f.afk = s.afk
          /\ f.told = IF s.afk \/ Healing(s) THEN s.told ELSE s.told \ InGame(s)
      BY <1>4, <2>2, Unpaused
    <3>2. Quiet(e, f) /\ f.ai = NoAi /\ f.phase = "ingame" /\ f.effects.process = "stop"
      BY <1>1, <1>5, <1>6, <3>1, QuietTwice DEF SameGame
    <3>3. ~Healing(s) /\ ~Healing(f)
      BY <1>6, <3>2 DEF Healing, NoAi
    <3>4. Pauses(e) => Pauses(f)
      BY <1>1, <1>6, <3>1, <3>2, <3>3 DEF Pauses, SameGame, HeldBy, InGame
    <3>5. Over(f) \/ Pauses(f)
      BY <1>1, <3>2, <3>4, StaysOver DEF Calm
    <3>6. Processes(f, p) /\ f.ai.heal = 0 /\ f.ai.at = "none" /\ f.ai.verdict = NoVerdict
      BY <3>2 DEF NoAi, Processes
    <3>. QED  BY <3>1, <3>2, <3>5, <3>6
  <2>. QED  BY <1>f, <2>1, <2>2
<1>8. /\ u \in Matches
      /\ u.phase = f.phase /\ u.role = f.role /\ u.told = f.told /\ u.ai = f.ai
      /\ u.afk = f.afk /\ u.pending = NoRun /\ u.resolvedBy = f.resolvedBy
      /\ u.effects = f.effects
  BY <1>7, UncheckedFields DEF Sound
<1>. HIDE DEF u
<1>9. /\ v \in Matches /\ v.phase = "postgame" /\ v.resolvedBy = by
      /\ v.role = u.role /\ v.told = u.told /\ v.ai = u.ai /\ v.afk = u.afk
      /\ v.pending = u.pending /\ v.effects = u.effects
  BY <1>8 DEF Matches
<1>. HIDE DEF v
<1>10. Sound(v) /\ StillAsks(m, v) /\ "ended" \in v.effects.all
  BY <1>1, <1>7, <1>8, <1>9 DEF Sound, Quiet, StillAsks, Early
<1>11. Calm(v, p)
  <2>1. CASE Over(f)
    BY <1>8, <1>9, <2>1 DEF Over, Calm
  <2>2. CASE ~Over(f)
    <3>1. /\ Pauses(f) /\ f.ai.heal = 0 /\ f.ai.at \in {"none", "in"}
          /\ f.ai.verdict = NoVerdict /\ Processes(f, p)
      BY <1>7, <2>2
    <3>2. Pauses(v)
      BY <1>7, <1>8, <1>9, <3>1 DEF Pauses, HeldBy, Healing, InGame
    <3>3. AiPlace(v) /\ Processes(v, p)
      BY <1>8, <1>9, <3>1 DEF AiPlace, Processes
    <3>. QED  BY <3>2, <3>3 DEF Calm
  <2>. QED  BY <2>1, <2>2
<1>12. Quiet(v, n) /\ Sound(n) /\ SameGame(v, n) /\ Calm(n, p)
  BY <1>n, <1>0, <1>10, <1>11, EmitIfCalm
<1>. QED  BY <1>8, <1>9, <1>10, <1>12 DEF SameGame, Quiet, StillAsks, Early

\* A checkpoint begins only where none is waited for, so the worker is idle.
LEMMA MaybeCheckpointFits ==
    ASSUME NEW m, NEW p, NEW w, NEW f, Fits(m, p, w, f), m.phase = "ingame",
           NEW n, n = MaybeCheckpoint(m)
    PROVE  Fits(n, p, w, f) /\ n.phase = "ingame"
<1>1. m \in Matches /\ m.ai \in AiHosts /\ m.nextId \in Nat /\ m.turn \in 0 .. MaxTurn
  BY LifecycleAssumption DEF Fits, Sound, Matches, InitialTurn
<1>. DEFINE asks == [m EXCEPT !.pending = [id |-> m.nextId, turn |-> m.turn, scratch |-> m.base = 0],
                              !.nextId = @ + 1, !.prefetch = FALSE,
                              !.probe = IF @ < m.turn THEN 0 ELSE @,
                              !.ai.verdict = IF @ = Due THEN m.nextId ELSE @]
<1>a. n = m \/ (m.pending = NoRun /\ ~(m.nextId > MaxRuns) /\ n = Emit(asks, "checkpoint"))
  BY DEF MaybeCheckpoint
<1>. SUFFICES ASSUME m.pending = NoRun, m.nextId <= MaxRuns, n = Emit(asks, "checkpoint")
              PROVE  Fits(n, p, w, f) /\ n.phase = "ingame"
  BY <1>1, <1>a, LifecycleAssumption
<1>. DEFINE pending == [id |-> m.nextId, turn |-> m.turn, scratch |-> m.base = 0]
            nextId == m.nextId + 1
            probe == IF m.probe < m.turn THEN 0 ELSE m.probe
            ai == [m.ai EXCEPT !.verdict = IF @ = Due THEN m.nextId ELSE @]
            a == [m EXCEPT !.pending = pending]
            b == [a EXCEPT !.nextId = nextId]
            c == [b EXCEPT !.prefetch = FALSE, !.probe = probe]
            d == [c EXCEPT !.ai = ai]
<1>2. n = Emit(d, "checkpoint")
  BY <1>1 DEF Matches, AiHosts
<1>3. /\ pending \in [id : 0 .. MaxRuns, turn : 0 .. MaxTurn, scratch : BOOLEAN]
      /\ pending.id = m.nextId /\ m.nextId # 0
  BY <1>1, LifecycleAssumption DEF Matches
<1>4. nextId \in 1 .. MaxRuns + 1 /\ nextId - 1 = m.nextId
  BY <1>1, LifecycleAssumption DEF Matches
<1>5. probe \in 0 .. MaxTurn
  BY <1>1, LifecycleAssumption DEF Matches
<1>6. /\ ai \in AiHosts /\ ai.at = m.ai.at /\ ai.heal = m.ai.heal
      /\ m.ai.verdict = NoVerdict => ai.verdict = NoVerdict
      /\ ai.verdict = NoVerdict => m.ai.verdict = NoVerdict
  BY <1>1, <1>3, LifecycleAssumption DEF AiHosts, Matches, NoVerdict, Due
<1>. HIDE DEF pending, nextId, probe, ai
<1>7. a \in Matches /\ a.pending = pending
  BY <1>1, <1>3 DEF Matches
<1>8. b \in Matches /\ b.pending = pending /\ b.nextId = nextId
  BY <1>4, <1>7 DEF Matches
<1>9. c \in Matches /\ c.pending = pending /\ c.nextId = nextId
  BY <1>5, <1>8 DEF Matches
<1>10. d \in Matches /\ d.pending = pending /\ d.nextId = nextId /\ d.ai = ai
  BY <1>6, <1>9 DEF Matches
<1>11. /\ d.phase = m.phase /\ d.role = m.role /\ d.told = m.told /\ d.afk = m.afk
       /\ d.effects = m.effects /\ d.resolvedBy = m.resolvedBy
  BY <1>1 DEF Matches
<1>. HIDE DEF d
<1>12. /\ n \in Matches /\ n.ai = d.ai /\ SameGame(d, n)
       /\ n.effects.all = d.effects.all \cup {"checkpoint"}
       /\ n.effects.process = d.effects.process
  BY <1>2, <1>10, EmitFields DEF Effects
<1>13. Sound(n)
  BY <1>11, <1>12 DEF Fits, Sound
<1>14. Calm(n, p)
  <2>1. CASE Over(m)
    BY <1>11, <1>12, <2>1 DEF Calm, Over
  <2>2. CASE ~Over(m)
    <3>1. Pauses(m) /\ AiPlace(m) /\ Processes(m, p)
      BY <2>2 DEF Fits, Calm
    <3>2. Pauses(n)
      BY <1>6, <1>10, <1>11, <1>12, <3>1 DEF SameGame, Pauses, HeldBy, Healing, InGame
    <3>3. AiPlace(n) /\ Processes(n, p)
      BY <1>6, <1>10, <1>11, <1>12, <3>1 DEF SameGame, AiPlace, Processes
    <3>. QED  BY <3>2, <3>3 DEF Calm
  <2>. QED  BY <2>1, <2>2
<1>15. n.pending = pending /\ n.nextId = nextId /\ n.phase = "ingame" /\ n.resolvedBy = m.resolvedBy
  BY <1>10, <1>11, <1>12 DEF SameGame
<1>16. w.stage = "idle"
  BY DEF Fits, Runs, Early
<1>17. pending # NoRun
  BY <1>3 DEF NoRun
<1>18. Runs(n, w)
  BY <1>3, <1>4, <1>12, <1>15, <1>16, <1>17 DEF Runs, Early
<1>19. Decided(n, w, f)
  BY <1>15 DEF Fits, Decided
<1>. QED  BY <1>13, <1>14, <1>15, <1>18, <1>19 DEF Fits

\* A handler that is quiet, and calm about a process, fits.
LEMMA QuietFits ==
    ASSUME NEW m, NEW p, NEW w, NEW f, Fits(m, p, w, f), NEW n, Quiet(m, n), NEW q, Calm(n, q)
    PROVE  Fits(n, q, w, f)
<1>1. Sound(n)
  BY DEF Fits, Quiet, Early
<1>2. Runs(n, w) /\ Decided(n, w, f)
  BY QuietRuns DEF Fits
<1>. QED  BY <1>1, <1>2 DEF Fits

\* No verdict is waited for that no run will give.
LEMMA SettleVerdictFits ==
    ASSUME NEW m, NEW p, NEW w, NEW f, Fits(m, p, w, f), m.phase = "ingame",
           NEW n, n = SettleVerdict(m)
    PROVE  Fits(n, p, w, f) /\ VerdictComes(n)
<1>. DEFINE ai == [m.ai EXCEPT !.verdict = NoVerdict]
            settled == [m EXCEPT !.ai = ai]
<1>1. m \in Matches /\ m.ai \in AiHosts /\ Sound(m)
  BY AiRange DEF Fits, Sound
<1>2. ai \in AiHosts /\ ai.at = m.ai.at /\ ai.heal = m.ai.heal /\ ai.verdict = NoVerdict
  BY <1>1 DEF AiHosts
<1>3. \/ n = m /\ (m.ai.verdict = NoVerdict \/ StillOpen(m))
      \/ n = SpawnAiHost(settled) /\ m.ai.verdict # NoVerdict
      \/ n = HealGaveUp(settled) /\ m.ai.verdict # NoVerdict
  BY <1>1 DEF SettleVerdict, Matches, AiHosts
<1>. HIDE DEF ai
<1>4. /\ Quiet(m, settled) /\ Sound(settled) /\ SameGame(m, settled) /\ settled.ai = ai
      /\ Pauses(m) /\ (ai.heal = 0 <=> m.ai.heal = 0) => Pauses(settled)
  BY <1>1, <1>2, AiQuiet
<1>. HIDE DEF settled
<1>5. Over(settled) \/ Pauses(settled)
  BY <1>2, <1>4, StaysOver DEF Fits, Calm
<1>6. CASE n = m /\ (m.ai.verdict = NoVerdict \/ StillOpen(m))
  <2>1. m.ai.verdict \notin {NoVerdict, Due} => m.ai.verdict # 0
    BY <1>1 DEF AiHosts, NoVerdict, Due
  <2>2. VerdictComes(m)
    BY <1>6, <2>1 DEF VerdictComes, StillOpen, NoRun
  <2>. QED  BY <1>6, <2>2
<1>7. CASE n = SpawnAiHost(settled) /\ m.ai.verdict # NoVerdict
  <2>1. /\ Quiet(settled, n) /\ Sound(n) /\ SameGame(settled, n) /\ n.ai = settled.ai
        /\ n.effects.process = "spawn"
        /\ Pauses(settled) => Pauses(n)
    BY <1>4, <1>7, SpawnFields
  <2>2. Quiet(m, n) /\ n.phase = "ingame" /\ n.ai = ai
    BY <1>4, <2>1, QuietTwice DEF SameGame
  <2>3. Calm(n, p)
    <3>1. CASE Over(m)
      BY <2>2, <3>1, StaysOver DEF Calm
    <3>2. CASE ~Over(m)
      <4>1. n.ai.heal # 0 /\ n.ai.at \in {"away", "syncing"}
        BY <1>1, <1>2, <1>7, <2>2, <3>2 DEF Fits, Calm, AiPlace, AiHosts
      <4>2. Over(n) \/ Pauses(n)
        BY <1>5, <2>1, StaysOver
      <4>. QED  BY <1>2, <2>1, <2>2, <4>1, <4>2, Awaited
    <3>. QED  BY <3>1, <3>2
  <2>4. VerdictComes(n)
    BY <1>2, <2>2 DEF VerdictComes
  <2>. QED  BY <2>2, <2>3, <2>4, QuietFits
<1>8. CASE n = HealGaveUp(settled) /\ m.ai.verdict # NoVerdict
  <2>1. /\ Quiet(settled, n) /\ Sound(n) /\ n.phase = settled.phase
        /\ n.ai = NoAi /\ n.effects.process = "stop"
        /\ Pauses(settled) => Over(n) \/ Pauses(n)
    BY <1>4, <1>8, HealGaveUpFields
  <2>2. Quiet(m, n) /\ n.phase = "ingame"
    BY <1>4, <2>1, QuietTwice DEF SameGame
  <2>3. Over(n) \/ Pauses(n)
    BY <1>5, <2>1, StaysOver
  <2>4. n.phase # "await"
    BY <2>2
  <2>5. Calm(n, p)
    BY <2>1, <2>3, <2>4, NobodyAwaited
  <2>6. VerdictComes(n)
    BY <2>1 DEF VerdictComes, NoAi
  <2>. QED  BY <2>2, <2>5, <2>6, QuietFits
<1>. QED  BY <1>3, <1>6, <1>7, <1>8

\* A match is abandoned.
LEMMA AbandonCalm ==
    ASSUME NEW m, Sound(m), NEW p, Calm(m, p), NEW n, n = Abandon(m)
    PROVE  Quiet(m, n) /\ Sound(n) /\ n.phase = m.phase /\ Calm(n, p)
<1>. DEFINE k == [m EXCEPT !.abandoned = TRUE]
            l == EmitIf(config.saving, k, "abandoned")
<1>0. {"abandoned", "over"} \subseteq {"ended", "over"} \cup Statuses
  BY DEF Statuses
<1>1. n = m \/ n = Emit(l, "over")
  BY DEF Abandon
<1>2. CASE n = m
  BY <1>2 DEF Quiet, StillAsks, Early
<1>3. k \in Matches /\ k.effects = m.effects /\ SameGame(m, k) /\ k.ai = m.ai
  BY DEF Sound, Matches, SameGame
<1>4. Quiet(m, k) /\ Sound(k)
  BY <1>3 DEF Sound, Quiet, StillAsks, SameGame, Early
<1>. HIDE DEF k
<1>5. Pauses(m) => Pauses(k)
  BY <1>3 DEF Pauses, SameGame, HeldBy, Healing, InGame
<1>6. Calm(k, p)
  BY <1>3, <1>5 DEF Calm, Over, AiPlace, Processes, SameGame
<1>7. Quiet(k, l) /\ Sound(l) /\ SameGame(k, l) /\ Calm(l, p)
  BY <1>0, <1>4, <1>6, EmitIfCalm
<1>. HIDE DEF l
<1>8. CASE n = Emit(l, "over")
  <2>1. Quiet(l, n) /\ Sound(n) /\ SameGame(l, n) /\ Calm(n, p)
    BY <1>0, <1>7, <1>8, EmitCalm
  <2>2. Quiet(m, n)
    BY <1>4, <1>7, <2>1, QuietTwice
  <2>. QED  BY <1>3, <1>7, <2>1, <2>2 DEF SameGame
<1>. QED  BY <1>1, <1>2, <1>8

\* Only a running match waits for a verdict.
LEMMA NoVerdictElsewhere ==
    ASSUME NEW m, NEW p, Calm(m, p), m.phase # "ingame"
    PROVE  VerdictComes(m)
BY DEF Calm, AiPlace, VerdictComes

\* What every input ends with keeps what it found, and sees to the verdict.
LEMMA AfterFits ==
    ASSUME NEW m, NEW p, NEW w, NEW f, Fits(m, p, w, f), NEW n, n = After(m)
    PROVE  Fits(n, p, w, f) /\ VerdictComes(n)
<1>1. CASE m.phase = "ingame"
  <2>. DEFINE k == MaybeCheckpoint(m)
  <2>1. n = SettleVerdict(k)
    BY <1>1 DEF After, AfterInput, AfterResuming
  <2>2. Fits(k, p, w, f) /\ k.phase = "ingame"
    BY <1>1, MaybeCheckpointFits
  <2>. HIDE DEF k
  <2>. QED  BY <2>1, <2>2, SettleVerdictFits
<1>2. CASE m.phase # "ingame"
  <2>. DEFINE k == AfterResuming(m)
  <2>1. k = m \/ k = Abandon(m)
    BY DEF AfterResuming
  <2>2. CASE k = m
    <3>1. n = m
      BY <1>2, <2>2 DEF After, AfterInput
    <3>2. VerdictComes(m)
      BY <1>2, NoVerdictElsewhere DEF Fits
    <3>. QED  BY <3>1, <3>2
  <2>3. CASE k = Abandon(m)
    <3>1. Quiet(m, k) /\ Sound(k) /\ k.phase = m.phase /\ Calm(k, p)
      BY <2>3, AbandonCalm DEF Fits
    <3>2. n = k
      BY <1>2, <3>1 DEF After, AfterInput
    <3>3. VerdictComes(k)
      BY <1>2, <3>1, NoVerdictElsewhere
    <3>. QED  BY <3>1, <3>2, <3>3, QuietFits
  <2>. QED  BY <2>1, <2>2, <2>3
<1>. QED  BY <1>1, <1>2

\* A handler that leaves checkpoints and verdicts alone, and what it ends with.
LEMMA QuietAfter ==
    ASSUME NEW m, NEW p, NEW w, NEW f, Fits(m, p, w, f),
           NEW k, Quiet(m, k), NEW q, Calm(k, q), NEW n, n = After(k)
    PROVE  Fits(n, q, w, f) /\ VerdictComes(n)
BY QuietFits, AfterFits

\* The answer of a run is taken: m is the machine without the run in flight,
\* whatever else of the chain of checkpoints has changed.
Answered(m, n) ==
    /\ n \in Matches /\ n.pending = NoRun
    /\ n.phase = m.phase /\ n.role = m.role /\ n.told = m.told /\ n.ai = m.ai /\ n.afk = m.afk
    /\ n.effects = m.effects /\ n.nextId = m.nextId /\ n.resolvedBy = m.resolvedBy

\* The run that is waited for has answered, and nothing else has changed.
LEMMA AnsweredFits ==
    ASSUME NEW m, NEW p, NEW w, NEW f, Fits(m, p, w, f), w.stage = "answered",
           m.phase \in {"ingame", "resuming"}, NEW n, Answered(m, n),
           NEW g, g.outcome = f.outcome
    PROVE  Fits(n, p, NoWorker, g)
<1>1. Sound(n)
  BY DEF Fits, Sound, Answered
<1>2. Pauses(m) => Pauses(n)
  BY DEF Answered, Pauses, HeldBy, Healing, InGame
<1>3. Calm(n, p)
  BY <1>2 DEF Fits, Calm, Over, Answered, AiPlace, Processes
<1>4. ~Early(m) /\ m.phase # "postgame" /\ NoWorker.stage = "idle"
  BY DEF Early, NoWorker
<1>5. "checkpoint" \notin m.effects.all
  BY <1>4 DEF Fits, Runs
<1>6. Runs(n, NoWorker)
  BY <1>4, <1>5 DEF Runs, Answered
<1>7. Decided(n, NoWorker, g)
  BY <1>4 DEF Fits, Decided, Answered
<1>. QED  BY <1>1, <1>3, <1>6, <1>7 DEF Fits

\* The machine once no run is waited for.
Done(m) == [m EXCEPT !.pending = NoRun]

\* Which is one way to take an answer.
LEMMA DoneAnswered ==
    ASSUME NEW m \in Matches
    PROVE  Answered(m, Done(m))
<1>. DEFINE Run == [id : 0 .. MaxRuns, turn : 0 .. MaxTurn, scratch : BOOLEAN]
<1>1. NoRun \in Run
  BY LifecycleAssumption DEF NoRun
<1>. QED  BY <1>1 DEF Answered, Done, Matches

\* on_checkpointed takes the answer to the one run there is; when it decides
\* the match, its outcome was the last to be written.
LEMMA CheckpointedFits ==
    ASSUME NEW m, NEW p, NEW w, NEW f, Fits(m, p, w, f), w.stage = "answered",
           m.phase = "ingame", w.id \in 0 .. MaxRuns, NEW result,
           NEW g, g.outcome = f.outcome, result # "failed" => g.last = w.id,
           NEW n, n = Checkpointed(m, w.id, result)
    PROVE  Fits(n, p, NoWorker, g) /\ VerdictComes(n)
<1>1. m \in Matches /\ Sound(m) /\ Calm(m, p)
  BY DEF Fits, Sound
<1>2. m.pending.id = w.id /\ m.pending.id # 0 /\ "checkpoint" \notin m.effects.all
  BY DEF Fits, Runs, Early
<1>3. \/ \E k : Answered(m, k) /\ n = AfterInput(k)
      \/ \E k : Answered(m, k) /\ n = EndMatch(k, w.id) /\ result = "decided"
  <2>. DEFINE done == [m EXCEPT !.pending = NoRun]
              fresh == [done EXCEPT !.failures = 0]
              base == IF fresh.base < m.pending.turn THEN m.pending.turn ELSE fresh.base
              a == [done EXCEPT !.disabled = TRUE]
              b == [done EXCEPT !.failures = 0, !.base = 0]
              c == [done EXCEPT !.failures = 1]
              d == [fresh EXCEPT !.base = base]
  <2>2. \/ n = AfterInput(a) \/ n = AfterInput(b) \/ n = AfterInput(c) \/ n = AfterInput(d)
        \/ n = EndMatch(d, w.id) /\ result = "decided"
    BY <1>2 DEF Checkpointed
  <2>3. 0 \in 0 .. 1 /\ 1 \in 0 .. 1 /\ 0 \in 0 .. MaxTurn
    BY LifecycleAssumption
  <2>4. Answered(m, done)
    BY <1>1, DoneAnswered DEF Done
  <2>. HIDE DEF done
  <2>5. Answered(m, a)
    BY <2>4 DEF Answered, Matches
  <2>6. Answered(m, b)
    BY <2>3, <2>4 DEF Answered, Matches
  <2>7. Answered(m, c)
    BY <2>3, <2>4 DEF Answered, Matches
  <2>8. Answered(m, fresh)
    BY <2>3, <2>4 DEF Answered, Matches
  <2>. HIDE DEF a, b, c, fresh
  <2>9. base \in 0 .. MaxTurn
    BY <1>1, <2>8 DEF Answered, Matches
  <2>. HIDE DEF base
  <2>10. Answered(m, d)
    BY <2>8, <2>9 DEF Answered, Matches
  <2>. HIDE DEF d
  <2>. QED  BY <2>2, <2>5, <2>6, <2>7, <2>10
<1>4. ASSUME NEW k, Answered(m, k), n = AfterInput(k)
      PROVE  Fits(n, p, NoWorker, g) /\ VerdictComes(n)
  <2>1. Fits(k, p, NoWorker, g)
    BY <1>4, AnsweredFits
  <2>2. n = After(k)
    BY <1>4 DEF After, AfterResuming, Answered
  <2>. QED  BY <2>1, <2>2, AfterFits
<1>5. ASSUME NEW k, Answered(m, k), n = EndMatch(k, w.id), result = "decided"
      PROVE  Fits(n, p, NoWorker, g) /\ VerdictComes(n)
  <2>1. Fits(k, p, NoWorker, g)
    BY <1>5, AnsweredFits
  <2>2. k.phase = "ingame" /\ k.resolvedBy = m.resolvedBy /\ k.effects = m.effects
    BY <1>5 DEF Answered
  <2>3. /\ Sound(n) /\ Calm(n, p) /\ StillAsks(k, n)
        /\ n.phase = "postgame" /\ n.pending = NoRun /\ n.resolvedBy = w.id
        /\ "ended" \in n.effects.all
    BY <1>5, <2>1, <2>2, EndMatchCalm DEF Fits
  <2>4. Runs(n, NoWorker)
    BY <2>3 DEF Runs
  <2>5. "checkpoint" \notin n.effects.all
    BY <1>2, <2>2, <2>3 DEF StillAsks
  <2>6. Decided(n, NoWorker, g)
    BY <1>2, <1>5, <2>3, <2>5 DEF Decided, NoWorker
  <2>7. VerdictComes(n)
    BY <2>3, NoVerdictElsewhere
  <2>. QED  BY <2>3, <2>4, <2>6, <2>7 DEF Fits
<1>. QED  BY <1>3, <1>4, <1>5

\* on_restored takes the answer to the run that restores the match.
LEMMA RestoredFits ==
    ASSUME NEW m, NEW p, NEW w, NEW f, Fits(m, p, w, f), w.stage = "answered",
           m.phase = "resuming", NEW result, NEW g, g.outcome = f.outcome,
           NEW n, n = Restored(m, w.id, result)
    PROVE  Fits(n, p, NoWorker, g)
<1>. DEFINE done == [m EXCEPT !.pending = NoRun]
            stored == [done EXCEPT !.base = m.pending.turn]
<1>1. m.pending.id = w.id
  BY DEF Fits, Runs, Early
<1>2. m \in Matches
  BY DEF Fits, Sound
<1>3. n = Abandon(done) \/ n = stored
  BY <1>1 DEF Restored
<1>a. Answered(m, done)
  BY <1>2, DoneAnswered DEF Done
<1>. HIDE DEF done
<1>b. m.pending.turn \in 0 .. MaxTurn
  BY <1>2 DEF Matches
<1>c. Answered(m, stored)
  BY <1>a, <1>b DEF Answered, Matches
<1>. HIDE DEF stored
<1>4. Fits(done, p, NoWorker, g) /\ Fits(stored, p, NoWorker, g)
  BY <1>a, <1>c, AnsweredFits
<1>5. CASE n = Abandon(done)
  <2>1. Quiet(done, n) /\ Calm(n, p)
    BY <1>4, <1>5, AbandonCalm DEF Fits
  <2>. QED  BY <1>4, <2>1, QuietFits
<1>. QED  BY <1>3, <1>4, <1>5

-----------------------------------------------------------------------------
(* Setup, loading and the people.                                          *)

\* A step that touches neither the AI host nor the checkpoint run, and asks
\* for nothing.
Aside(m, n) ==
    /\ n \in Matches /\ n.ai = m.ai /\ n.effects = m.effects /\ n.phase = m.phase
    /\ n.pending = m.pending /\ n.nextId = m.nextId /\ n.resolvedBy = m.resolvedBy

\* A change that neither the AI host nor the checkpoints can tell.
LEMMA AsideCalm ==
    ASSUME NEW m, Sound(m), NEW p, Calm(m, p), NEW n, Aside(m, n),
           Pauses(m) => Pauses(n)
    PROVE  Quiet(m, n) /\ Sound(n) /\ n.phase = m.phase /\ n.ai = m.ai /\ Calm(n, p)
<1>1. Quiet(m, n) /\ Sound(n)
  BY DEF Aside, Sound, Quiet, StillAsks, Early
<1>2. Calm(n, p)
  BY DEF Aside, Calm, Over, AiPlace, Processes
<1>. QED  BY <1>1, <1>2 DEF Aside

\* Nor does it touch the people.
LEMMA PeopleAside ==
    ASSUME NEW m, NEW n, Aside(m, n), n.role = m.role, n.told = m.told, n.afk = m.afk
    PROVE  Pauses(m) => Pauses(n)
BY DEF Aside, Pauses, HeldBy, Healing, InGame

\* A start is refused: the AI host that did not come is let go.
LEMMA RefuseStartCalm ==
    ASSUME NEW m, Sound(m), NEW p, Calm(m, p), m.phase = "await",
           NEW n, n = RefuseStart(m), NEW q
    PROVE  Quiet(m, n) /\ Sound(n) /\ n.phase = "setup" /\ Calm(n, q)
<1>. DEFINE j == [m EXCEPT !.phase = "setup"]
            k == [j EXCEPT !.ai = NoAi]
            l == Emit(k, "stop")
<1>0. "stop" \in Effects \ {"checkpoint"} /\ "over" \in {"ended", "over"} \cup Statuses
  BY DEF Effects
<1>1. n = EmitIf(config.scripted, l, "over")
  BY DEF RefuseStart
<1>2. /\ j \in Matches /\ j.phase = "setup" /\ j.ai = m.ai /\ j.effects = m.effects
      /\ j.role = m.role /\ j.told = m.told /\ j.afk = m.afk
      /\ j.pending = m.pending /\ j.nextId = m.nextId /\ j.resolvedBy = m.resolvedBy
  BY DEF Sound, Matches
<1>3. Quiet(m, j) /\ Sound(j)
  BY <1>2 DEF Sound, Quiet, StillAsks, Early
<1>. HIDE DEF j
<1>4. Quiet(j, k) /\ Sound(k) /\ SameGame(j, k) /\ k.ai = NoAi
  BY <1>3, AiTypes, AiQuiet
<1>5. k \in Matches
  BY <1>4 DEF Sound
<1>. HIDE DEF k
<1>6. Quiet(k, l) /\ Sound(l)
  BY <1>0, <1>4, EmitQuiet
<1>7. SameGame(k, l) /\ l.ai = k.ai /\ l.effects.process = "stop"
  BY <1>0, <1>5, EmitFields
<1>. HIDE DEF l
<1>8. Quiet(m, l) /\ l.phase = "setup" /\ l.ai = NoAi
  BY <1>2, <1>3, <1>4, <1>6, <1>7, QuietTwice DEF SameGame
<1>9. Over(l) \/ Pauses(l)
  <2>1. CASE Over(m)
    BY <1>8, <2>1, StaysOver
  <2>2. CASE ~Over(m)
    <3>1. Pauses(m) /\ m.ai.heal = 0
      BY <2>2 DEF Calm, AiPlace
    <3>2. ~HeldBy(m) /\ m.told = {} /\ ~m.afk
      BY <3>1 DEF Pauses, HeldBy, Healing
    <3>3. l.told = {} /\ ~l.afk
      BY <1>2, <1>4, <1>7, <3>2 DEF SameGame
    <3>4. ~HeldBy(l)
      BY <1>8, <3>3 DEF HeldBy, Healing, NoAi
    <3>. QED  BY <3>3, <3>4 DEF Pauses
  <2>. QED  BY <2>1, <2>2
<1>10. Calm(l, q)
  BY <1>7, <1>8, <1>9, NobodyAwaited
<1>11. Quiet(l, n) /\ Sound(n) /\ SameGame(l, n) /\ Calm(n, q)
  BY <1>0, <1>1, <1>6, <1>10, EmitIfCalm
<1>. QED  BY <1>8, <1>11, QuietTwice DEF SameGame

\* A start waits for the AI host, whose process is asked for.
LEMMA HoldForAiHostCalm ==
    ASSUME NEW m, Sound(m), NEW p, Calm(m, p), m.phase = "setup", NEW n, n = HoldForAiHost(m)
    PROVE  Quiet(m, n) /\ Sound(n) /\ Calm(n, p) /\ n.phase = "await"
<1>. DEFINE j == [m EXCEPT !.phase = "await"]
            ai == [m.ai EXCEPT !.at = "away"]
            k == [j EXCEPT !.ai = ai]
<1>0. "spawn" \in Effects \ {"checkpoint"}
  BY DEF Effects
<1>1. n = Emit(k, "spawn")
  BY DEF HoldForAiHost, Sound, Matches, AiHosts
<1>2. /\ j \in Matches /\ j.phase = "await" /\ j.ai = m.ai /\ j.effects = m.effects
      /\ j.role = m.role /\ j.told = m.told /\ j.afk = m.afk
      /\ j.pending = m.pending /\ j.nextId = m.nextId /\ j.resolvedBy = m.resolvedBy
  BY DEF Sound, Matches
<1>3. Quiet(m, j) /\ Sound(j)
  BY <1>2 DEF Sound, Quiet, StillAsks, Early
<1>4. ai \in AiHosts /\ ai.at = "away" /\ ai.heal = m.ai.heal /\ ai.verdict = m.ai.verdict
  BY AiRange DEF Sound, AiHosts
<1>. HIDE DEF j, ai
<1>5. Quiet(j, k) /\ Sound(k) /\ SameGame(j, k) /\ k.ai = ai
  BY <1>3, <1>4, AiQuiet
<1>6. k \in Matches
  BY <1>5 DEF Sound
<1>. HIDE DEF k
<1>7. Quiet(k, n) /\ Sound(n)
  BY <1>0, <1>1, <1>5, EmitQuiet
<1>8. SameGame(k, n) /\ n.ai = ai /\ n.effects.process = "spawn"
  BY <1>0, <1>1, <1>5, <1>6, EmitFields
<1>9. Quiet(m, n) /\ n.phase = "await"
  BY <1>2, <1>3, <1>5, <1>7, <1>8, QuietTwice DEF SameGame
<1>10. CASE Over(m)
  BY <1>7, <1>9, <1>10, StaysOver DEF Calm
<1>11. CASE ~Over(m)
  <2>1. Pauses(m) /\ AiPlace(m)
    BY <1>11 DEF Calm
  <2>2. Pauses(n)
    BY <1>2, <1>4, <1>5, <1>8, <2>1 DEF SameGame, Pauses, HeldBy, Healing, InGame
  <2>3. AiPlace(n) /\ Processes(n, p)
    BY <1>4, <1>8, <1>9, <2>1 DEF AiPlace, Processes
  <2>. QED  BY <1>7, <1>9, <2>2, <2>3 DEF Calm
<1>. QED  BY <1>10, <1>11

\* The match begins once nobody is loading.
LEMMA FinishLoadingCalm ==
    ASSUME NEW m, Sound(m), NEW p, Calm(m, p), NEW n, n = FinishLoading(m)
    PROVE  Quiet(m, n) /\ Sound(n) /\ n.ai = m.ai /\ Calm(n, p)
<1>. DEFINE k == [m EXCEPT !.phase = "ingame"]
<1>1. \/ n = m
      \/ m.phase = "loading" /\ m.ai.at # "loading" /\ n = EmitIf(config.saving, k, "started")
  BY DEF FinishLoading
<1>2. CASE n = m
  BY <1>2 DEF Quiet, StillAsks, Early
<1>3. CASE m.phase = "loading" /\ m.ai.at # "loading" /\ n = EmitIf(config.saving, k, "started")
  <2>1. /\ k \in Matches /\ k.phase = "ingame" /\ k.ai = m.ai /\ k.effects = m.effects
        /\ k.role = m.role /\ k.told = m.told /\ k.afk = m.afk
        /\ k.pending = m.pending /\ k.nextId = m.nextId /\ k.resolvedBy = m.resolvedBy
    BY DEF Sound, Matches
  <2>2. Quiet(m, k) /\ Sound(k)
    BY <1>3, <2>1 DEF Sound, Quiet, StillAsks, Early
  <2>. HIDE DEF k
  <2>3. Calm(k, p)
    <3>1. CASE Over(m)
      BY <2>1, <3>1 DEF Over, Calm
    <3>2. CASE ~Over(m)
      <4>1. Pauses(m) /\ AiPlace(m) /\ Processes(m, p)
        BY <3>2 DEF Calm
      <4>2. Pauses(k)
        BY <1>3, <2>1, <4>1 DEF Pauses, HeldBy, Healing, InGame
      <4>3. AiPlace(k) /\ Processes(k, p)
        BY <1>3, <2>1, <4>1 DEF AiPlace, Processes
      <4>. QED  BY <4>2, <4>3 DEF Calm
    <3>. QED  BY <3>1, <3>2
  <2>4. "started" \in {"ended", "over"} \cup Statuses
    BY DEF Statuses
  <2>5. Quiet(k, n) /\ Sound(n) /\ n.ai = k.ai /\ Calm(n, p)
    BY <1>3, <2>2, <2>3, <2>4, EmitIfCalm
  <2>. QED  BY <2>1, <2>2, <2>5, QuietTwice
<1>. QED  BY <1>1, <1>2, <1>3

\* People leave, and the pauses they were shown go with them.
LEMMA GoneCalm ==
    ASSUME NEW m, Sound(m), NEW p, Calm(m, p), NEW ps, NEW n, n = Gone(m, ps)
    PROVE  Quiet(m, n) /\ Sound(n) /\ n.phase = m.phase /\ n.ai = m.ai /\ Calm(n, p)
<1>. DEFINE role == [person \in Person |-> IF person \in ps THEN "out" ELSE m.role[person]]
            k == [m EXCEPT !.role = role]
            shown == m.told \ ps
<1>1. m \in Matches /\ m.role \in [Person -> Roles]
  BY DEF Sound, Matches
<1>2. n = [k EXCEPT !.told = shown]
  BY <1>1 DEF Gone, Matches
<1>3. role \in [Person -> Roles]
  BY <1>1 DEF Roles
<1>4. shown \in SUBSET Person
  BY <1>1 DEF Matches
<1>5. /\ \A person \in Person : role[person] = IF person \in ps THEN "out" ELSE m.role[person]
  OBVIOUS
<1>6. \A person \in shown : person \in m.told /\ person \notin ps
  OBVIOUS
<1>7. \A person \in m.told \ ps : person \in shown
  OBVIOUS
<1>. HIDE DEF role, shown
<1>8. /\ k \in Matches /\ k.role = role /\ k.ai = m.ai /\ k.effects = m.effects
      /\ k.phase = m.phase /\ k.afk = m.afk
      /\ k.pending = m.pending /\ k.nextId = m.nextId /\ k.resolvedBy = m.resolvedBy
  BY <1>1, <1>3 DEF Matches
<1>. HIDE DEF k
<1>9. /\ n \in Matches /\ n.role = role /\ n.told = shown /\ n.ai = m.ai
      /\ n.effects = m.effects /\ n.phase = m.phase /\ n.afk = m.afk
      /\ n.pending = m.pending /\ n.nextId = m.nextId /\ n.resolvedBy = m.resolvedBy
  BY <1>2, <1>4, <1>8 DEF Matches
<1>10. Aside(m, n)
  BY <1>9 DEF Aside
<1>11. HeldBy(n) <=> HeldBy(m)
  BY <1>9 DEF HeldBy, Healing
<1>12. ASSUME Pauses(m)
       PROVE  Pauses(n)
  <2>1. n.told \subseteq InGame(n)
    BY <1>4, <1>5, <1>6, <1>9, <1>12 DEF Pauses, InGame
  <2>2. n.told # {} => HeldBy(n)
    BY <1>6, <1>9, <1>11, <1>12 DEF Pauses
  <2>3. HeldBy(n) => \A person \in Person : n.role[person] = "ingame" => person \in n.told
    BY <1>5, <1>7, <1>9, <1>11, <1>12 DEF Pauses
  <2>. QED  BY <1>9, <1>12, <2>1, <2>2, <2>3 DEF Pauses
<1>. QED  BY <1>10, <1>12, AsideCalm

\* Those who are still loading are dropped, the AI host among them.
LEMMA LoadingTimedOutCalm ==
    ASSUME NEW m, Sound(m), NEW p, Calm(m, p), m.phase = "loading", NEW n, n = LoadingTimedOut(m)
    PROVE  Quiet(m, n) /\ Sound(n) /\ Calm(n, p)
<1>. DEFINE present == Gone(m, {person \in Person : m.role[person] = "setup"})
            k == IF m.ai.at = "loading" THEN AiHostLeft(present) ELSE present
<1>1. n = FinishLoading(k)
  BY DEF LoadingTimedOut
<1>2. /\ Quiet(m, present) /\ Sound(present) /\ present.phase = "loading"
      /\ Calm(present, p)
  BY GoneCalm
<1>. HIDE DEF present
<1>3. Quiet(m, k) /\ Sound(k) /\ Calm(k, p)
  <2>1. CASE k = present
    BY <1>2, <2>1
  <2>2. CASE k = AiHostLeft(present)
    <3>1. present.phase # "await"
      BY <1>2
    <3>2. Quiet(present, k) /\ Sound(k) /\ Calm(k, p)
      BY <1>2, <2>2, <3>1, AiHostLeftCalm
    <3>. QED  BY <1>2, <3>2, QuietTwice
  <2>. QED  BY <2>1, <2>2
<1>. HIDE DEF k
<1>4. Quiet(k, n) /\ Sound(n) /\ Calm(n, p)
  BY <1>1, <1>3, FinishLoadingCalm
<1>. QED  BY <1>3, <1>4, QuietTwice

-----------------------------------------------------------------------------
(* The clock.                                                              *)

\* The parts of a tick: a server nobody is on is shut down,
LEMMA IdleShutdownCalm ==
    ASSUME NEW m, Sound(m), NEW p, Calm(m, p), NEW n, n = IdleShutdown(m)
    PROVE  Quiet(m, n) /\ Sound(n) /\ Calm(n, p)
<1>. DEFINE l == EmitIf(m.phase = "ingame" /\ config.saving, m, "finished")
<1>0. {"finished", "over"} \subseteq {"ended", "over"} \cup Statuses
  BY DEF Statuses
<1>1. n = m \/ n = Emit(l, "over")
  BY DEF IdleShutdown
<1>2. Quiet(m, l) /\ Sound(l) /\ Calm(l, p)
  BY <1>0, EmitIfCalm
<1>. HIDE DEF l
<1>3. CASE n = m
  BY <1>3 DEF Quiet, StillAsks, Early
<1>4. CASE n = Emit(l, "over")
  <2>1. Quiet(l, n) /\ Sound(n) /\ Calm(n, p)
    BY <1>0, <1>2, <1>4, EmitCalm
  <2>. QED  BY <1>2, <2>1, QuietTwice
<1>. QED  BY <1>1, <1>3, <1>4

\* a heal is tried again,
LEMMA HealTimedOutCalm ==
    ASSUME NEW m, Sound(m), NEW p, Calm(m, p), NEW n, n = HealTimedOut(m)
    PROVE  Quiet(m, n) /\ Sound(n) /\ Calm(n, p)
<1>1. Healing(m) <=> m.ai.heal # 0
  BY AiRange DEF Sound
<1>2. CASE n = m
  BY <1>2 DEF Quiet, StillAsks, Early
<1>3. CASE n = RetryHeal(m) /\ m.ai.heal # 0
  <2>1. \/ Over(m)
        \/ /\ Pauses(m) /\ m.phase \in {"ingame", "resuming"}
           /\ m.ai.at \in {"away", "syncing"}
           /\ m.phase = "ingame" \/ m.ai.verdict = NoVerdict
    <3>1. m.ai.at \in {"none", "away", "loading", "syncing", "in"}
      BY AiRange DEF Sound, AiHosts
    <3>. QED  BY <1>3, <3>1 DEF Calm, AiPlace
  <2>. QED  BY <1>3, <2>1, RetryHealCalm
<1>. QED  BY <1>1, <1>2, <1>3 DEF HealTimedOut

\* players who are away hold the match, or no longer do,
LEMMA CheckBudgetCalm ==
    ASSUME NEW m, Sound(m), NEW p, Calm(m, p), NEW absent \in BOOLEAN,
           NEW n, n = CheckBudget(m, absent)
    PROVE  Quiet(m, n) /\ Sound(n) /\ Calm(n, p)
<1>. DEFINE k == [m EXCEPT !.afk = FALSE, !.prefetch = FALSE]
            h == [m EXCEPT !.afk = TRUE, !.prefetch = TRUE]
            shown == m.told \cup InGame(m)
            l == [h EXCEPT !.told = shown]
<1>1. m \in Matches /\ m.afk \in BOOLEAN
  BY DEF Sound, Matches
<1>2. \/ n = m
      \/ m.phase = "ingame" /\ n = l
      \/ m.phase \in {"ingame", "postgame"} /\ n = ServerPause(k, FALSE)
  BY <1>1 DEF CheckBudget, Matches
<1>3. CASE n = m
  BY <1>3 DEF Quiet, StillAsks, Early
<1>4. CASE m.phase = "ingame" /\ n = l
  <2>1. shown \in SUBSET Person
    BY <1>1 DEF InGame, Matches
  <2>2. InGame(m) \subseteq shown /\ (m.told \subseteq InGame(m) => shown \subseteq InGame(m))
    OBVIOUS
  <2>. HIDE DEF shown
  <2>3. /\ h \in Matches /\ h.afk = TRUE /\ h.role = m.role /\ h.ai = m.ai /\ h.effects = m.effects
        /\ h.phase = m.phase /\ h.pending = m.pending /\ h.nextId = m.nextId
        /\ h.resolvedBy = m.resolvedBy
    BY <1>1 DEF Matches
  <2>. HIDE DEF h
  <2>4. /\ l \in Matches /\ l.told = shown /\ l.afk = TRUE /\ l.role = m.role /\ l.ai = m.ai
        /\ l.effects = m.effects /\ l.phase = m.phase /\ l.pending = m.pending
        /\ l.nextId = m.nextId /\ l.resolvedBy = m.resolvedBy
    BY <2>1, <2>3 DEF Matches
  <2>. HIDE DEF l
  <2>5. Aside(m, n)
    BY <1>4, <2>4 DEF Aside
  <2>6. HeldBy(n) /\ InGame(n) = InGame(m)
    BY <1>4, <2>4 DEF HeldBy, InGame
  <2>7. Pauses(m) => Pauses(n)
    BY <1>4, <2>2, <2>4, <2>6 DEF Pauses, InGame
  <2>. QED  BY <2>5, <2>7, AsideCalm
<1>5. CASE m.phase \in {"ingame", "postgame"} /\ n = ServerPause(k, FALSE)
  <2>1. /\ k \in Matches /\ k.afk = FALSE /\ k.told = m.told /\ k.role = m.role /\ k.ai = m.ai
        /\ k.effects = m.effects /\ k.phase = m.phase /\ k.pending = m.pending
        /\ k.nextId = m.nextId /\ k.resolvedBy = m.resolvedBy
    BY <1>1 DEF Matches
  <2>. HIDE DEF k
  <2>2. Sound(k)
    BY <2>1 DEF Sound
  <2>3. /\ Quiet(k, n) /\ Sound(n) /\ n.ai = k.ai /\ n.effects = k.effects
        /\ n.phase = k.phase /\ n.role = k.role /\ n.afk = k.afk
        /\ n.told = IF k.afk \/ Healing(k) THEN k.told ELSE k.told \ InGame(k)
    BY <1>5, <2>2, Unpaused
  <2>4. Aside(m, n)
    BY <2>1, <2>3 DEF Quiet, Sound, Aside
  <2>5. (HeldBy(n) <=> Healing(m)) /\ (Healing(k) <=> Healing(m)) /\ InGame(n) = InGame(m)
        /\ InGame(k) = InGame(m) /\ ~n.afk /\ ~k.afk
    BY <1>5, <2>1, <2>3 DEF HeldBy, Healing, InGame
  <2>6. Healing(m) => HeldBy(m)
    BY DEF HeldBy
  <2>7. Pauses(m) => Pauses(n)
    BY <2>1, <2>3, <2>5, <2>6 DEF Pauses
  <2>. QED  BY <2>4, <2>7, AsideCalm
<1>. QED  BY <1>2, <1>3, <1>4, <1>5

\* the limit of the phase is over,
LEMMA PhaseTimedOutCalm ==
    ASSUME NEW m, Sound(m), NEW p, Calm(m, p), NEW n, n = PhaseTimedOut(m)
    PROVE  Quiet(m, n) /\ Sound(n) /\ Calm(n, p)
<1>1. \/ n = m
      \/ m.phase = "await" /\ n = RefuseStart(m)
      \/ m.phase = "loading" /\ n = LoadingTimedOut(m)
      \/ n = Abandon(m)
      \/ n = Emit(m, "over")
  BY DEF PhaseTimedOut
<1>2. CASE n = m
  BY <1>2 DEF Quiet, StillAsks, Early
<1>3. CASE m.phase = "await" /\ n = RefuseStart(m)
  BY <1>3, RefuseStartCalm
<1>4. CASE m.phase = "loading" /\ n = LoadingTimedOut(m)
  BY <1>4, LoadingTimedOutCalm
<1>5. CASE n = Abandon(m)
  BY <1>5, AbandonCalm
<1>6. CASE n = Emit(m, "over")
  BY <1>6, EmitCalm
<1>. QED  BY <1>1, <1>2, <1>3, <1>4, <1>5, <1>6

\* and turns are released.
LEMMA ReleasesCalm ==
    ASSUME NEW m, Sound(m), NEW p, Calm(m, p), NEW n \in Releases(m)
    PROVE  Quiet(m, n) /\ Sound(n) /\ Calm(n, p)
<1>1. CASE n = m
  BY <1>1 DEF Quiet, StillAsks, Early
<1>2. CASE m.turn < MaxTurn /\ n = [m EXCEPT !.turn = @ + 1]
  <2>1. m \in Matches /\ m.turn + 1 \in InitialTurn .. MaxTurn
    BY <1>2, LifecycleAssumption DEF Sound, Matches, InitialTurn
  <2>2. Aside(m, n) /\ n.role = m.role /\ n.told = m.told /\ n.afk = m.afk
    BY <1>2, <2>1 DEF Aside, Matches
  <2>. QED  BY <2>2, PeopleAside, AsideCalm
<1>. QED  BY <1>1, <1>2 DEF Releases

\* A tick is all of these, one after another.
LEMMA TickedFits ==
    ASSUME NEW m, NEW p, NEW w, NEW f, Fits(m, p, w, f),
           NEW idle, NEW heal, NEW phase, NEW absent \in BOOLEAN,
           NEW n \in Ticked(m, idle, heal, phase, absent)
    PROVE  Fits(n, p, w, f) /\ VerdictComes(n)
<1>. DEFINE From(a, b) == Quiet(a, b) /\ Sound(b) /\ Calm(b, p)
            a == IF idle THEN IdleShutdown(m) ELSE m
            b == IF heal THEN HealTimedOut(a) ELSE a
            c == CheckBudget(b, absent)
            late(x) == phase \/ (x.phase = "postgame" /\ Here(x) = {})
<1>1. PICK d \in IF config.scripted THEN Releases(c) ELSE {c} :
         n = After(IF late(d) THEN PhaseTimedOut(d) ELSE d)
  <2>. DEFINE idled == {IF idle THEN IdleShutdown(x) ELSE x : x \in {m}}
              healed == {IF heal THEN HealTimedOut(x) ELSE x : x \in idled}
              checked == {CheckBudget(x, absent) : x \in healed}
              paced == IF config.scripted THEN UNION {Releases(x) : x \in checked} ELSE checked
              limited == {IF late(x) THEN PhaseTimedOut(x) ELSE x : x \in paced}
  <2>1. n \in {After(x) : x \in limited}
    BY DEF Ticked
  <2>2. \A x \in idled : x = a
    OBVIOUS
  <2>. HIDE DEF idled, a
  <2>3. \A x \in healed : x = b
    BY <2>2
  <2>. HIDE DEF healed, b
  <2>4. \A x \in checked : x = c
    BY <2>3
  <2>. HIDE DEF checked, c
  <2>5. \A x \in paced : x \in IF config.scripted THEN Releases(c) ELSE {c}
    BY <2>4
  <2>. HIDE DEF paced
  <2>6. PICK x \in limited : n = After(x)
    BY <2>1
  <2>7. PICK d \in paced : x = IF late(d) THEN PhaseTimedOut(d) ELSE d
    BY <2>6
  <2>. HIDE DEF late, limited
  <2>. QED  BY <2>5, <2>6, <2>7
<1>. DEFINE e == IF late(d) THEN PhaseTimedOut(d) ELSE d
<1>2. \A x : Quiet(x, x)
  BY DEF Quiet, StillAsks, Early
<1>3. Sound(m) /\ Calm(m, p)
  BY DEF Fits
<1>4. From(m, a)
  BY <1>2, <1>3, IdleShutdownCalm
<1>. HIDE DEF a
<1>5. From(a, b)
  BY <1>2, <1>4, HealTimedOutCalm
<1>. HIDE DEF b
<1>6. From(b, c)
  BY <1>5, CheckBudgetCalm
<1>7. From(c, d)
  BY <1>1, <1>2, <1>6, ReleasesCalm
<1>. HIDE DEF c
<1>8. From(d, e)
  BY <1>2, <1>7, PhaseTimedOutCalm
<1>9. n = After(e)
  BY <1>1
<1>. HIDE DEF e
<1>10. Quiet(m, e)
  BY <1>4, <1>5, <1>6, <1>7, <1>8, QuietTwice
<1>. QED  BY <1>8, <1>9, <1>10, QuietAfter

-----------------------------------------------------------------------------
(* The game thread.                                                        *)

\* A new machine: nobody there, nothing asked for.
LEMMA NewMatchType ==
    /\ NewMatch \in Matches
    /\ NewMatch.ai = NoAi /\ NewMatch.phase = "setup" /\ NewMatch.told = {}
    /\ NewMatch.afk = FALSE /\ NewMatch.effects = NothingAsked
    /\ NewMatch.pending = NoRun /\ NewMatch.nextId = 1 /\ NewMatch.resolvedBy = 0
    /\ NewMatch.role = [p \in Person |-> "out"] /\ NewMatch.turn = InitialTurn
<1>1. [p \in Person |-> "out"] \in [Person -> Roles]
  BY DEF Roles
<1>2. NoAi \in AiHosts
  BY AiTypes
<1>3. NoRun \in [id : 0 .. MaxRuns, turn : 0 .. MaxTurn, scratch : BOOLEAN]
  BY LifecycleAssumption DEF NoRun
<1>4. NothingAsked \in Asked
  BY DEF NothingAsked, Asked
<1>5. /\ InitialTurn \in InitialTurn .. MaxTurn /\ 0 \in 0 .. MaxTurn /\ 0 \in 0 .. MaxRuns
      /\ 1 \in 1 .. MaxRuns + 1 /\ 0 \in 0 .. 1
  BY LifecycleAssumption DEF InitialTurn
<1>. QED  BY <1>1, <1>2, <1>3, <1>4, <1>5 DEF NewMatch, Matches

\* The machine of a game that is over has its type.
LEMMA DroppedType ==
    ASSUME NEW m \in Matches
    PROVE  Dropped(m) \in Matches /\ Dropped(m).resolvedBy = m.resolvedBy
<1>. DEFINE new == NewMatch
            a == [new EXCEPT !.phase = m.phase]
            b == [a EXCEPT !.turn = m.turn]
            c == [b EXCEPT !.resolvedBy = m.resolvedBy]
            d == [c EXCEPT !.kept = m.kept]
<1>1. new \in Matches
  BY NewMatchType
<1>2. Dropped(m) = d
  BY DEF Dropped
<1>. HIDE DEF new
<1>3. a \in Matches
  BY <1>1 DEF Matches
<1>. HIDE DEF a
<1>4. b \in Matches
  BY <1>3 DEF Matches
<1>. HIDE DEF b
<1>5. c \in Matches /\ c.resolvedBy = m.resolvedBy
  BY <1>4 DEF Matches
<1>. HIDE DEF c
<1>6. d \in Matches /\ d.resolvedBy = c.resolvedBy
  BY <1>5 DEF Matches
<1>. QED  BY <1>2, <1>5, <1>6

\* Once a machine that fits is drained, the process and the run it asked for
\* are there.
LEMMA DrainKeepsIInv ==
    ASSUME IInv, thread = "playing", NEW m, Fits(m, process, run, files), VerdictComes(m),
           NEW works \in Works(m), DrainOf(m, works)
    PROVE  IInv'
<1>. DEFINE asked == m.effects
            all == asked.all
            p == process'
            w == run'
            f == files'
            n == match'
<1>1. /\ m \in Matches /\ asked \in Asked /\ works \in BOOLEAN
      /\ ("spawn" \notin all => works)
      /\ (asked.process = "spawn" => "spawn" \in all)
  BY DEF Fits, Sound, Matches, Works
<1>2. /\ n = IF Over(m) THEN Dropped(m) ELSE [m EXCEPT !.effects = NothingAsked]
      /\ p = [at |-> IF Over(m) THEN "none" ELSE ProcessAfter(asked, works).at,
              exited |-> ProcessAfter(asked, works).exited]
      /\ f = FilesAfter(asked, m.resolvedBy)
      /\ w = Cancelled(IF "checkpoint" \in all THEN Begun(m.nextId - 1) ELSE run, Over(m))
      /\ thread' = IF Over(m) THEN "closing" ELSE "playing"
      /\ config' = config
  BY DEF DrainOf, Over
<1>3. /\ p.at = IF Over(m) THEN "none"
                ELSE IF asked.process = "kept" THEN process.at
                ELSE IF asked.process = "spawn" /\ works THEN "dialing" ELSE "none"
      /\ p.exited = (process.exited \/ ("spawn" \in all /\ ~works))
  BY <1>1, <1>2 DEF ProcessAfter, Asked
<1>4. /\ w.stage = IF "checkpoint" \in all THEN "running" ELSE run.stage
      /\ w.id = IF "checkpoint" \in all THEN m.nextId - 1 ELSE run.id
  BY <1>2 DEF Cancelled, Begun
<1>5. /\ f.outcome = IF "ended" \in all /\ files.last # 0 /\ files.last = m.resolvedBy
                     THEN "final" ELSE files.outcome
  BY <1>2 DEF FilesAfter
<1>6. TypeOK'
  <2>1. n \in Matches
    <3>1. NothingAsked \in Asked
      BY DEF NothingAsked, Asked
    <3>2. [m EXCEPT !.effects = NothingAsked] \in Matches
      BY <1>1, <3>1 DEF Matches
    <3>. QED  BY <1>1, <1>2, <3>2, DroppedType
  <2>2. p \in [at : {"none", "dialing", "dialed", "dead"}, exited : BOOLEAN]
    <3>1. process.at \in {"none", "dialing", "dialed", "dead"} /\ process.exited \in BOOLEAN
      BY DEF IInv, TypeOK
    <3>. QED  BY <1>1, <1>2, <3>1 DEF ProcessAfter, Asked
  <2>3. w \in [stage : {"idle", "running", "writing", "answered"}, id : 0 .. MaxRuns,
               result : {"failed", "open", "decided"}, cancelled : BOOLEAN]
    <3>1. m.nextId - 1 \in 0 .. MaxRuns
      BY <1>1, LifecycleAssumption DEF Matches
    <3>2. Over(m) \in BOOLEAN
      BY DEF Over
    <3>. QED  BY <1>2, <3>1, <3>2 DEF IInv, TypeOK, Cancelled, Begun
  <2>4. f \in [status : Statuses \cup {"none"}, outcome : {"none", "progress", "final"},
               last : 0 .. MaxRuns]
    <3>1. 0 \in 0 .. MaxRuns
      BY LifecycleAssumption
    <3>2. /\ files.status \in Statuses \cup {"none"} /\ files.last \in 0 .. MaxRuns
          /\ files.outcome \in {"none", "progress", "final"}
      BY DEF IInv, TypeOK
    <3>. QED  BY <1>1, <1>2, <3>1, <3>2 DEF FilesAfter, Asked
  <2>5. thread' \in {"playing", "closing", "stopped", "lost", "closed"} /\ config' \in Config
    BY <1>2 DEF IInv, TypeOK
  <2>. QED  BY <2>1, <2>2, <2>3, <2>4, <2>5 DEF TypeOK
<1>7. Decided(m, run, files) /\ Runs(m, run)
  BY DEF Fits
<1>8. CASE Over(m)
  <2>1. n.resolvedBy = m.resolvedBy
    BY <1>1, <1>2, <1>8, DroppedType
  <2>2. f.outcome = "final" => m.resolvedBy # 0
    BY <1>5, <1>7 DEF Decided
  <2>3. m.resolvedBy # 0 => w.stage = "idle" /\ f.outcome = "final"
    BY <1>4, <1>5, <1>7 DEF Decided
  <2>4. Leaving'
    BY <2>1, <2>2, <2>3 DEF Leaving
  <2>. QED  BY <1>2, <1>6, <1>8, <2>4 DEF IInv
<1>9. CASE ~Over(m)
  <2>1. /\ n \in Matches /\ n.effects = NothingAsked
        /\ n.phase = m.phase /\ n.role = m.role /\ n.told = m.told /\ n.ai = m.ai /\ n.afk = m.afk
        /\ n.pending = m.pending /\ n.nextId = m.nextId /\ n.resolvedBy = m.resolvedBy
    BY <1>1, <1>2, <1>6, <1>9 DEF TypeOK, Matches
  <2>2. NothingAsked.all = {} /\ NothingAsked.process = "kept"
    BY DEF NothingAsked
  <2>. HIDE DEF n, p, w, f
  <2>3. Sound(n)
    BY <2>1, <2>2 DEF Sound
  <2>4. Pauses(m) /\ AiPlace(m) /\ Processes(m, process)
    BY <1>9 DEF Fits, Calm
  <2>5. Pauses(n)
    BY <2>1, <2>4 DEF Pauses, HeldBy, Healing, InGame
  <2>6. AiPlace(n)
    BY <2>1, <2>4 DEF AiPlace
  <2>7. Processes(n, p)
    BY <1>1, <1>3, <1>9, <2>1, <2>2, <2>4 DEF Processes, Asked
  <2>8. Runs(n, w)
    BY <1>4, <1>7, <2>1, <2>2 DEF Runs, Early
  <2>9. Decided(n, w, f)
    BY <1>4, <1>5, <1>7, <2>1, <2>2 DEF Decided
  <2>10. VerdictComes(n)
    BY <1>9, <2>1 DEF VerdictComes
  <2>11. Fits(n, p, w, f)
    BY <2>3, <2>5, <2>6, <2>7, <2>8, <2>9 DEF Fits, Calm
  <2>12. Fits(match, process, run, files)' /\ VerdictComes(match)'
    BY <2>10, <2>11 DEF n, p, w, f
  <2>. QED  BY <1>2, <1>6, <1>9, <2>12 DEF IInv
<1>. QED  BY <1>8, <1>9

\* An input is handled: the machine still fits what the game thread has.
LEMMA InputKeepsIInv ==
    ASSUME IInv, thread = "playing", thread' = thread, config' = config,
           process' \in [at : {"none", "dialing", "dialed", "dead"}, exited : BOOLEAN],
           run' = run, files' = files,
           Fits(match', process', run, files), VerdictComes(match')
    PROVE  IInv'
<1>1. match' \in Matches
  BY DEF Fits, Sound
<1>2. TypeOK'
  BY <1>1 DEF IInv, TypeOK
<1>. QED  BY <1>2 DEF IInv

\* A quiet step that leaves the AI host alone keeps its verdict coming.
LEMMA VerdictStays ==
    ASSUME NEW m, NEW n, Quiet(m, n), n.ai = m.ai, VerdictComes(m)
    PROVE  VerdictComes(n)
BY DEF Quiet, StillAsks, VerdictComes, Over

\* In the loop of the game thread.
LEMMA PlayingFits ==
    ASSUME IInv, thread = "playing"
    PROVE  /\ Fits(match, process, run, files) /\ VerdictComes(match)
           /\ match \in Matches /\ Sound(match) /\ Calm(match, process)
BY DEF IInv, Fits, Sound

\* A process that exited is gone, and the AI host is tried again or given up.
LEMMA ExitReportedKeepsIInv ==
    ASSUME IInv, ExitReported
    PROVE  IInv'
<1>1. thread = "playing" /\ process' = [at |-> IF process.at = "dead" THEN "none" ELSE process.at,
                                        exited |-> FALSE]
      /\ UNCHANGED <<config, run, files, thread>>
  BY DEF ExitReported
<1>2. /\ Fits(match, process, run, files) /\ VerdictComes(match)
      /\ match \in Matches /\ Sound(match) /\ Calm(match, process)
  BY <1>1, PlayingFits
<1>3. /\ process' \in [at : {"none", "dialing", "dialed", "dead"}, exited : BOOLEAN]
      /\ process'.at = process.at \/ process'.at = "none"
  BY <1>1 DEF IInv, TypeOK
<1>4. Fits(match', process', run, files) /\ VerdictComes(match')
  <2>1. CASE match.phase = "await" /\ match' = RefuseStart(match)
    <3>1. Quiet(match, match') /\ match'.phase = "setup" /\ Calm(match', process')
      BY <1>2, <2>1, RefuseStartCalm
    <3>2. VerdictComes(match')
      BY <3>1, NoVerdictElsewhere
    <3>. QED  BY <1>2, <3>1, <3>2, QuietFits
  <2>2. CASE match.phase # "await" /\ match' = After(AiHostExited(match))
    <3>. DEFINE k == AiHostExited(match)
    <3>1. Quiet(match, k) /\ Calm(k, process')
      BY <1>2, <1>3, <2>2, AiHostExitedCalm
    <3>. HIDE DEF k
    <3>2. match' = After(k)
      BY <2>2 DEF k
    <3>. QED  BY <1>2, <3>1, <3>2, QuietAfter
  <2>. QED  BY <2>1, <2>2 DEF ExitReported
<1>. QED  BY <1>1, <1>3, <1>4, InputKeepsIInv

\* The answer of a run is noted before the machine hears of it.
LEMMA CheckpointArrivesKeepsIInv ==
    ASSUME IInv, CheckpointArrives
    PROVE  IInv'
<1>1. /\ thread = "playing" /\ run.stage = "answered" /\ run' = NoWorker
      /\ UNCHANGED <<config, process, thread>>
  BY DEF CheckpointArrives, Awaits
<1>2. /\ Fits(match, process, run, files) /\ VerdictComes(match)
      /\ match \in Matches /\ Sound(match) /\ Calm(match, process)
  BY <1>1, PlayingFits
<1>3. run.id \in 0 .. MaxRuns
  BY DEF IInv, TypeOK
<1>4. /\ files' \in [status : Statuses \cup {"none"}, outcome : {"none", "progress", "final"},
                     last : 0 .. MaxRuns]
      /\ files'.outcome = files.outcome
      /\ run.result # "failed" => files'.last = run.id
  BY <1>3 DEF CheckpointArrives, IInv, TypeOK
<1>5. \/ match.phase = "ingame" /\ match' = Checkpointed(match, run.id, run.result)
      \/ match.phase = "resuming" /\ match' = After(Restored(match, run.id, run.result))
      \/ match.phase \notin {"ingame", "resuming"} /\ match' = match
  BY DEF CheckpointArrives
<1>6. Fits(match', process, NoWorker, files') /\ VerdictComes(match')
  <2>1. CASE match.phase = "ingame" /\ match' = Checkpointed(match, run.id, run.result)
    BY <1>1, <1>2, <1>3, <1>4, <2>1, CheckpointedFits
  <2>2. CASE match.phase = "resuming" /\ match' = After(Restored(match, run.id, run.result))
    <3>. DEFINE k == Restored(match, run.id, run.result)
    <3>1. Fits(k, process, NoWorker, files')
      BY <1>1, <1>2, <1>4, <2>2, RestoredFits
    <3>. HIDE DEF k
    <3>2. match' = After(k)
      BY <2>2 DEF k
    <3>. QED  BY <3>1, <3>2, AfterFits
  <2>3. CASE match.phase \notin {"ingame", "resuming"} /\ match' = match
    <3>1. match.phase = "postgame"
      BY <1>1, <1>2, <2>3 DEF Fits, Runs, Early, Matches
    <3>2. Runs(match, NoWorker)
      BY <1>2, <3>1 DEF Fits, Runs
    <3>3. Decided(match, NoWorker, files')
      BY <1>1, <1>2, <1>4 DEF Fits, Decided
    <3>. QED  BY <1>2, <2>3, <3>2, <3>3 DEF Fits
  <2>. QED  BY <1>5, <2>1, <2>2, <2>3
<1>7. run' \in [stage : {"idle", "running", "writing", "answered"}, id : 0 .. MaxRuns,
                result : {"failed", "open", "decided"}, cancelled : BOOLEAN]
  BY <1>1, LifecycleAssumption DEF NoWorker
<1>8. TypeOK'
  BY <1>1, <1>4, <1>6, <1>7 DEF IInv, TypeOK, Fits, Sound
<1>9. Fits(match, process, run, files)'
  BY <1>1, <1>6
<1>. QED  BY <1>1, <1>6, <1>8, <1>9 DEF IInv

\* The loop is left: for good, and with the outcome settled.
LEMMA LeavingKeepsIInv ==
    ASSUME IInv, StopRequested \/ EnetDies
    PROVE  IInv'
<1>1. /\ thread = "playing" /\ thread' \in {"stopped", "closing", "lost"}
      /\ thread' = "closing" => match.effects = NothingAsked
      /\ process' = [process EXCEPT !.at = "none"]
      /\ run' = [run EXCEPT !.cancelled = TRUE]
      /\ match' = Dropped(match) /\ config' = config
      /\ files' = files \/ files' = [files EXCEPT !.status = "stopped"]
  BY DEF StopRequested, EnetDies, Awaits, LeavesLoop, Marked
<1>2. Fits(match, process, run, files) /\ match \in Matches
  BY <1>1, PlayingFits
<1>3. match' \in Matches /\ match'.resolvedBy = match.resolvedBy
  BY <1>1, <1>2, DroppedType
<1>4. TypeOK'
  BY <1>1, <1>3 DEF IInv, TypeOK, Statuses
<1>5. files'.outcome = files.outcome /\ run'.stage = run.stage
  BY <1>1 DEF IInv, TypeOK
<1>6. NothingAsked.all = {}
  BY DEF NothingAsked
<1>7. Leaving'
  BY <1>1, <1>2, <1>3, <1>5, <1>6 DEF Leaving, Fits, Decided
<1>. QED  BY <1>1, <1>4, <1>7 DEF IInv

\* At the close, a run that could still write has been told and has gone.
LEMMA CloseKeepsIInv ==
    ASSUME IInv, NEW replayed \in BOOLEAN, Close(replayed)
    PROVE  IInv'
<1>1. /\ thread' = "closed" /\ run.stage \in {"idle", "answered"}
      /\ files' \in {files, [files EXCEPT !.outcome = "final"]}
      /\ UNCHANGED <<config, match, process, run>>
  BY DEF Close, WorkerGone, Replayed
<1>2. TypeOK'
  BY <1>1 DEF IInv, TypeOK
<1>. QED  BY <1>1, <1>2 DEF IInv, Leaving

\* The run in flight ends, and writes its progress: the outcome cannot be final.
LEMMA RunKeepsIInv ==
    ASSUME IInv,
           \/ \E result \in {"failed", "open", "decided"} : RunEnds(result)
           \/ RunWrites
    PROVE  IInv'
<1>1. /\ run.stage \in {"running", "writing"} /\ run'.stage # "idle" /\ run'.id = run.id
      /\ run' \in [stage : {"idle", "running", "writing", "answered"}, id : 0 .. MaxRuns,
                   result : {"failed", "open", "decided"}, cancelled : BOOLEAN]
      /\ files' \in [status : Statuses \cup {"none"}, outcome : {"none", "progress", "final"},
                     last : 0 .. MaxRuns]
      /\ files'.outcome \in {files.outcome, "progress"}
      /\ UNCHANGED <<config, match, process, thread>>
  BY DEF RunEnds, RunWrites, IInv, TypeOK
<1>2. TypeOK'
  BY <1>1 DEF IInv, TypeOK
<1>3. CASE thread = "playing"
  <2>1. Fits(match, process, run, files) /\ VerdictComes(match)
    BY <1>3, PlayingFits
  <2>2. Runs(match, run')
    BY <1>1, <2>1 DEF Fits, Runs
  <2>3. Decided(match, run', files')
    BY <1>1, <2>1 DEF Fits, Decided
  <2>4. Fits(match, process, run, files)'
    BY <1>1, <2>1, <2>2, <2>3 DEF Fits
  <2>5. VerdictComes(match)'
    BY <1>1, <2>1
  <2>. QED  BY <1>1, <1>2, <1>3, <2>4, <2>5 DEF IInv
<1>4. CASE thread # "playing"
  <2>1. Leaving /\ files.outcome # "final"
    BY <1>1, <1>4 DEF IInv, Leaving
  <2>2. Leaving'
    BY <1>1, <2>1 DEF Leaving
  <2>. QED  BY <1>1, <1>2, <1>4, <2>2 DEF IInv
<1>. QED  BY <1>3, <1>4

\* A dead process is one that somebody will look at.
LEMMA ProcessDiesKeepsIInv ==
    ASSUME IInv, ProcessDies
    PROVE  IInv'
<1>1. /\ process.at \in {"dialing", "dialed"} /\ process'.at = "dead"
      /\ process'.exited = process.exited
      /\ process' \in [at : {"none", "dialing", "dialed", "dead"}, exited : BOOLEAN]
      /\ UNCHANGED <<config, match, run, files, thread>>
  BY DEF ProcessDies, IInv, TypeOK
<1>2. CASE thread = "playing"
  <2>1. Fits(match, process, run, files) /\ VerdictComes(match)
    BY <1>2, PlayingFits
  <2>2. Calm(match, process')
    BY <1>1, <2>1 DEF Fits, Calm, Processes
  <2>3. Fits(match', process', run, files) /\ VerdictComes(match')
    BY <1>1, <2>1, <2>2 DEF Fits
  <2>. QED  BY <1>1, <1>2, <2>3, InputKeepsIInv
<1>3. CASE thread # "playing"
  BY <1>1, <1>3 DEF IInv, TypeOK, Leaving
<1>. QED  BY <1>2, <1>3

-----------------------------------------------------------------------------
(* The inputs.                                                             *)

\* One that ends as every input does.
LEMMA AfterKeepsIInv ==
    ASSUME IInv, NEW k, Input(After(k)), Quiet(match, k), Calm(k, process)
    PROVE  IInv'
<1>1. /\ thread = "playing" /\ match' = After(k)
      /\ UNCHANGED <<config, process, run, files, thread>>
  BY DEF Input, Handles, Awaits
<1>2. Fits(match, process, run, files)
  BY <1>1, PlayingFits
<1>3. Fits(match', process, run, files) /\ VerdictComes(match')
  BY <1>1, <1>2, QuietAfter
<1>4. process' \in [at : {"none", "dialing", "dialed", "dead"}, exited : BOOLEAN]
  BY <1>1 DEF IInv, TypeOK
<1>. QED  BY <1>1, <1>3, <1>4, InputKeepsIInv

\* One that does not.
LEMMA HandledKeepsIInv ==
    ASSUME IInv, NEW k, Input(k), Quiet(match, k), Calm(k, process), VerdictComes(k)
    PROVE  IInv'
<1>1. /\ thread = "playing" /\ match' = k
      /\ UNCHANGED <<config, process, run, files, thread>>
  BY DEF Input, Handles, Awaits
<1>2. Fits(k, process, run, files)
  BY <1>1, PlayingFits, QuietFits
<1>4. process' \in [at : {"none", "dialing", "dialed", "dead"}, exited : BOOLEAN]
  BY <1>1 DEF IInv, TypeOK
<1>. QED  BY <1>1, <1>2, <1>4, InputKeepsIInv

\* Inputs are taken in the loop of the game thread.
LEMMA InputPlaying ==
    ASSUME IInv, NEW k, Input(k)
    PROVE  /\ Fits(match, process, run, files) /\ VerdictComes(match)
           /\ match \in Matches /\ Sound(match) /\ Calm(match, process)
BY PlayingFits DEF Input, Handles, Awaits

\* The AI host moves on.
LEMMA AiMovesCalm ==
    ASSUME NEW m, Sound(m), NEW p, Calm(m, p), NEW to \in {"syncing", "in"},
           \/ to = "syncing" /\ m.ai.at = "away" /\ m.phase \in {"ingame", "resuming"}
           \/ to = "in" /\ m.ai.at = "loading",
           NEW n, n = [m EXCEPT !.ai.at = to], NEW q
    PROVE  Quiet(m, n) /\ Sound(n) /\ n.phase = m.phase /\ Calm(n, q)
           /\ n.ai.verdict = m.ai.verdict
<1>. DEFINE ai == [m.ai EXCEPT !.at = to]
            l == [m EXCEPT !.ai = ai]
<1>1. m \in Matches /\ m.ai \in AiHosts
  BY AiRange DEF Sound
<1>2. ai \in AiHosts /\ ai.at = to /\ ai.heal = m.ai.heal /\ ai.verdict = m.ai.verdict
  BY <1>1 DEF AiHosts
<1>3. n = l
  BY <1>1 DEF Matches, AiHosts
<1>. HIDE DEF ai
<1>a. /\ Quiet(m, l) /\ Sound(l) /\ SameGame(m, l) /\ l.ai = ai
      /\ Pauses(m) /\ (ai.heal = 0 <=> m.ai.heal = 0) => Pauses(l)
  BY <1>2, AiQuiet
<1>. HIDE DEF l
<1>4. /\ Quiet(m, n) /\ Sound(n) /\ SameGame(m, n) /\ n.ai = ai
      /\ Pauses(m) /\ (ai.heal = 0 <=> m.ai.heal = 0) => Pauses(n)
  BY <1>3, <1>a
<1>5. CASE Over(m)
  BY <1>2, <1>4, <1>5, StaysOver DEF Calm, SameGame
<1>6. CASE ~Over(m)
  <2>1. Pauses(n) /\ AiPlace(m)
    BY <1>2, <1>4, <1>6 DEF Calm
  <2>2. AiPlace(n)
    BY <1>2, <1>4, <2>1 DEF AiPlace, SameGame
  <2>3. Processes(n, q)
    BY <1>2, <1>4 DEF Processes
  <2>. QED  BY <1>2, <1>4, <2>1, <2>2, <2>3 DEF Calm, SameGame
<1>. QED  BY <1>5, <1>6

\* The AI host dials in.
LEMMA AiHostArrivesKeepsIInv ==
    ASSUME IInv, AiHostArrives
    PROVE  IInv'
<1>. DEFINE j == [match EXCEPT !.phase = "loading"]
            ai == [match.ai EXCEPT !.at = "loading"]
            loading == [j EXCEPT !.ai = ai]
            syncing == [match EXCEPT !.ai.at = "syncing"]
<1>1. /\ thread = "playing" /\ match.ai.at = "away"
      /\ UNCHANGED <<config, run, files, thread>>
      /\ process' = [process EXCEPT !.at = "dialed"]
  BY DEF AiHostArrives, Handles, Awaits
<1>2. /\ Fits(match, process, run, files) /\ VerdictComes(match)
      /\ match \in Matches /\ Sound(match) /\ Calm(match, process)
  BY <1>1, PlayingFits
<1>3. process' \in [at : {"none", "dialing", "dialed", "dead"}, exited : BOOLEAN]
  BY <1>1 DEF IInv, TypeOK
<1>4. \/ match.phase = "await" /\ match' = loading
      \/ match.phase \in {"ingame", "resuming"} /\ match' = After(syncing)
  BY <1>2 DEF AiHostArrives, Handles, Matches, AiHosts
<1>5. CASE match.phase = "await" /\ match' = loading
  <2>1. /\ j \in Matches /\ j.phase = "loading" /\ j.ai = match.ai /\ j.effects = match.effects
        /\ j.role = match.role /\ j.told = match.told /\ j.afk = match.afk
        /\ j.pending = match.pending /\ j.nextId = match.nextId
        /\ j.resolvedBy = match.resolvedBy
    BY <1>2 DEF Matches
  <2>2. Quiet(match, j) /\ Sound(j)
    BY <1>2, <1>5, <2>1 DEF Sound, Quiet, StillAsks, Early
  <2>3. ai \in AiHosts /\ ai.at = "loading" /\ ai.heal = match.ai.heal
        /\ ai.verdict = match.ai.verdict
    BY <1>2, AiRange DEF AiHosts
  <2>. HIDE DEF j, ai
  <2>4. /\ Quiet(j, loading) /\ Sound(loading) /\ SameGame(j, loading) /\ loading.ai = ai
        /\ Pauses(j) /\ (ai.heal = 0 <=> j.ai.heal = 0) => Pauses(loading)
    BY <2>2, <2>3, AiQuiet
  <2>. HIDE DEF loading
  <2>5. Quiet(match, loading) /\ loading.phase = "loading"
    BY <2>1, <2>2, <2>4, QuietTwice DEF SameGame
  <2>6. Calm(loading, process')
    <3>1. CASE Over(match)
      BY <2>5, <3>1, StaysOver DEF Calm
    <3>2. CASE ~Over(match)
      <4>1. Pauses(match) /\ AiPlace(match)
        BY <1>2, <3>2 DEF Calm
      <4>2. Pauses(j)
        BY <1>5, <2>1, <4>1 DEF Pauses, HeldBy, Healing, InGame
      <4>3. Pauses(loading)
        BY <2>1, <2>3, <2>4, <4>2
      <4>4. AiPlace(loading) /\ Processes(loading, process')
        BY <1>5, <2>3, <2>4, <2>5, <4>1 DEF AiPlace, Processes
      <4>. QED  BY <4>3, <4>4 DEF Calm
    <3>. QED  BY <3>1, <3>2
  <2>7. VerdictComes(loading)
    BY <2>5, <2>6, NoVerdictElsewhere
  <2>8. Fits(loading, process', run, files)
    BY <1>2, <2>5, <2>6, QuietFits
  <2>. QED  BY <1>1, <1>3, <1>5, <2>7, <2>8, InputKeepsIInv
<1>6. CASE match.phase \in {"ingame", "resuming"} /\ match' = After(syncing)
  <2>1. Quiet(match, syncing) /\ Calm(syncing, process')
    BY <1>1, <1>2, <1>6, AiMovesCalm
  <2>. HIDE DEF syncing
  <2>2. Fits(match', process', run, files) /\ VerdictComes(match')
    BY <1>2, <1>6, <2>1, QuietAfter
  <2>. QED  BY <1>1, <1>3, <2>2, InputKeepsIInv
<1>. QED  BY <1>4, <1>5, <1>6

\* It has loaded, or is healed.
LEMMA AiHostLoadsKeepsIInv ==
    ASSUME IInv, AiHostLoads
    PROVE  IInv'
<1>. DEFINE in == [match EXCEPT !.ai.at = "in"]
            k == FinishLoading(in)
            healed == AiHostHealed(match)
<1>1. CASE match.ai.at = "loading" /\ Input(k)
  <2>1. /\ Sound(match) /\ Calm(match, process) /\ VerdictComes(match)
    BY <1>1, InputPlaying
  <2>2. /\ Quiet(match, in) /\ Sound(in) /\ Calm(in, process)
        /\ in.ai.verdict = match.ai.verdict
    BY <1>1, <2>1, AiMovesCalm
  <2>. HIDE DEF in
  <2>3. Quiet(in, k) /\ Sound(k) /\ k.ai = in.ai /\ Calm(k, process)
    BY <2>2, FinishLoadingCalm
  <2>. HIDE DEF k
  <2>4. Quiet(match, k)
    BY <2>2, <2>3, QuietTwice
  <2>5. VerdictComes(k)
    BY <2>1, <2>2, <2>3, <2>4, StaysOver DEF VerdictComes, Quiet
  <2>. QED  BY <1>1, <2>3, <2>4, <2>5, HandledKeepsIInv
<1>2. CASE match.ai.at = "syncing" /\ Input(After(healed))
  <2>1. Quiet(match, healed) /\ Calm(healed, process)
    BY <1>2, InputPlaying, AiHostHealedCalm
  <2>. QED  BY <1>2, <2>1, AfterKeepsIInv
<1>. QED  BY <1>1, <1>2 DEF AiHostLoads

\* Its connection goes.
LEMMA AiHostDropsKeepsIInv ==
    ASSUME IInv, AiHostDrops
    PROVE  IInv'
<1>. DEFINE left == AiHostLeft(match)
            k == FinishLoading(left)
<1>1. PICK m \in Releases(k) : Input(After(m))
  BY DEF AiHostDrops
<1>2. match.ai.at # "away"
  BY DEF AiHostDrops
<1>3. Sound(match) /\ Calm(match, process)
  BY <1>1, InputPlaying
<1>4. match.phase # "await" \/ Over(match)
  BY <1>2, <1>3 DEF Calm, AiPlace
<1>5. Quiet(match, left) /\ Sound(left) /\ Calm(left, process)
  BY <1>3, <1>4, AiHostLeftCalm
<1>. HIDE DEF left
<1>6. Quiet(left, k) /\ Sound(k) /\ Calm(k, process)
  BY <1>5, FinishLoadingCalm
<1>. HIDE DEF k
<1>7. Quiet(k, m) /\ Calm(m, process)
  BY <1>1, <1>6, ReleasesCalm
<1>8. Quiet(match, m)
  BY <1>5, <1>6, <1>7, QuietTwice
<1>. QED  BY <1>1, <1>7, <1>8, AfterKeepsIInv

\* An input that leaves both the AI host and the people alone.
LEMMA AsideKeepsIInv ==
    ASSUME IInv, NEW k, Input(After(k)), Aside(match, k),
           k.role = match.role, k.told = match.told, k.afk = match.afk
    PROVE  IInv'
<1>1. Sound(match) /\ Calm(match, process)
  BY InputPlaying
<1>2. Pauses(match) => Pauses(k)
  BY PeopleAside
<1>3. Quiet(match, k) /\ Calm(k, process)
  BY <1>1, <1>2, AsideCalm
<1>. QED  BY <1>3, AfterKeepsIInv

\* A state is pulled from it, or from a player.
LEMMA PulledKeepsIInv ==
    ASSUME IInv, AiStatePulled \/ \E turn \in InitialTurn .. MaxTurn : StatePulled(turn)
    PROVE  IInv'
<1>1. CASE AiStatePulled
  <2>. DEFINE k == [match EXCEPT !.aiState = TRUE]
  <2>1. Input(After(k))
    BY <1>1 DEF AiStatePulled
  <2>2. match \in Matches
    BY <2>1, InputPlaying
  <2>3. Aside(match, k) /\ k.role = match.role /\ k.told = match.told /\ k.afk = match.afk
    BY <2>2 DEF Aside, Matches
  <2>. HIDE DEF k
  <2>. QED  BY <2>1, <2>3, AsideKeepsIInv
<1>2. ASSUME NEW turn \in InitialTurn .. MaxTurn, StatePulled(turn)
      PROVE  IInv'
  <2>. DEFINE k == [match EXCEPT !.base = turn]
  <2>1. Input(After(k))
    BY <1>2 DEF StatePulled
  <2>2. match \in Matches /\ turn \in 0 .. MaxTurn
    BY <2>1, InputPlaying DEF InitialTurn
  <2>3. Aside(match, k) /\ k.role = match.role /\ k.told = match.told /\ k.afk = match.afk
    BY <2>2 DEF Aside, Matches
  <2>. HIDE DEF k
  <2>. QED  BY <2>1, <2>3, AsideKeepsIInv
<1>. QED  BY <1>1, <1>2

\* A turn is released.
LEMMA TurnReleasedKeepsIInv ==
    ASSUME IInv, TurnReleased
    PROVE  IInv'
<1>1. PICK m \in Releases(match) : Input(After(m))
  BY DEF TurnReleased
<1>2. Sound(match) /\ Calm(match, process)
  BY <1>1, InputPlaying
<1>3. Quiet(match, m) /\ Calm(m, process)
  BY <1>1, <1>2, ReleasesCalm
<1>. QED  BY <1>1, <1>3, AfterKeepsIInv

\* A person p comes to r, and the pause is shown to `shown`.
LEMMA SeatCalm ==
    ASSUME NEW m, Sound(m), NEW p, Calm(m, p), NEW n, Aside(m, n), n.afk = m.afk,
           NEW q \in Person, NEW r \in Roles, n.role = [m.role EXCEPT ![q] = r],
           n.told \subseteq m.told \cup {q}, m.told \ {q} \subseteq n.told,
           Pauses(m) /\ AiPlace(m) =>
               /\ q \in n.told => r \in {"loaded", "ingame"} /\ HeldBy(m)
               /\ r = "ingame" /\ HeldBy(m) => q \in n.told
    PROVE  Quiet(m, n) /\ Sound(n) /\ n.phase = m.phase /\ n.ai = m.ai /\ Calm(n, p)
<1>1. m \in Matches /\ m.role \in [Person -> Roles] /\ m.told \subseteq Person
  BY DEF Sound, Matches
<1>2. HeldBy(n) <=> HeldBy(m)
  BY DEF Aside, HeldBy, Healing
<1>3. \A x \in Person : n.role[x] = IF x = q THEN r ELSE m.role[x]
  BY <1>1
<1>4. ASSUME Pauses(m), AiPlace(m)
      PROVE  Pauses(n)
  <2>1. n.told \subseteq InGame(n)
    BY <1>1, <1>3, <1>4 DEF Pauses, InGame
  <2>2. n.told # {} => HeldBy(n)
    BY <1>2, <1>4 DEF Pauses
  <2>3. HeldBy(n) => \A x \in Person : n.role[x] = "ingame" => x \in n.told
    BY <1>2, <1>3, <1>4 DEF Pauses
  <2>. QED  BY <1>4, <2>1, <2>2, <2>3 DEF Pauses, Aside
<1>5. CASE Over(m)
  <2>1. Quiet(m, n) /\ Sound(n)
    BY DEF Aside, Sound, Quiet, StillAsks, Early
  <2>. QED  BY <1>5, <2>1, StaysOver DEF Calm, Aside
<1>6. CASE ~Over(m)
  <2>1. Pauses(m) => Pauses(n)
    BY <1>4, <1>6 DEF Calm
  <2>. QED  BY <2>1, AsideCalm
<1>. QED  BY <1>5, <1>6

\* Somebody is authenticated,
LEMMA ArrivesKeepsIInv ==
    ASSUME IInv, NEW p \in Person, Arrives(p)
    PROVE  IInv'
<1>. DEFINE r == IF match.phase \in {"setup", "await"} THEN "setup" ELSE "syncing"
            k == [match EXCEPT !.role[p] = r]
<1>1. match.role[p] = "out" /\ Input(After(k))
  BY DEF Arrives
<1>2. match \in Matches /\ Sound(match) /\ Calm(match, process)
  BY <1>1, InputPlaying
<1>3. r \in Roles /\ r \notin {"loaded", "ingame"}
  BY DEF Roles
<1>. HIDE DEF r
<1>4. [match.role EXCEPT ![p] = r] \in [Person -> Roles]
  BY <1>2, <1>3 DEF Matches
<1>5. /\ Aside(match, k) /\ k.afk = match.afk /\ k.told = match.told
      /\ k.role = [match.role EXCEPT ![p] = r]
  BY <1>2, <1>4 DEF Aside, Matches
<1>. HIDE DEF k
<1>6. Pauses(match) => p \notin k.told
  BY <1>1, <1>5 DEF Pauses, InGame
<1>7. Quiet(match, k) /\ Calm(k, process)
  <2>1. k.told \subseteq match.told \cup {p} /\ match.told \ {p} \subseteq k.told
    BY <1>5
  <2>. QED  BY <1>2, <1>3, <1>5, <1>6, <2>1, SeatCalm
<1>. QED  BY <1>1, <1>7, AfterKeepsIInv

\* has loaded,
LEMMA LoadsKeepsIInv ==
    ASSUME IInv, NEW p \in Person, Loads(p)
    PROVE  IInv'
<1>. DEFINE seat(r) == [match EXCEPT !.role[p] = r]
<1>0. {"ingame", "loaded"} \subseteq Roles
  BY DEF Roles
<1>1. ASSUME match \in Matches, NEW r \in Roles
      PROVE  /\ Aside(match, seat(r)) /\ seat(r).afk = match.afk
             /\ seat(r).role = [match.role EXCEPT ![p] = r]
             /\ seat(r).told = match.told
  <2>1. [match.role EXCEPT ![p] = r] \in [Person -> Roles]
    BY <1>1 DEF Matches
  <2>. QED  BY <1>1, <2>1 DEF Aside, Matches
<1>2. CASE match.phase = "loading" /\ match.role[p] = "setup" /\ Input(FinishLoading(seat("ingame")))
  <2>. DEFINE s == seat("ingame")
              k == FinishLoading(s)
  <2>1. match \in Matches /\ Sound(match) /\ Calm(match, process) /\ VerdictComes(match)
    BY <1>2, InputPlaying
  <2>2. /\ Aside(match, s) /\ s.afk = match.afk
        /\ s.role = [match.role EXCEPT ![p] = "ingame"] /\ s.told = match.told
    BY <1>0, <1>1, <2>1
  <2>k. Input(k)
    BY <1>2
  <2>. HIDE DEF s
  <2>3. Pauses(match) /\ AiPlace(match) => ~HeldBy(match)
    BY <1>2 DEF Pauses, AiPlace, HeldBy, Healing
  <2>4. Pauses(match) /\ AiPlace(match) => p \notin s.told
    BY <2>2, <2>3 DEF Pauses
  <2>5. Quiet(match, s) /\ Sound(s) /\ s.ai = match.ai /\ Calm(s, process)
    <3>1. s.told \subseteq match.told \cup {p} /\ match.told \ {p} \subseteq s.told
      BY <2>2
    <3>. QED  BY <1>0, <2>1, <2>2, <2>3, <2>4, <3>1, SeatCalm
  <2>6. Quiet(s, k) /\ k.ai = s.ai /\ Calm(k, process)
    BY <2>5, FinishLoadingCalm
  <2>. HIDE DEF k
  <2>7. Quiet(match, k) /\ k.ai = match.ai
    BY <2>5, <2>6, QuietTwice
  <2>8. VerdictComes(k)
    BY <2>1, <2>7, VerdictStays
  <2>. QED  BY <2>k, <2>6, <2>7, <2>8, HandledKeepsIInv
<1>3. CASE match.role[p] = "syncing" /\ Input(After(seat("loaded")))
  <2>. DEFINE s == seat("loaded")
  <2>1. match \in Matches /\ Sound(match) /\ Calm(match, process)
    BY <1>3, InputPlaying
  <2>2. /\ Aside(match, s) /\ s.afk = match.afk
        /\ s.role = [match.role EXCEPT ![p] = "loaded"] /\ s.told = match.told
    BY <1>0, <1>1, <2>1
  <2>k. Input(After(s))
    BY <1>3
  <2>. HIDE DEF s
  <2>3. Pauses(match) => p \notin s.told
    BY <1>3, <2>2 DEF Pauses, InGame
  <2>4. Quiet(match, s) /\ Calm(s, process)
    <3>1. s.told \subseteq match.told \cup {p} /\ match.told \ {p} \subseteq s.told
      BY <2>2
    <3>. QED  BY <1>0, <2>1, <2>2, <2>3, <3>1, SeatCalm
  <2>. QED  BY <2>k, <2>4, AfterKeepsIInv
<1>. QED  BY <1>2, <1>3 DEF Loads

\* has joined, and hears of a pause,
LEMMA JoinedKeepsIInv ==
    ASSUME IInv, NEW p \in Person, Joined(p)
    PROVE  IInv'
<1>. DEFINE held == match.afk \/ Healing(match) \/ match.phase = "resuming"
            role == [match.role EXCEPT ![p] = "ingame"]
            shown == IF held THEN match.told \cup {p} ELSE match.told
            j == [match EXCEPT !.role = role]
            k == [j EXCEPT !.told = shown]
<1>1. match.role[p] = "loaded"
      /\ Input(After([match EXCEPT !.role[p] = "ingame",
                                   !.told = IF held THEN @ \cup {p} ELSE @]))
  BY DEF Joined
<1>2. match \in Matches /\ Sound(match) /\ Calm(match, process)
  BY <1>1, InputPlaying
<1>3. [match EXCEPT !.role[p] = "ingame", !.told = IF held THEN @ \cup {p} ELSE @] = k
  BY <1>2 DEF Matches
<1>4. role \in [Person -> Roles]
  BY <1>2 DEF Matches, Roles
<1>5. shown \in SUBSET Person
  BY <1>2 DEF Matches
<1>6. /\ shown \subseteq match.told \cup {p} /\ match.told \ {p} \subseteq shown
      /\ held => p \in shown
      /\ ~held => shown = match.told
  OBVIOUS
<1>7. role = [match.role EXCEPT ![p] = "ingame"]
  OBVIOUS
<1>8. held <=> HeldBy(match)
  BY DEF HeldBy
<1>k. Input(After(k))
  BY <1>1, <1>3
<1>. HIDE DEF role, shown, held
<1>9. /\ j \in Matches /\ j.role = role /\ j.ai = match.ai /\ j.effects = match.effects
      /\ j.phase = match.phase /\ j.afk = match.afk
      /\ j.pending = match.pending /\ j.nextId = match.nextId /\ j.resolvedBy = match.resolvedBy
  BY <1>2, <1>4 DEF Matches
<1>. HIDE DEF j
<1>10. /\ Aside(match, k) /\ k.role = role /\ k.told = shown /\ k.afk = match.afk
  BY <1>5, <1>9 DEF Aside, Matches
<1>. HIDE DEF k
<1>11. Pauses(match) => (~held => p \notin shown)
  BY <1>6, <1>8 DEF Pauses
<1>12. Quiet(match, k) /\ Calm(k, process)
  <2>1. k.told \subseteq match.told \cup {p} /\ match.told \ {p} \subseteq k.told
    BY <1>6, <1>10
  <2>2. k.role = [match.role EXCEPT ![p] = "ingame"] /\ "ingame" \in Roles
    BY <1>7, <1>10 DEF Roles
  <2>3. Pauses(match) => (p \in k.told <=> HeldBy(match))
    BY <1>6, <1>8, <1>10, <1>11
  <2>. QED  BY <1>2, <1>10, <2>1, <2>2, <2>3, SeatCalm
<1>. QED  BY <1>k, <1>12, AfterKeepsIInv

\* and leaves.
LEMMA LeavesKeepsIInv ==
    ASSUME IInv, NEW p \in Person, Leaves(p)
    PROVE  IInv'
<1>. DEFINE left == Gone(match, {p})
            probe == [left EXCEPT !.probe = IF @ = 0 THEN left.turn ELSE @]
<1>1. \/ match.phase = "await" /\ Input(left)
      \/ match.phase = "await" /\ Input(RefuseStart(left))
      \/ match.phase = "loading" /\ Input(FinishLoading(left))
      \/ \E m \in Releases(left) \cup Releases(probe) : Input(After(m))
      \/ Input(After(left))
  BY DEF Leaves
<1>2. Fits(match, process, run, files) /\ VerdictComes(match) /\ Sound(match) /\ Calm(match, process)
  BY <1>1, InputPlaying
<1>3. /\ Quiet(match, left) /\ Sound(left) /\ left.phase = match.phase /\ left.ai = match.ai
      /\ Calm(left, process)
  BY <1>2, GoneCalm
<1>. HIDE DEF left
<1>4. CASE match.phase = "await" /\ Input(left)
  <2>1. VerdictComes(left)
    BY <1>2, <1>3, VerdictStays
  <2>. QED  BY <1>3, <1>4, <2>1, HandledKeepsIInv
<1>5. CASE match.phase = "await" /\ Input(RefuseStart(left))
  <2>. DEFINE k == RefuseStart(left)
  <2>1. left.phase = "await"
    BY <1>3, <1>5
  <2>2. Quiet(left, k) /\ k.phase = "setup" /\ Calm(k, process)
    BY <1>3, <2>1, RefuseStartCalm
  <2>3. Input(k)
    BY <1>5
  <2>. HIDE DEF k
  <2>4. Quiet(match, k)
    BY <1>3, <2>2, QuietTwice
  <2>5. VerdictComes(k)
    BY <2>2, NoVerdictElsewhere
  <2>. QED  BY <2>2, <2>3, <2>4, <2>5, HandledKeepsIInv
<1>6. CASE match.phase = "loading" /\ Input(FinishLoading(left))
  <2>. DEFINE k == FinishLoading(left)
  <2>1. Quiet(left, k) /\ k.ai = left.ai /\ Calm(k, process)
    BY <1>3, FinishLoadingCalm
  <2>2. Input(k)
    BY <1>6
  <2>. HIDE DEF k
  <2>3. Quiet(match, k) /\ k.ai = match.ai
    BY <1>3, <2>1, QuietTwice
  <2>4. VerdictComes(k)
    BY <1>2, <2>3, VerdictStays
  <2>. QED  BY <2>1, <2>2, <2>3, <2>4, HandledKeepsIInv
<1>7. ASSUME NEW m \in Releases(left) \cup Releases(probe), Input(After(m))
      PROVE  IInv'
  <2>1. /\ Aside(left, probe) /\ probe.role = left.role /\ probe.told = left.told
        /\ probe.afk = left.afk
    <3>1. left \in Matches
      BY <1>3 DEF Sound
    <3>2. (IF left.probe = 0 THEN left.turn ELSE left.probe) \in 0 .. MaxTurn
      BY <3>1 DEF Matches, InitialTurn
    <3>. QED  BY <3>1, <3>2 DEF Aside, Matches
  <2>. HIDE DEF probe
  <2>2. Pauses(left) => Pauses(probe)
    BY <2>1, PeopleAside
  <2>3. Quiet(left, probe) /\ Sound(probe) /\ Calm(probe, process)
    BY <1>3, <2>1, <2>2, AsideCalm
  <2>4. CASE m \in Releases(left)
    <3>1. Quiet(left, m) /\ Calm(m, process)
      BY <1>3, <2>4, ReleasesCalm
    <3>2. Quiet(match, m)
      BY <1>3, <3>1, QuietTwice
    <3>. QED  BY <1>7, <3>1, <3>2, AfterKeepsIInv
  <2>5. CASE m \in Releases(probe)
    <3>1. Quiet(probe, m) /\ Calm(m, process)
      BY <2>3, <2>5, ReleasesCalm
    <3>2. Quiet(match, m)
      BY <1>3, <2>3, <3>1, QuietTwice
    <3>. QED  BY <1>7, <3>1, <3>2, AfterKeepsIInv
  <2>. QED  BY <1>7, <2>4, <2>5
<1>8. CASE Input(After(left))
  BY <1>3, <1>8, AfterKeepsIInv
<1>. QED  BY <1>1, <1>4, <1>5, <1>6, <1>7, <1>8

\* The controller starts the match.
LEMMA StartSettingsKeepsIInv ==
    ASSUME IInv, NEW hosted \in BOOLEAN, StartSettings(hosted)
    PROVE  IInv'
<1>. DEFINE k == [match EXCEPT !.phase = "loading"]
            h == HoldForAiHost(match)
<1>1. match.phase = "setup" /\ (Input(h) \/ Input(k))
  BY DEF StartSettings
<1>2. match \in Matches /\ Sound(match) /\ Calm(match, process)
  BY <1>1, InputPlaying
<1>3. CASE Input(h)
  <2>1. Quiet(match, h) /\ Calm(h, process) /\ h.phase = "await"
    BY <1>1, <1>2, HoldForAiHostCalm
  <2>. HIDE DEF h
  <2>2. VerdictComes(h)
    BY <2>1, NoVerdictElsewhere
  <2>. QED  BY <1>3, <2>1, <2>2, HandledKeepsIInv
<1>4. CASE Input(k)
  <2>1. /\ k \in Matches /\ k.phase = "loading" /\ k.ai = match.ai /\ k.effects = match.effects
        /\ k.role = match.role /\ k.told = match.told /\ k.afk = match.afk
        /\ k.pending = match.pending /\ k.nextId = match.nextId
        /\ k.resolvedBy = match.resolvedBy
    BY <1>2 DEF Matches
  <2>. HIDE DEF k
  <2>2. Quiet(match, k)
    BY <1>1, <2>1 DEF Sound, Quiet, StillAsks, Early
  <2>3. Calm(k, process)
    <3>1. CASE Over(match)
      BY <2>1, <3>1 DEF Over, Calm
    <3>2. CASE ~Over(match)
      <4>1. Pauses(match) /\ AiPlace(match) /\ Processes(match, process)
        BY <1>2, <3>2 DEF Calm
      <4>2. Pauses(k)
        BY <1>1, <2>1, <4>1 DEF Pauses, HeldBy, Healing, InGame
      <4>3. AiPlace(k) /\ Processes(k, process)
        BY <1>1, <2>1, <4>1 DEF AiPlace, Processes
      <4>. QED  BY <4>2, <4>3 DEF Calm
    <3>. QED  BY <3>1, <3>2
  <2>4. VerdictComes(k)
    BY <2>1, <2>3, NoVerdictElsewhere
  <2>. QED  BY <1>4, <2>2, <2>3, <2>4, HandledKeepsIInv
<1>. QED  BY <1>1, <1>3, <1>4

\* A player resigns.
LEMMA ResignsKeepsIInv ==
    ASSUME IInv, NEW p \in Person, Resigns(p)
    PROVE  IInv'
<1>. DEFINE n == EndMatch(match, 0)
            probe == IF match.probe = 0 THEN match.turn ELSE match.probe
            k == [match EXCEPT !.probe = probe]
<1>1. match.phase = "ingame" /\ (Input(n) \/ Input(After(k)))
  BY DEF Resigns
<1>2. /\ Fits(match, process, run, files) /\ VerdictComes(match)
      /\ match \in Matches /\ Sound(match) /\ Calm(match, process)
  BY <1>1, InputPlaying
<1>3. CASE Input(n)
  <2>0. 0 \in 0 .. MaxRuns
    BY LifecycleAssumption
  <2>1. /\ Sound(n) /\ Calm(n, process) /\ n.phase = "postgame" /\ n.pending = NoRun
        /\ n.resolvedBy = 0
    BY <1>1, <1>2, <2>0, EndMatchCalm
  <2>. HIDE DEF n
  <2>2. VerdictComes(n)
    BY <2>1, NoVerdictElsewhere
  <2>3. Runs(n, run)
    BY <2>1 DEF Runs
  <2>4. Decided(n, run, files)
    BY <1>1, <1>2, <2>1 DEF Fits, Decided
  <2>5. Fits(n, process, run, files)
    BY <2>1, <2>3, <2>4 DEF Fits
  <2>6. /\ thread = "playing" /\ match' = n /\ UNCHANGED <<config, process, run, files, thread>>
    BY <1>3 DEF Input, Handles, Awaits
  <2>7. process' \in [at : {"none", "dialing", "dialed", "dead"}, exited : BOOLEAN]
    BY <2>6 DEF IInv, TypeOK
  <2>. QED  BY <2>2, <2>5, <2>6, <2>7, InputKeepsIInv
<1>4. CASE Input(After(k))
  <2>1. probe \in 0 .. MaxTurn
    BY <1>2 DEF Matches, InitialTurn
  <2>. HIDE DEF probe
  <2>2. Aside(match, k) /\ k.role = match.role /\ k.told = match.told /\ k.afk = match.afk
    BY <1>2, <2>1 DEF Aside, Matches
  <2>. HIDE DEF k
  <2>. QED  BY <1>4, <2>2, AsideKeepsIInv
<1>. QED  BY <1>1, <1>3, <1>4

\* A restored match goes on: its pause is lifted for everyone.
LEMMA ResumesKeepsIInv ==
    ASSUME IInv, NEW p \in Person, Resumes(p)
    PROVE  IInv'
<1>. DEFINE shown == match.told \ InGame(match)
            j == [match EXCEPT !.phase = "ingame", !.hosted = FALSE]
            k == [j EXCEPT !.told = shown]
<1>1. match.phase = "resuming" /\ ~Healing(match) /\ Input(k)
  BY DEF Resumes
<1>2. /\ match \in Matches /\ Sound(match) /\ Calm(match, process)
  BY <1>1, InputPlaying
<1>3. shown \in SUBSET Person
  BY <1>2 DEF Matches
<1>4. match.told \subseteq InGame(match) => shown = {}
  OBVIOUS
<1>. HIDE DEF shown
<1>5. /\ j \in Matches /\ j.phase = "ingame" /\ j.ai = match.ai /\ j.effects = match.effects
      /\ j.role = match.role /\ j.afk = match.afk
      /\ j.pending = match.pending /\ j.nextId = match.nextId /\ j.resolvedBy = match.resolvedBy
  BY <1>2 DEF Matches
<1>. HIDE DEF j
<1>6. /\ k \in Matches /\ k.phase = "ingame" /\ k.ai = match.ai /\ k.effects = match.effects
      /\ k.role = match.role /\ k.afk = match.afk /\ k.told = shown
      /\ k.pending = match.pending /\ k.nextId = match.nextId /\ k.resolvedBy = match.resolvedBy
  BY <1>3, <1>5 DEF Matches
<1>. HIDE DEF k
<1>7. Quiet(match, k)
  BY <1>1, <1>6 DEF Sound, Quiet, StillAsks, Early
<1>8. Calm(k, process) /\ VerdictComes(k)
  <2>1. CASE Over(match)
    BY <1>6, <2>1 DEF Over, Calm, VerdictComes
  <2>2. CASE ~Over(match)
    <3>1. Pauses(match) /\ AiPlace(match) /\ Processes(match, process)
      BY <1>2, <2>2 DEF Calm
    <3>2. k.told = {} /\ ~k.afk /\ ~Healing(k)
      BY <1>1, <1>4, <1>6, <3>1 DEF Pauses, Healing
    <3>3. Pauses(k)
      BY <1>6, <3>2 DEF Pauses, HeldBy
    <3>4. AiPlace(k) /\ Processes(k, process)
      BY <1>1, <1>6, <3>1 DEF AiPlace, Processes
    <3>5. VerdictComes(k)
      BY <1>1, <1>6, <3>1 DEF AiPlace, VerdictComes
    <3>. QED  BY <3>3, <3>4, <3>5 DEF Calm
  <2>. QED  BY <2>1, <2>2
<1>. QED  BY <1>1, <1>7, <1>8, HandledKeepsIInv

-----------------------------------------------------------------------------
(* The invariant.                                                          *)

\* What an initial match has to be like.
LEMMA InitFits ==
    ASSUME config \in Config, thread = "playing", run = NoWorker,
           process = [at |-> "none", exited |-> FALSE],
           files.status \in Statuses \cup {"none"}, files.outcome = "none", files.last = 0,
           files = [status |-> files.status, outcome |-> files.outcome, last |-> files.last],
           Sound(match), Calm(match, process), VerdictComes(match), Runs(match, NoWorker),
           match.resolvedBy = 0
    PROVE  IInv
<1>1. TypeOK
  <2>1. 0 \in 0 .. MaxRuns
    BY LifecycleAssumption
  <2>. QED  BY <2>1 DEF TypeOK, Sound, NoWorker
<1>2. Decided(match, run, files)
  BY DEF Decided
<1>. QED  BY <1>1, <1>2 DEF IInv, Fits

\* A new machine fits a process and a worker that do not exist.
LEMMA NewMatchFits ==
    ASSUME NEW m, m = NewMatch, NEW p, p.at = "none"
    PROVE  Sound(m) /\ Calm(m, p) /\ Runs(m, NoWorker)
<1>1. /\ m \in Matches
      /\ m.ai = NoAi /\ m.phase = "setup" /\ m.told = {} /\ m.afk = FALSE
      /\ m.effects.all = {} /\ m.effects.process = "kept" /\ m.pending = NoRun
  BY NewMatchType DEF NothingAsked
<1>2. Sound(m)
  BY <1>1 DEF Sound
<1>3. ~Healing(m) /\ ~HeldBy(m)
  BY <1>1 DEF Healing, HeldBy, NoAi
<1>4. Pauses(m)
  BY <1>1, <1>3 DEF Pauses
<1>5. AiPlace(m) /\ Processes(m, p)
  BY <1>1 DEF AiPlace, Processes, NoAi
<1>6. Runs(m, NoWorker)
  BY <1>1 DEF Runs, NoWorker
<1>. QED  BY <1>2, <1>4, <1>5, <1>6 DEF Calm

\* So does one made of a save, with its AI host and its first run asked for.
LEMMA ResumedFits ==
    ASSUME NEW hosted \in BOOLEAN, NEW base \in {0, InitialTurn}, NEW m, m = Resumed(hosted, base),
           NEW p, p.at = "none"
    PROVE  /\ Sound(m) /\ Calm(m, p) /\ Runs(m, NoWorker) /\ VerdictComes(m)
           /\ m.resolvedBy = 0
<1>. DEFINE new == NewMatch
            turned == [new EXCEPT !.phase = "resuming"]
            saved == [turned EXCEPT !.hosted = hosted]
            h == [saved EXCEPT !.ai = Away(1, NoVerdict)]
            healing == [h EXCEPT !.aiState = TRUE]
            back == IF hosted THEN SpawnAiHost(healing) ELSE saved
            pending == [id |-> 1, turn |-> back.turn, scratch |-> base = 0]
            j == [back EXCEPT !.nextId = 2]
            k == [j EXCEPT !.pending = pending]
            b == [back EXCEPT !.base = base]
<1>1. /\ new \in Matches /\ new.ai = NoAi /\ new.told = {} /\ new.afk = FALSE
      /\ new.effects = NothingAsked /\ new.pending = NoRun /\ new.resolvedBy = 0
      /\ new.role = [person \in Person |-> "out"]
  BY NewMatchType
<1>2a. [new EXCEPT !.phase = "resuming", !.hosted = hosted] = saved
  OBVIOUS
<1>2. m = b \/ m = back \/ m = Emit(k, "checkpoint")
  BY DEF Resumed
<1>. HIDE DEF new
<1>2b. /\ turned \in Matches /\ turned.phase = "resuming" /\ turned.ai = new.ai
       /\ turned.told = new.told /\ turned.afk = new.afk /\ turned.effects = new.effects
       /\ turned.pending = new.pending /\ turned.resolvedBy = new.resolvedBy
       /\ turned.role = new.role
  BY <1>1 DEF Matches
<1>. HIDE DEF turned
<1>3. /\ saved \in Matches /\ saved.ai = NoAi /\ saved.told = {} /\ saved.afk = FALSE
      /\ saved.effects = NothingAsked /\ saved.pending = NoRun /\ saved.resolvedBy = 0
      /\ saved.role = new.role /\ saved.phase = "resuming"
  BY <1>1, <1>2b DEF Matches
<1>. HIDE DEF saved
<1>4. NothingAsked.all = {} /\ NothingAsked.process = "kept"
  BY DEF NothingAsked
<1>5. Away(1, NoVerdict) \in AiHosts
  BY AiTypes DEF Away
<1>6. Sound(saved)
  BY <1>3, <1>4 DEF Sound
<1>7. /\ Sound(back) /\ back.phase = "resuming" /\ back.told = {} /\ back.afk = FALSE
      /\ back.role = new.role /\ back.pending = NoRun /\ back.resolvedBy = 0
      /\ back.ai = IF hosted THEN Away(1, NoVerdict) ELSE NoAi
      /\ back.effects.process = IF hosted THEN "spawn" ELSE "kept"
      /\ "checkpoint" \notin back.effects.all
  <2>1. CASE back = saved /\ ~hosted
    BY <1>3, <1>4, <1>6, <2>1
  <2>2. CASE back = SpawnAiHost(healing) /\ hosted
    <3>1. /\ Sound(h) /\ SameGame(saved, h) /\ h.ai = Away(1, NoVerdict)
          /\ h.effects = saved.effects
      BY <1>5, <1>6, AiQuiet
    <3>. HIDE DEF h
    <3>2. /\ Sound(healing) /\ SameGame(h, healing) /\ healing.ai = h.ai
          /\ healing.effects = h.effects
      BY <3>1 DEF Sound, Matches, SameGame
    <3>. HIDE DEF healing
    <3>3. /\ Quiet(healing, back) /\ Sound(back) /\ SameGame(healing, back)
          /\ back.ai = healing.ai /\ back.effects.process = "spawn"
      BY <2>2, <3>2, SpawnFields
    <3>. HIDE DEF back
    <3>4. "checkpoint" \notin back.effects.all
      BY <1>3, <1>4, <3>1, <3>2, <3>3 DEF Quiet, StillAsks
    <3>. QED  BY <1>3, <2>2, <3>1, <3>2, <3>3, <3>4 DEF SameGame
  <2>. QED  BY <2>1, <2>2
<1>. HIDE DEF back
\* A machine like that, whatever of the checkpoints.
<1>8. ASSUME NEW n, n \in Matches, n.phase = "resuming", n.told = {}, n.afk = FALSE,
             n.role = new.role, n.ai = back.ai, n.effects.process = back.effects.process,
             back.effects.all \subseteq n.effects.all
      PROVE  Sound(n) /\ Calm(n, p) /\ VerdictComes(n)
  <2>1. Sound(n)
    BY <1>7, <1>8 DEF Sound
  <2>2. \A person \in Person : n.role[person] = "out"
    BY <1>1, <1>8
  <2>3. Pauses(n)
    BY <1>8, <2>2 DEF Pauses, HeldBy, InGame
  <2>4. AiPlace(n) /\ n.ai.verdict = NoVerdict
    BY <1>7, <1>8 DEF AiPlace, Away, NoAi
  <2>5. Processes(n, p)
    BY <1>7, <1>8 DEF Processes, Away, NoAi
  <2>. QED  BY <2>1, <2>3, <2>4, <2>5 DEF Calm, VerdictComes
<1>9. back \in Matches
  BY <1>7 DEF Sound
<1>10. CASE m = back
  <2>1. Runs(back, NoWorker)
    BY <1>7 DEF Runs, NoWorker
  <2>. QED  BY <1>7, <1>8, <1>9, <1>10, <2>1
<1>11. CASE m = b
  <2>1. base \in 0 .. MaxTurn
    BY LifecycleAssumption DEF InitialTurn
  <2>2. /\ b \in Matches /\ b.phase = back.phase /\ b.told = back.told /\ b.afk = back.afk
        /\ b.role = back.role /\ b.ai = back.ai /\ b.effects = back.effects
        /\ b.pending = back.pending /\ b.resolvedBy = back.resolvedBy
    BY <1>9, <2>1 DEF Matches
  <2>. HIDE DEF b
  <2>3. Runs(b, NoWorker)
    BY <1>7, <2>2 DEF Runs, NoWorker
  <2>4. Sound(b) /\ Calm(b, p) /\ VerdictComes(b)
    BY <1>7, <1>8, <2>2
  <2>. QED  BY <1>7, <1>11, <2>2, <2>3, <2>4
<1>12. CASE m = Emit(k, "checkpoint")
  <2>1. 2 \in 1 .. MaxRuns + 1
    BY LifecycleAssumption
  <2>2. pending \in [id : 0 .. MaxRuns, turn : 0 .. MaxTurn, scratch : BOOLEAN]
        /\ pending.id = 1
    BY <1>9, LifecycleAssumption DEF Matches, InitialTurn
  <2>. HIDE DEF pending
  <2>3. /\ j \in Matches /\ j.phase = back.phase /\ j.told = back.told /\ j.afk = back.afk
        /\ j.role = back.role /\ j.ai = back.ai /\ j.effects = back.effects
        /\ j.nextId = 2 /\ j.resolvedBy = back.resolvedBy
    BY <1>9, <2>1 DEF Matches
  <2>. HIDE DEF j
  <2>4. /\ k \in Matches /\ k.phase = back.phase /\ k.told = back.told /\ k.afk = back.afk
        /\ k.role = back.role /\ k.ai = back.ai /\ k.effects = back.effects
        /\ k.nextId = 2 /\ k.pending = pending /\ k.resolvedBy = back.resolvedBy
    BY <2>2, <2>3 DEF Matches
  <2>. HIDE DEF k
  <2>5. /\ m \in Matches /\ m.ai = k.ai /\ SameGame(k, m)
        /\ m.effects.all = k.effects.all \cup {"checkpoint"}
        /\ m.effects.process = k.effects.process
    BY <1>12, <2>4, EmitFields DEF Effects
  <2>6. /\ m.phase = "resuming" /\ m.told = {} /\ m.afk = FALSE /\ m.role = new.role
        /\ m.nextId = 2 /\ m.pending = pending /\ m.resolvedBy = 0
    BY <1>7, <2>4, <2>5 DEF SameGame
  <2>7. Sound(m) /\ Calm(m, p) /\ VerdictComes(m)
    BY <1>8, <2>4, <2>5, <2>6
  <2>8. pending # NoRun
    BY <2>2 DEF NoRun
  <2>9. Runs(m, NoWorker)
    BY <2>2, <2>5, <2>6, <2>8 DEF Runs, Early, NoWorker
  <2>. QED  BY <2>6, <2>7, <2>9
<1>. QED  BY <1>2, <1>10, <1>11, <1>12

\* The invariant holds at the start of the game thread.
LEMMA InitIInv == Init => IInv
<1>. SUFFICES ASSUME Init  PROVE  IInv
  OBVIOUS
<1>1. /\ config \in Config /\ thread = "playing" /\ run = NoWorker
      /\ process = [at |-> "none", exited |-> FALSE]
      /\ files.status \in Statuses \cup {"none"} /\ files.outcome = "none" /\ files.last = 0
      /\ files = [status |-> files.status, outcome |-> files.outcome, last |-> files.last]
  BY DEF Init, Statuses
<1>2. process.at = "none"
  BY <1>1
<1>3. \/ match = NewMatch \/ match = HoldForAiHost(NewMatch)
      \/ \E hosted \in BOOLEAN, base \in {0, InitialTurn} : match = Resumed(hosted, base)
  BY DEF Init
<1>. DEFINE new == NewMatch
<1>4. /\ Sound(new) /\ Calm(new, process) /\ Runs(new, NoWorker)
      /\ new.phase = "setup" /\ new.resolvedBy = 0
  BY <1>2, NewMatchFits, NewMatchType
<1>. HIDE DEF new
<1>5. /\ Sound(match) /\ Calm(match, process) /\ VerdictComes(match) /\ Runs(match, NoWorker)
      /\ match.resolvedBy = 0
  <2>1. CASE match = new
    <3>1. VerdictComes(new)
      BY <1>4, NoVerdictElsewhere
    <3>. QED  BY <1>4, <2>1, <3>1
  <2>2. CASE match = HoldForAiHost(new)
    <3>1. /\ Quiet(new, match) /\ Sound(match) /\ Calm(match, process)
          /\ match.phase = "await"
      BY <1>4, <2>2, HoldForAiHostCalm
    <3>2. VerdictComes(match)
      BY <3>1, NoVerdictElsewhere
    <3>3. Runs(match, NoWorker)
      BY <1>4, <3>1, QuietRuns
    <3>. QED  BY <1>4, <3>1, <3>2, <3>3 DEF Quiet
  <2>3. ASSUME NEW hosted \in BOOLEAN, NEW base \in {0, InitialTurn}, match = Resumed(hosted, base)
        PROVE  /\ Sound(match) /\ Calm(match, process) /\ VerdictComes(match)
               /\ Runs(match, NoWorker) /\ match.resolvedBy = 0
    BY <1>2, <2>3, ResumedFits
  <2>. QED  BY <1>3, <2>1, <2>2, <2>3 DEF new
<1>. QED  BY <1>1, <1>5, InitFits

\* Every step keeps the invariant, the handlers by what they leave to be
\* carried out and the game thread by carrying it out.
LEMMA StepIInv == IInv /\ [Next]_vars => IInv'
<1>. SUFFICES ASSUME IInv, [Next]_vars  PROVE  IInv'
  OBVIOUS
<1>1. CASE Drain
  <2>1. PICK works \in Works(match) : DrainOf(match, works)
    BY <1>1 DEF Drain
  <2>2. thread = "playing"
    BY <1>1 DEF Drain
  <2>. QED  BY <2>1, <2>2, PlayingFits, DrainKeepsIInv
<1>2. ASSUME NEW idle, NEW heal, NEW phase, NEW absent \in BOOLEAN,
             Tick(idle, heal, phase, absent)
      PROVE  IInv'
  <2>1. PICK m \in Ticked(match, idle, heal, phase, absent) :
           \E works \in Works(m) : DrainOf(m, works)
    BY <1>2 DEF Tick
  <2>2. PICK works \in Works(m) : DrainOf(m, works)
    BY <2>1
  <2>3. thread = "playing"
    BY <1>2 DEF Tick, Awaits
  <2>4. Fits(m, process, run, files) /\ VerdictComes(m)
    BY <2>1, <2>3, PlayingFits, TickedFits
  <2>. QED  BY <2>2, <2>3, <2>4, DrainKeepsIInv
<1>3. CASE ExitReported
  BY <1>3, ExitReportedKeepsIInv
<1>4. CASE CheckpointArrives
  BY <1>4, CheckpointArrivesKeepsIInv
<1>5. CASE StopRequested \/ EnetDies
  BY <1>5, LeavingKeepsIInv
<1>6. CASE \E replayed \in BOOLEAN : Close(replayed)
  BY <1>6, CloseKeepsIInv
<1>7. CASE (\E result \in {"failed", "open", "decided"} : RunEnds(result)) \/ RunWrites
  BY <1>7, RunKeepsIInv
<1>8. CASE ProcessDies
  BY <1>8, ProcessDiesKeepsIInv
<1>9. CASE AiHostArrives
  BY <1>9, AiHostArrivesKeepsIInv
<1>10. CASE AiHostLoads
  BY <1>10, AiHostLoadsKeepsIInv
<1>11. CASE AiHostDrops
  BY <1>11, AiHostDropsKeepsIInv
<1>12. CASE AiStatePulled \/ \E turn \in InitialTurn .. MaxTurn : StatePulled(turn)
  BY <1>12, PulledKeepsIInv
<1>13. CASE TurnReleased
  BY <1>13, TurnReleasedKeepsIInv
<1>14. CASE \E hosted \in BOOLEAN : StartSettings(hosted)
  BY <1>14, StartSettingsKeepsIInv
<1>15. ASSUME NEW p \in Person,
              Arrives(p) \/ Loads(p) \/ Joined(p) \/ Leaves(p) \/ Resigns(p) \/ Resumes(p)
       PROVE  IInv'
  BY <1>15, ArrivesKeepsIInv, LoadsKeepsIInv, JoinedKeepsIInv, LeavesKeepsIInv,
     ResignsKeepsIInv, ResumesKeepsIInv
<1>16. CASE UNCHANGED vars
  BY <1>16 DEF vars, IInv, TypeOK, Fits, Sound, Calm, Over, Pauses, AiPlace, Processes, HeldBy,
               Healing, InGame, Runs, Early, Decided, VerdictComes, Leaving
<1>. QED
  BY <1>1, <1>2, <1>3, <1>4, <1>5, <1>6, <1>7, <1>8, <1>9, <1>10, <1>11, <1>12, <1>13,
     <1>14, <1>15, <1>16 DEF Next

\* The machine fits what the game thread has made of its effects, at every
\* moment of a match.
THEOREM Invariant == Spec => []IInv
<1>1. Init => IInv
  BY InitIInv
<1>2. IInv /\ [Next]_vars => IInv'
  BY StepIInv
<1>. QED  BY <1>1, <1>2, PTL DEF Spec

\* Every variable stays in its type: the attempts at a heal within
\* Config::ai_heal_attempts, or the first, and the AI host in one of a few
\* places.
THEOREM TypeCorrect == Spec => []TypeOK
<1>1. IInv => TypeOK
  BY DEF IInv
<1>. QED  BY <1>1, Invariant, PTL

\* The machine agrees with what the game thread made of its effects: the
\* pauses the clients show, the process and the run it waits for, and the
\* outcome on disk.
THEOREM Consistent == Spec => []MatchConsistent
<1>1. IInv => HoldsAgree
  <2>. SUFFICES ASSUME IInv, thread = "playing", ~Over(match), NEW p \in Person,
                       match.role[p] = "ingame"
                PROVE  p \in match.told <=> Held
    BY DEF HoldsAgree, Over
  <2>1. Pauses(match)
    BY DEF IInv, Fits, Calm
  <2>. QED  BY <2>1 DEF Pauses, HeldBy, Held
<1>2. IInv => AiHostAwaited
  <2>. SUFFICES ASSUME IInv, thread = "playing", match.effects = NothingAsked
                PROVE  AiHostAwaited
    BY DEF AiHostAwaited
  <2>1. match.effects.process = "kept" /\ ~Over(match)
    BY DEF NothingAsked, Over
  <2>2. Processes(match, process) /\ VerdictComes(match)
    BY <2>1 DEF IInv, Fits, Calm
  <2>. QED  BY <2>1, <2>2 DEF AiHostAwaited, Processes, VerdictComes
<1>3. IInv => DecidedIsFinal
  <2>. SUFFICES ASSUME IInv, match.resolvedBy # 0, match.effects = NothingAsked,
                       thread \in {"playing", "closing"}
                PROVE  files.outcome = "final"
    BY DEF DecidedIsFinal
  <2>1. "ended" \notin match.effects.all
    BY DEF NothingAsked
  <2>. QED  BY <2>1 DEF IInv, Fits, Decided, Leaving
<1>4. IInv => MatchConsistent
  BY <1>1, <1>2, <1>3 DEF MatchConsistent
<1>. QED  BY <1>4, Invariant, PTL

\* A final outcome is never overwritten by the progress of a checkpoint run
\* that was in flight when the match ended.
THEOREM OutcomeStays == Spec => FinalStays
<1>1. ASSUME IInv, [Next]_vars, files.outcome = "final"
      PROVE  files'.outcome = "final"
  <2>1. files \in [status : Statuses \cup {"none"}, outcome : {"none", "progress", "final"},
                   last : 0 .. MaxRuns]
    BY <1>1 DEF IInv, TypeOK
  <2>2. ~RunWrites
    <3>1. run.stage \in {"idle", "answered"}
      BY <1>1 DEF IInv, Fits, Decided, Leaving
    <3>. QED  BY <3>1 DEF RunWrites
  <2>3. ASSUME NEW m, NEW works, DrainOf(m, works)
        PROVE  files'.outcome = "final"
    BY <1>1, <2>3 DEF DrainOf, FilesAfter
  <2>4. CASE Drain
    BY <2>3, <2>4 DEF Drain
  <2>5. CASE \E idle \in Limit(Here(match) = {}), heal \in Limit(Healing(match)),
                phase, absent \in BOOLEAN : Tick(idle, heal, phase, absent)
    BY <2>3, <2>5 DEF Tick
  <2>6. CASE CheckpointArrives
    BY <1>1, <2>1, <2>6 DEF CheckpointArrives
  <2>7. CASE StopRequested \/ EnetDies
    BY <1>1, <2>1, <2>7 DEF StopRequested, EnetDies, LeavesLoop, Marked
  <2>8. CASE \E replayed \in BOOLEAN : Close(replayed)
    BY <1>1, <2>1, <2>8 DEF Close, Replayed
  <2>9. CASE UNCHANGED files
    BY <1>1, <2>9
  <2>10. ASSUME \/ ExitReported \/ ProcessDies
                \/ \E result \in {"failed", "open", "decided"} : RunEnds(result)
                \/ AiHostArrives \/ AiHostLoads \/ AiHostDrops \/ AiStatePulled \/ TurnReleased
                \/ \E turn \in InitialTurn .. MaxTurn : StatePulled(turn)
                \/ \E hosted \in BOOLEAN : StartSettings(hosted)
         PROVE  UNCHANGED files
    BY <2>10 DEF ExitReported, RunEnds, ProcessDies, AiHostArrives, AiHostLoads,
                 AiHostDrops, AiStatePulled, TurnReleased, StatePulled, StartSettings, Input
  <2>11. ASSUME NEW p \in Person,
                Arrives(p) \/ Loads(p) \/ Joined(p) \/ Resigns(p) \/ Resumes(p)
         PROVE  UNCHANGED files
    BY <2>11 DEF Arrives, Loads, Joined, Resigns, Resumes, Input
  <2>12. ASSUME NEW p \in Person, Leaves(p)
         PROVE  UNCHANGED files
    BY <2>12 DEF Leaves, Input
  <2>13. CASE UNCHANGED vars
    BY <2>9, <2>13 DEF vars
  <2>. QED
    BY <1>1, <2>2, <2>4, <2>5, <2>6, <2>7, <2>8, <2>9, <2>10, <2>11, <2>12, <2>13 DEF Next
<1>2. IInv /\ [Next]_vars => [files.outcome = "final" => files'.outcome = "final"]_vars
  BY <1>1
<1>. QED  BY <1>2, Invariant, PTL DEF Spec, FinalStays
=============================================================================
