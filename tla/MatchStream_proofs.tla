------------------------- MODULE MatchStream_proofs -------------------------
(***************************************************************************)
(* Proofs about MatchStream, for every set of peers, players and delayed   *)
(* observers, every command delay, feed delay and bound: every client has  *)
(* been sent exactly what it is due, the feed keeps its distance, and the  *)
(* relay implements TurnLog.                                               *)
(*                                                                         *)
(* The inductive invariant says of every peer, by its mode, what its view  *)
(* is: the state of some turn of the log, or the whole log.  The work is   *)
(* in three lemmas on what is sent (a turn's commands and seals to the     *)
(* feed, seals to the live, the replay to a joiner) and in FeedAdvances,   *)
(* which says what advance_feed makes of the peers a handler hands it;     *)
(* each action then shows that what it hands over satisfies the lemma.     *)
(***************************************************************************)
EXTENDS MatchStream, SequenceTheorems, FiniteSetTheorems, WellFoundedInduction, TLAPS

Command == 1 .. MaxCommands

Logs == [Turn -> Seq(Command)]

\* What a client has that was sent everything.
Whole(ready, lg) == [sealed |-> ready, commands |-> lg, broken |-> FALSE]

\* What a peer has of a log lg, with the ready turn r and the feed's head h.
PeerServed(p, m, v, b, r, h, lg) ==
    /\ m \in Modes /\ b \in 0 .. r
    /\ m # "held" => b = 0
    /\ m \in {"out", "syncing"} => v = NoState
    /\ m = "live" => p \notin DelayedObserver /\ v = Whole(r, lg)
    /\ m = "delayed" => p \in DelayedObserver /\ v = StateAt(h, lg)
    /\ m = "held" => p \in DelayedObserver /\ \E k \in 0 .. b : v = StateAt(k, lg)
    /\ m = "granted" => \E k \in 0 .. r : /\ v = StateAt(k, lg)
                                          /\ p \in DelayedObserver => k <= h

View == [sealed : Nat, commands : [Turn -> Seq(Nat)], broken : BOOLEAN]

Served(md, vw, bd, r, h, lg) ==
    /\ md \in [Peer -> Modes] /\ vw \in [Peer -> View] /\ bd \in [Peer -> Nat]
    /\ \A p \in Peer : PeerServed(p, md[p], vw[p], bd[p], r, h, lg)

IInv ==
    /\ phase \in {"InGame", "Resuming"}
    /\ readyTurn \in InitialReadyTurn .. MaxTurn
    /\ head \in 0 .. readyTurn
    /\ log \in Logs
    /\ Served(mode, view, bound, readyTurn, head, log)
    /\ HeldOnlyWhileDue

-----------------------------------------------------------------------------
(* Numbers of turns and commands.                                          *)

\* The commands recorded are finitely many, so that the next has a number.
LEMMA RecordedIsNat ==
    ASSUME log \in Logs
    PROVE  Recorded \in Nat
<1>. DEFINE Of == [t \in Turn |-> {t} \X DOMAIN log[t]]
            Places == {{t} \X DOMAIN log[t] : t \in Turn}
<1>1. IsFiniteSet(Turn)
  BY FS_Interval, BoundAssumption DEF Turn
<1>2. Of \in Surjection(Turn, Places)
  BY DEF Surjection
<1>3. IsFiniteSet(Places)
  BY <1>1, <1>2, FS_Surjection
<1>4. ASSUME NEW t \in Turn
      PROVE  IsFiniteSet({t} \X DOMAIN log[t])
  <2>1. log[t] \in Seq(Command)
    BY DEF Logs
  <2>2. DOMAIN log[t] = 1 .. Len(log[t]) /\ Len(log[t]) \in Nat
    BY <2>1, LenProperties
  <2>3. IsFiniteSet(DOMAIN log[t])
    BY <2>2, FS_Interval
  <2>. QED  BY <2>3, FS_Singleton, FS_Product
<1>5. IsFiniteSet(UNION Places)
  BY <1>3, <1>4, FS_UNION
<1>. QED  BY <1>5, FS_CardinalityType DEF Recorded

\* A set of turns that is not empty has a last one.
LEMMA LastOf ==
    ASSUME NEW T \in SUBSET Turn, T # {}
    PROVE  \E t \in T : \A u \in T : u <= t
<1>. DEFINE Left == {n \in Nat : \E t \in T : n = MaxTurn - t}
<1>1. Left \subseteq Nat /\ Left # {}
  <2>1. PICK t \in T : TRUE
    OBVIOUS
  <2>2. MaxTurn - t \in Left
    BY <2>1, BoundAssumption DEF Turn
  <2>. QED  BY <2>2
<1>2. PICK m \in Left : \A k \in Left : <<k, m>> \notin OpToRel(<, Nat)
  BY <1>1, WFMin, NatLessThanWellFounded, Zenon
<1>3. \A k \in Left : ~(k < m)
  BY <1>2, Zenon DEF OpToRel
<1>. QED  BY <1>3, BoundAssumption DEF Turn

\* No turn past the last one with commands has any.
LEMMA NothingAfterTheLast ==
    ASSUME log \in Logs, NEW t \in Turn, t > LastCommandTurn
    PROVE  log[t] = <<>>
<1>. DEFINE used == {u \in Turn : log[u] # <<>>}
<1>1. CASE used = {}
  BY <1>1
<1>2. CASE used # {}
  <2>1. \E u \in used : \A w \in used : w <= u
    BY <1>2, LastOf
  <2>2. LastCommandTurn \in used /\ \A w \in used : w <= LastCommandTurn
    BY <1>2, <2>1, Zenon DEF LastCommandTurn
  <2>. QED  BY <2>2 DEF Turn
<1>. QED  BY <1>1, <1>2

LEMMA LastCommandTurnIsNat == log \in Logs => LastCommandTurn \in Nat
<1>. SUFFICES ASSUME log \in Logs PROVE LastCommandTurn \in Nat
  OBVIOUS
<1>. DEFINE used == {u \in Turn : log[u] # <<>>}
<1>1. CASE used = {}
  BY <1>1 DEF LastCommandTurn
<1>2. CASE used # {}
  <2>1. \E u \in used : \A w \in used : w <= u
    BY <1>2, LastOf
  <2>2. LastCommandTurn \in used
    BY <1>2, <2>1, Zenon DEF LastCommandTurn
  <2>. QED  BY <2>2 DEF Turn
<1>. QED  BY <1>1, <1>2

-----------------------------------------------------------------------------
(* What is sent.                                                           *)

\* What a state has of a turn.
LEMMA UptoTurn ==
    ASSUME NEW lg, NEW k, NEW t \in Turn
    PROVE  /\ t <= k => Upto(k, lg)[t] = lg[t]
           /\ ~(t <= k) => Upto(k, lg)[t] = <<>>
BY DEF Upto

\* States of a turn that agree up to it are the same.
LEMMA StateAtEqual ==
    ASSUME NEW k, NEW c, NEW d, \A t \in Turn : t <= k => c[t] = d[t]
    PROVE  StateAt(k, c) = StateAt(k, d)
<1>1. \A t \in Turn : (IF t <= k THEN c[t] ELSE <<>>) = (IF t <= k THEN d[t] ELSE <<>>)
  OBVIOUS
<1>2. Upto(k, c) = Upto(k, d)
  BY <1>1, Zenon DEF Upto
<1>. QED  BY <1>2 DEF StateAt

\* A state taken from a client's copy is the state the log gives.
LEMMA UptoUpto ==
    ASSUME NEW lg, NEW k \in Nat, NEW h \in Nat, k <= h
    PROVE  StateAt(k, Upto(h, lg)) = StateAt(k, lg)
<1>1. ASSUME NEW t \in Turn, t <= k
      PROVE  Upto(h, lg)[t] = lg[t]
  <2>1. t <= h
    BY <1>1 DEF Turn
  <2>. QED  BY <2>1, UptoTurn
<1>. QED  BY <1>1, StateAtEqual

\* The turns up to one that is past are what they were when a later one gets a command.
LEMMA UptoOfPast ==
    ASSUME NEW lg \in Logs, NEW turn \in Turn, NEW k \in Nat, k < turn, NEW commands
    PROVE  StateAt(k, [lg EXCEPT ![turn] = commands]) = StateAt(k, lg)
<1>1. \A t \in Turn : t <= k => [lg EXCEPT ![turn] = commands][t] = lg[t]
  BY DEF Turn, Logs
<1>. QED  BY <1>1, StateAtEqual

\* A client that is sent the next turns' seals is at the last of them.
LEMMA SealsFollow ==
    ASSUME NEW s \in Nat, NEW c, NEW to \in Nat, s <= to
    PROVE  SendSeals([sealed |-> s, commands |-> c, broken |-> FALSE], s + 1, to)
             = [sealed |-> to, commands |-> c, broken |-> FALSE]
<1>. DEFINE v == [sealed |-> s, commands |-> c, broken |-> FALSE]
<1>1. v.sealed = s /\ v.commands = c /\ v.broken = FALSE
  OBVIOUS
<1>2. CASE s = to
  <2>1. s + 1 > to
    BY <1>2
  <2>. QED  BY <1>2, <2>1, Zenon DEF SendSeals
<1>3. CASE s < to
  <2>. HIDE DEF v
  <2>1. ~(s + 1 > to)
    BY <1>3
  <2>2. SendSeals(v, s + 1, to)
          = [sealed |-> to, commands |-> v.commands,
             broken |-> v.broken \/ s + 1 # v.sealed + 1]
    BY <2>1, Zenon DEF SendSeals
  <2>3. (v.broken \/ s + 1 # v.sealed + 1) = FALSE
    BY <1>1
  <2>4. SendSeals(v, s + 1, to) = [sealed |-> to, commands |-> c, broken |-> FALSE]
    BY <1>1, <2>2, <2>3, Zenon
  <2>. QED  BY <2>4 DEF v
<1>. QED  BY <1>2, <1>3

\* The turns after the one a client is at make its state that of a later turn.
LEMMA TurnsReach ==
    ASSUME log \in Logs, NEW h \in Nat, NEW k \in Nat, h <= k
    PROVE  SendTurns(StateAt(h, log), h + 1, k) = StateAt(k, log)
<1>1. \A t \in Turn : <<>> \o log[t] = log[t]
  BY ConcatEmptySeq DEF Logs
<1>2. SendCommands(StateAt(h, log), h + 1, k)
        = [sealed |-> h, commands |-> Upto(k, log), broken |-> FALSE]
  <2>1. ASSUME NEW t \in Turn
        PROVE  (IF t \in h + 1 .. k THEN Upto(h, log)[t] \o log[t] ELSE Upto(h, log)[t])
                 = Upto(k, log)[t]
    <3>1. t \in Nat
      BY DEF Turn
    <3>2. CASE t <= h
      BY <3>1, <3>2, UptoTurn
    <3>3. CASE t \in h + 1 .. k
      <4>1. Upto(h, log)[t] = <<>> /\ Upto(k, log)[t] = log[t]
        BY <3>1, <3>3, UptoTurn
      <4>. QED  BY <1>1, <3>3, <4>1
    <3>4. CASE t > k
      BY <3>1, <3>4, UptoTurn
    <3>. QED  BY <3>1, <3>2, <3>3, <3>4
  <2>2. [t \in Turn |-> IF t \in h + 1 .. k THEN Upto(h, log)[t] \o log[t] ELSE Upto(h, log)[t]]
          = Upto(k, log)
    BY <2>1 DEF Upto
  <2>3. (FALSE \/ \E t \in h + 1 .. k : t <= h /\ log[t] # <<>>) = FALSE
    OBVIOUS
  <2>. QED  BY <2>2, <2>3 DEF SendCommands, StateAt
<1>. QED  BY <1>2, SealsFollow DEF SendTurns, StateAt

\* Seals take a client that has everything to a later turn.
LEMMA SealsReach ==
    ASSUME NEW lg, NEW r \in Nat, NEW turn \in Nat, r <= turn
    PROVE  SendSeals(Whole(r, lg), r + 1, turn) = Whole(turn, lg)
BY SealsFollow DEF Whole

\* The replay to a joiner, from any state it loaded, leaves it with everything.
LEMMA ReplayReaches ==
    ASSUME log \in Logs, readyTurn \in Nat, NEW k \in 0 .. readyTurn
    PROVE  SendSeals(SendCommands(StateAt(k, log), k + 1, ReplayEnd), k + 1, readyTurn)
             = Whole(readyTurn, log)
<1>1. \A t \in Turn : <<>> \o log[t] = log[t]
  BY ConcatEmptySeq DEF Logs
<1>2. ReplayEnd \in Nat /\ ReplayEnd >= LastCommandTurn /\ ReplayEnd > k
  BY LastCommandTurnIsNat DEF ReplayEnd, Larger
<1>3. \A t \in Turn : t > ReplayEnd => log[t] = <<>>
  BY <1>2, NothingAfterTheLast, LastCommandTurnIsNat DEF Turn
<1>4. SendCommands(StateAt(k, log), k + 1, ReplayEnd)
        = [sealed |-> k, commands |-> log, broken |-> FALSE]
  <2>1. ASSUME NEW t \in Turn
        PROVE  (IF t \in k + 1 .. ReplayEnd THEN Upto(k, log)[t] \o log[t]
                ELSE Upto(k, log)[t]) = log[t]
    <3>1. t \in Nat
      BY DEF Turn
    <3>2. CASE t <= k
      BY <3>1, <3>2, UptoTurn
    <3>3. CASE t \in k + 1 .. ReplayEnd
      <4>1. Upto(k, log)[t] = <<>>
        BY <3>1, <3>3, UptoTurn
      <4>. QED  BY <1>1, <3>3, <4>1
    <3>4. CASE t > ReplayEnd
      <4>1. Upto(k, log)[t] = <<>> /\ log[t] = <<>>
        BY <1>2, <1>3, <3>1, <3>4, UptoTurn
      <4>. QED  BY <1>2, <3>1, <3>4, <4>1
    <3>. QED  BY <1>2, <3>1, <3>2, <3>3, <3>4
  <2>2. [t \in Turn |-> IF t \in k + 1 .. ReplayEnd THEN Upto(k, log)[t] \o log[t]
                        ELSE Upto(k, log)[t]] = log
    BY <2>1 DEF Logs
  <2>3. (FALSE \/ \E t \in k + 1 .. ReplayEnd : t <= k /\ log[t] # <<>>) = FALSE
    BY <1>2
  <2>. QED  BY <2>2, <2>3 DEF SendCommands, StateAt
<1>. QED  BY <1>4, SealsFollow DEF Whole

\* A state and the whole log are views.
LEMMA StateIsView ==
    ASSUME NEW lg \in Logs, NEW k \in Nat
    PROVE  /\ StateAt(k, lg) \in View
           /\ Whole(k, lg) \in View
           /\ NoState \in View
<1>1. Seq(Command) \subseteq Seq(Nat)
  <2>1. Command \subseteq Nat
    BY DEF Command
  <2>. QED  BY <2>1, SeqMonotonic
<1>2. <<>> \in Seq(Nat)
  BY EmptySeq
<1>3. lg \in [Turn -> Seq(Nat)]
  BY <1>1 DEF Logs
<1>4. Upto(k, lg) \in [Turn -> Seq(Nat)]
  <2>1. \A t \in Turn : Upto(k, lg)[t] \in Seq(Nat)
    BY <1>2, <1>3, UptoTurn
  <2>. QED  BY <2>1 DEF Upto
<1>5. Upto(0, [t \in Turn |-> <<>>]) \in [Turn -> Seq(Nat)]
  <2>1. \A t \in Turn : Upto(0, [u \in Turn |-> <<>>])[t] \in Seq(Nat)
    BY <1>2, UptoTurn
  <2>. QED  BY <2>1 DEF Upto
<1>. QED  BY <1>3, <1>4, <1>5 DEF StateAt, Whole, NoState, View

-----------------------------------------------------------------------------
(* What the feed makes of the peers a handler hands it.                    *)

\* A feed that has not passed the ready turn moves on, and is at the ready turn when
\* it drains.
LEMMA HeadAdvances ==
    ASSUME NEW r \in Nat, head \in 0 .. r, NEW draining \in BOOLEAN
    PROVE  /\ NextHead(r, draining) \in head .. r
           /\ draining => NextHead(r, draining) = r
           /\ NextHead(r, draining) > head => draining \/ NextHead(r, draining) <= r - DelayTurns
BY DelayAssumption DEF NextHead, Larger

\* What the invariant wants after an advance.
Advanced(r) ==
    /\ head' \in head .. r
    /\ Served(mode', view', bound', r, head', log)
    /\ \A p \in Peer : mode'[p] = "held" => bound'[p] > head'
    /\ ~PlayersRemain(mode') => head' = r /\ \A p \in Peer : mode'[p] # "held"
    /\ head' > head =>
          \/ \A p \in Player : mode'[p] = "out"
          \/ head' <= r - DelayTurns

\* Whoever the handler leaves on the feed or waiting for it is served by the advance.
LEMMA FeedAdvances ==
    ASSUME log \in Logs, NEW r \in Nat, head \in 0 .. r,
           NEW md, NEW vw, NEW bd, Served(md, vw, bd, r, head, log),
           AdvanceFeed(r, md, vw, bd)
    PROVE  Advanced(r)
<1>. DEFINE nh == NextHead(r, ~PlayersRemain(md))
<1>1. /\ nh \in head .. r /\ nh \in Nat /\ head \in Nat /\ head <= nh
      /\ ~PlayersRemain(md) => nh = r
      /\ nh > head => ~PlayersRemain(md) \/ nh <= r - DelayTurns
  <2>1. (~PlayersRemain(md)) \in BOOLEAN
    BY DEF PlayersRemain
  <2>2. /\ nh \in head .. r
        /\ ~PlayersRemain(md) => nh = r
        /\ nh > head => ~PlayersRemain(md) \/ nh <= r - DelayTurns
    BY <2>1, HeadAdvances
  <2>. QED  BY <2>2
<1>2. /\ head' = nh
      /\ view' = [p \in Peer |-> IF md[p] = "delayed"
                                 THEN SendTurns(vw[p], head + 1, nh) ELSE vw[p]]
      /\ mode' = [p \in Peer |-> IF Due(p, md, bd, nh) THEN "granted" ELSE md[p]]
      /\ bound' = [p \in Peer |-> IF Due(p, md, bd, nh) THEN 0 ELSE bd[p]]
  BY DEF AdvanceFeed
<1>. HIDE DEF nh
<1>3. ASSUME NEW p \in Peer
      PROVE  /\ PeerServed(p, mode'[p], view'[p], bound'[p], r, nh, log)
             /\ view'[p] \in View
             /\ mode'[p] = "held" => bound'[p] > nh
  <2>1. PeerServed(p, md[p], vw[p], bd[p], r, head, log) /\ vw[p] \in View
    BY DEF Served
  <2>2. CASE md[p] = "delayed"
    <3>1. /\ view'[p] = SendTurns(vw[p], head + 1, nh)
          /\ mode'[p] = "delayed" /\ bound'[p] = bd[p]
      BY <1>2, <2>2 DEF Due
    <3>2. vw[p] = StateAt(head, log)
      BY <2>1, <2>2 DEF PeerServed
    <3>3. view'[p] = StateAt(nh, log)
      BY <1>1, <3>1, <3>2, TurnsReach
    <3>. QED  BY <1>1, <2>1, <2>2, <3>1, <3>3, StateIsView DEF PeerServed
  <2>3. CASE Due(p, md, bd, nh)
    <3>1. md[p] = "held" /\ bd[p] <= nh
      BY <2>3 DEF Due
    <3>2. view'[p] = vw[p] /\ mode'[p] = "granted" /\ bound'[p] = 0
      BY <1>2, <2>3, <3>1
    <3>3. PICK k \in 0 .. bd[p] : vw[p] = StateAt(k, log)
      BY <2>1, <3>1 DEF PeerServed
    <3>4. bd[p] \in 0 .. r
      BY <2>1 DEF PeerServed
    <3>5. k \in 0 .. r /\ k <= nh
      BY <1>1, <3>1, <3>4
    <3>6. \E i \in 0 .. r : view'[p] = StateAt(i, log) /\ (p \in DelayedObserver => i <= nh)
      BY <3>2, <3>3, <3>5
    <3>. QED  BY <2>1, <3>2, <3>6 DEF PeerServed, Modes
  <2>4. CASE md[p] # "delayed" /\ ~Due(p, md, bd, nh)
    <3>1. view'[p] = vw[p] /\ mode'[p] = md[p] /\ bound'[p] = bd[p]
      BY <1>2, <2>4
    <3>2. bd[p] \in 0 .. r /\ (md[p] = "held" => bd[p] > nh)
      BY <1>1, <2>1, <2>4 DEF PeerServed, Due
    <3>3. md[p] = "granted" =>
            \E k \in 0 .. r : vw[p] = StateAt(k, log) /\ (p \in DelayedObserver => k <= nh)
      <4>1. SUFFICES ASSUME md[p] = "granted"
                     PROVE  \E k \in 0 .. r : /\ vw[p] = StateAt(k, log)
                                              /\ p \in DelayedObserver => k <= nh
        OBVIOUS
      <4>2. PICK k \in 0 .. r : vw[p] = StateAt(k, log) /\ (p \in DelayedObserver => k <= head)
        BY <2>1, <4>1 DEF PeerServed
      <4>3. p \in DelayedObserver => k <= nh
        BY <1>1, <4>2
      <4>. QED  BY <4>2, <4>3
    <3>. QED  BY <2>1, <2>4, <3>1, <3>2, <3>3 DEF PeerServed
  <2>. QED  BY <2>2, <2>3, <2>4 DEF Due
<1>4. Served(mode', view', bound', r, nh, log)
  <2>1. mode' \in [Peer -> Modes]
    BY <1>2 DEF Served, Modes
  <2>2. bound' \in [Peer -> Nat]
    BY <1>2 DEF Served
  <2>3. view' \in [Peer -> View]
    BY <1>2, <1>3
  <2>. QED  BY <1>3, <2>1, <2>2, <2>3 DEF Served
<1>5. \A p \in Peer : mode'[p] = "out" <=> md[p] = "out"
  BY <1>2 DEF Due
<1>6. PlayersRemain(mode') <=> PlayersRemain(md)
  BY <1>5, PeerAssumption DEF PlayersRemain
<1>7. ~PlayersRemain(md) => \A p \in Peer : mode'[p] # "held"
  <2>1. \A p \in Peer : bd[p] \in 0 .. r
    BY DEF Served, PeerServed
  <2>2. ASSUME ~PlayersRemain(md), NEW p \in Peer, md[p] = "held"
        PROVE  Due(p, md, bd, nh)
    BY <1>1, <2>1, <2>2 DEF Due
  <2>. QED  BY <1>2, <2>2
<1>8. ~PlayersRemain(mode') => \A p \in Player : mode'[p] = "out"
  BY DEF PlayersRemain
<1>. QED  BY <1>1, <1>2, <1>3, <1>4, <1>6, <1>7, <1>8 DEF Advanced

\* A release to a turn serves everyone the handler leaves behind.
LEMMA ReleaseServes ==
    ASSUME log \in Logs, readyTurn \in Nat, head \in 0 .. readyTurn,
           NEW turn \in Nat, readyTurn <= turn,
           NEW md, NEW vw,
           Served(md, vw, [p \in Peer |-> IF md[p] = "held" THEN bound[p] ELSE 0],
                  readyTurn, head, log),
           ReleaseTo(turn, md, vw)
    PROVE  readyTurn' = turn /\ Advanced(turn)
<1>. DEFINE bd == [p \in Peer |-> IF md[p] = "held" THEN bound[p] ELSE 0]
            sent == [p \in Peer |-> IF md[p] = "live"
                                    THEN SendSeals(vw[p], readyTurn + 1, turn) ELSE vw[p]]
<1>1. readyTurn' = turn /\ AdvanceFeed(turn, md, sent, bd)
  BY DEF ReleaseTo
<1>2. ASSUME NEW p \in Peer
      PROVE  PeerServed(p, md[p], sent[p], bd[p], turn, head, log) /\ sent[p] \in View
  <2>1. PeerServed(p, md[p], vw[p], bd[p], readyTurn, head, log) /\ vw[p] \in View
    BY DEF Served
  <2>2. bd[p] \in 0 .. turn
    BY <2>1 DEF PeerServed
  <2>3. CASE md[p] = "live"
    <3>1. vw[p] = Whole(readyTurn, log)
      BY <2>1, <2>3 DEF PeerServed
    <3>2. sent[p] = Whole(turn, log)
      BY <2>3, <3>1, SealsReach
    <3>. QED  BY <2>1, <2>2, <2>3, <3>2, StateIsView DEF PeerServed
  <2>4. CASE md[p] # "live"
    <3>1. sent[p] = vw[p]
      BY <2>4
    <3>2. md[p] = "granted" =>
            \E k \in 0 .. turn : vw[p] = StateAt(k, log) /\ (p \in DelayedObserver => k <= head)
      <4>1. SUFFICES ASSUME md[p] = "granted"
                     PROVE  \E k \in 0 .. turn : /\ vw[p] = StateAt(k, log)
                                                 /\ p \in DelayedObserver => k <= head
        OBVIOUS
      <4>2. PICK k \in 0 .. readyTurn :
                   vw[p] = StateAt(k, log) /\ (p \in DelayedObserver => k <= head)
        BY <2>1, <4>1 DEF PeerServed
      <4>. QED  BY <4>2
    <3>. QED  BY <2>1, <2>2, <2>4, <3>1, <3>2 DEF PeerServed
  <2>. QED  BY <2>3, <2>4
<1>3. Served(md, sent, bd, turn, head, log)
  <2>1. md \in [Peer -> Modes] /\ bd \in [Peer -> Nat]
    BY DEF Served
  <2>2. sent \in [Peer -> View]
    BY <1>2
  <2>. QED  BY <1>2, <2>1, <2>2 DEF Served
<1>4. head \in 0 .. turn
  OBVIOUS
<1>. QED  BY <1>1, <1>3, <1>4, FeedAdvances

-----------------------------------------------------------------------------
(* The invariant is inductive.                                             *)

LEMMA InitInvariant == Init => IInv
<1>. SUFFICES ASSUME Init PROVE IInv
  OBVIOUS
<1>. USE DelayAssumption, BoundAssumption
<1>1. head = Larger(InitialReadyTurn, readyTurn - DelayTurns) /\ bound = [p \in Peer |-> 0]
  BY DEF Init
<1>2. CASE /\ phase = "InGame"
           /\ readyTurn = InitialReadyTurn
           /\ log = [t \in Turn |-> <<>>]
           /\ \E starting \in SUBSET Peer \ {{}} :
                /\ mode = [p \in Peer |-> IF p \in starting THEN InGameMode(p) ELSE "out"]
                /\ view = [p \in Peer |-> IF p \in starting THEN StateAt(readyTurn, log)
                                          ELSE NoState]
  <2>1. PICK starting \in SUBSET Peer \ {{}} :
                /\ mode = [p \in Peer |-> IF p \in starting THEN InGameMode(p) ELSE "out"]
                /\ view = [p \in Peer |-> IF p \in starting THEN StateAt(readyTurn, log)
                                          ELSE NoState]
    BY <1>2
  <2>2. log \in Logs
    BY <1>2, EmptySeq DEF Logs
  <2>3. readyTurn \in InitialReadyTurn .. MaxTurn /\ readyTurn \in Nat /\ head = readyTurn
    BY <1>1, <1>2 DEF InitialReadyTurn, Larger
  <2>4. StateAt(readyTurn, log) = Whole(readyTurn, log)
    <3>1. \A t \in Turn : Upto(readyTurn, log)[t] = log[t]
      BY <1>2, UptoTurn
    <3>2. Upto(readyTurn, log) = log
      BY <1>2, <3>1 DEF Upto
    <3>. QED  BY <3>2 DEF StateAt, Whole
  <2>5. \A p \in Peer : PeerServed(p, mode[p], view[p], bound[p], readyTurn, head, log)
    BY <1>1, <2>1, <2>3, <2>4 DEF PeerServed, InGameMode, Modes
  <2>6. Served(mode, view, bound, readyTurn, head, log)
    <3>1. mode \in [Peer -> Modes] /\ bound \in [Peer -> Nat]
      BY <1>1, <2>1 DEF InGameMode, Modes
    <3>2. view \in [Peer -> View]
      BY <2>1, <2>2, <2>3, StateIsView
    <3>. QED  BY <2>5, <3>1, <3>2 DEF Served
  <2>7. HeldOnlyWhileDue
    BY <2>1, <2>3 DEF HeldOnlyWhileDue, InGameMode
  <2>. QED  BY <1>2, <2>2, <2>3, <2>6, <2>7 DEF IInv
<1>3. CASE /\ phase = "Resuming"
           /\ readyTurn \in InitialReadyTurn .. MaxTurn
           /\ log \in SavedLogs
           /\ mode = [p \in Peer |-> "out"]
           /\ view = [p \in Peer |-> NoState]
  <2>1. log \in Logs
    <3>1. PICK u \in 0 .. readyTurn : log = [t \in Turn |-> IF t = u THEN <<1>> ELSE <<>>]
      BY <1>3 DEF SavedLogs
    <3>2. <<1>> \in Seq(Command) /\ <<>> \in Seq(Command)
      BY DEF Command
    <3>. QED  BY <3>1, <3>2 DEF Logs
  <2>2. readyTurn \in Nat /\ head \in 0 .. readyTurn
    BY <1>1, <1>3 DEF InitialReadyTurn, Larger
  <2>3. Served(mode, view, bound, readyTurn, head, log)
    <3>1. view \in [Peer -> View]
      BY <1>3, <2>1, <2>2, StateIsView
    <3>. QED  BY <1>1, <1>3, <2>2, <3>1 DEF Served, PeerServed, Modes
  <2>4. HeldOnlyWhileDue
    BY <1>3 DEF HeldOnlyWhileDue
  <2>. QED  BY <1>3, <2>1, <2>2, <2>3, <2>4 DEF IInv
<1>. QED  BY <1>2, <1>3 DEF Init

\* What an advance leaves is what the invariant asks.
LEMMA AdvancedKeeps ==
    ASSUME IInv, log' = log, phase' \in {"InGame", "Resuming"},
           readyTurn' \in InitialReadyTurn .. MaxTurn, Advanced(readyTurn')
    PROVE  IInv'
<1>1. head' \in 0 .. readyTurn'
  BY DEF IInv, Advanced
<1>2. Served(mode, view, bound, readyTurn, head, log)'
  BY DEF Advanced
<1>3. HeldOnlyWhileDue'
  BY DEF Advanced, HeldOnlyWhileDue
<1>. QED  BY <1>1, <1>2, <1>3 DEF IInv

\* The peers as they are, and with one of them gone, are as a release wants them.
LEMMA HandedOver ==
    ASSUME IInv, NEW md, NEW vw,
           \/ md = mode /\ vw = view
           \/ \E p \in Peer : /\ md = [mode EXCEPT ![p] = "out"]
                              /\ vw = [view EXCEPT ![p] = NoState]
    PROVE  Served(md, vw, [p \in Peer |-> IF md[p] = "held" THEN bound[p] ELSE 0],
                  readyTurn, head, log)
<1>. DEFINE bd == [p \in Peer |-> IF md[p] = "held" THEN bound[p] ELSE 0]
<1>1. /\ mode \in [Peer -> Modes] /\ view \in [Peer -> View] /\ bound \in [Peer -> Nat]
      /\ NoState \in View /\ "out" \in Modes
      /\ readyTurn \in Nat
  BY StateIsView, DelayAssumption DEF IInv, Served, Modes, InitialReadyTurn
<1>2. md \in [Peer -> Modes] /\ vw \in [Peer -> View] /\ bd \in [Peer -> Nat]
  BY <1>1
<1>3. ASSUME NEW q \in Peer
      PROVE  PeerServed(q, md[q], vw[q], bd[q], readyTurn, head, log)
  <2>1. PeerServed(q, mode[q], view[q], bound[q], readyTurn, head, log)
    BY DEF IInv, Served
  <2>2. CASE md[q] = mode[q] /\ vw[q] = view[q]
    <3>1. bd[q] = bound[q]
      BY <2>1, <2>2 DEF PeerServed
    <3>. QED  BY <2>1, <2>2, <3>1
  <2>3. CASE md[q] = "out" /\ vw[q] = NoState
    BY <1>1, <2>3 DEF PeerServed
  <2>. QED  BY <1>1, <2>2, <2>3
<1>. QED  BY <1>2, <1>3 DEF Served

\* A release of further turns, by whatever handler, keeps the invariant.
LEMMA ReleaseKeeps ==
    ASSUME IInv, NEW md, NEW vw,
           \/ md = mode /\ vw = view
           \/ \E p \in Peer : /\ md = [mode EXCEPT ![p] = "out"]
                              /\ vw = [view EXCEPT ![p] = NoState],
           NEW turn \in Nat, readyTurn <= turn, turn <= MaxTurn,
           ReleaseTo(turn, md, vw), log' = log, phase' \in {"InGame", "Resuming"}
    PROVE  IInv' /\ readyTurn' = turn /\ Advanced(turn)
<1>1. log \in Logs /\ readyTurn \in InitialReadyTurn .. MaxTurn /\ head \in 0 .. readyTurn
  BY DEF IInv
<1>2. readyTurn \in Nat /\ InitialReadyTurn \in Nat
  BY <1>1, DelayAssumption, BoundAssumption DEF InitialReadyTurn
<1>3. readyTurn' = turn /\ Advanced(turn)
  BY <1>1, <1>2, HandedOver, ReleaseServes
<1>4. readyTurn' \in InitialReadyTurn .. MaxTurn
  BY <1>1, <1>2, <1>3, BoundAssumption
<1>. QED  BY <1>3, <1>4, AdvancedKeeps

\* A turn the handlers may release to is past the ready turn and within the bound.
LEMMA TurnInReach ==
    ASSUME IInv, NEW turn \in readyTurn .. readyTurn + CommandDelay,
           turn <= Larger(MaxTurn, readyTurn)
    PROVE  turn \in Nat /\ readyTurn <= turn /\ turn <= MaxTurn
BY DelayAssumption, BoundAssumption DEF IInv, InitialReadyTurn, Larger

\* The releasing handlers, for the invariant and for the feed's distance.
LEMMA TurnsReleasedKeeps ==
    ASSUME IInv, TurnsReleased
    PROVE  IInv' /\ Advanced(readyTurn')
<1>1. PICK turn \in readyTurn + 1 .. readyTurn + CommandDelay :
         turn <= MaxTurn /\ ReleaseTo(turn, mode, view)
  BY DEF TurnsReleased
<1>2. turn \in readyTurn .. readyTurn + CommandDelay /\ turn <= Larger(MaxTurn, readyTurn)
  BY <1>1, DelayAssumption, BoundAssumption DEF IInv, InitialReadyTurn, Larger
<1>3. log' = log /\ phase' \in {"InGame", "Resuming"}
  BY DEF TurnsReleased, IInv
<1>. QED  BY <1>1, <1>2, <1>3, TurnInReach, ReleaseKeeps

LEMMA ResumeMatchKeeps ==
    ASSUME IInv, ResumeMatch
    PROVE  IInv' /\ Advanced(readyTurn')
<1>1. PICK turn \in readyTurn .. readyTurn + CommandDelay :
         turn <= Larger(MaxTurn, readyTurn) /\ ReleaseTo(turn, mode, view)
  BY DEF ResumeMatch
<1>2. log' = log /\ phase' \in {"InGame", "Resuming"}
  BY DEF ResumeMatch
<1>. QED  BY <1>1, <1>2, TurnInReach, ReleaseKeeps

LEMMA DisconnectedKeeps ==
    ASSUME IInv, NEW p \in Peer, Disconnected(p)
    PROVE  /\ IInv'
           /\ head' # head => Advanced(readyTurn')
           /\ mode'[p] = "out"
<1>. DEFINE md == [mode EXCEPT ![p] = "out"]
            vw == [view EXCEPT ![p] = NoState]
<1>0. mode \in [Peer -> Modes] /\ view \in [Peer -> View] /\ bound \in [Peer -> Nat]
  BY DEF IInv, Served
<1>1. log' = log /\ phase' = phase /\ phase \in {"InGame", "Resuming"}
  BY DEF Disconnected, IInv
<1>2. CASE phase = "InGame"
  <2>1. PICK turn \in readyTurn .. readyTurn + CommandDelay :
           turn <= Larger(MaxTurn, readyTurn) /\ ReleaseTo(turn, md, vw)
    BY <1>2 DEF Disconnected
  <2>2. IInv' /\ Advanced(readyTurn')
    BY <1>1, <2>1, TurnInReach, ReleaseKeeps
  <2>3. mode'[p] = "out"
    BY <1>0, <2>1 DEF ReleaseTo, AdvanceFeed, Due
  <2>. QED  BY <2>2, <2>3
<1>3. CASE phase = "Resuming"
  <2>1. /\ mode' = md /\ view' = vw /\ bound' = [bound EXCEPT ![p] = 0]
        /\ readyTurn' = readyTurn /\ head' = head
    BY <1>3 DEF Disconnected
  <2>2. Served(md, vw, [q \in Peer |-> IF md[q] = "held" THEN bound[q] ELSE 0],
               readyTurn, head, log)
    BY HandedOver
  <2>3. [q \in Peer |-> IF md[q] = "held" THEN bound[q] ELSE 0] = bound'
    <3>1. \A q \in Peer : mode[q] # "held" => bound[q] = 0
      BY DEF IInv, Served, PeerServed
    <3>. QED  BY <1>0, <2>1, <3>1
  <2>4. Served(mode, view, bound, readyTurn, head, log)'
    BY <1>1, <2>1, <2>2, <2>3
  <2>5. HeldOnlyWhileDue'
    BY <1>0, <1>1, <1>3, <2>1 DEF IInv, HeldOnlyWhileDue
  <2>6. mode'[p] = "out"
    BY <1>0, <2>1
  <2>. QED  BY <1>1, <2>1, <2>4, <2>5, <2>6 DEF IInv
<1>. QED  BY <1>1, <1>2, <1>3

\* A state that shows no more than its limit is one a joiner can be given: it is
\* loaded at once, or held until the feed has reached the limit.
LEMMA DeliverKeeps ==
    ASSUME IInv, NEW p \in Peer, mode[p] = "syncing",
           NEW limit \in 0 .. readyTurn, NEW k \in 0 .. limit,
           Deliver(p, StateAt(k, log), limit), UNCHANGED <<phase, readyTurn, log>>
    PROVE  IInv' /\ (head' # head => Advanced(readyTurn'))
<1>. DEFINE state == StateAt(k, log)
<1>0. /\ mode \in [Peer -> Modes] /\ view \in [Peer -> View] /\ bound \in [Peer -> Nat]
      /\ readyTurn \in Nat /\ head \in 0 .. readyTurn /\ log \in Logs
      /\ readyTurn \in InitialReadyTurn .. MaxTurn /\ phase \in {"InGame", "Resuming"}
      /\ state \in View
      /\ \A q \in Peer : PeerServed(q, mode[q], view[q], bound[q], readyTurn, head, log)
  <2>1. readyTurn \in Nat /\ log \in Logs
    BY DelayAssumption DEF IInv, InitialReadyTurn
  <2>. QED  BY <2>1, StateIsView DEF IInv, Served
<1>1. CASE p \in DelayedObserver
  <2>. DEFINE md == [mode EXCEPT ![p] = "held"]
              vw == [view EXCEPT ![p] = state]
              bd == [bound EXCEPT ![p] = limit]
  <2>1. AdvanceFeed(readyTurn, md, vw, bd)
    BY <1>1 DEF Deliver
  <2>2. Served(md, vw, bd, readyTurn, head, log)
    <3>1. md \in [Peer -> Modes] /\ vw \in [Peer -> View] /\ bd \in [Peer -> Nat]
      BY <1>0 DEF Modes
    <3>2. ASSUME NEW q \in Peer
          PROVE  PeerServed(q, md[q], vw[q], bd[q], readyTurn, head, log)
      <4>1. CASE q = p
        BY <1>0, <1>1, <4>1 DEF PeerServed, Modes
      <4>2. CASE q # p
        BY <1>0, <4>2
      <4>. QED  BY <4>1, <4>2
    <3>. QED  BY <3>1, <3>2 DEF Served
  <2>3. Advanced(readyTurn)
    BY <1>0, <2>1, <2>2, FeedAdvances
  <2>. QED  BY <1>0, <2>3, AdvancedKeeps
<1>2. CASE p \notin DelayedObserver
  <2>1. /\ view' = [view EXCEPT ![p] = state] /\ mode' = [mode EXCEPT ![p] = "granted"]
        /\ head' = head /\ bound' = bound
    BY <1>2 DEF Deliver
  <2>2. ASSUME NEW q \in Peer
        PROVE  PeerServed(q, mode'[q], view'[q], bound'[q], readyTurn, head, log)
    <3>1. CASE q = p
      <4>1. mode'[q] = "granted" /\ view'[q] = state /\ bound'[q] = bound[q]
        BY <1>0, <2>1, <3>1
      <4>2. \E i \in 0 .. readyTurn : view'[q] = StateAt(i, log) /\ (q \in DelayedObserver => i <= head)
        BY <1>0, <1>2, <3>1, <4>1
      <4>3. bound[q] = 0 /\ bound[q] \in 0 .. readyTurn
        BY <1>0, <3>1 DEF PeerServed
      <4>. QED  BY <4>1, <4>2, <4>3 DEF PeerServed, Modes
    <3>2. CASE q # p
      BY <1>0, <2>1, <3>2
    <3>. QED  BY <3>1, <3>2
  <2>3. Served(mode, view, bound, readyTurn, head, log)'
    <3>1. mode' \in [Peer -> Modes] /\ view' \in [Peer -> View] /\ bound' \in [Peer -> Nat]
      BY <1>0, <2>1 DEF Modes
    <3>. QED  BY <2>1, <2>2, <3>1 DEF Served
  <2>4. HeldOnlyWhileDue'
    <3>1. \A q \in Peer : mode'[q] = "held" => mode[q] = "held"
      BY <1>0, <2>1
    <3>2. PlayersRemain(mode) <=> PlayersRemain(mode')
      BY <1>0, <2>1, PeerAssumption DEF PlayersRemain
    <3>. QED  BY <2>1, <3>1, <3>2 DEF IInv, HeldOnlyWhileDue
  <2>. QED  BY <1>0, <2>1, <2>3, <2>4 DEF IInv
<1>. QED  BY <1>1, <1>2

LEMMA ServedByServerKeeps ==
    ASSUME IInv, NEW p \in Peer, NEW turn \in Turn, ServedByServer(p, turn)
    PROVE  IInv' /\ (head' # head => Advanced(readyTurn'))
<1>1. turn \in 0 .. readyTurn /\ turn \in 0 .. turn
  BY DEF ServedByServer, Turn
<1>. QED  BY <1>1, DeliverKeeps DEF ServedByServer

LEMMA ServedByClientKeeps ==
    ASSUME IInv, NEW p \in Peer, NEW source \in Peer, NEW turn \in Turn,
           ServedByClient(p, source, turn)
    PROVE  IInv' /\ (head' # head => Advanced(readyTurn'))
<1>. DEFINE limit == IF mode[source] = "delayed" THEN head ELSE readyTurn
<1>1. /\ mode[p] = "syncing" /\ turn \in 1 .. view[source].sealed
      /\ Deliver(p, StateAt(turn, view[source].commands), limit)
      /\ UNCHANGED <<phase, readyTurn, log>>
      /\ mode[source] \in {"live", "delayed"}
  BY DEF ServedByClient, InTheGame
<1>2. PeerServed(source, mode[source], view[source], bound[source], readyTurn, head, log)
  BY DEF IInv, Served
<1>3. readyTurn \in Nat /\ head \in 0 .. readyTurn
  BY DelayAssumption DEF IInv, InitialReadyTurn
<1>4. CASE mode[source] = "delayed"
  <2>1. view[source] = StateAt(head, log)
    BY <1>2, <1>4 DEF PeerServed
  <2>2. view[source].sealed = head /\ view[source].commands = Upto(head, log)
    BY <2>1 DEF StateAt
  <2>3. StateAt(turn, view[source].commands) = StateAt(turn, log)
    BY <1>1, <1>3, <2>2, UptoUpto DEF Turn
  <2>4. limit \in 0 .. readyTurn /\ turn \in 0 .. limit
    BY <1>1, <1>3, <1>4, <2>2
  <2>. QED  BY <1>1, <2>3, <2>4, DeliverKeeps
<1>5. CASE mode[source] = "live"
  <2>1. view[source].sealed = readyTurn /\ view[source].commands = log
    BY <1>2, <1>5 DEF PeerServed, Whole
  <2>2. limit \in 0 .. readyTurn /\ turn \in 0 .. limit
    BY <1>1, <1>3, <1>5, <2>1
  <2>. QED  BY <1>1, <2>1, <2>2, DeliverKeeps
<1>. QED  BY <1>1, <1>4, <1>5

LEMMA AdmittedKeeps ==
    ASSUME IInv, NEW p \in Peer, Admitted(p)
    PROVE  IInv'
<1>1. /\ mode \in [Peer -> Modes] /\ mode[p] = "out"
      /\ mode' = [mode EXCEPT ![p] = "syncing"]
      /\ UNCHANGED <<phase, readyTurn, head, log, view, bound>>
  BY DEF IInv, Served, Admitted
<1>2. Served(mode, view, bound, readyTurn, head, log)'
  <2>1. ASSUME NEW q \in Peer
        PROVE  PeerServed(q, mode'[q], view[q], bound[q], readyTurn, head, log)
    <3>1. PeerServed(q, mode[q], view[q], bound[q], readyTurn, head, log)
      BY DEF IInv, Served
    <3>2. CASE q = p
      <4>1. mode'[q] = "syncing" /\ mode[q] = "out"
        BY <1>1, <3>2
      <4>. QED  BY <3>1, <4>1 DEF PeerServed, Modes
    <3>3. CASE q # p
      BY <1>1, <3>1, <3>3
    <3>. QED  BY <3>2, <3>3
  <2>2. mode' \in [Peer -> Modes]
    BY <1>1 DEF Modes
  <2>. QED  BY <1>1, <2>1, <2>2 DEF IInv, Served
<1>3. HeldOnlyWhileDue'
  <2>1. \A q \in Peer : mode'[q] = "held" => mode[q] = "held"
    BY <1>1
  <2>2. PlayersRemain(mode) => PlayersRemain(mode')
    BY <1>1, PeerAssumption DEF PlayersRemain
  <2>. QED  BY <1>1, <2>1, <2>2 DEF IInv, HeldOnlyWhileDue
<1>. QED  BY <1>1, <1>2, <1>3 DEF IInv

LEMMA LoadedGameKeeps ==
    ASSUME IInv, NEW p \in Peer, LoadedGame(p)
    PROVE  IInv'
<1>. DEFINE v == view[p]
            sent == IF p \in DelayedObserver
                    THEN SendTurns(v, v.sealed + 1, head)
                    ELSE SendSeals(SendCommands(v, v.sealed + 1, ReplayEnd),
                                   v.sealed + 1, readyTurn)
<1>1. /\ mode[p] = "granted"
      /\ mode' = [mode EXCEPT ![p] = InGameMode(p)]
      /\ view' = [view EXCEPT ![p] = sent]
      /\ UNCHANGED <<phase, readyTurn, head, log, bound>>
  BY DEF LoadedGame
<1>2. /\ mode \in [Peer -> Modes] /\ view \in [Peer -> View] /\ bound \in [Peer -> Nat]
      /\ readyTurn \in Nat /\ head \in 0 .. readyTurn /\ head \in Nat /\ log \in Logs
      /\ \A q \in Peer : PeerServed(q, mode[q], view[q], bound[q], readyTurn, head, log)
  BY DelayAssumption DEF IInv, Served, InitialReadyTurn
<1>3. PICK k \in 0 .. readyTurn : v = StateAt(k, log) /\ (p \in DelayedObserver => k <= head)
  BY <1>1, <1>2 DEF PeerServed
<1>4. v.sealed = k
  BY <1>3 DEF StateAt
<1>5. IF p \in DelayedObserver THEN sent = StateAt(head, log) ELSE sent = Whole(readyTurn, log)
  <2>1. CASE p \in DelayedObserver
    BY <1>2, <1>3, <1>4, <2>1, TurnsReach
  <2>2. CASE p \notin DelayedObserver
    BY <1>2, <1>3, <1>4, <2>2, ReplayReaches
  <2>. QED  BY <2>1, <2>2
<1>. HIDE DEF sent, v
<1>6. Served(mode, view, bound, readyTurn, head, log)'
  <2>1. ASSUME NEW q \in Peer
        PROVE  PeerServed(q, mode'[q], view'[q], bound[q], readyTurn, head, log)
    <3>1. PeerServed(q, mode[q], view[q], bound[q], readyTurn, head, log)
      BY <1>2
    <3>2. CASE q = p
      <4>1. mode'[q] = InGameMode(p) /\ view'[q] = sent /\ mode[q] = "granted"
        BY <1>1, <1>2, <3>2
      <4>. QED  BY <1>5, <3>1, <3>2, <4>1 DEF PeerServed, Modes, InGameMode
    <3>3. CASE q # p
      BY <1>1, <1>2, <3>1, <3>3
    <3>. QED  BY <3>2, <3>3
  <2>2. mode' \in [Peer -> Modes]
    BY <1>1, <1>2 DEF Modes, InGameMode
  <2>3. view' \in [Peer -> View]
    BY <1>1, <1>2, <1>5, StateIsView
  <2>. QED  BY <1>1, <1>2, <2>1, <2>2, <2>3 DEF Served
<1>7. HeldOnlyWhileDue'
  <2>1. \A q \in Peer : mode'[q] = "held" => mode[q] = "held"
    BY <1>1, <1>2 DEF InGameMode
  <2>2. \A q \in Peer : mode'[q] = "out" <=> mode[q] = "out"
    BY <1>1, <1>2 DEF InGameMode
  <2>3. PlayersRemain(mode) => PlayersRemain(mode')
    BY <2>2, PeerAssumption DEF PlayersRemain
  <2>. QED  BY <1>1, <2>1, <2>3 DEF IInv, HeldOnlyWhileDue
<1>. QED  BY <1>1, <1>6, <1>7 DEF IInv

\* The command joins the log at a turn that is not released: the past is what it was,
\* and every live client is relayed it.
LEMMA PlayerCommandKeeps ==
    ASSUME IInv, NEW p \in Peer, NEW turn \in Turn, PlayerCommand(p, turn)
    PROVE  IInv'
<1>. DEFINE command == Recorded + 1
            commands == Append(log[turn], command)
            later == [log EXCEPT ![turn] = commands]
<1>1. /\ log' = later
      /\ view' = [q \in Peer |-> IF mode[q] = "live" THEN SendCommand(view[q], turn, command)
                                 ELSE view[q]]
      /\ UNCHANGED <<phase, readyTurn, head, mode, bound>>
      /\ turn > readyTurn /\ Recorded < MaxCommands
  BY DEF PlayerCommand, OpenForCommands
<1>2. /\ mode \in [Peer -> Modes] /\ view \in [Peer -> View] /\ bound \in [Peer -> Nat]
      /\ readyTurn \in Nat /\ head \in 0 .. readyTurn /\ head \in Nat /\ log \in Logs
      /\ \A q \in Peer : PeerServed(q, mode[q], view[q], bound[q], readyTurn, head, log)
  BY DelayAssumption DEF IInv, Served, InitialReadyTurn
<1>3. command \in Command
  BY <1>1, <1>2, RecordedIsNat, BoundAssumption DEF Command
<1>4. later \in Logs
  <2>1. log[turn] \in Seq(Command)
    BY <1>2 DEF Logs
  <2>2. Append(log[turn], command) \in Seq(Command)
    BY <1>3, <2>1, AppendProperties
  <2>. QED  BY <1>2, <2>2 DEF Logs
<1>5. \A k \in 0 .. readyTurn : StateAt(k, later) = StateAt(k, log)
  <2>1. ASSUME NEW k \in 0 .. readyTurn
        PROVE  StateAt(k, later) = StateAt(k, log)
    <3>1. k \in Nat /\ k < turn
      BY <1>1, <1>2 DEF Turn
    <3>. HIDE DEF commands
    <3>. QED  BY <1>2, <3>1, UptoOfPast
  <2>. QED  BY <2>1
<1>6. SendCommand(Whole(readyTurn, log), turn, command) = Whole(readyTurn, later)
  <2>1. (FALSE \/ turn <= readyTurn) = FALSE
    BY <1>1, <1>2 DEF Turn
  <2>. QED  BY <2>1 DEF SendCommand, Whole
<1>. HIDE DEF later, command
<1>7. ASSUME NEW q \in Peer
      PROVE  /\ PeerServed(q, mode[q], view'[q], bound[q], readyTurn, head, later)
             /\ view'[q] \in View
  <2>1. PeerServed(q, mode[q], view[q], bound[q], readyTurn, head, log) /\ view[q] \in View
    BY <1>2
  <2>2. CASE mode[q] = "live"
    <3>1. view'[q] = Whole(readyTurn, later)
      BY <1>1, <1>6, <2>1, <2>2 DEF PeerServed
    <3>. QED  BY <1>2, <1>4, <2>1, <2>2, <3>1, StateIsView DEF PeerServed
  <2>3. CASE mode[q] # "live"
    <3>1. view'[q] = view[q]
      BY <1>1, <2>3
    <3>2. StateAt(head, later) = StateAt(head, log)
      BY <1>2, <1>5
    <3>3. \A k \in 0 .. bound[q] : StateAt(k, later) = StateAt(k, log)
      BY <1>2, <1>5, <2>1 DEF PeerServed
    <3>. QED  BY <1>5, <2>1, <2>3, <3>1, <3>2, <3>3 DEF PeerServed
  <2>. QED  BY <2>2, <2>3
<1>8. Served(mode, view, bound, readyTurn, head, log)'
  <2>1. view' \in [Peer -> View]
    BY <1>1, <1>7
  <2>. QED  BY <1>1, <1>2, <1>7, <2>1 DEF Served
<1>9. HeldOnlyWhileDue'
  BY <1>1 DEF IInv, HeldOnlyWhileDue
<1>. QED  BY <1>1, <1>4, <1>8, <1>9 DEF IInv

LEMMA StepInvariant == IInv /\ [Next]_vars => IInv'
<1>. SUFFICES ASSUME IInv, [Next]_vars PROVE IInv'
  OBVIOUS
<1>1. CASE TurnsReleased
  BY <1>1, TurnsReleasedKeeps
<1>2. CASE ResumeMatch
  BY <1>2, ResumeMatchKeeps
<1>3. CASE \E p \in Peer, turn \in Turn : PlayerCommand(p, turn) \/ ServedByServer(p, turn)
  BY <1>3, PlayerCommandKeeps, ServedByServerKeeps
<1>4. CASE \E p, source \in Peer, turn \in Turn : ServedByClient(p, source, turn)
  BY <1>4, ServedByClientKeeps
<1>5. CASE \E p \in Peer : Admitted(p) \/ LoadedGame(p) \/ Disconnected(p)
  BY <1>5, AdmittedKeeps, LoadedGameKeeps, DisconnectedKeeps
<1>6. CASE UNCHANGED vars
  BY <1>6 DEF vars, IInv, Served, HeldOnlyWhileDue
<1>. QED  BY <1>1, <1>2, <1>3, <1>4, <1>5, <1>6 DEF Next

\* Every variable keeps its type, and every peer's view is what its mode says.
THEOREM Invariant == Spec => []IInv
BY InitInvariant, StepInvariant, PTL DEF Spec

-----------------------------------------------------------------------------
(* The properties the runs check.                                          *)

\* Every variable keeps its type, in any instance of MatchStream.
THEOREM TypeCorrect == Spec => []TypeOK
<1>1. IInv => TypeOK
  <2>. SUFFICES ASSUME IInv PROVE TypeOK
    OBVIOUS
  <2>1. readyTurn \in Nat /\ head \in Nat
    BY DelayAssumption DEF IInv, InitialReadyTurn
  <2>2. log \in [Turn -> Seq(Nat)]
    <3>1. Seq(Command) \subseteq Seq(Nat)
      <4>1. Command \subseteq Nat
        BY DEF Command
      <4>. QED  BY <4>1, SeqMonotonic
    <3>. QED  BY <3>1 DEF IInv, Logs
  <2>. QED  BY <2>1, <2>2 DEF IInv, TypeOK, Served, View
<1>. QED  BY <1>1, Invariant, PTL

\* No client's stream has a gap, a doubled seal or a command that comes too late; the
\* live have everything, the delayed what the head allows (StreamNeverBreaks,
\* LiveHasEverything, DelayedSeeTheHead), and nobody waits longer than it has to.
THEOREM StreamsServed == Spec => []EveryoneServed
<1>1. IInv => EveryoneServed
  <2>. SUFFICES ASSUME IInv PROVE EveryoneServed
    OBVIOUS
  <2>1. ASSUME NEW p \in Peer
        PROVE  /\ ~view[p].broken
               /\ mode[p] = "live" => view[p].sealed = readyTurn /\ view[p].commands = log
               /\ p \in DelayedObserver /\ mode[p] = "granted" => view[p].sealed <= head
               /\ p \in DelayedObserver /\ mode[p] = "delayed" =>
                    view[p].sealed = head /\ view[p].commands = Upto(head, log)
    <3>1. PeerServed(p, mode[p], view[p], bound[p], readyTurn, head, log)
      BY DEF IInv, Served
    <3>2. CASE mode[p] \in {"out", "syncing"}
      BY <3>1, <3>2 DEF PeerServed, NoState, StateAt
    <3>3. CASE mode[p] = "live"
      BY <3>1, <3>3 DEF PeerServed, Whole
    <3>4. CASE mode[p] = "delayed"
      BY <3>1, <3>4 DEF PeerServed, StateAt
    <3>5. CASE mode[p] \in {"held", "granted"}
      <4>1. PICK k \in Int : /\ view[p] = StateAt(k, log)
                             /\ mode[p] = "granted" /\ p \in DelayedObserver => k <= head
        BY <3>1, <3>5 DEF PeerServed
      <4>. QED  BY <3>5, <4>1 DEF StateAt
    <3>. QED  BY <3>1, <3>2, <3>3, <3>4, <3>5 DEF PeerServed, Modes
  <2>2. HeldOnlyWhileDue
    BY DEF IInv
  <2>. QED  BY <2>1, <2>2, PeerAssumption
            DEF EveryoneServed, StreamNeverBreaks, LiveHasEverything, DelayedSeeTheHead
<1>. QED  BY <1>1, Invariant, PTL

\* While a player is in the match or on the way back in, no step takes the feed to a
\* turn closer to the players than the delay.
THEOREM FeedDistance == Spec => FeedKeepsItsDistance
<1>. DEFINE Distance == head' > head =>
                          \/ \A p \in Player : mode'[p] = "out"
                          \/ head' <= readyTurn' - DelayTurns
<1>1. IInv /\ [Next]_vars => [Distance]_vars
  <2>. SUFFICES ASSUME IInv, Next PROVE Distance
    OBVIOUS
  <2>1. SUFFICES ASSUME head' # head PROVE Advanced(readyTurn')
    <3>1. head \in Int /\ (head' > head => head' # head)
      BY DelayAssumption DEF IInv, InitialReadyTurn
    <3>. QED  BY <2>1, <3>1 DEF Advanced
  <2>2. CASE TurnsReleased
    BY <2>2, TurnsReleasedKeeps
  <2>3. CASE ResumeMatch
    BY <2>3, ResumeMatchKeeps
  <2>4. CASE \E p \in Peer, turn \in Turn : PlayerCommand(p, turn) \/ ServedByServer(p, turn)
    BY <2>1, <2>4, ServedByServerKeeps DEF PlayerCommand
  <2>5. CASE \E p, source \in Peer, turn \in Turn : ServedByClient(p, source, turn)
    BY <2>1, <2>5, ServedByClientKeeps
  <2>6. CASE \E p \in Peer : Admitted(p) \/ LoadedGame(p) \/ Disconnected(p)
    BY <2>1, <2>6, DisconnectedKeeps DEF Admitted, LoadedGame
  <2>. QED  BY <2>2, <2>3, <2>4, <2>5, <2>6 DEF Next
<1>. QED  BY <1>1, Invariant, PTL DEF Spec, FeedKeepsItsDistance

-----------------------------------------------------------------------------
(* MatchStream implements TurnLog.                                         *)

\* The first turns of a log, as TurnLog sees them.
LEMMA LogTurns ==
    ASSUME NEW lg \in Logs, NEW k \in 0 .. MaxTurn
    PROVE  /\ SubSeq(lg, 1, k) \in Seq(Seq(Command))
           /\ Len(SubSeq(lg, 1, k)) = k
           /\ \A t \in 1 .. k : SubSeq(lg, 1, k)[t] = lg[t]
<1>1. \A t \in 1 .. k : lg[t] \in Seq(Command)
  BY BoundAssumption DEF Logs, Turn
<1>. QED  BY <1>1, SubSeqProperties, BoundAssumption

\* Of two logs that agree on the first turns, the shorter is a prefix of the longer.
LEMMA LogPrefix ==
    ASSUME NEW lg \in Logs, NEW lh \in Logs, NEW k \in 0 .. MaxTurn, NEW n \in k .. MaxTurn,
           \A t \in 1 .. k : lg[t] = lh[t]
    PROVE  IsPrefix(SubSeq(lg, 1, k), SubSeq(lh, 1, n))
<1>. DEFINE s == SubSeq(lg, 1, k)
            u == SubSeq(lh, 1, n)
<1>0. n \in 0 .. MaxTurn /\ k <= n /\ k \in Nat
  OBVIOUS
<1>1. s \in Seq(Seq(Command)) /\ Len(s) = k /\ \A t \in 1 .. k : s[t] = lg[t]
  BY LogTurns
<1>2. u \in Seq(Seq(Command)) /\ Len(u) = n /\ \A t \in 1 .. n : u[t] = lh[t]
  BY <1>0, LogTurns
<1>. HIDE DEF s, u
<1>3. SubSeq(s, 1, k) = s
  BY <1>1, SubSeqFull
<1>4. \A t \in 1 .. k : u[t] \in Seq(Command)
  BY <1>0, <1>2, ElementOfSeq
<1>5. /\ SubSeq(u, 1, k) \in Seq(Seq(Command)) /\ Len(SubSeq(u, 1, k)) = k
      /\ \A t \in 1 .. k : SubSeq(u, 1, k)[t] = u[t]
  BY <1>0, <1>4, SubSeqProperties
<1>6. \A t \in 1 .. k : s[t] = SubSeq(u, 1, k)[t]
  <2>. SUFFICES ASSUME NEW t \in 1 .. k PROVE s[t] = SubSeq(u, 1, k)[t]
    OBVIOUS
  <2>1. t \in 1 .. n
    BY <1>0
  <2>2. s[t] = lg[t] /\ lg[t] = lh[t] /\ lh[t] = u[t]
    BY <1>1, <1>2, <2>1
  <2>3. SubSeq(u, 1, k)[t] = u[t]
    BY <1>5
  <2>. QED  BY <2>2, <2>3
<1>7. s = SubSeq(u, 1, k)
  BY <1>1, <1>5, <1>6, SeqEqual
<1>8. IsPrefix(s, u)
  BY <1>0, <1>1, <1>2, <1>3, <1>7 DEF IsPrefix
<1>. QED  BY <1>8 DEF s, u

\* No turns are a prefix of any.
LEMMA EmptyPrefix ==
    ASSUME NEW S, NEW s \in Seq(S)
    PROVE  IsPrefix(<<>>, s)
<1>1. SubSeq(s, 1, 0) = <<>> /\ SubSeq(<<>>, 1, 0) = <<>>
  BY SubSeqEmpty
<1>2. Len(<<>>) = 0 /\ Len(s) \in Nat
  BY EmptySeq, LenProperties
<1>. QED  BY <1>1, <1>2 DEF IsPrefix

\* TurnLog's prefixes are those of the library.
LEMMA SharedPrefix == \A s, u : Shared!IsPrefix(s, u) <=> IsPrefix(s, u)
BY DEF Shared!IsPrefix, IsPrefix

\* How far a client in the game is.
Far(p) == IF p \in DelayedObserver THEN head ELSE readyTurn

CopiesFromTheLog ==
    \A p \in Peer :
        /\ InTheGame(p) => Copy(p) = SubSeq(log, 1, Far(p))
        /\ Far(p) \in 0 .. readyTurn

\* What a client in the game has is that much of the log.
LEMMA CopyIsPrefix == IInv => CopiesFromTheLog
<1>. SUFFICES ASSUME IInv, NEW p \in Peer
              PROVE  /\ InTheGame(p) => Copy(p) = SubSeq(log, 1, Far(p))
                     /\ Far(p) \in 0 .. readyTurn
  BY DEF CopiesFromTheLog
<1>1. PeerServed(p, mode[p], view[p], bound[p], readyTurn, head, log)
  BY DEF IInv, Served
<1>2. readyTurn \in Nat /\ head \in 0 .. readyTurn /\ readyTurn <= MaxTurn /\ log \in Logs
  BY DelayAssumption, BoundAssumption DEF IInv, InitialReadyTurn
<1>3. CASE mode[p] = "live"
  BY <1>1, <1>2, <1>3 DEF PeerServed, Whole, Copy, InTheGame, Far
<1>4. CASE mode[p] = "delayed"
  <2>1. p \in DelayedObserver /\ view[p].sealed = head /\ view[p].commands = Upto(head, log)
    BY <1>1, <1>4 DEF PeerServed, StateAt
  <2>2. Upto(head, log) \in Logs
    <3>1. \A t \in Turn : Upto(head, log)[t] \in Seq(Command)
      BY <1>2, UptoTurn, EmptySeq DEF Logs
    <3>. QED  BY <3>1 DEF Upto, Logs
  <2>3. \A t \in 1 .. head : Upto(head, log)[t] = log[t]
    BY <1>2, UptoTurn, BoundAssumption DEF Turn
  <2>4. SubSeq(Upto(head, log), 1, head) = SubSeq(log, 1, head)
    <3>. DEFINE s == SubSeq(Upto(head, log), 1, head)
                u == SubSeq(log, 1, head)
    <3>0. head \in 0 .. MaxTurn
      BY <1>2, BoundAssumption
    <3>1. s \in Seq(Seq(Command)) /\ Len(s) = head /\ \A t \in 1 .. head : s[t] = Upto(head, log)[t]
      BY <2>2, <3>0, LogTurns
    <3>2. u \in Seq(Seq(Command)) /\ Len(u) = head /\ \A t \in 1 .. head : u[t] = log[t]
      BY <1>2, <3>0, LogTurns
    <3>. HIDE DEF s, u
    <3>3. s = u
      BY <2>3, <3>1, <3>2, SeqEqual
    <3>. QED  BY <3>3 DEF s, u
  <2>. QED  BY <1>2, <1>4, <2>1, <2>4 DEF Copy, InTheGame, Far
<1>5. CASE ~InTheGame(p)
  BY <1>2, <1>5 DEF Far
<1>. QED  BY <1>3, <1>4, <1>5 DEF InTheGame

\* What is released stays released, with the commands it was released with.
LEMMA PastIsFinal ==
    ASSUME IInv, Next
    PROVE  /\ readyTurn' >= readyTurn /\ head' >= head
           /\ \A t \in 1 .. readyTurn : log'[t] = log[t]
<1>1. readyTurn \in Nat /\ head \in Nat /\ readyTurn <= MaxTurn /\ log \in Logs
  BY DelayAssumption, BoundAssumption DEF IInv, InitialReadyTurn
<1>2. head' # head => head' >= head
  <2>1. ASSUME NEW r, Advanced(r)
        PROVE  head' >= head
    BY <1>1, <2>1 DEF Advanced
  <2>2. CASE TurnsReleased
    BY <2>1, <2>2, TurnsReleasedKeeps
  <2>3. CASE ResumeMatch
    BY <2>1, <2>3, ResumeMatchKeeps
  <2>4. CASE \E p \in Peer, turn \in Turn : PlayerCommand(p, turn) \/ ServedByServer(p, turn)
    BY <2>1, <2>4, ServedByServerKeeps DEF PlayerCommand
  <2>5. CASE \E p, source \in Peer, turn \in Turn : ServedByClient(p, source, turn)
    BY <2>1, <2>5, ServedByClientKeeps
  <2>6. CASE \E p \in Peer : Admitted(p) \/ LoadedGame(p) \/ Disconnected(p)
    BY <2>1, <2>6, DisconnectedKeeps DEF Admitted, LoadedGame
  <2>. QED  BY <2>2, <2>3, <2>4, <2>5, <2>6 DEF Next
<1>3. readyTurn' >= readyTurn
  <2>1. CASE TurnsReleased
    BY <1>1, <2>1, DelayAssumption DEF TurnsReleased, ReleaseTo
  <2>2. CASE ResumeMatch
    BY <1>1, <2>2, DelayAssumption DEF ResumeMatch, ReleaseTo
  <2>3. CASE \E p \in Peer, turn \in Turn : PlayerCommand(p, turn) \/ ServedByServer(p, turn)
    BY <1>1, <2>3 DEF PlayerCommand, ServedByServer
  <2>4. CASE \E p, source \in Peer, turn \in Turn : ServedByClient(p, source, turn)
    BY <1>1, <2>4 DEF ServedByClient
  <2>5. CASE \E p \in Peer : Admitted(p) \/ LoadedGame(p) \/ Disconnected(p)
    <3>1. ASSUME NEW p \in Peer, Disconnected(p)
          PROVE  readyTurn' >= readyTurn
      <4>1. CASE phase = "InGame"
        <5>1. PICK turn \in readyTurn .. readyTurn + CommandDelay :
                 ReleaseTo(turn, [mode EXCEPT ![p] = "out"], [view EXCEPT ![p] = NoState])
          BY <3>1, <4>1 DEF Disconnected
        <5>. QED  BY <1>1, <5>1, DelayAssumption DEF ReleaseTo
      <4>2. CASE phase # "InGame"
        BY <1>1, <3>1, <4>2 DEF Disconnected
      <4>. QED  BY <4>1, <4>2
    <3>. QED  BY <1>1, <2>5, <3>1 DEF Admitted, LoadedGame
  <2>. QED  BY <2>1, <2>2, <2>3, <2>4, <2>5 DEF Next
<1>4. \A t \in 1 .. readyTurn : log'[t] = log[t]
  <2>1. ASSUME NEW p \in Peer, NEW turn \in Turn, PlayerCommand(p, turn)
        PROVE  \A t \in 1 .. readyTurn : log'[t] = log[t]
    BY <1>1, <2>1 DEF PlayerCommand, OpenForCommands, Logs, Turn
  <2>2. (\E p \in Peer, turn \in Turn : PlayerCommand(p, turn)) \/ log' = log
    BY DEF Next, TurnsReleased, ResumeMatch, ServedByServer, ServedByClient,
           Admitted, LoadedGame, Disconnected
  <2>. QED  BY <2>1, <2>2
<1>. QED  BY <1>1, <1>2, <1>3, <1>4

\* The clients of a match share one log of turns: what was released never changes, and
\* each has a prefix of it that only grows until it leaves.
THEOREM SharedLog == Spec => SharesOneLog
<1>. DEFINE released == SubSeq(log, 1, readyTurn)
            copies == [p \in Peer |-> Copy(p)]
<1>1. Init => Shared!Init
  <2>. SUFFICES ASSUME Init PROVE Shared!Init
    OBVIOUS
  <2>1. IInv
    BY InitInvariant
  <2>2. log \in Logs /\ readyTurn \in 0 .. MaxTurn
    BY <2>1, DelayAssumption, BoundAssumption DEF IInv, InitialReadyTurn
  <2>3. released \in Seq(Seq(1 .. MaxCommands))
    BY <2>2, LogTurns DEF Command
  <2>4. ASSUME NEW p \in Peer
        PROVE  Copy(p) \in Seq(Seq(1 .. MaxCommands)) /\ Shared!IsPrefix(Copy(p), released)
    <3>1. Far(p) \in 0 .. MaxTurn /\ readyTurn \in Far(p) .. MaxTurn
      <4>1. Far(p) \in 0 .. readyTurn
        BY <2>1, CopyIsPrefix DEF CopiesFromTheLog
      <4>. QED  BY <2>2, <4>1, BoundAssumption
    <3>2. CASE InTheGame(p)
      <4>1. Copy(p) = SubSeq(log, 1, Far(p))
        BY <2>1, <3>2, CopyIsPrefix DEF CopiesFromTheLog
      <4>2. IsPrefix(Copy(p), released) /\ Copy(p) \in Seq(Seq(1 .. MaxCommands))
        BY <2>2, <3>1, <4>1, LogTurns, LogPrefix DEF Command
      <4>. QED  BY <4>2, SharedPrefix
    <3>3. CASE ~InTheGame(p)
      <4>1. Copy(p) = <<>>
        BY <3>3 DEF Copy
      <4>. QED  BY <2>3, <4>1, EmptyPrefix, EmptySeq, SharedPrefix
    <3>. QED  BY <3>2, <3>3
  <2>5. DOMAIN copies = Peer /\ \A p \in Peer : copies[p] = Copy(p)
    OBVIOUS
  <2>. HIDE DEF copies
  <2>. QED  BY <2>3, <2>4, <2>5 DEF Shared!Init, Shared!Turns, copies
<1>2. IInv' => CopiesFromTheLog'
  BY CopyIsPrefix, PTL
<1>3. IInv /\ IInv' /\ Next => Shared!Next
  <2>. SUFFICES ASSUME IInv, IInv', Next PROVE Shared!Next
    OBVIOUS
  <2>0. CopiesFromTheLog /\ CopiesFromTheLog'
    BY <1>2, CopyIsPrefix
  <2>1. /\ log \in Logs /\ readyTurn \in 0 .. MaxTurn /\ readyTurn \in Nat
        /\ log' \in Logs /\ readyTurn' \in 0 .. MaxTurn /\ readyTurn' \in Nat
    BY DelayAssumption, BoundAssumption DEF IInv, InitialReadyTurn
  <2>2. /\ readyTurn' >= readyTurn /\ head' >= head
        /\ \A t \in 1 .. readyTurn : log[t] = log'[t]
    BY PastIsFinal
  <2>3. released' \in Seq(Seq(1 .. MaxCommands)) /\ Shared!IsPrefix(released, released')
    <3>1. readyTurn' \in readyTurn .. MaxTurn
      BY <2>1, <2>2
    <3>. QED  BY <2>1, <2>2, <3>1, LogTurns, LogPrefix, SharedPrefix DEF Command
  <2>4. ASSUME NEW p \in Peer
        PROVE  \/ Copy(p)' = <<>>
               \/ Shared!IsPrefix(Copy(p), Copy(p)') /\ Shared!IsPrefix(Copy(p)', released')
    <3>1. Far(p) \in 0 .. readyTurn /\ Far(p)' \in 0 .. readyTurn' /\ Far(p) <= Far(p)'
      <4>1. Far(p) \in 0 .. readyTurn /\ Far(p)' \in 0 .. readyTurn'
        BY <2>0 DEF CopiesFromTheLog
      <4>. QED  BY <2>1, <2>2, <4>1 DEF Far, IInv
    <3>2. CASE ~InTheGame(p)'
      BY <3>2 DEF Copy, InTheGame
    <3>3. CASE InTheGame(p)'
      <4>1. Copy(p)' = SubSeq(log', 1, Far(p)')
        BY <2>0, <3>3 DEF CopiesFromTheLog
      <4>2. Shared!IsPrefix(Copy(p)', released')
        <5>1. Far(p)' \in 0 .. MaxTurn /\ readyTurn' \in Far(p)' .. MaxTurn
          BY <2>1, <3>1, BoundAssumption
        <5>. QED  BY <2>1, <4>1, <5>1, LogPrefix, SharedPrefix
      <4>3. Shared!IsPrefix(Copy(p), Copy(p)')
        <5>1. CASE InTheGame(p)
          <6>1. Copy(p) = SubSeq(log, 1, Far(p))
            BY <2>0, <5>1 DEF CopiesFromTheLog
          <6>2. /\ Far(p) \in 0 .. MaxTurn /\ Far(p)' \in Far(p) .. MaxTurn
                /\ \A t \in 1 .. Far(p) : log[t] = log'[t]
            BY <2>1, <2>2, <3>1, BoundAssumption
          <6>. QED  BY <2>1, <4>1, <6>1, <6>2, LogPrefix, SharedPrefix
        <5>2. CASE ~InTheGame(p)
          <6>1. Copy(p) = <<>>
            BY <5>2 DEF Copy
          <6>2. Far(p)' \in 0 .. MaxTurn
            BY <2>1, <3>1, BoundAssumption
          <6>3. Copy(p)' \in Seq(Seq(Command))
            BY <2>1, <4>1, <6>2, LogTurns
          <6>. QED  BY <6>1, <6>3, EmptyPrefix, SharedPrefix
        <5>. QED  BY <5>1, <5>2
      <4>. QED  BY <4>2, <4>3
    <3>. QED  BY <3>2, <3>3
  <2>. QED  BY <2>3, <2>4 DEF Shared!Next, Shared!Turns
<1>4. UNCHANGED vars => UNCHANGED Shared!tlvars
  BY DEF vars, Shared!tlvars, Copy, InTheGame
<1>5. IInv /\ IInv' /\ [Next]_vars => [Shared!Next]_Shared!tlvars
  BY <1>3, <1>4
<1>. QED  BY <1>1, <1>5, Invariant, PTL DEF Spec, SharesOneLog, Shared!Spec
=============================================================================
