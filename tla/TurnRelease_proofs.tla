------------------------- MODULE TurnRelease_proofs -------------------------
(***************************************************************************)
(* Proofs about TurnRelease, for every set of peers, command delay, lag    *)
(* limit, pacing and bound.                                                *)
(*                                                                         *)
(* The inductive invariant is the conjunction the runs check, with one     *)
(* fact more: whoever is on the delayed feed is an observer, so that the   *)
(* players are among the clients that block release.  The work is in       *)
(* ReleaseAdvances, which says what release does to the clients a handler  *)
(* hands it; each action then only shows that what it hands over satisfies *)
(* the lemma's assumptions.                                                *)
(***************************************************************************)
EXTENDS TurnRelease, TLAPS

\* A client table as the handlers keep it, against a ready turn.
Table(cs) == DOMAIN cs \subseteq Peer /\ cs \in [DOMAIN cs -> ClientTurn]

DelayedObserve(cs) == \A p \in DOMAIN cs : cs[p].delayed => cs[p].observer

PlayersSealed(cs, turn) ==
    \A p \in DOMAIN cs : ~cs[p].observer => turn <= cs[p].readyTurn

WithinWindow(cs, turn) ==
    \A p \in DOMAIN cs : cs[p].readyTurn <= turn + CommandDelay

LagWithin(cs, limit, turn) ==
    limit # NoLimit =>
        \A p \in DOMAIN cs : ~cs[p].delayed => turn - cs[p].readyTurn <= limit

IInv ==
    /\ TypeOK
    /\ DelayedObserve(clients)
    /\ PlayersSealed(clients, readyTurn)
    /\ WithinWindow(clients, readyTurn)
    /\ LagWithin(clients, config.lagLimit, readyTurn)

-----------------------------------------------------------------------------

\* Everyone being ahead of a turn means every player has sealed past it, and so
\* has every observer at its lag limit.
LEMMA AheadMeansSealed ==
    ASSUME NEW cs, Table(cs), DelayedObserve(cs),
           NEW limit \in LagLimits, NEW turn \in Nat, NEW clocked \in BOOLEAN,
           EveryoneAhead(cs, limit, turn, clocked),
           NEW p \in DOMAIN cs
    PROVE  /\ ~cs[p].observer => turn < cs[p].readyTurn
           /\ limit # NoLimit /\ ~cs[p].delayed /\ turn - cs[p].readyTurn >= limit
              => turn < cs[p].readyTurn
<1>1. cs[p] \in ClientTurn
  BY DEF Table
<1>2. CASE AiAlone(cs, limit, turn, clocked)
  BY <1>1, <1>2 DEF EveryoneAhead, Blockers, ClientTurn
<1>3. CASE ~AiAlone(cs, limit, turn, clocked)
  <2>1. Blocks(cs[p], limit, turn) => cs[p].readyTurn > turn
    BY <1>3 DEF EveryoneAhead, Blockers
  <2>2. ~cs[p].observer => Blocks(cs[p], limit, turn)
    BY DEF Blocks, DelayedObserve
  <2>3. limit # NoLimit /\ ~cs[p].delayed /\ turn - cs[p].readyTurn >= limit
        => Blocks(cs[p], limit, turn)
    BY DEF Blocks
  <2>. QED  BY <1>1, <2>1, <2>2, <2>3 DEF ClientTurn
<1>. QED  BY <1>2, <1>3

\* Release keeps every bound the clients were within: it stops at the first turn
\* someone who blocks has not sealed past.
LEMMA ReleaseAdvances ==
    ASSUME NEW cs, Table(cs), DelayedObserve(cs), TypeOK,
           PlayersSealed(cs, readyTurn), WithinWindow(cs, readyTurn),
           LagWithin(cs, config.lagLimit, readyTurn),
           NEW t \in Nat, Release(cs, t)
    PROVE  /\ readyTurn' \in Nat
           /\ readyTurn' >= readyTurn
           /\ anchor' \in Nat \cup {Unset}
           /\ PlayersSealed(cs, readyTurn')
           /\ WithinWindow(cs, readyTurn')
           /\ LagWithin(cs, config.lagLimit, readyTurn')
<1>. USE DelayAssumption, LimitAssumption, PaceAssumption, BoundAssumption
<1>0. /\ readyTurn \in Nat /\ config.lagLimit \in LagLimits /\ config.scripted \in BOOLEAN
      /\ anchor \in Nat \cup {Unset}
      /\ \A p \in DOMAIN cs : cs[p] \in ClientTurn
  BY DEF TypeOK, Table
<1>1. CASE UNCHANGED <<readyTurn, anchor>>
  BY <1>0, <1>1
<1>2. ASSUME NEW n \in readyTurn .. readyTurn + CommandDelay,
             RestsAt(n, cs, config.lagLimit, config.scripted, Allowance(anchor, t)),
             readyTurn' = n,
             anchor' = IF config.scripted
                       THEN Reanchored(anchor, t) + Interval * (n - readyTurn)
                       ELSE anchor
      PROVE  /\ readyTurn' \in Nat
             /\ readyTurn' >= readyTurn
             /\ anchor' \in Nat \cup {Unset}
             /\ PlayersSealed(cs, readyTurn')
             /\ WithinWindow(cs, readyTurn')
             /\ LagWithin(cs, config.lagLimit, readyTurn')
  <2>1. n \in Nat /\ n >= readyTurn
    BY <1>0
  <2>2. anchor' \in Nat \cup {Unset}
    <3>1. Reanchored(anchor, t) \in Nat
      <4>1. CASE anchor = Unset \/ t < anchor
        BY <4>1 DEF Reanchored
      <4>2. CASE ~(anchor = Unset \/ t < anchor)
        <5>1. anchor \in Nat /\ anchor <= t
          BY <1>0, <4>2 DEF Unset
        <5>2. Interval * PaceBacklog \in Nat /\ Interval * PaceBacklog >= Interval
          <6>1. ASSUME NEW i \in Nat \ {0}, NEW k \in Nat \ {0}
                PROVE  i * k \in Nat /\ i * k >= i
            OBVIOUS
          <6>. QED  BY <6>1
        <5>. QED  BY <4>2, <5>1, <5>2 DEF Reanchored
      <4>. QED  BY <4>1, <4>2
    <3>2. Interval * (n - readyTurn) \in Nat
      <4>1. ASSUME NEW i \in Nat, NEW k \in Nat
            PROVE  i * k \in Nat
        OBVIOUS
      <4>. QED  BY <4>1, <2>1, <1>0
    <3>. QED  BY <1>0, <1>2, <3>1, <3>2
  <2>3. CASE n = readyTurn
    BY <1>2, <2>1, <2>2, <2>3
  <2>4. CASE n > readyTurn
    <3>1. n - 1 \in readyTurn .. n - 1 /\ n - 1 \in Nat
      BY <1>0, <2>1, <2>4
    <3>2. EveryoneAhead(cs, config.lagLimit, n - 1, config.scripted)
      BY <1>2, <3>1 DEF RestsAt
    <3>3. PlayersSealed(cs, n)
      <4>. SUFFICES ASSUME NEW p \in DOMAIN cs, ~cs[p].observer
                    PROVE  n <= cs[p].readyTurn
        BY DEF PlayersSealed
      <4>1. n - 1 < cs[p].readyTurn
        BY <1>0, <3>1, <3>2, AheadMeansSealed
      <4>. QED  BY <1>0, <2>1, <4>1 DEF ClientTurn
    <3>4. WithinWindow(cs, n)
      BY <1>0, <2>1, <2>4 DEF WithinWindow, ClientTurn
    <3>5. LagWithin(cs, config.lagLimit, n)
      <4>. SUFFICES ASSUME config.lagLimit # NoLimit,
                           NEW p \in DOMAIN cs, ~cs[p].delayed
                    PROVE  n - cs[p].readyTurn <= config.lagLimit
        BY DEF LagWithin
      <4>1. config.lagLimit \in Nat /\ cs[p].readyTurn \in Nat
        BY <1>0 DEF ClientTurn
      <4>2. (n - 1) - cs[p].readyTurn >= config.lagLimit => n - 1 < cs[p].readyTurn
        BY <1>0, <3>1, <3>2, AheadMeansSealed
      <4>. QED  BY <4>1, <4>2, <2>1
    <3>. QED  BY <1>2, <2>1, <2>2, <3>3, <3>4, <3>5
  <2>. QED  BY <1>0, <2>1, <2>3, <2>4
<1>. QED  BY <1>1, <1>2 DEF Release

-----------------------------------------------------------------------------

LEMMA InitIInv == Init => IInv
<1>. SUFFICES ASSUME Init PROVE IInv
  OBVIOUS
<1>. USE DelayAssumption, LimitAssumption, PaceAssumption, BoundAssumption
<1>0. InitialReadyTurn \in Nat
  BY DEF InitialReadyTurn
<1>1. /\ config \in [lagLimit : LagLimits, scripted : BOOLEAN]
      /\ now \in 0 .. MaxClock
      /\ anchor \in Nat \cup {Unset}
      /\ phase \in Phases
  BY DEF Init, InitFresh, InitResumed, Phases
<1>2. CASE InitFresh
  <2>0. PICK starting \in SUBSET Peer \ {{}} :
          \E role \in [starting -> [observer : BOOLEAN, delayed : BOOLEAN]] :
            /\ \A p \in starting : role[p] \in Roles(p)
            /\ clients = [p \in starting |-> NewClient(p, role[p], InitialReadyTurn)]
    BY <1>2 DEF InitFresh
  <2>1. PICK role \in [starting -> [observer : BOOLEAN, delayed : BOOLEAN]] :
          /\ \A p \in starting : role[p] \in Roles(p)
          /\ clients = [p \in starting |-> NewClient(p, role[p], InitialReadyTurn)]
    BY <2>0
  <2>2. \A p \in starting : /\ clients[p] \in ClientTurn
                            /\ clients[p].readyTurn = InitialReadyTurn
                            /\ clients[p].delayed => clients[p].observer
    BY <1>0, <2>1 DEF NewClient, Roles, ClientTurn
  <2>3. DOMAIN clients = starting /\ readyTurn = InitialReadyTurn
    BY <1>2, <2>1 DEF InitFresh
  <2>4. clients \in [DOMAIN clients -> ClientTurn]
    BY <2>1, <2>2
  <2>5. config.lagLimit \in Nat \cup {NoLimit}
    BY <1>1
  <2>. QED
    BY <1>0, <1>1, <2>2, <2>3, <2>4, <2>5
    DEF IInv, TypeOK, DelayedObserve, PlayersSealed, WithinWindow, LagWithin
<1>3. CASE InitResumed
  <2>1. DOMAIN clients = {} /\ clients \in [DOMAIN clients -> ClientTurn]
    BY <1>3 DEF InitResumed
  <2>2. readyTurn \in Nat
    BY <1>0, <1>3 DEF InitResumed
  <2>. QED
    BY <1>1, <2>1, <2>2
    DEF IInv, TypeOK, DelayedObserve, PlayersSealed, WithinWindow, LagWithin
<1>. QED  BY <1>2, <1>3 DEF Init
\* Putting one client of the table forward, adding one or removing one leaves a
\* table within the same bounds.
LEMMA TableUpdates ==
    ASSUME IInv
    PROVE  /\ \A p \in Registered : \A turn \in Nat :
                turn > clients[p].readyTurn /\ turn <= readyTurn + CommandDelay
                => LET cs == [clients EXCEPT ![p].readyTurn = turn]
                   IN  /\ Table(cs) /\ DelayedObserve(cs)
                       /\ PlayersSealed(cs, readyTurn) /\ WithinWindow(cs, readyTurn)
                       /\ LagWithin(cs, config.lagLimit, readyTurn)
           /\ \A p \in Peer :
                LET cs == Without(p)
                IN  /\ Table(cs) /\ DelayedObserve(cs)
                    /\ PlayersSealed(cs, readyTurn) /\ WithinWindow(cs, readyTurn)
                    /\ LagWithin(cs, config.lagLimit, readyTurn)
<1>. USE DelayAssumption, LimitAssumption
<1>0. /\ readyTurn \in Nat
      /\ config.lagLimit \in Nat \cup {NoLimit}
      /\ DOMAIN clients \subseteq Peer
      /\ clients \in [DOMAIN clients -> ClientTurn]
      /\ \A q \in DOMAIN clients : clients[q] \in ClientTurn
  BY DEF IInv, TypeOK
<1>1. ASSUME NEW p \in Registered, NEW turn \in Nat,
             turn > clients[p].readyTurn, turn <= readyTurn + CommandDelay,
             NEW cs, cs = [clients EXCEPT ![p].readyTurn = turn]
      PROVE  /\ Table(cs) /\ DelayedObserve(cs)
             /\ PlayersSealed(cs, readyTurn) /\ WithinWindow(cs, readyTurn)
             /\ LagWithin(cs, config.lagLimit, readyTurn)
  <2>1. /\ DOMAIN cs = DOMAIN clients
        /\ cs \in [DOMAIN clients -> ClientTurn]
        /\ \A q \in DOMAIN clients :
              /\ cs[q].observer = clients[q].observer
              /\ cs[q].delayed = clients[q].delayed
              /\ cs[q].readyTurn \in Nat
              /\ cs[q].readyTurn >= clients[q].readyTurn
              /\ cs[q].readyTurn = clients[q].readyTurn \/ cs[q].readyTurn = turn
    BY <1>0, <1>1 DEF ClientTurn, Registered
  <2>2. Table(cs)
    BY <1>0, <2>1 DEF Table
  <2>3. DelayedObserve(cs)
    BY <2>1 DEF IInv, DelayedObserve
  <2>4. PlayersSealed(cs, readyTurn)
    BY <1>0, <2>1 DEF IInv, PlayersSealed, ClientTurn
  <2>5. WithinWindow(cs, readyTurn)
    BY <1>0, <1>1, <2>1 DEF IInv, WithinWindow
  <2>6. LagWithin(cs, config.lagLimit, readyTurn)
    BY <1>0, <2>1 DEF IInv, LagWithin, ClientTurn
  <2>. QED  BY <2>2, <2>3, <2>4, <2>5, <2>6
<1>2. ASSUME NEW p \in Peer, NEW cs, cs = Without(p)
      PROVE  /\ Table(cs) /\ DelayedObserve(cs)
             /\ PlayersSealed(cs, readyTurn) /\ WithinWindow(cs, readyTurn)
             /\ LagWithin(cs, config.lagLimit, readyTurn)
  <2>1. /\ DOMAIN cs = DOMAIN clients \ {p}
        /\ \A q \in DOMAIN cs : cs[q] = clients[q]
        /\ cs \in [DOMAIN cs -> ClientTurn]
    BY <1>0, <1>2 DEF Without, Registered
  <2>. QED
    BY <1>0, <2>1
    DEF IInv, Table, DelayedObserve, PlayersSealed, WithinWindow, LagWithin
<1>. QED  BY <1>1, <1>2
\* What a handler that releases leaves behind, once the table it releases over is
\* within the old bounds.
LEMMA ReleaseStep ==
    ASSUME IInv, NEW cs, Table(cs), DelayedObserve(cs),
           PlayersSealed(cs, readyTurn), WithinWindow(cs, readyTurn),
           LagWithin(cs, config.lagLimit, readyTurn),
           NEW t \in 0 .. MaxClock, Release(cs, t),
           clients' = cs, config' = config, phase' \in Phases, now' \in 0 .. MaxClock
    PROVE  IInv'
<1>. USE BoundAssumption
<1>1. t \in Nat /\ TypeOK
  BY DEF IInv
<1>2. /\ readyTurn' \in Nat
      /\ anchor' \in Nat \cup {Unset}
      /\ PlayersSealed(cs, readyTurn')
      /\ WithinWindow(cs, readyTurn')
      /\ LagWithin(cs, config.lagLimit, readyTurn')
  BY <1>1, ReleaseAdvances
<1>3. TypeOK'
  BY <1>1, <1>2 DEF TypeOK, Table, Unset
<1>4. /\ DelayedObserve(clients')
      /\ PlayersSealed(clients', readyTurn')
      /\ WithinWindow(clients', readyTurn')
      /\ LagWithin(clients', config'.lagLimit, readyTurn')
  BY <1>2
<1>. QED  BY <1>3, <1>4 DEF IInv, DelayedObserve, PlayersSealed, WithinWindow, LagWithin

LEMMA NextIInv == IInv /\ [Next]_vars => IInv'
<1>. SUFFICES ASSUME IInv, [Next]_vars PROVE IInv'
  OBVIOUS
<1>. USE DelayAssumption, LimitAssumption, BoundAssumption
<1>0. /\ phase \in Phases /\ now \in 0 .. MaxClock /\ readyTurn \in Nat
      /\ clients \in [Registered -> ClientTurn] /\ Registered \subseteq Peer
      /\ config \in [lagLimit : LagLimits, scripted : BOOLEAN]
  BY DEF IInv, TypeOK, Registered
<1>1. CASE AllLoaded
  BY <1>0, <1>1
  DEF AllLoaded, IInv, TypeOK, Phases, DelayedObserve, PlayersSealed, WithinWindow, LagWithin
<1>2. CASE ResumeMatch
  <2>1. Table(clients) /\ phase' \in Phases
    BY <1>0, <1>2 DEF ResumeMatch, Table, Registered, Phases
  <2>. QED  BY <1>0, <1>2, <2>1, ReleaseStep DEF ResumeMatch, IInv
<1>3. ASSUME NEW p \in Peer, TurnSealed(p) PROVE IInv'
  <2>. DEFINE turn == clients[p].readyTurn + 1
              sealed == [clients EXCEPT ![p].readyTurn = turn]
  <2>1. /\ p \in Registered /\ turn <= readyTurn + CommandDelay
        /\ clients' = sealed /\ phase' = phase /\ config' = config /\ now' = now
        /\ Release(sealed, now)
    BY <1>3 DEF TurnSealed, MaySeal
  <2>2. turn \in Nat /\ turn > clients[p].readyTurn
    BY <1>0, <2>1 DEF ClientTurn
  <2>3. /\ Table(sealed) /\ DelayedObserve(sealed)
        /\ PlayersSealed(sealed, readyTurn) /\ WithinWindow(sealed, readyTurn)
        /\ LagWithin(sealed, config.lagLimit, readyTurn)
    BY <2>1, <2>2, TableUpdates
  <2>. HIDE DEF sealed
  <2>. QED  BY <1>0, <2>1, <2>3, ReleaseStep
<1>4. ASSUME NEW p \in Peer, LoadedGame(p) PROVE IInv'
  <2>1. PICK replayed \in InitialReadyTurn .. readyTurn :
          \E r \in Roles(p) :
            /\ replayed # readyTurn => r.delayed
            /\ clients' = With(p, NewClient(p, r, replayed + CommandDelay - 1))
    BY <1>4 DEF LoadedGame
  <2>2. PICK r \in Roles(p) :
          /\ replayed # readyTurn => r.delayed
          /\ clients' = With(p, NewClient(p, r, replayed + CommandDelay - 1))
    BY <2>1
  <2>. DEFINE c == NewClient(p, r, replayed + CommandDelay - 1)
  <2>3. /\ c \in ClientTurn
        /\ c.delayed => c.observer
        /\ c.readyTurn <= readyTurn + CommandDelay
        /\ ~c.delayed => c.readyTurn >= readyTurn
        /\ ~c.observer => c.readyTurn >= readyTurn
    BY <1>0, <2>2 DEF NewClient, Roles, ClientTurn, InitialReadyTurn
  <2>. HIDE DEF c
  <2>4. /\ DOMAIN clients' = Registered \cup {p}
        /\ \A q \in DOMAIN clients' : clients'[q] = IF q = p THEN c ELSE clients[q]
        /\ clients' \in [DOMAIN clients' -> ClientTurn]
    BY <1>0, <2>2, <2>3 DEF With, c
  <2>5. UNCHANGED <<phase, config, readyTurn, now, anchor>>
    BY <1>4 DEF LoadedGame
  <2>6. TypeOK'
    BY <1>0, <2>4, <2>5 DEF IInv, TypeOK
  <2>7. DelayedObserve(clients)'
    BY <2>3, <2>4 DEF IInv, DelayedObserve, Registered
  <2>8. PlayersSealed(clients, readyTurn)' /\ WithinWindow(clients, readyTurn)'
    BY <1>0, <2>3, <2>4, <2>5 DEF IInv, PlayersSealed, WithinWindow, Registered
  <2>9. LagWithin(clients, config.lagLimit, readyTurn)'
    BY <1>0, <2>3, <2>4, <2>5 DEF IInv, LagWithin, Registered, ClientTurn
  <2>. QED  BY <2>6, <2>7, <2>8, <2>9 DEF IInv
<1>5. ASSUME NEW p \in Peer, Disconnected(p) PROVE IInv'
  <2>1. /\ clients' = Without(p) /\ phase' = phase /\ config' = config /\ now' = now
        /\ Release(Without(p), now)
    BY <1>5 DEF Disconnected
  <2>2. /\ Table(Without(p)) /\ DelayedObserve(Without(p))
        /\ PlayersSealed(Without(p), readyTurn) /\ WithinWindow(Without(p), readyTurn)
        /\ LagWithin(Without(p), config.lagLimit, readyTurn)
    BY TableUpdates
  <2>. QED  BY <1>0, <2>1, <2>2, ReleaseStep
<1>6. ASSUME NEW t \in 0 .. MaxClock, Tick(t) PROVE IInv'
  <2>1. CASE phase = "InGame"
    <3>1. Table(clients)
      BY <1>0 DEF Table, Registered
    <3>. QED  BY <1>0, <1>6, <2>1, <3>1, ReleaseStep DEF Tick, IInv
  <2>2. CASE phase # "InGame"
    BY <1>0, <1>6, <2>2
    DEF Tick, IInv, TypeOK, DelayedObserve, PlayersSealed, WithinWindow, LagWithin
  <2>. QED  BY <2>1, <2>2
<1>7. CASE UNCHANGED vars
  BY <1>7
  DEF vars, IInv, TypeOK, DelayedObserve, PlayersSealed, WithinWindow, LagWithin
<1>. QED  BY <1>1, <1>2, <1>3, <1>4, <1>5, <1>6, <1>7 DEF Next
\* The strengthened invariant holds of every behaviour.
LEMMA Invariance == Spec => []IInv
  BY InitIInv, NextIInv, PTL DEF Spec

-----------------------------------------------------------------------------
(* The theorems.                                                           *)

\* Type correctness of turn release (turn.rs and its handlers).
THEOREM TypeCorrect == Spec => []TypeOK
<1>1. IInv => TypeOK
  BY DEF IInv
<1>. QED  BY <1>1, Invariance, PTL

\* The lockstep guarantee: no turn is released that some player there has not
\* sealed, whatever the number of players and however they come and go
\* (everyone_ahead, with the turn on_loaded_game registers a joiner at).
THEOREM LockstepSafety == Spec => []NoPlayerLeftBehind
<1>1. IInv => NoPlayerLeftBehind
  BY DEF IInv, NoPlayerLeftBehind, PlayersSealed, Registered
<1>. QED  BY <1>1, Invariance, PTL

\* Nobody is ever further ahead than the command delay, so release never needs to
\* look further than that (the TurnSealAhead check of on_turn_sealed).
THEOREM WindowSafety == Spec => []SealWindow
<1>1. IInv => SealWindow
  BY DEF IInv, SealWindow, WithinWindow, Registered
<1>. QED  BY <1>1, Invariance, PTL

\* Under a lag limit no live observer falls further behind than the limit (blocks).
THEOREM LagSafety == Spec => []ObserverLagBounded
<1>1. IInv => ObserverLagBounded
  BY DEF IInv, ObserverLagBounded, LagWithin, Registered
<1>. QED  BY <1>1, Invariance, PTL

\* Nobody is registered too far ahead of the ready turn or left too far behind it.
THEOREM ReachSafety == Spec => []WithinReach
<1>1. SealWindow /\ ObserverLagBounded => WithinReach
  BY DEF WithinReach
<1>. QED  BY <1>1, WindowSafety, LagSafety, PTL

\* Everyone being ahead of a turn in a match no clock paces means that someone who
\* is not the AI host has sealed past it.
LEMMA AheadMeansSomeoneSealed ==
    ASSUME NEW cs, NEW limit, NEW turn, EveryoneAhead(cs, limit, turn, FALSE)
    PROVE  \E p \in DOMAIN cs : ~cs[p].aiHost /\ cs[p].readyTurn > turn
<1>1. CASE AiAlone(cs, limit, turn, FALSE)
  BY <1>1 DEF EveryoneAhead, Blockers
<1>2. CASE ~AiAlone(cs, limit, turn, FALSE)
  <2>1. PICK p \in DOMAIN cs : Blocks(cs[p], limit, turn)
    BY <1>2 DEF EveryoneAhead, Blockers
  <2>2. \A q \in DOMAIN cs : Blocks(cs[q], limit, turn) => cs[q].readyTurn > turn
    BY <1>2 DEF EveryoneAhead, Blockers
  <2>3. CASE ~cs[p].aiHost
    BY <2>1, <2>2, <2>3
  <2>4. CASE cs[p].aiHost
    BY <1>2, <2>1, <2>2, <2>4 DEF AiAlone, HumansBlock
  <2>. QED  BY <2>3, <2>4
<1>. QED  BY <1>1, <1>2

\* A release that moves the ready turn of a match no clock paces leaves someone
\* other than the AI host who sealed the last turn released.
LEMMA ReleaseWatched ==
    ASSUME IInv, NEW cs, Table(cs), NEW t, Release(cs, t),
           ~config.scripted, readyTurn' > readyTurn
    PROVE  \E p \in DOMAIN cs : ~cs[p].aiHost /\ cs[p].readyTurn >= readyTurn'
<1>. USE DelayAssumption
<1>1. readyTurn \in Nat /\ config.scripted = FALSE
  BY DEF IInv, TypeOK
<1>2. PICK n \in readyTurn .. readyTurn + CommandDelay :
        /\ RestsAt(n, cs, config.lagLimit, config.scripted, Allowance(anchor, t))
        /\ readyTurn' = n
  BY <1>1 DEF Release
<1>3. n - 1 \in readyTurn .. n - 1
  BY <1>1, <1>2
<1>4. EveryoneAhead(cs, config.lagLimit, n - 1, FALSE)
  BY <1>1, <1>2, <1>3 DEF RestsAt
<1>5. PICK p \in DOMAIN cs : ~cs[p].aiHost /\ cs[p].readyTurn > n - 1
  BY <1>4, AheadMeansSomeoneSealed
<1>6. cs[p].readyTurn \in Nat
  BY DEF Table, ClientTurn
<1>. QED  BY <1>1, <1>2, <1>5, <1>6

\* The AI host never takes the match past the people in it (ai_alone).
THEOREM AiHostHeld == Spec => AiHostNeverRunsAhead
<1>. DEFINE Watched == readyTurn' > readyTurn /\ ~config.scripted
                       => \E p \in DOMAIN clients' :
                            ~clients'[p].aiHost /\ clients'[p].readyTurn >= readyTurn'
<1>1. ASSUME IInv, Next PROVE Watched
  <2>0. /\ readyTurn \in Nat /\ Table(clients)
        /\ clients \in [Registered -> ClientTurn]
    BY <1>1 DEF IInv, TypeOK, Table, Registered
  <2>1. CASE AllLoaded
    BY <2>0, <2>1 DEF AllLoaded
  <2>2. CASE ResumeMatch
    BY <1>1, <2>0, <2>2, ReleaseWatched DEF ResumeMatch
  <2>3. ASSUME NEW p \in Peer, TurnSealed(p) PROVE Watched
    <3>. DEFINE turn == clients[p].readyTurn + 1
                sealed == [clients EXCEPT ![p].readyTurn = turn]
    <3>1. /\ p \in Registered /\ turn <= readyTurn + CommandDelay
          /\ clients' = sealed /\ Release(sealed, now)
      BY <2>3 DEF TurnSealed, MaySeal
    <3>2. turn \in Nat /\ turn > clients[p].readyTurn
      BY <2>0, <3>1 DEF ClientTurn
    <3>3. Table(sealed)
      BY <1>1, <3>1, <3>2, TableUpdates
    <3>. HIDE DEF sealed
    <3>. QED  BY <1>1, <3>1, <3>3, ReleaseWatched
  <2>4. ASSUME NEW p \in Peer, LoadedGame(p) PROVE Watched
    BY <2>0, <2>4 DEF LoadedGame
  <2>5. ASSUME NEW p \in Peer, Disconnected(p) PROVE Watched
    <3>1. Table(Without(p))
      BY <1>1, TableUpdates
    <3>. QED  BY <1>1, <2>5, <3>1, ReleaseWatched DEF Disconnected
  <2>6. ASSUME NEW t \in 0 .. MaxClock, Tick(t) PROVE Watched
    BY <2>6 DEF Tick
  <2>. QED  BY <1>1, <2>1, <2>2, <2>3, <2>4, <2>5, <2>6 DEF Next
<1>2. IInv /\ [Next]_vars => [Watched]_vars
  BY <1>1
<1>. QED  BY <1>2, Invariance, PTL DEF Spec, AiHostNeverRunsAhead
=============================================================================
