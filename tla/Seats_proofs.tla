----------------------------- MODULE Seats_proofs -----------------------------
(***************************************************************************)
(* Proofs about Seats, for every set of names, uuids and slots, every      *)
(* limit on sessions and observers and every quota: sessions, rows, the    *)
(* controller and the pauses agree, and in a match every seat and what is  *)
(* left of its quota wait for its player.                                  *)
(*                                                                         *)
(* The inductive invariant adds to what the run checks why a name finds    *)
(* the row it left: slots are told apart unless they may be shared, so no  *)
(* row left behind is refused to the one coming back; and why there is     *)
(* room: in setup the sessions leave one place free, and from the start    *)
(* the rows that count do.                                                 *)
(***************************************************************************)
EXTENDS Seats, FiniteSetTheorems, TLAPS

\* A quota's pause is no younger than the clock has stepped back.
AgesWithin == \A u \in Uuid : budget.age[u] >= -skews

FiniteTables == IsFiniteSet(DOMAIN sessions) /\ IsFiniteSet(DOMAIN slots)

\* A slot that may not be shared has one row.
OneHolderEach == ~SharedSlots =>
    \A u, v \in DOMAIN slots : u # v /\ Plays(slots[u]) => slots[u].slot # slots[v].slot

\* In setup nobody is in the game yet, and a place is free.
RoomInSetup == phase = "setup" =>
    /\ \A u \in DOMAIN sessions : sessions[u].role = "setup"
    /\ Cardinality(DOMAIN sessions) < MaxSessions

IInv ==
    /\ TypeOK
    /\ AgesWithin
    /\ FiniteTables
    /\ OneHolderEach
    /\ RoomInSetup
    /\ Seated

-----------------------------------------------------------------------------
(* The quotas.                                                             *)

Aged(b, n) == \A u \in Uuid : b.age[u] >= -n

LEMMA NewBudgetType == NewBudget \in PauseBudgets /\ Aged(NewBudget, 0)
BY BudgetAssumption DEF NewBudget, PauseBudgets, Ages, OldPause, Aged

\* Lifting pauses costs what is still owed, and nobody gains.
LEMMA UnpausedAllKeeps ==
    ASSUME NEW b \in PauseBudgets, NEW n \in Nat, Aged(b, n), NEW us
    PROVE  LET c == UnpausedAll(b, us)
           IN  /\ c \in PauseBudgets /\ Aged(c, n)
               /\ c.pausing = b.pausing \ us
               /\ \A u \in Uuid : c.left[u] <= b.left[u]
<1>. DEFINE left == [u \in Uuid |-> IF u \in us \cap b.pausing
                                   THEN AtLeastZero(b.left[u] - Shortfall(b, u)) ELSE b.left[u]]
            age == [u \in Uuid |-> IF u \in us THEN OldPause ELSE b.age[u]]
<1>. USE BudgetAssumption
<1>1. b.pausing \in SUBSET Uuid /\ b.left \in [Uuid -> 0 .. Budget] /\ b.age \in [Uuid -> Ages] /\ b.held \in BOOLEAN
  BY DEF PauseBudgets
<1>2. OldPause \in Nat /\ OldPause \in Ages
  BY DEF OldPause, Ages
<1>3. ASSUME NEW u \in Uuid
      PROVE  left[u] \in 0 .. Budget /\ left[u] <= b.left[u]
  <2>1. b.left[u] \in 0 .. Budget /\ b.age[u] \in Int
    BY <1>1 DEF Ages, OldPause
  <2>2. Shortfall(b, u) \in Nat
    BY <2>1 DEF Shortfall, AtLeastZero
  <2>. QED  BY <2>1, <2>2 DEF AtLeastZero
<1>4. left \in [Uuid -> 0 .. Budget]
  BY <1>3
<1>5. age \in [Uuid -> Ages] /\ \A u \in Uuid : age[u] >= -n
  BY <1>1, <1>2 DEF Aged
<1>. HIDE DEF left, age
<1>6. UnpausedAll(b, us) = [pausing |-> b.pausing \ us, left |-> left, age |-> age, held |-> b.held]
  BY DEF UnpausedAll, left, age
<1>. QED  BY <1>1, <1>3, <1>4, <1>5, <1>6 DEF PauseBudgets, Aged

LEMMA PausedKeeps ==
    ASSUME NEW b \in PauseBudgets, NEW n \in Nat, Aged(b, n), NEW u \in Uuid
    PROVE  LET c == Paused(b, u)
           IN  /\ c \in PauseBudgets /\ Aged(c, n)
               /\ c.pausing = b.pausing \cup {u}
               /\ c.left = b.left
<1>. USE BudgetAssumption
<1>1. CASE u \in b.pausing
  BY <1>1 DEF Paused
<1>2. CASE u \notin b.pausing
  <2>1. b.pausing \in SUBSET Uuid /\ b.left \in [Uuid -> 0 .. Budget] /\ b.age \in [Uuid -> Ages] /\ b.held \in BOOLEAN
    BY DEF PauseBudgets
  <2>. DEFINE age == [b.age EXCEPT ![u] = 0]
  <2>2. age \in [Uuid -> Ages] /\ \A v \in Uuid : age[v] >= -n
    BY <2>1 DEF Ages, OldPause, Aged
  <2>. HIDE DEF age
  <2>3. Paused(b, u) = [pausing |-> b.pausing \cup {u}, left |-> b.left, age |-> age, held |-> b.held]
    BY <1>2 DEF Paused, age
  <2>. QED  BY <2>1, <2>2, <2>3 DEF PauseBudgets, Aged
<1>. QED  BY <1>1, <1>2

\* The one coming back has what the one who left had, and nobody else is touched.
LEMMA InheritKeeps ==
    ASSUME NEW b \in PauseBudgets, NEW n \in Nat, Aged(b, n),
           NEW old \in Uuid, NEW new \in Uuid
    PROVE  LET c == Inherit(b, old, new)
           IN  /\ c \in PauseBudgets /\ Aged(c, n)
               /\ c.pausing = b.pausing
               /\ new # old => c.left[new] = b.left[old]
               /\ \A u \in Uuid \ {old, new} : c.left[u] = b.left[u]
<1>. DEFINE left == [u \in Uuid |-> IF u = old THEN Budget
                                   ELSE IF u = new THEN b.left[old] ELSE b.left[u]]
<1>1. b.pausing \in SUBSET Uuid /\ b.left \in [Uuid -> 0 .. Budget] /\ b.age \in [Uuid -> Ages] /\ b.held \in BOOLEAN
  BY DEF PauseBudgets
<1>2. left \in [Uuid -> 0 .. Budget]
  BY <1>1, BudgetAssumption
<1>3. /\ new # old => left[new] = b.left[old]
      /\ \A u \in Uuid \ {old, new} : left[u] = b.left[u]
  OBVIOUS
<1>. HIDE DEF left
<1>4. Inherit(b, old, new) = [pausing |-> b.pausing, left |-> left, age |-> b.age, held |-> b.held]
  BY DEF Inherit, left
<1>. QED  BY <1>1, <1>2, <1>3, <1>4 DEF PauseBudgets, Aged

\* A check takes from quotas and never gives, whatever the clock did.
LEMMA CheckKeeps ==
    ASSUME NEW b \in PauseBudgets, NEW n \in 0 .. Skews, NEW m \in 0 .. Skews, Aged(b, n),
           NEW step \in Steps, m = (IF step = -1 THEN n + 1 ELSE n),
           NEW players \in Nat, NEW absent \in SUBSET Uuid
    PROVE  LET c == Check(b, step, players, absent)
           IN  /\ c \in PauseBudgets /\ Aged(c, m)
               /\ c.pausing \subseteq b.pausing
               /\ \A u \in Uuid : c.left[u] <= b.left[u]
<1>. USE BudgetAssumption
<1>. DEFINE elapsed == Elapsed(b, step)
            coordinated == players >= 2 /\ Cardinality(b.pausing) = players
            Charged(left, us) ==
                [u \in Uuid |-> IF u \in us THEN AtLeastZero(left[u] - elapsed) ELSE left[u]]
            drained == IF coordinated THEN b.left ELSE Charged(b.left, b.pausing)
            spent == {u \in b.pausing : drained[u] = 0}
            final == Charged(drained, absent)
            age == [u \in Uuid |-> IF u \in b.pausing \ spent
                                   THEN Capped(b.age[u] + step, OldPause) ELSE OldPause]
            held == \E u \in absent : final[u] > 0
<1>1. b.pausing \in SUBSET Uuid /\ b.left \in [Uuid -> 0 .. Budget] /\ b.age \in [Uuid -> Ages]
  BY DEF PauseBudgets
<1>2. elapsed \in Nat
  BY DEF Elapsed, AtLeastZero, Steps
<1>3. ASSUME NEW left \in [Uuid -> 0 .. Budget], NEW us
      PROVE  /\ Charged(left, us) \in [Uuid -> 0 .. Budget]
             /\ \A u \in Uuid : Charged(left, us)[u] <= left[u]
  <2>. SUFFICES ASSUME NEW u \in Uuid
                PROVE  Charged(left, us)[u] \in 0 .. Budget /\ Charged(left, us)[u] <= left[u]
    OBVIOUS
  <2>. HIDE DEF elapsed
  <2>1. left[u] \in 0 .. Budget
    OBVIOUS
  <2>. QED  BY <1>2, <2>1 DEF AtLeastZero
<1>. HIDE DEF Charged
<1>4. drained \in [Uuid -> 0 .. Budget] /\ \A u \in Uuid : drained[u] <= b.left[u]
  BY <1>1, <1>3
<1>. HIDE DEF drained
<1>5. final \in [Uuid -> 0 .. Budget] /\ \A u \in Uuid : final[u] <= drained[u]
  BY <1>3, <1>4
<1>6. \A u \in Uuid : final[u] <= b.left[u]
  <2>. SUFFICES ASSUME NEW u \in Uuid PROVE final[u] <= b.left[u]
    OBVIOUS
  <2>1. final[u] \in Int /\ drained[u] \in Int /\ b.left[u] \in Int
    BY <1>1, <1>4, <1>5
  <2>2. final[u] <= drained[u] /\ drained[u] <= b.left[u]
    BY <1>4, <1>5
  <2>. HIDE DEF final
  <2>. QED  BY <2>1, <2>2
<1>7. age \in [Uuid -> Ages] /\ \A u \in Uuid : age[u] >= -m
  <2>. SUFFICES ASSUME NEW u \in Uuid PROVE age[u] \in Ages /\ age[u] >= -m
    OBVIOUS
  <2>1. b.age[u] \in Ages /\ b.age[u] >= -n
    BY <1>1 DEF Aged
  <2>2. m \in Nat /\ m <= Skews /\ n \in Nat /\ step \in Int /\ b.age[u] + step >= -m
    BY <2>1 DEF Steps, Ages, OldPause
  <2>3. CASE u \in b.pausing \ spent
    <3>1. age[u] = Capped(b.age[u] + step, OldPause)
      BY <2>3
    <3>. QED  BY <2>1, <2>2, <3>1 DEF Capped, Ages, OldPause
  <2>4. CASE u \notin b.pausing \ spent
    <3>1. age[u] = OldPause
      BY <2>4
    <3>. QED  BY <2>2, <3>1 DEF Ages, OldPause
  <2>. QED  BY <2>3, <2>4
<1>8. held \in BOOLEAN
  OBVIOUS
<1>9. Check(b, step, players, absent)
        = [pausing |-> b.pausing \ spent, left |-> final, age |-> age, held |-> held]
  BY DEF Check, drained, Charged
<1>. HIDE DEF spent, final, age, held
<1>. QED  BY <1>1, <1>5, <1>6, <1>7, <1>8, <1>9 DEF PauseBudgets, Aged

-----------------------------------------------------------------------------
(* The invariant: what the handlers that keep the rows have in common.     *)

LEMMA InitInvariant == Init => IInv
<1>. SUFFICES ASSUME Init PROVE IInv
  OBVIOUS
<1>1. /\ phase = "setup" /\ sessions = << >> /\ slots = << >> /\ controller = None
      /\ forfeited = {} /\ resigned = {} /\ budget = NewBudget /\ skews = 0
  BY DEF Init
<1>2. DOMAIN sessions = {} /\ DOMAIN slots = {}
  BY <1>1
<1>3. sessions \in [DOMAIN sessions -> Session] /\ slots \in [DOMAIN slots -> Row]
  BY <1>1, <1>2
<1>4. TypeOK
  BY <1>1, <1>2, <1>3, NewBudgetType, BudgetAssumption DEF TypeOK
<1>5. AgesWithin
  BY <1>1, NewBudgetType DEF AgesWithin, Aged
<1>6. IsFiniteSet({}) /\ Cardinality({}) = 0
  BY FS_EmptySet
<1>7. FiniteTables /\ OneHolderEach
  BY <1>2, <1>6 DEF FiniteTables, OneHolderEach
<1>8. RoomInSetup
  BY <1>2, <1>6, SeatsAssumption DEF RoomInSetup
<1>9. Seated
  BY <1>1, <1>2 DEF Seated, SessionsHaveRows, OneRowEach, RoomToReturn, ControllerHere,
                    PausersPlay, Started, NewBudget
<1>. QED  BY <1>4, <1>5, <1>7, <1>8, <1>9 DEF IInv

\* Every row keeps its name and its slot, and none counts as connected that did not.
RowsStay ==
    /\ DOMAIN slots' = DOMAIN slots
    /\ slots' \in [DOMAIN slots -> Row]
    /\ \A u \in DOMAIN slots : /\ slots'[u].name = slots[u].name
                               /\ slots'[u].slot = slots[u].slot
                               /\ slots'[u].connected => slots[u].connected

\* The quotas have their type, and nobody's has grown.
QuotasShrink ==
    /\ budget' \in PauseBudgets /\ AgesWithin'
    /\ \A u \in Uuid : budget'.left[u] <= budget.left[u]

\* What SeatsKept asks of a step of a match.
SeatsStay ==
    /\ \A u \in DOMAIN slots : Plays(slots[u]) =>
          \E v \in DOMAIN slots' : /\ slots'[v].name = slots[u].name
                                   /\ slots'[v].slot = slots[u].slot
                                   /\ budget'.left[v] <= budget.left[u]
    /\ \A v \in DOMAIN slots' : Plays(slots'[v]) =>
          \E u \in DOMAIN slots : /\ slots'[v].name = slots[u].name
                                  /\ slots'[v].slot = slots[u].slot

LEMMA SameRows == TypeOK /\ UNCHANGED slots => RowsStay
BY DEF TypeOK, RowsStay

LEMMA SameQuotas == IInv /\ UNCHANGED <<budget, skews>> => QuotasShrink
<1>. SUFFICES ASSUME IInv, UNCHANGED <<budget, skews>> PROVE QuotasShrink
  OBVIOUS
<1>1. budget \in PauseBudgets /\ AgesWithin
  BY DEF IInv, TypeOK
<1>2. \A u \in Uuid : budget.left[u] \in Int
  BY <1>1, BudgetAssumption DEF PauseBudgets
<1>. QED  BY <1>1, <1>2 DEF QuotasShrink, AgesWithin

LEMMA MarkedRows ==
    ASSUME TypeOK, NEW us, slots' = MarkDisconnected(slots, us)
    PROVE  /\ RowsStay
           /\ \A u \in DOMAIN slots \cap us : ~slots'[u].connected
<1>1. \A u \in DOMAIN slots : /\ slots[u] \in Row
                              /\ slots'[u] = IF u \in us THEN Disconnect(slots[u]) ELSE slots[u]
  BY DEF TypeOK, MarkDisconnected
<1>2. DOMAIN slots' = DOMAIN slots /\ slots' = [u \in DOMAIN slots |-> slots'[u]]
  BY DEF MarkDisconnected
<1>3. ASSUME NEW u \in DOMAIN slots
      PROVE  /\ slots'[u] \in Row
             /\ slots'[u].name = slots[u].name
             /\ slots'[u].slot = slots[u].slot
             /\ slots'[u].connected => slots[u].connected
             /\ u \in us => ~slots'[u].connected
  <2>1. slots[u] \in Row
    BY <1>1
  <2>2. CASE u \in us
    <3>1. slots'[u] = Disconnect(slots[u])
      BY <1>1, <2>2
    <3>. QED  BY <2>1, <3>1 DEF Disconnect, Row
  <2>3. CASE u \notin us
    <3>1. slots'[u] = slots[u]
      BY <1>1, <2>3
    <3>. QED  BY <2>1, <2>3, <3>1
  <2>. QED  BY <2>2, <2>3
<1>4. slots' \in [DOMAIN slots -> Row]
  BY <1>2, <1>3
<1>. QED  BY <1>2, <1>3, <1>4 DEF RowsStay

\* Rows that stay keep their names and slots apart, and the room that was left.
LEMMA RowsStayApart ==
    ASSUME IInv, RowsStay, phase' # "setup" => phase # "setup"
    PROVE  OneHolderEach' /\ OneRowEach' /\ RoomToReturn' /\ IsFiniteSet(DOMAIN slots')
<1>1. OneHolderEach'
  BY DEF IInv, OneHolderEach, RowsStay, Plays
<1>2. OneRowEach'
  BY DEF IInv, Seated, OneRowEach, RowsStay, Started
<1>3. IsFiniteSet(DOMAIN slots')
  BY DEF IInv, FiniteTables, RowsStay
<1>4. RoomToReturn'
  <2>. SUFFICES ASSUME phase' # "setup"
                PROVE  Cardinality({u \in DOMAIN slots' : slots'[u].connected \/ Plays(slots'[u])}) < MaxSessions
    BY DEF RoomToReturn, Started
  <2>. DEFINE counted == {u \in DOMAIN slots : slots[u].connected \/ Plays(slots[u])}
              counts == {u \in DOMAIN slots' : slots'[u].connected \/ Plays(slots'[u])}
  <2>1. Cardinality(counted) < MaxSessions
    BY DEF IInv, Seated, RoomToReturn, Started
  <2>2. IsFiniteSet(counted)
    BY FS_Subset DEF IInv, FiniteTables
  <2>3. counts \subseteq counted
    BY DEF RowsStay, Plays
  <2>. HIDE DEF counted, counts
  <2>4. Cardinality(counts) <= Cardinality(counted) /\ Cardinality(counts) \in Nat /\ Cardinality(counted) \in Nat
    BY <2>2, <2>3, FS_Subset, FS_CardinalityType
  <2>5. Cardinality(counts) < MaxSessions
    BY <2>1, <2>4, SeatsAssumption
  <2>. QED  BY <2>5 DEF counts
<1>. QED  BY <1>1, <1>2, <1>3, <1>4

LEMMA RowsStaySeats ==
    ASSUME IInv, RowsStay, QuotasShrink
    PROVE  SeatsStay
BY DEF IInv, TypeOK, RowsStay, QuotasShrink, SeatsStay, Plays

\* A step that leaves rows, sessions and controller alone and takes nobody into a pause.
LEMMA QuietStep ==
    ASSUME IInv, UNCHANGED <<sessions, slots, controller>>, QuotasShrink,
           budget'.pausing \subseteq budget.pausing,
           phase' \in {"setup", "loading", "ingame", "postgame"},
           phase' = "setup" <=> phase = "setup",
           forfeited' \in SUBSET Uuid, resigned' \in SUBSET Slot, skews' \in 0 .. Skews
    PROVE  IInv' /\ SeatsStay
<1>1. RowsStay
  BY SameRows DEF IInv
<1>2. TypeOK' /\ AgesWithin' /\ FiniteTables'
  BY DEF IInv, TypeOK, FiniteTables, QuotasShrink
<1>3. RoomInSetup'
  BY DEF IInv, RoomInSetup
<1>4. SessionsHaveRows' /\ ControllerHere' /\ PausersPlay'
  BY DEF IInv, Seated, SessionsHaveRows, ControllerHere, PausersPlay, IsPlayer
<1>. QED  BY <1>1, <1>2, <1>3, <1>4, RowsStayApart, RowsStaySeats DEF IInv, Seated

-----------------------------------------------------------------------------
(* The invariant: the handlers of a match.                                 *)

LEMMA TickKeeps ==
    ASSUME IInv, NEW step \in Steps, NEW silent, Tick(step, silent)
    PROVE  IInv' /\ SeatsStay
<1>. DEFINE players == Cardinality(ConnectedPlayers)
            absent == IF phase = "ingame" THEN Absent(silent) ELSE {}
<1>1. /\ budget' = Check(budget, step, players, absent)
      /\ skews' = (IF step = -1 THEN skews + 1 ELSE skews)
      /\ step = -1 => skews < Skews
      /\ UNCHANGED <<phase, sessions, slots, controller, forfeited, resigned>>
  BY DEF Tick
<1>2. budget \in PauseBudgets /\ Aged(budget, skews) /\ skews \in 0 .. Skews
  BY DEF IInv, TypeOK, AgesWithin, Aged
<1>3. skews' \in 0 .. Skews
  BY <1>1, <1>2, BudgetAssumption
<1>4. players \in Nat
  <2>1. ConnectedPlayers \subseteq DOMAIN slots
    BY DEF ConnectedPlayers
  <2>. QED  BY <2>1, FS_Subset, FS_CardinalityType DEF IInv, FiniteTables
<1>5. absent \in SUBSET Uuid
  BY DEF Absent, IInv, TypeOK
<1>. HIDE DEF players, absent
<1>6. /\ budget' \in PauseBudgets /\ Aged(budget', skews')
      /\ budget'.pausing \subseteq budget.pausing
      /\ \A u \in Uuid : budget'.left[u] <= budget.left[u]
  BY <1>1, <1>2, <1>3, <1>4, <1>5, CheckKeeps
<1>7. QuotasShrink
  BY <1>6 DEF QuotasShrink, AgesWithin, Aged
<1>8. /\ UNCHANGED <<sessions, slots, controller>>
      /\ phase' \in {"setup", "loading", "ingame", "postgame"}
      /\ phase' = "setup" <=> phase = "setup"
      /\ forfeited' \in SUBSET Uuid /\ resigned' \in SUBSET Slot
  BY <1>1 DEF IInv, TypeOK
<1>. QED  BY <1>3, <1>6, <1>7, <1>8, QuietStep

LEMMA EndMatchKeeps ==
    ASSUME IInv, MatchDecided \/ \E u \in DOMAIN sessions : Resign(u)
    PROVE  IInv' /\ SeatsStay
<1>1. /\ UNCHANGED <<sessions, slots, controller, budget, skews>>
      /\ phase = "ingame" /\ phase' \in {"ingame", "postgame"}
      /\ forfeited' \in SUBSET Uuid
  BY DEF MatchDecided, Resign, EndMatch, IInv, TypeOK
<1>2. resigned' \in SUBSET Slot
  <2>1. CASE MatchDecided
    BY <2>1 DEF MatchDecided, EndMatch
  <2>2. ASSUME NEW u \in DOMAIN sessions, Resign(u)
        PROVE  resigned' \in SUBSET Slot
    BY <2>2 DEF Resign, EndMatch, IsPlayer, IInv, TypeOK
  <2>. QED  BY <2>1, <2>2
<1>3. QuotasShrink
  BY <1>1, SameQuotas
<1>4. skews' \in 0 .. Skews /\ budget'.pausing \subseteq budget.pausing
  BY <1>1 DEF IInv, TypeOK
<1>. QED  BY <1>1, <1>2, <1>3, <1>4, QuietStep

LEMMA PlayerPauseKeeps ==
    ASSUME IInv, NEW u \in DOMAIN sessions, NEW pause \in BOOLEAN, PlayerPause(u, pause)
    PROVE  IInv' /\ SeatsStay
<1>1. /\ phase \in {"ingame", "postgame"} /\ sessions[u].role = "ingame"
      /\ pause => IsPlayer(u)
      /\ budget' = (IF pause THEN Paused(budget, u) ELSE Unpaused(budget, u))
      /\ UNCHANGED <<phase, sessions, slots, controller, forfeited, resigned, skews>>
  BY DEF PlayerPause
<1>2. /\ budget \in PauseBudgets /\ Aged(budget, skews) /\ skews \in Nat /\ u \in Uuid
      /\ skews \in 0 .. Skews
  BY BudgetAssumption DEF IInv, TypeOK, AgesWithin, Aged
<1>3. \A v \in Uuid : budget.left[v] \in Int
  BY <1>2, BudgetAssumption DEF PauseBudgets
<1>4. CASE ~pause
  <2>1. budget' = UnpausedAll(budget, {u})
    BY <1>1, <1>4 DEF Unpaused
  <2>2. /\ budget' \in PauseBudgets /\ Aged(budget', skews)
        /\ budget'.pausing \subseteq budget.pausing
        /\ \A v \in Uuid : budget'.left[v] <= budget.left[v]
    BY <1>2, <2>1, UnpausedAllKeeps
  <2>3. QuotasShrink
    BY <1>1, <2>2 DEF QuotasShrink, AgesWithin, Aged
  <2>. QED  BY <1>1, <1>2, <2>2, <2>3, QuietStep DEF IInv, TypeOK
<1>5. CASE pause
  <2>1. budget' = Paused(budget, u)
    BY <1>1, <1>5
  <2>2. /\ budget' \in PauseBudgets /\ Aged(budget', skews)
        /\ budget'.pausing = budget.pausing \cup {u}
        /\ budget'.left = budget.left
    BY <1>2, <2>1, PausedKeeps
  <2>3. QuotasShrink
    BY <1>1, <1>3, <2>2 DEF QuotasShrink, AgesWithin, Aged
  <2>4. RowsStay
    BY <1>1, SameRows DEF IInv
  <2>5. TypeOK' /\ AgesWithin' /\ FiniteTables' /\ RoomInSetup'
    BY <1>1, <2>3 DEF IInv, TypeOK, FiniteTables, RoomInSetup, QuotasShrink
  <2>6. SessionsHaveRows' /\ ControllerHere' /\ PausersPlay'
    BY <1>1, <1>5, <2>2 DEF IInv, Seated, SessionsHaveRows, ControllerHere, PausersPlay, IsPlayer
  <2>. QED  BY <1>1, <2>3, <2>4, <2>5, <2>6, RowsStayApart, RowsStaySeats DEF IInv, Seated
<1>. QED  BY <1>4, <1>5

\* Told to leave, or kicked: the row counts as left, the session stays.
LEMMA MarkKeeps ==
    ASSUME IInv, NEW u, slots' = MarkDisconnected(slots, {u}), forfeited' \in SUBSET Uuid,
           UNCHANGED <<phase, sessions, controller, resigned, budget, skews>>
    PROVE  IInv' /\ SeatsStay
<1>1. RowsStay
  BY MarkedRows DEF IInv
<1>2. QuotasShrink
  BY SameQuotas
<1>3. TypeOK' /\ AgesWithin' /\ RoomInSetup'
  BY <1>1 DEF IInv, TypeOK, AgesWithin, RoomInSetup, RowsStay
<1>4. FiniteTables'
  BY <1>1 DEF IInv, FiniteTables, RowsStay
<1>5. SessionsHaveRows' /\ ControllerHere' /\ PausersPlay'
  BY <1>1 DEF IInv, Seated, SessionsHaveRows, ControllerHere, PausersPlay, IsPlayer, RowsStay
<1>. QED  BY <1>1, <1>2, <1>3, <1>4, <1>5, RowsStayApart, RowsStaySeats DEF IInv, Seated

\* Gone: no session, no pause, no controller is left of those who are.
LEMMA DepartedKeeps ==
    ASSUME IInv, NEW us, Departed(us),
           phase' = phase \/ (phase = "loading" /\ phase' = "ingame"),
           UNCHANGED <<forfeited, resigned, skews>>
    PROVE  IInv' /\ SeatsStay
<1>1. /\ sessions' = [v \in DOMAIN sessions \ us |-> sessions[v]]
      /\ slots' = MarkDisconnected(slots, us)
      /\ budget' = UnpausedAll(budget, us)
      /\ controller' = IF ReleaseController /\ controller \in us THEN None ELSE controller
  <2>1. DOMAIN sessions \ (DOMAIN sessions \cap us) = DOMAIN sessions \ us
    OBVIOUS
  <2>. QED  BY <2>1 DEF Departed, Remaining, Restrict
<1>2. RowsStay /\ \A u \in DOMAIN slots \cap us : ~slots'[u].connected
  BY <1>1, MarkedRows DEF IInv
<1>3. /\ budget' \in PauseBudgets /\ Aged(budget', skews)
      /\ budget'.pausing = budget.pausing \ us
      /\ \A u \in Uuid : budget'.left[u] <= budget.left[u]
  <2>1. budget \in PauseBudgets /\ Aged(budget, skews) /\ skews \in Nat
    BY BudgetAssumption DEF IInv, TypeOK, AgesWithin, Aged
  <2>. QED  BY <1>1, <2>1, UnpausedAllKeeps
<1>4. QuotasShrink
  BY <1>3 DEF QuotasShrink, AgesWithin, Aged
<1>5. /\ DOMAIN sessions' \subseteq DOMAIN sessions
      /\ DOMAIN sessions' = DOMAIN sessions \ us
      /\ \A u \in DOMAIN sessions' : sessions'[u] = sessions[u]
  BY <1>1
<1>6. TypeOK'
  BY <1>1, <1>2, <1>3, <1>5 DEF IInv, TypeOK, RowsStay
<1>7. FiniteTables' /\ Cardinality(DOMAIN sessions') <= Cardinality(DOMAIN sessions)
  BY <1>2, <1>5, FS_Subset DEF IInv, FiniteTables, RowsStay
<1>8. RoomInSetup'
  <2>1. Cardinality(DOMAIN sessions') \in Nat /\ Cardinality(DOMAIN sessions) \in Nat
    BY <1>7, FS_CardinalityType DEF IInv, FiniteTables
  <2>2. CASE phase' = "setup"
    <3>1. phase = "setup" /\ Cardinality(DOMAIN sessions) < MaxSessions
      BY <2>2 DEF IInv, RoomInSetup
    <3>. QED  BY <1>5, <1>7, <2>1, <3>1, SeatsAssumption DEF IInv, RoomInSetup
  <2>. QED  BY <2>2 DEF RoomInSetup
<1>9. SessionsHaveRows'
  BY <1>2, <1>5 DEF IInv, Seated, SessionsHaveRows, RowsStay
<1>10. ControllerHere'
  BY <1>1, <1>5 DEF IInv, Seated, ControllerHere
<1>11. PausersPlay'
  BY <1>2, <1>3, <1>5 DEF IInv, Seated, PausersPlay, IsPlayer, RowsStay
<1>. QED  BY <1>2, <1>4, <1>6, <1>7, <1>8, <1>9, <1>10, <1>11, RowsStayApart, RowsStaySeats
          DEF IInv, Seated, QuotasShrink

\* One more client is in the game.
LEMMA LoadedKeeps ==
    ASSUME IInv, NEW u \in DOMAIN sessions, LoadedGame(u) \/ JoinerLoaded(u)
    PROVE  IInv' /\ SeatsStay
<1>1. /\ phase # "setup" /\ phase' # "setup"
      /\ phase' \in {"setup", "loading", "ingame", "postgame"}
      /\ sessions' = [sessions EXCEPT ![u] = Loaded(@)]
      /\ UNCHANGED <<slots, controller, forfeited, resigned, budget, skews>>
  BY DEF LoadedGame, JoinerLoaded, IInv, TypeOK
<1>2. /\ DOMAIN sessions' = DOMAIN sessions
      /\ sessions' \in [DOMAIN sessions -> Session]
      /\ \A v \in DOMAIN sessions : /\ sessions'[v].name = sessions[v].name
                                    /\ sessions[v].role = "ingame" => sessions'[v].role = "ingame"
  <2>1. sessions \in [DOMAIN sessions -> Session]
    BY DEF IInv, TypeOK
  <2>2. Loaded(sessions[u]) \in Session /\ Loaded(sessions[u]).name = sessions[u].name
        /\ Loaded(sessions[u]).role = "ingame"
    BY <2>1 DEF Loaded, Session
  <2>. QED  BY <1>1, <2>1, <2>2
<1>3. RowsStay /\ QuotasShrink
  BY <1>1, SameRows, SameQuotas DEF IInv
<1>4. TypeOK' /\ AgesWithin' /\ FiniteTables' /\ RoomInSetup'
  BY <1>1, <1>2 DEF IInv, TypeOK, AgesWithin, FiniteTables, RoomInSetup
<1>5. SessionsHaveRows' /\ ControllerHere' /\ PausersPlay'
  BY <1>1, <1>2 DEF IInv, Seated, SessionsHaveRows, ControllerHere, PausersPlay, IsPlayer
<1>. QED  BY <1>1, <1>3, <1>4, <1>5, RowsStayApart, RowsStaySeats DEF IInv, Seated

-----------------------------------------------------------------------------
(* The invariant: the handlers of setup.                                   *)

LEMMA NobodyPausesInSetup == IInv /\ phase = "setup" => budget.pausing = {}
BY DEF IInv, RoomInSetup, Seated, PausersPlay

\* The controller deals slots out, or a player shares its own: rows stay whose they are.
LEMMA SetupKeeps ==
    ASSUME IInv, phase = "setup", DOMAIN slots' = DOMAIN slots,
           slots' \in [DOMAIN slots -> Row],
           \A v \in DOMAIN slots : /\ slots'[v].name = slots[v].name
                                   /\ slots'[v].connected = slots[v].connected,
           OneHolderEach',
           UNCHANGED <<phase, sessions, controller, forfeited, resigned, budget, skews>>
    PROVE  IInv'
<1>1. TypeOK' /\ AgesWithin' /\ FiniteTables' /\ RoomInSetup'
  BY DEF IInv, TypeOK, AgesWithin, FiniteTables, RoomInSetup
<1>2. SessionsHaveRows' /\ ControllerHere'
  BY DEF IInv, Seated, SessionsHaveRows, ControllerHere
<1>3. OneRowEach' /\ RoomToReturn'
  BY DEF OneRowEach, RoomToReturn, Started
<1>4. PausersPlay'
  BY NobodyPausesInSetup DEF PausersPlay
<1>. QED  BY <1>1, <1>2, <1>3, <1>4 DEF IInv, Seated

LEMMA SeatType ==
    ASSUME NEW row \in Row, NEW slot \in Slot \cup {Unassigned}
    PROVE  /\ Seat(row, slot) \in Row
           /\ Seat(row, slot).name = row.name
           /\ Seat(row, slot).slot = slot
           /\ Seat(row, slot).connected = row.connected
BY DEF Seat, Row

LEMMA AssignKeeps ==
    ASSUME IInv, NEW slot \in Slot \cup {Unassigned}, NEW u \in DOMAIN slots,
           MapPlayerIdToSlot(slot, u)
    PROVE  IInv'
<1>1. /\ phase = "setup" /\ slots' = AssignSlot(slots, slot, u)
      /\ UNCHANGED <<phase, sessions, controller, forfeited, resigned, budget, skews>>
  BY DEF MapPlayerIdToSlot
<1>. DEFINE held(v) == IF v = u THEN slot
                       ELSE IF slot # Unassigned /\ slots[v].slot = slot THEN Unassigned
                            ELSE slots[v].slot
<1>2. ASSUME NEW v \in DOMAIN slots
      PROVE  /\ slots'[v] \in Row /\ slots'[v].name = slots[v].name
             /\ slots'[v].slot = held(v)
             /\ slots'[v].connected = slots[v].connected
  <2>1. slots[v] \in Row
    BY DEF IInv, TypeOK
  <2>2. CASE v = u
    <3>1. slots'[v] = Seat(slots[v], slot)
      BY <1>1, <2>2 DEF AssignSlot
    <3>. QED  BY <2>1, <2>2, <3>1, SeatType
  <2>3. CASE v # u /\ slot # Unassigned /\ slots[v].slot = slot
    <3>1. slots'[v] = Seat(slots[v], Unassigned)
      BY <1>1, <2>3 DEF AssignSlot
    <3>. QED  BY <2>1, <2>3, <3>1, SeatType
  <2>4. CASE v # u /\ ~(slot # Unassigned /\ slots[v].slot = slot)
    <3>1. slots'[v] = slots[v]
      BY <1>1, <2>4 DEF AssignSlot
    <3>. QED  BY <2>1, <2>4, <3>1
  <2>. QED  BY <2>2, <2>3, <2>4
<1>3. DOMAIN slots' = DOMAIN slots /\ slots' = [v \in DOMAIN slots |-> slots'[v]]
  BY <1>1 DEF AssignSlot
<1>4. slots' \in [DOMAIN slots -> Row]
  BY <1>2, <1>3
<1>5. OneHolderEach'
  <2>. SUFFICES ASSUME ~SharedSlots, NEW v \in DOMAIN slots, NEW w \in DOMAIN slots, v # w,
                       held(v) # Unassigned
                PROVE  held(v) # held(w)
    BY <1>2, <1>3 DEF OneHolderEach, Plays
  <2>. QED  BY DEF IInv, OneHolderEach, Plays
<1>. QED  BY <1>1, <1>2, <1>3, <1>4, <1>5, SetupKeeps

LEMMA ShareKeeps ==
    ASSUME IInv, NEW u \in DOMAIN sessions, NEW partner \in DOMAIN sessions,
           ShareCommand(u, partner)
    PROVE  IInv'
<1>1. /\ phase = "setup" /\ SharedSlots /\ IsPlayer(u)
      /\ slots' = ShareSlot(slots, slots[u].slot, partner)
      /\ UNCHANGED <<phase, sessions, controller, forfeited, resigned, budget, skews>>
  BY DEF ShareCommand
<1>2. slots[u].slot \in Slot \cup {Unassigned}
  BY <1>1 DEF IsPlayer
<1>3. ASSUME NEW v \in DOMAIN slots
      PROVE  /\ slots'[v] \in Row /\ slots'[v].name = slots[v].name
             /\ slots'[v].connected = slots[v].connected
  <2>1. slots[v] \in Row
    BY DEF IInv, TypeOK
  <2>2. slots'[v] = slots[v] \/ slots'[v] = Seat(slots[v], slots[u].slot)
    BY <1>1 DEF ShareSlot
  <2>. QED  BY <1>2, <2>1, <2>2, SeatType
<1>4. DOMAIN slots' = DOMAIN slots /\ slots' = [v \in DOMAIN slots |-> slots'[v]]
  BY <1>1 DEF ShareSlot
<1>5. slots' \in [DOMAIN slots -> Row]
  BY <1>3, <1>4
<1>6. OneHolderEach'
  BY <1>1 DEF OneHolderEach
<1>. QED  BY <1>1, <1>3, <1>4, <1>5, <1>6, SetupKeeps

\* Only the rows of who is here are taken into the match, so names are told
\* apart and a place stays free.
LEMMA StartKeeps ==
    ASSUME IInv, StartSettings
    PROVE  IInv'
<1>. DEFINE here == {u \in DOMAIN slots : slots[u].connected}
<1>1. /\ phase = "setup" /\ phase' = "loading"
      /\ slots' = [u \in here |-> slots[u]]
      /\ forfeited' = forfeited \cap DOMAIN slots'
      /\ UNCHANGED <<sessions, controller, resigned, budget, skews>>
  <2>1. here \cap DOMAIN slots = here
    OBVIOUS
  <2>. QED  BY <2>1 DEF StartSettings, SettingsAccepted, PurgeDisconnected, Restrict
<1>2. /\ DOMAIN slots' = here
      /\ \A u \in here : slots'[u] = slots[u] /\ u \in DOMAIN slots /\ u \in DOMAIN sessions
                         /\ sessions[u].name = slots[u].name
  BY <1>1 DEF IInv, Seated, SessionsHaveRows
<1>3. slots' \in [here -> Row]
  BY <1>1 DEF IInv, TypeOK
<1>4. TypeOK' /\ AgesWithin' /\ RoomInSetup'
  BY <1>1, <1>2, <1>3 DEF IInv, TypeOK, AgesWithin, RoomInSetup
<1>5. FiniteTables'
  BY <1>1, <1>2, FS_Subset DEF IInv, FiniteTables
<1>6. OneHolderEach'
  BY <1>2 DEF IInv, OneHolderEach, Plays
<1>7. SessionsHaveRows' /\ ControllerHere' /\ OneRowEach'
  BY <1>1, <1>2 DEF IInv, Seated, SessionsHaveRows, ControllerHere, OneRowEach
<1>8. PausersPlay'
  BY <1>1, NobodyPausesInSetup DEF PausersPlay
<1>9. RoomToReturn'
  <2>. DEFINE counts == {u \in DOMAIN slots' : slots'[u].connected \/ Plays(slots'[u])}
  <2>1. counts \subseteq DOMAIN sessions
    BY <1>2
  <2>. HIDE DEF counts
  <2>2. IsFiniteSet(DOMAIN sessions) /\ Cardinality(DOMAIN sessions) < MaxSessions
    BY <1>1 DEF IInv, FiniteTables, RoomInSetup
  <2>3. Cardinality(counts) <= Cardinality(DOMAIN sessions)
        /\ Cardinality(counts) \in Nat /\ Cardinality(DOMAIN sessions) \in Nat
    BY <2>1, <2>2, FS_Subset, FS_CardinalityType
  <2>4. Cardinality(counts) < MaxSessions
    BY <2>2, <2>3, SeatsAssumption
  <2>. QED  BY <2>4 DEF RoomToReturn, counts
<1>. QED  BY <1>4, <1>5, <1>6, <1>7, <1>8, <1>9 DEF IInv, Seated

-----------------------------------------------------------------------------
(* The invariant: arriving.                                                *)

\* A row of the one who asks to come in is one it left behind, and it may have it.
LEMMA ItsRowsAreFree ==
    ASSUME IInv, NEW name, Accepted(name), NEW v \in DOMAIN slots, slots[v].name = name
    PROVE  v \notin DOMAIN sessions /\ Free(slots, v)
<1>1. v \notin DOMAIN sessions /\ ~slots[v].connected
  BY DEF Accepted, IInv, Seated, SessionsHaveRows
<1>2. ASSUME ~SharedSlots, Plays(slots[v]), NEW w \in DOMAIN slots,
             slots[w].connected, slots[w].slot = slots[v].slot
      PROVE  FALSE
  BY <1>1, <1>2 DEF IInv, OneHolderEach
<1>. QED  BY <1>1, <1>2 DEF Free

\* The rows that count are those of sessions and of players who left.
LEMMA RowsCounted ==
    ASSUME IInv, NEW pending \in Handshakes, RoomForObserver(pending)
    PROVE  Cardinality({v \in DOMAIN slots : slots[v].connected \/ Plays(slots[v])}) + 1 < MaxSessions
<1>. DEFINE counted == {v \in DOMAIN slots : slots[v].connected \/ Plays(slots[v])}
            here == DOMAIN sessions
            gone == DisconnectedPlayers
<1>1. IsFiniteSet(here) /\ IsFiniteSet(gone)
  BY FS_Subset DEF IInv, FiniteTables, DisconnectedPlayers
<1>2. counted \subseteq here \cup gone
  BY DEF IInv, Seated, SessionsHaveRows, DisconnectedPlayers
<1>3. Cardinality(here) + pending + Cardinality(gone) < MaxSessions
  BY DEF RoomForObserver, Present
<1>. HIDE DEF counted, here, gone
<1>4. /\ IsFiniteSet(here \cup gone)
      /\ Cardinality(here \cup gone) = Cardinality(here) + Cardinality(gone) - Cardinality(here \cap gone)
  BY <1>1, FS_Union
<1>5. /\ Cardinality(here) \in Nat /\ Cardinality(gone) \in Nat
      /\ Cardinality(here \cap gone) \in Nat /\ Cardinality(here \cup gone) \in Nat
  BY <1>1, <1>4, FS_CardinalityType, FS_Subset
<1>6. Cardinality(counted) <= Cardinality(here \cup gone) /\ Cardinality(counted) \in Nat
  BY <1>2, <1>4, FS_Subset, FS_CardinalityType
<1>7. pending \in Nat /\ pending >= 1 /\ MaxSessions \in Nat
  BY SeatsAssumption DEF Handshakes
<1>8. Cardinality(counted) + 1 < MaxSessions
  BY <1>3, <1>4, <1>5, <1>6, <1>7
<1>. QED  BY <1>8 DEF counted

\* What every admission does, and what it says of the one admitted.
Arrives(u, name) ==
    /\ u \in Uuid /\ u \notin DOMAIN sessions /\ u \notin DOMAIN slots /\ name \in Name
    /\ sessions' = [v \in DOMAIN sessions \cup {u} |-> sessions'[v]]
    /\ sessions'[u] = [name |-> name, role |-> IF phase = "setup" THEN "setup" ELSE "syncing"]
    /\ \A v \in DOMAIN sessions : sessions'[v] = sessions[v]
    /\ controller' \in {u, controller}
    /\ UNCHANGED <<phase, resigned, skews>>

LEMMA ArrivesKeeps ==
    ASSUME IInv, NEW name, NEW pending \in Handshakes, NEW u, Arrives(u, name),
           Accepted(name), Admits(name, pending)
    PROVE  /\ DOMAIN sessions' \subseteq Uuid /\ sessions' \in [DOMAIN sessions' -> Session]
           /\ controller' \in Uuid \cup {None}
           /\ IsFiniteSet(DOMAIN sessions')
           /\ RoomInSetup' /\ ControllerHere'
           /\ phase \in {"setup", "ingame"}
<1>1. /\ DOMAIN sessions \subseteq Uuid /\ sessions \in [DOMAIN sessions -> Session]
      /\ controller \in Uuid \cup {None} /\ IsFiniteSet(DOMAIN sessions)
      /\ phase \in {"setup", "loading", "ingame", "postgame"}
  BY DEF IInv, TypeOK, FiniteTables
<1>2. phase \in {"setup", "ingame"}
  BY <1>1 DEF Accepted, Admits
<1>3. sessions'[u] \in Session /\ \A v \in DOMAIN sessions : sessions'[v] \in Session
  BY <1>1 DEF Arrives, Session
<1>4. DOMAIN sessions' \subseteq Uuid /\ sessions' \in [DOMAIN sessions' -> Session]
  BY <1>1, <1>3 DEF Arrives
<1>5. /\ IsFiniteSet(DOMAIN sessions')
      /\ Cardinality(DOMAIN sessions') = Cardinality(DOMAIN sessions) + 1
  BY <1>1, FS_AddElement DEF Arrives
<1>6. RoomInSetup'
  <2>. SUFFICES ASSUME phase' = "setup" PROVE RoomInSetup'
    BY DEF RoomInSetup
  <2>1. phase = "setup"
    BY DEF Arrives
  <2>2. Cardinality(DOMAIN sessions) + pending < MaxSessions
    BY <2>1 DEF Admits, Present
  <2>3. Cardinality(DOMAIN sessions) \in Nat /\ pending \in Nat /\ pending >= 1 /\ MaxSessions \in Nat
    BY <1>1, FS_CardinalityType, SeatsAssumption DEF Handshakes
  <2>4. Cardinality(DOMAIN sessions') < MaxSessions
    BY <1>5, <2>2, <2>3
  <2>5. \A v \in DOMAIN sessions' : sessions'[v].role = "setup"
    BY <2>1 DEF Arrives, IInv, RoomInSetup
  <2>. QED  BY <2>4, <2>5 DEF RoomInSetup
<1>7. ControllerHere'
  BY DEF Arrives, IInv, Seated, ControllerHere
<1>. QED  BY <1>1, <1>2, <1>4, <1>5, <1>6, <1>7 DEF Arrives

LEMMA AdmittedType ==
    ASSUME NEW name \in Name, NEW slot \in Slot \cup {Unassigned}, NEW row,
           row = [name |-> name, slot |-> slot, connected |-> TRUE]
    PROVE  row \in Row /\ row.name = name /\ row.slot = slot /\ row.connected
BY DEF Row

NewRow(u, name) ==
    /\ slots' = With(slots, u, [name |-> name, slot |-> Unassigned, connected |-> TRUE])
    /\ UNCHANGED <<budget, forfeited>>

TakenOver(u, name, old) ==
    /\ slots' = With(Restrict(slots, DOMAIN slots \ {old}), u,
                     [name |-> name, slot |-> slots[old].slot, connected |-> TRUE])
    /\ budget' = Inherit(budget, old, u)
    /\ forfeited' = forfeited \ {old}

\* A name nobody left a row for: it watches, in a match, and there is room.
LEMMA NewRowKeeps ==
    ASSUME IInv, NEW name, NEW pending \in Handshakes, NEW u, Arrives(u, name),
           Accepted(name), Admits(name, pending),
           phase = "ingame" => Recoverable(slots, u, name) = {},
           NewRow(u, name)
    PROVE  IInv' /\ (Started => SeatsStay)
<1>1. /\ DOMAIN sessions' \subseteq Uuid /\ sessions' \in [DOMAIN sessions' -> Session]
      /\ controller' \in Uuid \cup {None}
      /\ IsFiniteSet(DOMAIN sessions')
      /\ RoomInSetup' /\ ControllerHere'
      /\ phase \in {"setup", "ingame"}
  BY ArrivesKeeps
<1>2. /\ u \in Uuid /\ u \notin DOMAIN sessions /\ u \notin DOMAIN slots /\ name \in Name
      /\ phase' = phase
  BY DEF Arrives
<1>3. /\ DOMAIN slots' = DOMAIN slots \cup {u}
      /\ slots'[u] = [name |-> name, slot |-> Unassigned, connected |-> TRUE]
      /\ \A v \in DOMAIN slots : slots'[v] = slots[v]
  BY <1>2 DEF NewRow, With
<1>4. /\ slots'[u] \in Row /\ slots'[u].name = name /\ slots'[u].slot = Unassigned
      /\ slots'[u].connected
  BY <1>2, <1>3, AdmittedType
<1>5. DOMAIN slots' \subseteq Uuid /\ slots' \in [DOMAIN slots' -> Row]
  <2>1. slots' = [v \in DOMAIN slots \cup {u} |-> slots'[v]]
    BY DEF NewRow, With
  <2>2. \A v \in DOMAIN slots \cup {u} : slots'[v] \in Row
    BY <1>3, <1>4 DEF IInv, TypeOK
  <2>. QED  BY <1>2, <2>1, <2>2 DEF IInv, TypeOK
<1>. DEFINE Same(v) == /\ slots'[v].name = slots[v].name /\ slots'[v].slot = slots[v].slot
                       /\ slots'[v].connected = slots[v].connected
<1>R. DOMAIN slots' = DOMAIN slots \cup {u} /\ \A v \in DOMAIN slots : Same(v)
  BY <1>3
<1>S. /\ DOMAIN sessions' = DOMAIN sessions \cup {u} /\ sessions'[u].name = name
        /\ \A v \in DOMAIN sessions : /\ sessions'[v].name = sessions[v].name
                                      /\ sessions'[v].role = sessions[v].role
                                      /\ sessions[v].name # name
  BY DEF Arrives, Accepted
<1>6. TypeOK' /\ AgesWithin'
  BY <1>1, <1>2, <1>5 DEF IInv, TypeOK, AgesWithin, Arrives, NewRow
<1>B. UNCHANGED budget
  BY DEF NewRow
<1>7. FiniteTables'
  BY <1>1, <1>3, FS_AddElement DEF IInv, FiniteTables
<1>8. OneHolderEach'
  <2>. SUFFICES ASSUME ~SharedSlots, NEW v \in DOMAIN slots', NEW w \in DOMAIN slots', v # w,
                       slots'[v].slot # Unassigned
                PROVE  slots'[v].slot # slots'[w].slot
    BY DEF OneHolderEach, Plays
  <2>1. v \in DOMAIN slots
    BY <1>4, <1>R
  <2>2. CASE w = u
    BY <1>4, <2>2
  <2>3. CASE w # u
    BY <1>R, <2>1, <2>3 DEF IInv, OneHolderEach, Plays
  <2>. QED  BY <2>2, <2>3
<1>9. SessionsHaveRows'
  <2>1. \A v, w \in DOMAIN sessions' : v # w => sessions'[v].name # sessions'[w].name
    BY <1>S DEF IInv, Seated, SessionsHaveRows
  <2>2. \A v \in DOMAIN slots' : IF v \in DOMAIN sessions' THEN sessions'[v].name = slots'[v].name
                                ELSE ~slots'[v].connected
    BY <1>2, <1>4, <1>R, <1>S DEF IInv, Seated, SessionsHaveRows
  <2>. QED  BY <2>1, <2>2 DEF SessionsHaveRows
<1>10. PausersPlay'
  BY <1>B, <1>R, <1>S DEF IInv, Seated, PausersPlay, IsPlayer
<1>11. ASSUME phase = "ingame", NEW v \in DOMAIN slots, slots[v].name = name
       PROVE  FALSE
  <2>1. v \in Recoverable(slots, u, name)
    BY <1>2, <1>11, ItsRowsAreFree DEF Recoverable
  <2>. QED  BY <1>11, <2>1
<1>12. OneRowEach'
  <2>. SUFFICES ASSUME phase = "ingame", NEW v \in DOMAIN slots', NEW w \in DOMAIN slots', v # w
                PROVE  slots'[v].name # slots'[w].name
    BY <1>1, <1>2 DEF OneRowEach, Started
  <2>1. CASE v = u \/ w = u
    BY <1>4, <1>11, <1>R, <2>1
  <2>2. CASE v # u /\ w # u
    BY <1>R, <2>2 DEF IInv, Seated, OneRowEach, Started
  <2>. QED  BY <2>1, <2>2
<1>13. RoomToReturn'
  <2>. SUFFICES ASSUME phase = "ingame" PROVE RoomToReturn'
    BY <1>1, <1>2 DEF RoomToReturn, Started
  <2>. DEFINE counted == {v \in DOMAIN slots : slots[v].connected \/ Plays(slots[v])}
              counts == {v \in DOMAIN slots' : slots'[v].connected \/ Plays(slots'[v])}
  <2>1. RoomForObserver(pending)
    BY <1>11 DEF Admits, DisconnectedPlayers
  <2>2. Cardinality(counted) + 1 < MaxSessions
    BY <2>1, RowsCounted
  <2>3. counts \subseteq counted \cup {u} /\ u \notin counted
    BY <1>2, <1>3
  <2>4. IsFiniteSet(counted)
    BY FS_Subset DEF IInv, FiniteTables
  <2>. HIDE DEF counted, counts
  <2>5. IsFiniteSet(counted \cup {u}) /\ Cardinality(counted \cup {u}) = Cardinality(counted) + 1
    BY <2>3, <2>4, FS_AddElement
  <2>6. Cardinality(counts) <= Cardinality(counted) + 1 /\ Cardinality(counts) \in Nat
        /\ Cardinality(counted) \in Nat
    BY <2>3, <2>4, <2>5, FS_Subset, FS_CardinalityType
  <2>7. Cardinality(counts) < MaxSessions
    BY <2>2, <2>6, SeatsAssumption
  <2>. QED  BY <2>7 DEF RoomToReturn, counts
<1>14. SeatsStay
  <2>1. ASSUME NEW v \in DOMAIN slots PROVE budget'.left[v] <= budget.left[v]
    <3>1. budget.left[v] \in Int
      BY BudgetAssumption DEF IInv, TypeOK, PauseBudgets
    <3>. QED  BY <1>B, <3>1
  <2>2. ASSUME NEW v \in DOMAIN slots', slots'[v].slot # Unassigned PROVE v \in DOMAIN slots
    BY <1>4, <1>R, <2>2
  <2>. QED  BY <1>R, <2>1, <2>2 DEF SeatsStay, Plays
<1>. QED  BY <1>1, <1>6, <1>7, <1>8, <1>9, <1>10, <1>12, <1>13, <1>14 DEF IInv, Seated

\* The one who comes back under a new uuid: its slot and its quota are there for it.
LEMMA ReturnKeeps ==
    ASSUME IInv, NEW name, NEW pending \in Handshakes, NEW u, Arrives(u, name),
           Accepted(name), Admits(name, pending), phase = "ingame",
           NEW old \in Recoverable(slots, u, name),
           TakenOver(u, name, old)
    PROVE  IInv' /\ SeatsStay
<1>1. /\ DOMAIN sessions' \subseteq Uuid /\ sessions' \in [DOMAIN sessions' -> Session]
      /\ controller' \in Uuid \cup {None}
      /\ IsFiniteSet(DOMAIN sessions')
      /\ RoomInSetup' /\ ControllerHere'
  BY ArrivesKeeps
<1>2. /\ u \in Uuid /\ u \notin DOMAIN sessions /\ u \notin DOMAIN slots /\ name \in Name
      /\ phase' = phase
  BY DEF Arrives
<1>3. old \in DOMAIN slots /\ old # u /\ slots[old].name = name /\ ~slots[old].connected
  BY <1>2 DEF Recoverable, Free
<1>4. old \in Uuid /\ slots[old] \in Row /\ old \notin DOMAIN sessions
  BY <1>3, ItsRowsAreFree DEF IInv, TypeOK
<1>5. /\ DOMAIN slots' = (DOMAIN slots \ {old}) \cup {u}
      /\ slots'[u] = [name |-> name, slot |-> slots[old].slot, connected |-> TRUE]
      /\ \A v \in DOMAIN slots \ {old} : slots'[v] = slots[v]
  <2>1. DOMAIN slots \cap (DOMAIN slots \ {old}) = DOMAIN slots \ {old}
    OBVIOUS
  <2>2. Restrict(slots, DOMAIN slots \ {old}) = [v \in DOMAIN slots \ {old} |-> slots[v]]
    BY <2>1 DEF Restrict
  <2>. QED  BY <1>2, <2>2 DEF TakenOver, With
<1>6. /\ slots'[u] \in Row /\ slots'[u].name = name /\ slots'[u].slot = slots[old].slot
      /\ slots'[u].connected
  <2>1. slots[old].slot \in Slot \cup {Unassigned}
    BY <1>4 DEF Row
  <2>. QED  BY <1>2, <1>5, <2>1, AdmittedType
<1>7. DOMAIN slots' \subseteq Uuid /\ slots' \in [DOMAIN slots' -> Row]
  <2>1. slots' = [v \in (DOMAIN slots \ {old}) \cup {u} |-> slots'[v]]
    <3>1. DOMAIN Restrict(slots, DOMAIN slots \ {old}) = DOMAIN slots \ {old}
      BY DEF Restrict
    <3>. QED  BY <3>1 DEF TakenOver, With
  <2>2. \A v \in (DOMAIN slots \ {old}) \cup {u} : slots'[v] \in Row
    BY <1>5, <1>6 DEF IInv, TypeOK
  <2>. QED  BY <1>2, <2>1, <2>2 DEF IInv, TypeOK
<1>. DEFINE Same(v) == /\ slots'[v].name = slots[v].name /\ slots'[v].slot = slots[v].slot
                       /\ slots'[v].connected = slots[v].connected
<1>R. DOMAIN slots' = (DOMAIN slots \ {old}) \cup {u} /\ \A v \in DOMAIN slots \ {old} : Same(v)
  BY <1>5
<1>S. /\ DOMAIN sessions' = DOMAIN sessions \cup {u} /\ sessions'[u].name = name
      /\ \A v \in DOMAIN sessions : /\ sessions'[v].name = sessions[v].name
                                    /\ sessions'[v].role = sessions[v].role
                                    /\ sessions[v].name # name
  BY DEF Arrives, Accepted
<1>8. /\ budget' \in PauseBudgets /\ Aged(budget', skews)
      /\ budget'.pausing = budget.pausing
      /\ budget'.left[u] = budget.left[old]
      /\ \A v \in Uuid \ {old, u} : budget'.left[v] = budget.left[v]
  <2>1. budget \in PauseBudgets /\ Aged(budget, skews) /\ skews \in Nat
    BY BudgetAssumption DEF IInv, TypeOK, AgesWithin, Aged
  <2>. QED  BY <1>2, <1>3, <1>4, <2>1, InheritKeeps DEF TakenOver
<1>9. TypeOK' /\ AgesWithin'
  BY <1>1, <1>2, <1>7, <1>8 DEF IInv, TypeOK, AgesWithin, Aged, Arrives, TakenOver
<1>10. IsFiniteSet(DOMAIN slots \ {old}) /\ FiniteTables'
  <2>1. IsFiniteSet(DOMAIN slots \ {old})
    BY FS_Subset DEF IInv, FiniteTables
  <2>. QED  BY <1>1, <1>5, <2>1, FS_AddElement DEF FiniteTables
<1>11. OneHolderEach'
  <2>. SUFFICES ASSUME ~SharedSlots, NEW v \in DOMAIN slots', NEW w \in DOMAIN slots', v # w,
                       slots'[v].slot # Unassigned
                PROVE  slots'[v].slot # slots'[w].slot
    BY DEF OneHolderEach, Plays
  <2>1. \A x, y \in DOMAIN slots : x # y /\ slots[x].slot # Unassigned => slots[x].slot # slots[y].slot
    BY DEF IInv, OneHolderEach, Plays
  <2>2. CASE v = u
    BY <1>3, <1>6, <1>R, <2>1, <2>2
  <2>3. CASE w = u
    BY <1>3, <1>6, <1>R, <2>1, <2>3
  <2>4. CASE v # u /\ w # u
    BY <1>R, <2>1, <2>4
  <2>. QED  BY <2>2, <2>3, <2>4
<1>12. SessionsHaveRows'
  <2>1. \A v, w \in DOMAIN sessions' : v # w => sessions'[v].name # sessions'[w].name
    BY <1>S DEF IInv, Seated, SessionsHaveRows
  <2>2. \A v \in DOMAIN slots' : IF v \in DOMAIN sessions' THEN sessions'[v].name = slots'[v].name
                                ELSE ~slots'[v].connected
    BY <1>2, <1>6, <1>R, <1>S DEF IInv, Seated, SessionsHaveRows
  <2>. QED  BY <2>1, <2>2 DEF SessionsHaveRows
<1>13. PausersPlay'
  BY <1>4, <1>8, <1>R, <1>S DEF IInv, Seated, PausersPlay, IsPlayer
<1>14. OneRowEach'
  <2>1. \A x, y \in DOMAIN slots : x # y => slots[x].name # slots[y].name
    BY DEF IInv, Seated, OneRowEach, Started
  <2>. SUFFICES ASSUME NEW v \in DOMAIN slots', NEW w \in DOMAIN slots', v # w
                PROVE  slots'[v].name # slots'[w].name
    BY DEF OneRowEach
  <2>2. CASE v = u \/ w = u
    BY <1>3, <1>6, <1>R, <2>1, <2>2
  <2>3. CASE v # u /\ w # u
    BY <1>R, <2>1, <2>3
  <2>. QED  BY <2>2, <2>3
<1>15. RoomToReturn'
  <2>. DEFINE counted == {v \in DOMAIN slots : slots[v].connected \/ Plays(slots[v])}
              counts == {v \in DOMAIN slots' : slots'[v].connected \/ Plays(slots'[v])}
              others == counted \ {old}
  <2>1. counts \subseteq others \cup {u} /\ u \notin others
    BY <1>2, <1>5
  <2>2. IsFiniteSet(counted) /\ IsFiniteSet(others)
    BY FS_Subset DEF IInv, FiniteTables
  <2>3. old \in counted => Cardinality(counted) < MaxSessions
    BY DEF IInv, Seated, RoomToReturn, Started
  <2>4. old \notin counted => Cardinality(counted) + 1 < MaxSessions
    <3>. SUFFICES ASSUME ~Plays(slots[old]) PROVE Cardinality(counted) + 1 < MaxSessions
      BY <1>3
    <3>1. \A v \in DisconnectedPlayers : slots[v].name # name
      BY <1>3 DEF DisconnectedPlayers, IInv, Seated, OneRowEach, Started
    <3>2. RoomForObserver(pending)
      BY <3>1 DEF Admits
    <3>. QED  BY <3>2, RowsCounted
  <2>. HIDE DEF counted, counts
  <2>5. Cardinality(others) + 1 < MaxSessions
    <3>1. CASE old \in counted
      <4>1. Cardinality(others) = Cardinality(counted) - 1 /\ Cardinality(counted) \in Nat
        BY <2>2, <3>1, FS_RemoveElement, FS_CardinalityType
      <4>. QED  BY <2>3, <3>1, <4>1, SeatsAssumption
    <3>2. CASE old \notin counted
      <4>1. others = counted
        BY <3>2
      <4>. QED  BY <2>2, <2>4, <3>2, <4>1, FS_CardinalityType, SeatsAssumption
    <3>. QED  BY <3>1, <3>2
  <2>6. IsFiniteSet(others \cup {u}) /\ Cardinality(others \cup {u}) = Cardinality(others) + 1
    BY <2>1, <2>2, FS_AddElement
  <2>7. Cardinality(counts) <= Cardinality(others) + 1 /\ Cardinality(counts) \in Nat
        /\ Cardinality(others) \in Nat
    BY <2>1, <2>2, <2>6, FS_Subset, FS_CardinalityType
  <2>8. Cardinality(counts) < MaxSessions
    BY <2>5, <2>7, SeatsAssumption
  <2>. QED  BY <2>8 DEF RoomToReturn, counts
<1>16. SeatsStay
  <2>1. DOMAIN slots \subseteq Uuid /\ \A v \in Uuid : budget.left[v] \in Int /\ budget'.left[v] \in Int
    BY <1>8, BudgetAssumption DEF IInv, TypeOK, PauseBudgets
  <2>2. ASSUME NEW v \in DOMAIN slots
        PROVE  \E w \in DOMAIN slots' : /\ slots'[w].name = slots[v].name
                                        /\ slots'[w].slot = slots[v].slot
                                        /\ budget'.left[w] <= budget.left[v]
    <3>1. CASE v = old
      BY <1>2, <1>3, <1>5, <1>6, <1>8, <2>1, <3>1
    <3>2. CASE v # old
      BY <1>2, <1>5, <1>8, <2>1, <3>2
    <3>. QED  BY <3>1, <3>2
  <2>3. ASSUME NEW w \in DOMAIN slots'
        PROVE  \E v \in DOMAIN slots : /\ slots'[w].name = slots[v].name
                                       /\ slots'[w].slot = slots[v].slot
    BY <1>3, <1>5, <1>6
  <2>. QED  BY <2>2, <2>3 DEF SeatsStay
<1>. QED  BY <1>1, <1>9, <1>10, <1>11, <1>12, <1>13, <1>14, <1>15, <1>16 DEF IInv, Seated

LEMMA AuthenticateKeeps ==
    ASSUME IInv, NEW name \in Name, NEW pending \in Handshakes, Authenticate(name, pending)
    PROVE  IInv' /\ (Started => SeatsStay)
<1>. DEFINE left(u) == IF phase = "ingame" THEN Recoverable(slots, u, name) ELSE {}
<1>1. Accepted(name) /\ Admits(name, pending)
  BY DEF Authenticate
<1>2. PICK u \in IssueUuid(name) :
        /\ sessions' = With(sessions, u, [name |-> name,
                            role |-> IF phase = "setup" THEN "setup" ELSE "syncing"])
        /\ controller' = IF controller = None /\ name \in Hosts THEN u ELSE controller
        /\ \/ left(u) = {} /\ NewRow(u, name)
           \/ \E old \in left(u) : TakenOver(u, name, old)
  BY DEF Authenticate, NewRow, TakenOver
<1>3. u \in Uuid /\ u \notin DOMAIN sessions /\ u \notin DOMAIN slots
  BY DEF IssueUuid, FreshUuids
<1>4. UNCHANGED <<phase, resigned, skews>>
  BY DEF Authenticate
<1>5. /\ sessions' = [v \in DOMAIN sessions \cup {u} |-> sessions'[v]]
      /\ sessions'[u] = [name |-> name, role |-> IF phase = "setup" THEN "setup" ELSE "syncing"]
      /\ \A v \in DOMAIN sessions : sessions'[v] = sessions[v]
  BY <1>2, <1>3 DEF With
<1>6. controller' \in {u, controller}
  BY <1>2
<1>7. Arrives(u, name)
  BY <1>3, <1>4, <1>5, <1>6 DEF Arrives
<1>8. CASE left(u) = {} /\ NewRow(u, name)
  BY <1>1, <1>7, <1>8, NewRowKeeps
<1>9. ASSUME NEW old \in left(u), TakenOver(u, name, old)
      PROVE  IInv' /\ SeatsStay
  BY <1>1, <1>7, <1>9, ReturnKeeps
<1>. QED  BY <1>2, <1>8, <1>9

-----------------------------------------------------------------------------
(* The theorems.                                                           *)

LEMMA StepKeeps ==
    ASSUME IInv, [Next]_vars
    PROVE  IInv' /\ (Started => SeatsStay)
<1>1. CASE UNCHANGED vars
  <2>1. QuotasShrink
    BY <1>1, SameQuotas DEF vars
  <2>2. /\ UNCHANGED <<phase, sessions, slots, controller, forfeited, resigned, budget, skews>>
        /\ phase' \in {"setup", "loading", "ingame", "postgame"}
        /\ forfeited' \in SUBSET Uuid /\ resigned' \in SUBSET Slot /\ skews' \in 0 .. Skews
    BY <1>1 DEF vars, IInv, TypeOK
  <2>. QED  BY <2>1, <2>2, QuietStep
<1>2. ASSUME NEW name \in Name, NEW pending \in Handshakes, Authenticate(name, pending)
      PROVE  IInv' /\ (Started => SeatsStay)
  BY <1>2, AuthenticateKeeps
<1>3. ASSUME NEW slot \in Slot \cup {Unassigned}, NEW u \in DOMAIN slots, MapPlayerIdToSlot(slot, u)
      PROVE  IInv' /\ ~Started
  BY <1>3, AssignKeeps DEF MapPlayerIdToSlot, Started
<1>4. CASE StartSettings
  <2>1. ~Started
    BY <1>4 DEF StartSettings, SettingsAccepted, Started
  <2>. QED  BY <1>4, <2>1, StartKeeps
<1>5. CASE LoadingTimedOut
  <2>1. /\ Departed(Laggards) /\ UNCHANGED <<forfeited, resigned, skews>>
        /\ phase' = phase \/ (phase = "loading" /\ phase' = "ingame")
    BY <1>5 DEF LoadingTimedOut
  <2>. QED  BY <2>1, DepartedKeeps
<1>6. CASE MatchDecided
  BY <1>6, EndMatchKeeps
<1>7. ASSUME NEW u \in DOMAIN sessions,
             Dismiss(u) \/ Kicked(u)
      PROVE  IInv' /\ SeatsStay
  <2>1. slots' = MarkDisconnected(slots, {u})
        /\ UNCHANGED <<phase, sessions, controller, resigned, budget, skews>>
    BY <1>7 DEF Dismiss, Kicked
  <2>2. forfeited' \in SUBSET Uuid
    BY <1>7 DEF Dismiss, Kicked, IInv, TypeOK
  <2>. QED  BY <2>1, <2>2, MarkKeeps
<1>8. ASSUME NEW u \in DOMAIN sessions, Disconnected(u)
      PROVE  IInv' /\ SeatsStay
  <2>1. /\ Departed({u}) /\ UNCHANGED <<forfeited, resigned, skews>>
        /\ phase' = phase \/ (phase = "loading" /\ phase' = "ingame")
    BY <1>8 DEF Disconnected
  <2>. QED  BY <2>1, DepartedKeeps
<1>9. ASSUME NEW u \in DOMAIN sessions, NEW partner \in DOMAIN sessions, ShareCommand(u, partner)
      PROVE  IInv' /\ ~Started
  BY <1>9, ShareKeeps DEF ShareCommand, Started
<1>10. ASSUME NEW u \in DOMAIN sessions, LoadedGame(u) \/ JoinerLoaded(u)
       PROVE  IInv' /\ SeatsStay
  BY <1>10, LoadedKeeps
<1>11. ASSUME NEW u \in DOMAIN sessions, Resign(u)
       PROVE  IInv' /\ SeatsStay
  BY <1>11, EndMatchKeeps
<1>12. ASSUME NEW u \in DOMAIN sessions, NEW pause \in BOOLEAN, PlayerPause(u, pause)
       PROVE  IInv' /\ SeatsStay
  BY <1>12, PlayerPauseKeeps
<1>13. ASSUME NEW step \in Steps, NEW silent \in SUBSET Ingame, Tick(step, silent)
       PROVE  IInv' /\ SeatsStay
  BY <1>13, TickKeeps
<1>. QED  BY <1>1, <1>2, <1>3, <1>4, <1>5, <1>6, <1>7, <1>8, <1>9, <1>10, <1>11, <1>12, <1>13 DEF Next

\* The inductive invariant: every handler of the relay keeps it.
THEOREM Invariant == Spec => []IInv
<1>1. IInv /\ [Next]_vars => IInv'
  BY StepKeeps
<1>. QED  BY InitInvariant, <1>1, PTL DEF Spec

(***************************************************************************)
(* Every variable keeps its type; no quota ever leaves 0 .. Budget,        *)
(* whatever the clock does.                                                *)
(***************************************************************************)
THEOREM TypeCorrect == Spec => []TypeOK
<1>1. IInv => TypeOK
  BY DEF IInv
<1>. QED  BY Invariant, <1>1, PTL

(***************************************************************************)
(* Sessions, rows, controller and pauses agree, a name has one row in a    *)
(* match, and there is room for everyone who left (on_authenticate, admit, *)
(* on_disconnected, Slots::recover, clear_pausing).                        *)
(***************************************************************************)
THEOREM AlwaysSeated == Spec => []Seated
<1>1. IInv => Seated
  BY DEF IInv
<1>. QED  BY Invariant, <1>1, PTL

(***************************************************************************)
(* From the start of a match every player's seat waits for it, nobody      *)
(* else gets one, and no quota grows (Slots::recover, PauseBudget::inherit *)
(* and check).                                                             *)
(***************************************************************************)
THEOREM SeatsAreKept == Spec => SeatsKept
<1>1. IInv /\ [Next]_vars => [Started => SeatsStay]_vars
  BY StepKeeps
<1>2. Spec => [][Started => SeatsStay]_vars
  BY Invariant, <1>1, PTL DEF Spec
<1>. QED  BY <1>2 DEF SeatsKept, SeatsStay
=============================================================================
