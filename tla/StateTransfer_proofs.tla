------------------------ MODULE StateTransfer_proofs -------------------------
(***************************************************************************)
(* Proofs about StateTransfer, for every set of peers, every feed delay,   *)
(* window and number of chunks, and every bound: a joiner is always on     *)
(* exactly one way into the match, and is only ever handed a state that it *)
(* may have.                                                               *)
(*                                                                         *)
(* The inductive invariant, Accounted, has two parts.  Sound holds at      *)
(* every moment, in the middle of a handler too: the requests that clients *)
(* answer are those the relay has made and are for the clients it made     *)
(* them for, the run that is waited for will answer, and what is handed    *)
(* out or held back is for its client.  Placed says who is on which way;   *)
(* in the middle of a handler some joiners, those whose source has just    *)
(* failed or answered, are still to be served and are on none.             *)
(*                                                                         *)
(* A lemma per call a handler is made of says what the call does to one    *)
(* joiner that is still to be served; ServeAllKeeps follows the calls of a *)
(* handler, in any order, until nobody is; and a lemma per handler says    *)
(* that what it does before its calls leaves just those to be served.      *)
(***************************************************************************)
EXTENDS StateTransfer, FiniteSetTheorems, NaturalsInduction, TLAPS

-----------------------------------------------------------------------------
(* The inductive invariant, of a relay r and what its joiners load.        *)

Fetches ==
    [source : Peer, id : Nat, joiner : Peer \cup {None}, floor : Turn,
     declared : {0, Chunks}, got : Nat, clock : BOOLEAN]
Servings == [source : Peer, id : Nat, for : {0} \cup Client]

Relays ==
    [phase : {"InGame", "Resuming", "Over"}, sidecar : BOOLEAN, seed : Turn \cup {None},
     ready : Turn, head : Turn, session : [Peer -> Sessions \cup {None}],
     clients : 0 .. MaxClients, incoming : SUBSET Fetches, nextId : Nat,
     dump : Dumps \cup {None}, nextDump : Nat, restoring : BOOLEAN, waiting : SUBSET Peer,
     states : SUBSET Turn, pulledAt : Turn, held : [Peer -> Helds \cup {None}],
     granted : [Peer -> Snapshot \cup {None}], out : [Peer -> Downloads \cup {None}],
     serving : SUBSET Servings, runs : SUBSET [id : Nat, turn : Turn]]

Loadings == [Peer -> Snapshot \cup {None}]

\* Request ids are used once, and nobody is sent more than was announced.
Numbered(r) ==
    /\ \A rx \in r.incoming : rx.id < r.nextId /\ rx.got <= rx.declared
    /\ \A s \in r.serving : s.id < r.nextId

\* One transfer is under way for a joiner, and the source serves the client that it is for.
FetchedOnce(r) ==
    \A x, y \in r.incoming : x.joiner = y.joiner /\ x.joiner # None => x = y

FetchedForIts(r) ==
    \A s \in r.serving, rx \in r.incoming :
        rx.source = s.source /\ rx.id = s.id /\ rx.joiner # None
            => Admitted(r, rx.joiner) /\ s.for = r.session[rx.joiner].client

\* The run that is waited for will answer, it alone has its number, and somebody waits for it.
RunWaitedFor(r) ==
    /\ \A run \in r.runs : run.id < r.nextDump
    /\ \A run, other \in r.runs : run.id = other.id => run = other
    /\ r.dump # None => [id |-> r.dump.id, turn |-> r.dump.turn] \in r.runs /\ r.dump.waiting # {}

Downloading(r) ==
    \A p \in Peer : r.out[p] # None =>
        /\ r.out[p].left + r.out[p].inFlight <= Chunks
        /\ r.out[p].inFlight < Window => r.out[p].left = 0

\* A state that is for the client behind p, of a turn its answer may name.
IsFor(r, p, state) ==
    /\ Admitted(r, p) /\ state.for \in {0, r.session[p].client}
    /\ r.session[p].turns # None
    /\ state.turn \in r.session[p].turns[1] .. r.session[p].turns[2]

\* What p is handed is for it, and no newer than the feed it watches; so is what is held.
HandsOwn(r, l) ==
    \A p \in Peer :
        /\ \A state \in InHand(r, l, p) \ {None} :
             IsFor(r, p, state) /\ (p \in Watcher => state.turn <= r.head)
        /\ r.held[p] # None =>
             IsFor(r, p, r.held[p].state) /\ r.held[p].state.turn <= r.held[p].bound

\* Whether p is a joiner that is on its way.
OnItsWay(r, p) == IsSyncing(r, p) /\ ~r.session[p].leaving

\* In the middle of a handler those still to be served are on no way, and a peer that has
\* gone may yet be among those who wait for a run.
Placed(r, l, todo, gone) ==
    /\ \A p \in Peer \ {gone} :
         IF OnItsWay(r, p) /\ p \notin todo THEN \E w \in Ways : Waits(r, l, p) = {w}
                                            ELSE Waits(r, l, p) = {}
    /\ \A p \in todo : p \in Peer \ {gone} /\ OnItsWay(r, p)
    /\ gone \in Peer => r.session[gone] = None /\ Waits(r, l, gone) \subseteq {"dump"}

Sound(r, l) ==
    /\ r \in Relays /\ l \in Loadings
    /\ Numbered(r) /\ FetchedOnce(r) /\ FetchedForIts(r) /\ RunWaitedFor(r) /\ Downloading(r)
    /\ HandsOwn(r, l)

Accounted == Sound(relay, loading) /\ (relay.phase # "Over" => Placed(relay, loading, {}, None))

-----------------------------------------------------------------------------
(* Reading the invariant.                                                  *)

\* The fields of the relay that a call leaves alone.
Fields == {"phase", "sidecar", "seed", "ready", "head", "session", "clients", "incoming",
           "nextId", "dump", "nextDump", "restoring", "waiting", "states", "pulledAt",
           "held", "granted", "out", "serving", "runs"}

SameBut(r, s, changed) == \A f \in Fields \ changed : s[f] = r[f]

\* The assumptions in the form the proofs use.
LEMMA Consts ==
    /\ None \notin Peer /\ None \notin Turn /\ None \notin Snapshot /\ None \notin Sessions
    /\ None \notin Helds /\ None \notin Downloads /\ None \notin Dumps /\ None \notin Turn \X Turn
    /\ Watcher \subseteq Peer /\ IsFiniteSet(Peer) /\ MaxTurn \in Nat /\ Turn \subseteq Nat
    /\ Delay \in Nat /\ Window \in Nat \ {0} /\ Chunks \in Nat \ {0} /\ MaxClients \in Nat \ {0}
  BY NoneAssumption, TransferAssumption DEF Turn

\* Each way means what it is named for.
LEMMA WaitsIs ==
    ASSUME NEW r, NEW l, NEW p
    PROVE  /\ Waits(r, l, p) \subseteq Ways
           /\ "client" \in Waits(r, l, p) <=> Fetched(r, p) # {}
           /\ "dump" \in Waits(r, l, p) <=> AwaitsDump(r, p)
           /\ "restore" \in Waits(r, l, p) <=> p \in r.waiting
           /\ "held" \in Waits(r, l, p) <=> r.held[p] # None
           /\ "granted" \in Waits(r, l, p) <=> r.granted[p] # None
           /\ "download" \in Waits(r, l, p) <=> r.out[p] # None
           /\ "loading" \in Waits(r, l, p) <=> l[p] # None
  BY DEF Waits, Ways

\* Two relays that agree on what p waits for.
LEMMA SameWays ==
    ASSUME NEW r, NEW l, NEW s, NEW k, NEW p,
           Fetched(s, p) # {} <=> Fetched(r, p) # {}, AwaitsDump(s, p) <=> AwaitsDump(r, p),
           p \in s.waiting <=> p \in r.waiting, s.held[p] # None <=> r.held[p] # None,
           s.granted[p] # None <=> r.granted[p] # None, s.out[p] # None <=> r.out[p] # None,
           k[p] # None <=> l[p] # None
    PROVE  Waits(s, k, p) = Waits(r, l, p)
<1>1. \A w \in Ways : w \in Waits(s, k, p) <=> w \in Waits(r, l, p)
  BY WaitsIs DEF Ways
<1>. QED  BY <1>1, WaitsIs

\* A peer on no way waits for nothing.
LEMMA OnNoWay ==
    ASSUME NEW r, NEW l, NEW p, Waits(r, l, p) = {}
    PROVE  /\ Fetched(r, p) = {} /\ ~AwaitsDump(r, p) /\ p \notin r.waiting
           /\ r.held[p] = None /\ r.granted[p] = None /\ r.out[p] = None /\ l[p] = None
  BY WaitsIs

LEMMA NoWayIs ==
    ASSUME NEW r, NEW l, NEW p, Fetched(r, p) = {}, ~AwaitsDump(r, p), p \notin r.waiting,
           r.held[p] = None, r.granted[p] = None, r.out[p] = None, l[p] = None
    PROVE  Waits(r, l, p) = {}
<1>1. \A w \in Ways : w \notin Waits(r, l, p)
  BY WaitsIs DEF Ways
<1>. QED  BY <1>1, WaitsIs

\* A peer that takes a way and was on none is on that one.
LEMMA OneWayIs ==
    ASSUME NEW r, NEW l, NEW p, NEW w \in Waits(r, l, p), \A v \in Ways \ {w} : v \notin Waits(r, l, p)
    PROVE  \E v \in Ways : Waits(r, l, p) = {v}
<1>1. Waits(r, l, p) \subseteq Ways
  BY WaitsIs
<1>. QED  BY <1>1

-----------------------------------------------------------------------------
(* The calls on a joiner that is still to be served.                       *)

\* A table of the relay that is replaced.
LEMMA SessionSet ==
    ASSUME NEW r \in Relays, NEW x \in [Peer -> Sessions \cup {None}],
           NEW s, s = [r EXCEPT !.session = x]
    PROVE  s \in Relays /\ s.session = x /\ SameBut(r, s, {"session"})
<1>1. s \in Relays /\ s.session = x
  BY DEF Relays
<1>2. SameBut(r, s, {"session"})
  BY DEF Relays, SameBut, Fields
<1>. QED  BY <1>1, <1>2

LEMMA GrantedSet ==
    ASSUME NEW r \in Relays, NEW x \in [Peer -> Snapshot \cup {None}],
           NEW s, s = [r EXCEPT !.granted = x]
    PROVE  s \in Relays /\ s.granted = x /\ SameBut(r, s, {"granted"})
<1>1. s \in Relays /\ s.granted = x
  BY DEF Relays
<1>2. SameBut(r, s, {"granted"})
  BY DEF Relays, SameBut, Fields
<1>. QED  BY <1>1, <1>2

LEMMA HeldSet ==
    ASSUME NEW r \in Relays, NEW x \in [Peer -> Helds \cup {None}],
           NEW s, s = [r EXCEPT !.held = x]
    PROVE  s \in Relays /\ s.held = x /\ SameBut(r, s, {"held"})
<1>1. s \in Relays /\ s.held = x
  BY DEF Relays
<1>2. SameBut(r, s, {"held"})
  BY DEF Relays, SameBut, Fields
<1>. QED  BY <1>1, <1>2

\* A session that is told to go, with what it may answer, or with a source it tried.
LEMMA LeavingIs ==
    ASSUME NEW x \in Sessions, NEW y, y = [x EXCEPT !.leaving = TRUE]
    PROVE  y \in Sessions /\ y # None /\ y.client = x.client /\ y.turns = x.turns /\ y.leaving
  BY Consts DEF Sessions

LEMMA TurnsAre ==
    ASSUME NEW x \in Sessions, NEW turns \in (Turn \X Turn) \cup {None}, NEW y,
           y = [x EXCEPT !.turns = turns]
    PROVE  /\ y \in Sessions /\ y # None /\ y.client = x.client /\ y.role = x.role
           /\ y.leaving = x.leaving /\ y.turns = turns
  BY Consts DEF Sessions

LEMMA TriedAre ==
    ASSUME NEW x \in Sessions, NEW q \in Peer, NEW y, y = [x EXCEPT !.tried = @ \cup {q}]
    PROVE  /\ y \in Sessions /\ y # None /\ y.client = x.client /\ y.role = x.role
           /\ y.leaving = x.leaving /\ y.turns = x.turns
  BY Consts DEF Sessions

LEMMA DismissIs ==
    ASSUME NEW r \in Relays, NEW j \in Peer, Admitted(r, j)
    PROVE  /\ Dismiss(r, j) \in Relays /\ SameBut(r, Dismiss(r, j), {"session"})
           /\ Dismiss(r, j).session = [r.session EXCEPT ![j] = [@ EXCEPT !.leaving = TRUE]]
<1>. DEFINE s == Dismiss(r, j)
            sessions == [r.session EXCEPT ![j] = [@ EXCEPT !.leaving = TRUE]]
<1>1. sessions \in [Peer -> Sessions \cup {None}]
  <2>1. r.session \in [Peer -> Sessions \cup {None}] /\ r.session[j] \in Sessions
    BY DEF Relays, Admitted
  <2>. QED  BY <2>1, LeavingIs, Consts
<1>2. s = [r EXCEPT !.session = sessions]
  BY DEF Dismiss, Relays
<1>. HIDE DEF sessions, s
<1>3. s \in Relays
  BY <1>1, <1>2 DEF Relays
<1>4. SameBut(r, s, {"session"}) /\ s.session = sessions
  BY <1>2 DEF Relays, SameBut, Fields
<1>. QED  BY <1>3, <1>4 DEF s, sessions

\* A joiner that is turned away leaves, and waits for nothing.
LEMMA DismissKeeps ==
    ASSUME NEW r, NEW l, NEW todo, NEW gone, Sound(r, l), Placed(r, l, todo, gone), NEW j \in todo
    PROVE  LET s == Dismiss(r, j)
           IN  Sound(s, l) /\ Placed(s, l, todo \ {j}, gone) /\ s.phase = r.phase
<1>. DEFINE s == Dismiss(r, j)
<1>1. r \in Relays /\ j \in Peer \ {gone} /\ Admitted(r, j)
  BY DEF Sound, Placed, OnItsWay, IsSyncing
<1>2. /\ s \in Relays /\ SameBut(r, s, {"session"})
      /\ s.session = [r.session EXCEPT ![j] = [@ EXCEPT !.leaving = TRUE]]
  BY <1>1, DismissIs
<1>. HIDE DEF s
<1>3. /\ s.incoming = r.incoming /\ s.serving = r.serving /\ s.nextId = r.nextId
      /\ s.dump = r.dump /\ s.nextDump = r.nextDump /\ s.runs = r.runs
      /\ s.waiting = r.waiting /\ s.held = r.held
      /\ s.granted = r.granted /\ s.out = r.out /\ s.head = r.head /\ s.phase = r.phase
  BY <1>2 DEF SameBut, Fields
<1>4. \A p \in Peer : /\ Admitted(s, p) <=> Admitted(r, p)
                      /\ Admitted(r, p) => /\ s.session[p].client = r.session[p].client
                                           /\ s.session[p].turns = r.session[p].turns
                      /\ p # j => s.session[p] = r.session[p]
                      /\ p = j => s.session[p].leaving
                      /\ Waits(s, l, p) = Waits(r, l, p)
                      /\ InHand(s, l, p) = InHand(r, l, p)
  <2>1. r.session \in [Peer -> Sessions \cup {None}] /\ r.session[j] \in Sessions
    BY <1>1 DEF Relays, Admitted
  <2>2. \A p \in Peer : Waits(s, l, p) = Waits(r, l, p)
    BY <1>3, SameWays DEF Fetched, AwaitsDump
  <2>3. /\ s.session[j] \in Sessions /\ s.session[j].leaving
        /\ s.session[j].client = r.session[j].client /\ s.session[j].turns = r.session[j].turns
        /\ s.session[j] # None
    BY <1>1, <1>2, <2>1, LeavingIs, Consts
  <2>4. \A p \in Peer : p # j => s.session[p] = r.session[p]
    BY <1>2, <2>1
  <2>5. \A p \in Peer : InHand(s, l, p) = InHand(r, l, p)
    BY <1>3 DEF InHand
  <2>. QED  BY <1>1, <2>2, <2>3, <2>4, <2>5 DEF Admitted
<1>5. Numbered(s) /\ FetchedOnce(s) /\ RunWaitedFor(s) /\ Downloading(s)
  BY <1>3 DEF Sound, Numbered, FetchedOnce, RunWaitedFor, Downloading
<1>6. FetchedForIts(s)
  BY <1>1, <1>3, <1>4 DEF Sound, FetchedForIts, Relays, Fetches
<1>7. HandsOwn(s, l)
  BY <1>3, <1>4 DEF Sound, HandsOwn, IsFor
<1>8. Placed(s, l, todo \ {j}, gone)
  <2>1. ~OnItsWay(s, j) 
    BY <1>1, <1>4 DEF OnItsWay
  <2>2. \A p \in Peer \ {j} : OnItsWay(s, p) <=> OnItsWay(r, p)
    BY <1>4 DEF OnItsWay, IsSyncing, Admitted
  <2>. QED  BY <1>1, <1>3, <1>4, <2>1, <2>2 DEF Placed
<1>. QED  BY <1>2, <1>3, <1>5, <1>6, <1>7, <1>8 DEF Sound, s

\* A call that leaves the joiner on one way and the others where they were.
LEMMA OthersStayPlaced ==
    ASSUME NEW r, NEW l, NEW todo, NEW gone, NEW s, NEW j \in todo, Placed(r, l, todo, gone),
           \A p \in Peer \ {j} : s.session[p] = r.session[p] /\ Waits(s, l, p) = Waits(r, l, p),
           OnItsWay(s, j), \E w \in Ways : Waits(s, l, j) = {w}
    PROVE  Placed(s, l, todo \ {j}, gone)
<1>1. \A p \in Peer \ {j} : OnItsWay(s, p) <=> OnItsWay(r, p)
  BY DEF OnItsWay, IsSyncing, Admitted
<1>2. j \in Peer \ {gone}
  BY DEF Placed
<1>3. \A p \in Peer \ {gone} :
         IF OnItsWay(s, p) /\ p \notin todo \ {j} THEN \E w \in Ways : Waits(s, l, p) = {w}
                                                  ELSE Waits(s, l, p) = {}
  BY <1>1 DEF Placed
<1>. QED  BY <1>1, <1>2, <1>3 DEF Placed

\* A joiner that is told what it may answer.
Expecting(r, j, turns) == [r EXCEPT !.session[j].turns = turns]

LEMMA ExpectingIs ==
    ASSUME NEW r \in Relays, NEW j \in Peer, OnItsWay(r, j), NEW turns \in Turn \X Turn,
           NEW s, s = Expecting(r, j, turns)
    PROVE  /\ s \in Relays /\ SameBut(r, s, {"session"})
           /\ \A p \in Peer \ {j} : s.session[p] = r.session[p]
           /\ s.session[j] \in Sessions /\ Admitted(s, j) /\ OnItsWay(s, j)
           /\ s.session[j].client = r.session[j].client /\ s.session[j].turns = turns
<1>. DEFINE new == [r.session[j] EXCEPT !.turns = turns]
            sessions == [r.session EXCEPT ![j] = new]
<1>1. r.session \in [Peer -> Sessions \cup {None}] /\ r.session[j] \in Sessions
  BY DEF Relays, OnItsWay, IsSyncing, Admitted
<1>2. /\ new \in Sessions /\ new # None /\ new.client = r.session[j].client
      /\ new.role = r.session[j].role /\ new.leaving = r.session[j].leaving /\ new.turns = turns
  BY <1>1, TurnsAre
<1>3. s = [r EXCEPT !.session = sessions]
  BY DEF Relays, Expecting
<1>. HIDE DEF new
<1>4. sessions \in [Peer -> Sessions \cup {None}] /\ sessions[j] = new
      /\ \A p \in Peer \ {j} : sessions[p] = r.session[p]
  BY <1>1, <1>2
<1>. HIDE DEF sessions
<1>5. s \in Relays /\ SameBut(r, s, {"session"}) /\ s.session = sessions
  BY <1>3, <1>4, SessionSet
<1>. QED  BY <1>2, <1>4, <1>5 DEF OnItsWay, IsSyncing, Admitted

\* A state that j may be handed, with the turns it may answer.
Suits(r, j, state, turns) ==
    /\ state \in Snapshot /\ turns \in Turn \X Turn
    /\ state.for \in {0, r.session[j].client} /\ state.turn \in turns[1] .. turns[2]

\* A state that is at hand is granted to a joiner on the live feed, and held back from one
\* on the delayed feed.
Granting(r, j, state) == [r EXCEPT !.granted[j] = state]
Holding(r, j, held) == [r EXCEPT !.held[j] = held]

LEMMA GrantingIs ==
    ASSUME NEW r \in Relays, NEW j \in Peer, NEW state \in Snapshot, NEW s, s = Granting(r, j, state)
    PROVE  /\ s \in Relays /\ SameBut(r, s, {"granted"})
           /\ s.granted[j] = state /\ \A p \in Peer \ {j} : s.granted[p] = r.granted[p]
<1>. DEFINE table == [r.granted EXCEPT ![j] = state]
<1>1. r.granted \in [Peer -> Snapshot \cup {None}] /\ s = [r EXCEPT !.granted = table]
  BY DEF Relays, Granting
<1>2. table \in [Peer -> Snapshot \cup {None}] /\ table[j] = state
      /\ \A p \in Peer \ {j} : table[p] = r.granted[p]
  BY <1>1
<1>. HIDE DEF table
<1>. QED  BY <1>1, <1>2, GrantedSet

LEMMA HoldingIs ==
    ASSUME NEW r \in Relays, NEW j \in Peer, NEW held \in Helds, NEW s, s = Holding(r, j, held)
    PROVE  /\ s \in Relays /\ SameBut(r, s, {"held"})
           /\ s.held[j] = held /\ \A p \in Peer \ {j} : s.held[p] = r.held[p]
<1>. DEFINE table == [r.held EXCEPT ![j] = held]
<1>1. r.held \in [Peer -> Helds \cup {None}] /\ s = [r EXCEPT !.held = table]
  BY DEF Relays, Holding
<1>2. table \in [Peer -> Helds \cup {None}] /\ table[j] = held
      /\ \A p \in Peer \ {j} : table[p] = r.held[p]
  BY <1>1
<1>. HIDE DEF table
<1>. QED  BY <1>1, <1>2, HeldSet

LEMMA GrantKeeps ==
    ASSUME NEW r, NEW l, NEW todo, NEW gone, Sound(r, l), Placed(r, l, todo, gone), NEW j \in todo,
           NEW turns, NEW state, Suits(r, j, state, turns), j \notin Watcher, NEW s, s = Granting(Expecting(r, j, turns), j, state)
    PROVE  Sound(s, l) /\ Placed(s, l, todo \ {j}, gone) /\ s.phase = r.phase
<1>. DEFINE e == Expecting(r, j, turns)
<1>1. r \in Relays /\ j \in Peer \ {gone} /\ OnItsWay(r, j)
  BY DEF Sound, Placed
<1>2. /\ e \in Relays /\ SameBut(r, e, {"session"}) /\ OnItsWay(e, j)
      /\ \A p \in Peer \ {j} : e.session[p] = r.session[p]
      /\ Admitted(e, j) /\ e.session[j].client = r.session[j].client /\ e.session[j].turns = turns
  BY <1>1, ExpectingIs DEF Suits
<1>. HIDE DEF e
<1>3. /\ s \in Relays /\ SameBut(e, s, {"granted"})
      /\ s.granted[j] = state /\ \A p \in Peer \ {j} : s.granted[p] = e.granted[p]
  BY <1>1, <1>2, GrantingIs DEF e, Suits
<1>4. /\ s.incoming = r.incoming /\ s.serving = r.serving /\ s.nextId = r.nextId
      /\ s.dump = r.dump /\ s.nextDump = r.nextDump /\ s.runs = r.runs
      /\ s.waiting = r.waiting /\ s.held = r.held
      /\ s.out = r.out /\ s.head = r.head /\ s.phase = r.phase
      /\ s.session = e.session /\ e.granted = r.granted
  BY <1>2, <1>3 DEF SameBut, Fields
<1>5. \A p \in Peer \ {j} : Waits(s, l, p) = Waits(r, l, p) /\ InHand(s, l, p) = InHand(r, l, p)
  <2>1. \A p \in Peer \ {j} : Waits(s, l, p) = Waits(r, l, p)
    BY <1>3, <1>4, SameWays DEF Fetched, AwaitsDump
  <2>. QED  BY <1>3, <1>4, <2>1 DEF InHand
<1>6. /\ Fetched(r, j) = {} /\ ~AwaitsDump(r, j) /\ j \notin r.waiting
      /\ r.held[j] = None /\ r.granted[j] = None /\ r.out[j] = None /\ l[j] = None
  <2>1. Waits(r, l, j) = {}
    BY <1>1 DEF Placed
  <2>. QED  BY <2>1, OnNoWay
<1>7. \E w \in Ways : Waits(s, l, j) = {w}
  <2>1. state # None
    BY Consts DEF Suits
  <2>2. /\ Fetched(s, j) = {} /\ ~AwaitsDump(s, j) /\ j \notin s.waiting
        /\ s.held[j] = None /\ s.granted[j] # None /\ s.out[j] = None /\ l[j] = None
    BY <1>3, <1>4, <1>6, <2>1 DEF Fetched, AwaitsDump
  <2>3. "granted" \in Waits(s, l, j) /\ \A v \in Ways \ {"granted"} : v \notin Waits(s, l, j)
    BY <2>2, WaitsIs DEF Ways
  <2>. QED  BY <2>3, OneWayIs
<1>8. Placed(s, l, todo \ {j}, gone)
  <2>1. OnItsWay(s, j) /\ \A p \in Peer \ {j} : s.session[p] = r.session[p]
    BY <1>2, <1>4 DEF OnItsWay, IsSyncing, Admitted
  <2>. QED  BY <1>5, <1>7, <2>1, OthersStayPlaced
<1>9. Numbered(s) /\ FetchedOnce(s) /\ RunWaitedFor(s) /\ Downloading(s)
  BY <1>4 DEF Sound, Numbered, FetchedOnce, RunWaitedFor, Downloading
<1>10. FetchedForIts(s)
  BY <1>1, <1>2, <1>4 DEF Sound, FetchedForIts, Relays, Fetches, Admitted
<1>11. HandsOwn(s, l)
  <2>1. ASSUME NEW p \in Peer \ {j}
        PROVE  /\ \A x \in InHand(s, l, p) \ {None} : IsFor(s, p, x) /\ (p \in Watcher => x.turn <= s.head)
               /\ s.held[p] # None =>
                    IsFor(s, p, s.held[p].state) /\ s.held[p].state.turn <= s.held[p].bound
    BY <1>2, <1>4, <1>5, <2>1 DEF Sound, HandsOwn, IsFor, Admitted
  <2>2. InHand(s, l, j) \ {None} \subseteq {state} /\ s.held[j] = None
    BY <1>3, <1>4, <1>6 DEF InHand
  <2>3. IsFor(s, j, state)
    BY <1>2, <1>4, Consts DEF IsFor, Admitted, Suits
  <2>. QED  BY <2>1, <2>2, <2>3 DEF HandsOwn
<1>. QED  BY <1>3, <1>4, <1>8, <1>9, <1>10, <1>11 DEF Sound

LEMMA HoldKeeps ==
    ASSUME NEW r, NEW l, NEW todo, NEW gone, Sound(r, l), Placed(r, l, todo, gone), NEW j \in todo,
           NEW turns, NEW held, Suits(r, j, held.state, turns), held \in Helds, held.bound = turns[2],
           NEW s, s = Holding(Expecting(r, j, turns), j, held)
    PROVE  Sound(s, l) /\ Placed(s, l, todo \ {j}, gone) /\ s.phase = r.phase
<1>. DEFINE e == Expecting(r, j, turns)
<1>1. r \in Relays /\ j \in Peer \ {gone} /\ OnItsWay(r, j)
  BY DEF Sound, Placed
<1>2. /\ e \in Relays /\ SameBut(r, e, {"session"}) /\ OnItsWay(e, j)
      /\ \A p \in Peer \ {j} : e.session[p] = r.session[p]
      /\ Admitted(e, j) /\ e.session[j].client = r.session[j].client /\ e.session[j].turns = turns
  BY <1>1, ExpectingIs DEF Suits
<1>. HIDE DEF e
<1>3. /\ s \in Relays /\ SameBut(e, s, {"held"})
      /\ s.held[j] = held /\ \A p \in Peer \ {j} : s.held[p] = e.held[p]
  BY <1>1, <1>2, HoldingIs DEF e
<1>4. /\ s.incoming = r.incoming /\ s.serving = r.serving /\ s.nextId = r.nextId
      /\ s.dump = r.dump /\ s.nextDump = r.nextDump /\ s.runs = r.runs
      /\ s.waiting = r.waiting /\ s.granted = r.granted
      /\ s.out = r.out /\ s.head = r.head /\ s.phase = r.phase
      /\ s.session = e.session /\ e.held = r.held
  BY <1>2, <1>3 DEF SameBut, Fields
<1>5. \A p \in Peer \ {j} : Waits(s, l, p) = Waits(r, l, p)
  BY <1>3, <1>4, SameWays DEF Fetched, AwaitsDump
<1>6. /\ Fetched(r, j) = {} /\ ~AwaitsDump(r, j) /\ j \notin r.waiting
      /\ r.held[j] = None /\ r.granted[j] = None /\ r.out[j] = None /\ l[j] = None
  <2>1. Waits(r, l, j) = {}
    BY <1>1 DEF Placed
  <2>. QED  BY <2>1, OnNoWay
<1>7. \E w \in Ways : Waits(s, l, j) = {w}
  <2>1. held # None
    BY Consts
  <2>2. /\ Fetched(s, j) = {} /\ ~AwaitsDump(s, j) /\ j \notin s.waiting
        /\ s.held[j] # None /\ s.granted[j] = None /\ s.out[j] = None /\ l[j] = None
    BY <1>3, <1>4, <1>6, <2>1 DEF Fetched, AwaitsDump
  <2>3. "held" \in Waits(s, l, j) /\ \A v \in Ways \ {"held"} : v \notin Waits(s, l, j)
    BY <2>2, WaitsIs DEF Ways
  <2>. QED  BY <2>3, OneWayIs
<1>8. Placed(s, l, todo \ {j}, gone)
  <2>1. OnItsWay(s, j) /\ \A p \in Peer \ {j} : s.session[p] = r.session[p]
    BY <1>2, <1>4 DEF OnItsWay, IsSyncing, Admitted
  <2>. QED  BY <1>5, <1>7, <2>1, OthersStayPlaced
<1>9. Numbered(s) /\ FetchedOnce(s) /\ RunWaitedFor(s) /\ Downloading(s)
  BY <1>4 DEF Sound, Numbered, FetchedOnce, RunWaitedFor, Downloading
<1>10. FetchedForIts(s)
  BY <1>1, <1>2, <1>4 DEF Sound, FetchedForIts, Relays, Fetches, Admitted
<1>11. HandsOwn(s, l)
  <2>1. \A p \in Peer : InHand(s, l, p) = InHand(r, l, p)
    BY <1>4 DEF InHand
  <2>2. ASSUME NEW p \in Peer \ {j}
        PROVE  /\ \A x \in InHand(s, l, p) \ {None} : IsFor(s, p, x) /\ (p \in Watcher => x.turn <= s.head)
               /\ s.held[p] # None =>
                    IsFor(s, p, s.held[p].state) /\ s.held[p].state.turn <= s.held[p].bound
    BY <1>2, <1>3, <1>4, <2>1, <2>2 DEF Sound, HandsOwn, IsFor, Admitted
  <2>3. InHand(s, l, j) \ {None} = {}
    <3>1. s.granted[j] = None /\ s.out[j] = None /\ l[j] = None
      BY <1>4, <1>6
    <3>. QED  BY <3>1 DEF InHand
  <2>4. IsFor(s, j, held.state)
    BY <1>2, <1>4, Consts DEF IsFor, Admitted, Suits
  <2>5. held.state.turn <= held.bound
    BY Consts DEF Helds, Snapshot, Suits
  <2>. QED  BY <1>3, <2>2, <2>3, <2>4, <2>5 DEF HandsOwn
<1>. QED  BY <1>3, <1>4, <1>8, <1>9, <1>10, <1>11 DEF Sound

\* The feed never goes back, nor past the turns there are.
LEMMA FeedIs ==
    ASSUME NEW r \in Relays, NEW s, s = AdvanceFeed(r)
    PROVE  /\ s \in Relays /\ SameBut(r, s, {"head", "held", "granted"}) /\ r.head <= s.head
           /\ \A p \in Peer :
                \/ /\ r.held[p] # None /\ r.held[p].bound <= s.head
                   /\ s.held[p] = None /\ s.granted[p] = r.held[p].state
                   /\ r.held[p].state \in Snapshot
                \/ s.held[p] = r.held[p] /\ s.granted[p] = r.granted[p]
<1>. DEFINE due == IF PlayersRemain(r) THEN r.ready - Delay ELSE r.ready
            head == Larger(r.head, due)
            released == {p \in Peer : r.held[p] # None /\ r.held[p].bound <= head}
            held == [p \in Peer |-> IF p \in released THEN None ELSE r.held[p]]
            granted == [p \in Peer |-> IF p \in released THEN r.held[p].state ELSE r.granted[p]]
            first == [r EXCEPT !.head = head]
            second == [first EXCEPT !.held = held]
<1>1. /\ s = [second EXCEPT !.granted = granted]
      /\ r.ready \in Turn /\ r.head \in Turn /\ r.held \in [Peer -> Helds \cup {None}]
      /\ r.granted \in [Peer -> Snapshot \cup {None}]
  BY DEF AdvanceFeed, Relays
<1>2. head \in Turn /\ r.head <= head
  BY <1>1, Consts DEF Larger, Turn
<1>. HIDE DEF head
<1>3. \A p \in Peer : r.held[p] # None => r.held[p].state \in Snapshot
  BY <1>1 DEF Helds
<1>4. held \in [Peer -> Helds \cup {None}] /\ granted \in [Peer -> Snapshot \cup {None}]
  BY <1>1, <1>3
<1>5. \A p \in Peer : \/ /\ r.held[p] # None /\ r.held[p].bound <= head
                         /\ held[p] = None /\ granted[p] = r.held[p].state
                      \/ held[p] = r.held[p] /\ granted[p] = r.granted[p]
  OBVIOUS
<1>. HIDE DEF held, granted
<1>6. first \in Relays /\ first.head = head /\ SameBut(r, first, {"head"})
  <2>1. first \in Relays /\ first.head = head
    BY <1>2 DEF Relays
  <2>2. SameBut(r, first, {"head"})
    BY DEF Relays, SameBut, Fields
  <2>. QED  BY <2>1, <2>2
<1>. HIDE DEF first
<1>7. second \in Relays /\ second.held = held /\ SameBut(first, second, {"held"})
  BY <1>4, <1>6, HeldSet
<1>. HIDE DEF second
<1>8. s \in Relays /\ s.granted = granted /\ SameBut(second, s, {"granted"})
  BY <1>1, <1>4, <1>7, GrantedSet
<1>9. SameBut(r, s, {"head", "held", "granted"}) /\ s.head = head /\ s.held = held
  BY <1>6, <1>7, <1>8 DEF SameBut, Fields
<1>. QED  BY <1>2, <1>3, <1>5, <1>8, <1>9

\* A state the feed has reached is handed over.
LEMMA FeedKeeps ==
    ASSUME NEW r, NEW l, NEW todo, NEW gone, Sound(r, l), Placed(r, l, todo, gone),
           NEW s, s = AdvanceFeed(r)
    PROVE  Sound(s, l) /\ Placed(s, l, todo, gone) /\ s.phase = r.phase
<1>1. r \in Relays
  BY DEF Sound
<1>2. /\ s \in Relays /\ SameBut(r, s, {"head", "held", "granted"}) /\ r.head <= s.head
      /\ \A p \in Peer :
           \/ /\ r.held[p] # None /\ r.held[p].bound <= s.head
              /\ s.held[p] = None /\ s.granted[p] = r.held[p].state /\ r.held[p].state \in Snapshot
           \/ s.held[p] = r.held[p] /\ s.granted[p] = r.granted[p]
  BY <1>1, FeedIs
<1>3. /\ s.incoming = r.incoming /\ s.serving = r.serving /\ s.nextId = r.nextId
      /\ s.dump = r.dump /\ s.nextDump = r.nextDump /\ s.runs = r.runs
      /\ s.waiting = r.waiting /\ s.session = r.session
      /\ s.out = r.out /\ s.phase = r.phase
  BY <1>2 DEF SameBut, Fields
<1>4. Numbered(s) /\ FetchedOnce(s) /\ FetchedForIts(s) /\ RunWaitedFor(s) /\ Downloading(s)
  BY <1>3 DEF Sound, Numbered, FetchedOnce, FetchedForIts, RunWaitedFor, Downloading, Admitted
<1>5. ASSUME NEW p \in Peer, s.held[p] = r.held[p], s.granted[p] = r.granted[p]
      PROVE  Waits(s, l, p) = Waits(r, l, p) /\ InHand(s, l, p) = InHand(r, l, p)
  <2>1. Waits(s, l, p) = Waits(r, l, p)
    BY <1>3, <1>5, SameWays DEF Fetched, AwaitsDump
  <2>. QED  BY <1>3, <1>5, <2>1 DEF InHand
<1>6. ASSUME NEW p \in Peer, r.held[p] # None, r.held[p].bound <= s.head,
             s.held[p] = None, s.granted[p] = r.held[p].state, r.held[p].state \in Snapshot
      PROVE  /\ p # gone /\ p \notin todo /\ OnItsWay(r, p) /\ Waits(s, l, p) = {"granted"}
             /\ InHand(s, l, p) \ {None} \subseteq {r.held[p].state}
  <2>1. "held" \in Waits(r, l, p)
    BY <1>6, WaitsIs
  <2>2. p # gone /\ p \notin todo /\ OnItsWay(r, p) /\ Waits(r, l, p) = {"held"}
    BY <2>1 DEF Placed
  <2>3. /\ Fetched(s, p) = {} /\ ~AwaitsDump(s, p) /\ p \notin s.waiting
        /\ s.held[p] = None /\ s.granted[p] # None /\ s.out[p] = None /\ l[p] = None
    BY <1>3, <1>6, <2>2, WaitsIs, Consts DEF Fetched, AwaitsDump
  <2>4. \A v \in Ways : v \in Waits(s, l, p) <=> v = "granted"
    BY <2>3, WaitsIs DEF Ways
  <2>5. Waits(s, l, p) = {"granted"}
    BY <2>4, WaitsIs DEF Ways
  <2>6. InHand(s, l, p) \ {None} \subseteq {r.held[p].state}
    BY <1>6, <2>3 DEF InHand
  <2>. QED  BY <2>2, <2>5, <2>6
<1>7. HandsOwn(s, l)
  <2>0. r.head \in Nat /\ s.head \in Nat
    <3>1. r.head \in Turn /\ s.head \in Turn
      BY <1>1, <1>2 DEF Relays
    <3>. QED  BY <3>1, Consts
  <2>. SUFFICES ASSUME NEW p \in Peer
                PROVE  /\ \A x \in InHand(s, l, p) \ {None} :
                            IsFor(s, p, x) /\ (p \in Watcher => x.turn <= s.head)
                       /\ s.held[p] # None =>
                            IsFor(s, p, s.held[p].state) /\ s.held[p].state.turn <= s.held[p].bound
    BY DEF HandsOwn
  <2>1. CASE s.held[p] = r.held[p] /\ s.granted[p] = r.granted[p]
    <3>1. InHand(s, l, p) = InHand(r, l, p)
      BY <1>5, <2>1
    <3>2. \A x \in InHand(s, l, p) \ {None} : x \in Snapshot
      BY <1>1, <3>1 DEF InHand, Relays, Sound, Loadings, Downloads
    <3>3. \A x \in InHand(s, l, p) \ {None} : IsFor(s, p, x) /\ (p \in Watcher => x.turn <= r.head)
      BY <1>3, <3>1 DEF Sound, HandsOwn, IsFor, Admitted
    <3>4. \A x \in Snapshot : x.turn <= r.head => x.turn <= s.head
      <4>1. \A x \in Snapshot : x.turn \in Nat
        BY Consts DEF Snapshot
      <4>. QED  BY <1>2, <2>0, <4>1
    <3>. QED  BY <1>3, <2>1, <3>2, <3>3, <3>4 DEF Sound, HandsOwn, IsFor, Admitted
  <2>2. CASE /\ r.held[p] # None /\ r.held[p].bound <= s.head
             /\ s.held[p] = None /\ s.granted[p] = r.held[p].state /\ r.held[p].state \in Snapshot
    <3>1. InHand(s, l, p) \ {None} \subseteq {r.held[p].state}
      BY <1>6, <2>2
    <3>2. IsFor(s, p, r.held[p].state) /\ r.held[p].state.turn <= r.held[p].bound
      BY <1>3, <2>2 DEF Sound, HandsOwn, IsFor, Admitted
    <3>3. r.held[p].state.turn <= s.head
      <4>1. r.held[p] \in Helds
        BY <1>1, <2>2 DEF Relays
      <4>2. r.held[p].state.turn \in Nat /\ r.held[p].bound \in Nat
        BY <4>1, Consts DEF Helds, Snapshot
      <4>. QED  BY <2>0, <2>2, <3>2, <4>2
    <3>. QED  BY <2>2, <3>1, <3>2, <3>3
  <2>. QED  BY <1>2, <2>1, <2>2
<1>8. Placed(s, l, todo, gone)
  <2>1. \A p \in Peer : OnItsWay(s, p) <=> OnItsWay(r, p)
    BY <1>3 DEF OnItsWay, IsSyncing, Admitted
  <2>2. \A p \in Peer : \/ Waits(s, l, p) = Waits(r, l, p)
                        \/ p # gone /\ p \notin todo /\ OnItsWay(r, p) /\ Waits(s, l, p) = {"granted"}
    BY <1>2, <1>5, <1>6
  <2>3. "granted" \in Ways
    BY DEF Ways
  <2>4. \A p \in Peer \ {gone} :
           IF OnItsWay(s, p) /\ p \notin todo THEN \E w \in Ways : Waits(s, l, p) = {w}
                                              ELSE Waits(s, l, p) = {}
    BY <2>1, <2>2, <2>3 DEF Placed
  <2>. QED  BY <1>3, <2>1, <2>2, <2>4 DEF Placed
<1>. QED  BY <1>2, <1>3, <1>4, <1>7, <1>8 DEF Sound

\* What deliver_snapshot does to a joiner that is still to be served.
LEMMA DeliverKeeps ==
    ASSUME NEW r, NEW l, NEW todo, NEW gone, Sound(r, l), Placed(r, l, todo, gone), NEW j \in todo,
           NEW turns, NEW state, NEW fits, Suits(r, j, state, turns),
           NEW s, s = Deliver(r, j, state, turns, fits)
    PROVE  Sound(s, l) /\ Placed(s, l, todo \ {j}, gone) /\ s.phase = r.phase
<1>1. j \in Peer /\ IsSyncing(r, j)
  BY DEF Placed, OnItsWay
<1>2. CASE ~fits
  <2>1. s = Dismiss(r, j)
    BY <1>1, <1>2 DEF Deliver, Refuse
  <2>. QED  BY <2>1, DismissKeeps
<1>3. CASE fits /\ j \notin Watcher
  <2>1. s = Granting(Expecting(r, j, turns), j, state)
    BY <1>1, <1>3 DEF Deliver, Granting, Expecting
  <2>2. j \notin Watcher
    BY <1>3
  <2>. QED  BY <2>1, <2>2, GrantKeeps
<1>4. CASE fits /\ j \in Watcher
  <2>. DEFINE held == [bound |-> turns[2], state |-> state]
              h == Holding(Expecting(r, j, turns), j, held)
  <2>1. s = AdvanceFeed(h)
    BY <1>1, <1>4 DEF Deliver, Holding, Expecting
  <2>2. held \in Helds /\ held.bound = turns[2] /\ Suits(r, j, held.state, turns)
    BY DEF Helds, Suits
  <2>. HIDE DEF held
  <2>3. Sound(h, l) /\ Placed(h, l, todo \ {j}, gone) /\ h.phase = r.phase
    BY <2>2, HoldKeeps
  <2>. HIDE DEF h
  <2>. QED  BY <2>1, <2>3, FeedKeeps
<1>. QED  BY <1>2, <1>3, <1>4

\* The run that is waited for, and those that are to answer.
WithRun(r, d, n, runs) == [r EXCEPT !.dump = d, !.nextDump = n, !.runs = runs]

LEMMA DumpSet ==
    ASSUME NEW r \in Relays, NEW d \in Dumps \cup {None}, NEW n \in Nat,
           NEW runs \in SUBSET [id : Nat, turn : Turn],
           NEW s, s = WithRun(r, d, n, runs)
    PROVE  /\ s \in Relays /\ s.dump = d /\ s.nextDump = n /\ s.runs = runs
           /\ SameBut(r, s, {"dump", "nextDump", "runs"})
<1>1. s \in Relays /\ s.dump = d /\ s.nextDump = n /\ s.runs = runs
  BY DEF Relays, WithRun
<1>2. SameBut(r, s, {"dump", "nextDump", "runs"})
  BY DEF Relays, SameBut, Fields, WithRun
<1>. QED  BY <1>1, <1>2

LEMMA RequestDumpIs ==
    ASSUME NEW r \in Relays, RunWaitedFor(r), NEW j \in Peer, NEW turn \in Turn,
           NEW s, s = RequestDump(r, j, turn)
    PROVE  /\ s \in Relays /\ SameBut(r, s, {"dump", "nextDump", "runs"}) /\ RunWaitedFor(s)
           /\ AwaitsDump(s, j) /\ \A p \in Peer \ {j} : AwaitsDump(s, p) <=> AwaitsDump(r, p)
<1>1. CASE r.dump # None
  <2>. DEFINE d == [r.dump EXCEPT !.waiting = @ \cup {j}]
  <2>1. /\ r.dump \in Dumps /\ r.nextDump \in Nat /\ r.runs \in SUBSET [id : Nat, turn : Turn]
        /\ s = WithRun(r, d, r.nextDump, r.runs)
    BY <1>1 DEF RequestDump, Relays, WithRun
  <2>2. /\ d \in Dumps /\ d \in Dumps \cup {None} /\ d # None /\ d.id = r.dump.id /\ d.turn = r.dump.turn
        /\ d.waiting = r.dump.waiting \cup {j}
    BY <2>1, Consts DEF Dumps
  <2>. HIDE DEF d
  <2>3. /\ s \in Relays /\ s.dump = d /\ s.nextDump = r.nextDump /\ s.runs = r.runs
        /\ SameBut(r, s, {"dump", "nextDump", "runs"})
    BY <2>1, <2>2, DumpSet
  <2>. QED  BY <1>1, <2>2, <2>3 DEF RunWaitedFor, AwaitsDump
<1>2. CASE r.dump = None
  <2>. DEFINE d == [id |-> r.nextDump, turn |-> turn, waiting |-> {j}]
              runs == r.runs \cup {[id |-> r.nextDump, turn |-> turn]}
  <2>1. /\ r.nextDump \in Nat /\ r.runs \in SUBSET [id : Nat, turn : Turn]
        /\ s = WithRun(r, d, r.nextDump + 1, runs)
    BY <1>2 DEF RequestDump, Relays, WithRun
  <2>2. /\ d \in Dumps /\ d.waiting = {j} /\ [id |-> d.id, turn |-> d.turn] \in runs
        /\ \A run \in runs : run \in r.runs \/ run.id = r.nextDump
        /\ \A run, other \in runs : run \notin r.runs /\ other \notin r.runs => run = other
    BY <2>1 DEF Dumps
  <2>3. /\ d # None /\ d \in Dumps \cup {None} /\ runs \in SUBSET [id : Nat, turn : Turn]
        /\ r.nextDump + 1 \in Nat
    <3>1. d # None
      BY <2>2, Consts
    <3>2. [id |-> r.nextDump, turn |-> turn] \in [id : Nat, turn : Turn]
      BY <2>1
    <3>. QED  BY <2>1, <2>2, <3>1, <3>2
  <2>. HIDE DEF d, runs
  <2>4. /\ s \in Relays /\ s.dump = d /\ s.nextDump = r.nextDump + 1 /\ s.runs = runs
        /\ SameBut(r, s, {"dump", "nextDump", "runs"})
    BY <2>1, <2>2, <2>3, DumpSet
  <2>5. \A run \in runs : run.id \in Nat /\ run.id < r.nextDump + 1
    BY <2>1, <2>2, <2>3 DEF RunWaitedFor
  <2>6. \A run, other \in runs : run.id = other.id => run = other
    BY <2>1, <2>2, <2>3 DEF RunWaitedFor
  <2>. QED  BY <1>2, <2>2, <2>3, <2>4, <2>5, <2>6 DEF RunWaitedFor, AwaitsDump
<1>. QED  BY <1>1, <1>2

\* A joiner that is on no way takes the one that the call opens for it.
LEMMA TakesAWay ==
    ASSUME NEW r, NEW l, NEW todo, NEW gone, Placed(r, l, todo, gone), NEW j \in todo, NEW s,
           s.session = r.session, s.held = r.held, s.granted = r.granted, s.out = r.out,
           \A p \in Peer \ {j} : /\ Fetched(s, p) # {} <=> Fetched(r, p) # {}
                                 /\ AwaitsDump(s, p) <=> AwaitsDump(r, p)
                                 /\ p \in s.waiting <=> p \in r.waiting,
           \/ Fetched(s, j) # {} /\ ~AwaitsDump(s, j) /\ j \notin s.waiting
           \/ Fetched(s, j) = {} /\ AwaitsDump(s, j) /\ j \notin s.waiting
           \/ Fetched(s, j) = {} /\ ~AwaitsDump(s, j) /\ j \in s.waiting
    PROVE  Placed(s, l, todo \ {j}, gone)
<1>1. \A p \in Peer \ {j} : Waits(s, l, p) = Waits(r, l, p)
  BY SameWays
<1>2. s.held[j] = None /\ s.granted[j] = None /\ s.out[j] = None /\ l[j] = None
  <2>1. Waits(r, l, j) = {}
    BY DEF Placed
  <2>. QED  BY <2>1, OnNoWay
<1>3. \E w \in Ways : Waits(s, l, j) = {w}
  <2>1. \/ "client" \in Waits(s, l, j) /\ \A v \in Ways \ {"client"} : v \notin Waits(s, l, j)
        \/ "dump" \in Waits(s, l, j) /\ \A v \in Ways \ {"dump"} : v \notin Waits(s, l, j)
        \/ "restore" \in Waits(s, l, j) /\ \A v \in Ways \ {"restore"} : v \notin Waits(s, l, j)
    BY <1>2, WaitsIs DEF Ways
  <2>. QED  BY <2>1, OneWayIs
<1>4. OnItsWay(s, j)
  BY DEF Placed, OnItsWay, IsSyncing, Admitted
<1>. QED  BY <1>1, <1>3, <1>4, OthersStayPlaced

LEMMA NothingHanded ==
    ASSUME NEW r, NEW l, NEW s, HandsOwn(r, l), s.session = r.session, s.held = r.held,
           s.granted = r.granted, s.out = r.out, s.head = r.head
    PROVE  HandsOwn(s, l)
  BY DEF HandsOwn, InHand, IsFor, Admitted

\* request_state_dump
LEMMA RequestDumpKeeps ==
    ASSUME NEW r, NEW l, NEW todo, NEW gone, Sound(r, l), Placed(r, l, todo, gone), NEW j \in todo,
           NEW turn \in Turn, NEW s, s = RequestDump(r, j, turn)
    PROVE  Sound(s, l) /\ Placed(s, l, todo \ {j}, gone) /\ s.phase = r.phase
<1>1. r \in Relays /\ j \in Peer /\ Waits(r, l, j) = {}
  BY DEF Sound, Placed
<1>2. /\ s \in Relays /\ SameBut(r, s, {"dump", "nextDump", "runs"}) /\ RunWaitedFor(s)
      /\ AwaitsDump(s, j) /\ \A p \in Peer \ {j} : AwaitsDump(s, p) <=> AwaitsDump(r, p)
  BY <1>1, RequestDumpIs DEF Sound
<1>3. /\ s.incoming = r.incoming /\ s.serving = r.serving /\ s.nextId = r.nextId
      /\ s.waiting = r.waiting /\ s.session = r.session /\ s.held = r.held
      /\ s.granted = r.granted /\ s.out = r.out /\ s.head = r.head /\ s.phase = r.phase
  BY <1>2 DEF SameBut, Fields
<1>4. Numbered(s) /\ FetchedOnce(s) /\ FetchedForIts(s) /\ Downloading(s)
  BY <1>3 DEF Sound, Numbered, FetchedOnce, FetchedForIts, Downloading, Admitted
<1>5. \A p \in Peer : Fetched(s, p) = Fetched(r, p)
  BY <1>3 DEF Fetched
<1>6. Placed(s, l, todo \ {j}, gone)
  <2>1. Fetched(r, j) = {} /\ j \notin r.waiting
    BY <1>1, OnNoWay
  <2>2. \A p \in Peer \ {j} : /\ Fetched(s, p) # {} <=> Fetched(r, p) # {}
                              /\ AwaitsDump(s, p) <=> AwaitsDump(r, p)
                              /\ p \in s.waiting <=> p \in r.waiting
    BY <1>2, <1>3, <1>5
  <2>3. Fetched(s, j) = {} /\ AwaitsDump(s, j) /\ j \notin s.waiting
    BY <1>1, <1>2, <1>3, <1>5, <2>1
  <2>. QED  BY <1>3, <2>2, <2>3, TakesAWay
<1>. QED  BY <1>2, <1>3, <1>4, <1>6, NothingHanded DEF Sound

\* A request to a source, for a joiner or for the relay itself.
Asking(r, rx, sv) ==
    [r EXCEPT !.nextId = @ + 1, !.incoming = @ \cup {rx}, !.serving = @ \cup {sv}]

LEMMA AskSourceIs ==
    ASSUME NEW r \in Relays, NEW source \in Peer, NEW joiner \in Peer \cup {None},
           NEW client \in {0} \cup Client, NEW s \in AskSource(r, source, joiner, client)
    PROVE  \E rx \in Fetches, sv \in Servings :
              /\ s = Asking(r, rx, sv)
              /\ rx.id = r.nextId /\ rx.joiner = joiner /\ rx.got <= rx.declared
              /\ sv.id = r.nextId /\ sv.for = client
<1>1. PICK floor \in InitialTurn .. SealedTo(r, source) :
         s = [r EXCEPT
                !.nextId = @ + 1,
                !.incoming = @ \cup {[source |-> source, id |-> RequestId(r), joiner |-> joiner,
                                      floor |-> floor, declared |-> 0, got |-> 0, clock |-> FALSE]},
                !.serving = @ \cup {[source |-> source, id |-> RequestId(r), for |-> client]}]
  BY Zenon DEF AskSource
<1>. DEFINE rx == [source |-> source, id |-> RequestId(r), joiner |-> joiner,
                   floor |-> floor, declared |-> 0, got |-> 0, clock |-> FALSE]
            sv == [source |-> source, id |-> RequestId(r), for |-> client]
<1>2. r.nextId \in Nat /\ r.ready \in Turn /\ r.head \in Turn
  BY DEF Relays
<1>3. floor \in Turn
  BY <1>2, Consts DEF SealedTo, InitialTurn, Turn
<1>4. rx \in Fetches /\ sv \in Servings
  BY <1>2, <1>3 DEF RequestId, Fetches, Servings
<1>5. rx.id = r.nextId /\ rx.joiner = joiner /\ rx.got <= rx.declared /\ sv.id = r.nextId
      /\ sv.for = client
  BY DEF RequestId
<1>6. s = Asking(r, rx, sv)
  BY <1>1 DEF Asking
<1>. QED  BY <1>4, <1>5, <1>6

\* The tables that a request changes.
WithRequests(r, n, incoming, serving) ==
    [r EXCEPT !.nextId = n, !.incoming = incoming, !.serving = serving]

LEMMA RequestsSet ==
    ASSUME NEW r \in Relays, NEW n \in Nat, NEW incoming \in SUBSET Fetches,
           NEW serving \in SUBSET Servings, NEW s, s = WithRequests(r, n, incoming, serving)
    PROVE  /\ s \in Relays /\ s.nextId = n /\ s.incoming = incoming /\ s.serving = serving
           /\ SameBut(r, s, {"nextId", "incoming", "serving"})
<1>1. s \in Relays /\ s.nextId = n /\ s.incoming = incoming /\ s.serving = serving
  BY DEF Relays, WithRequests
<1>2. SameBut(r, s, {"nextId", "incoming", "serving"})
  BY DEF Relays, SameBut, Fields, WithRequests
<1>. QED  BY <1>1, <1>2

LEMMA AskingIs ==
    ASSUME NEW r \in Relays, NEW rx \in Fetches, NEW sv \in Servings, NEW s, s = Asking(r, rx, sv)
    PROVE  /\ s \in Relays /\ SameBut(r, s, {"nextId", "incoming", "serving"})
           /\ s.nextId = r.nextId + 1 /\ r.nextId \in Nat
           /\ s.incoming = r.incoming \cup {rx} /\ s.serving = r.serving \cup {sv}
<1>. DEFINE n == r.nextId + 1
            incoming == r.incoming \cup {rx}
            serving == r.serving \cup {sv}
<1>1. /\ n \in Nat /\ incoming \in SUBSET Fetches /\ serving \in SUBSET Servings
      /\ s = WithRequests(r, n, incoming, serving) /\ r.nextId \in Nat
  BY DEF Relays, Asking, WithRequests
<1>. HIDE DEF n, incoming, serving
<1>2. /\ s \in Relays /\ s.nextId = n /\ s.incoming = incoming /\ s.serving = serving
      /\ SameBut(r, s, {"nextId", "incoming", "serving"})
  BY <1>1, RequestsSet
<1>. QED  BY <1>1, <1>2 DEF n, incoming, serving

\* A new request is in nobody's way, when its joiner is on none.
LEMMA AskingKeeps ==
    ASSUME NEW r, NEW l, Sound(r, l), NEW rx \in Fetches, NEW sv \in Servings,
           rx.id = r.nextId, rx.got <= rx.declared, sv.id = r.nextId,
           rx.joiner # None => /\ Fetched(r, rx.joiner) = {} /\ Admitted(r, rx.joiner)
                               /\ sv.for = r.session[rx.joiner].client,
           NEW s, s = Asking(r, rx, sv)
    PROVE  Sound(s, l)
<1>1. r \in Relays
  BY DEF Sound
<1>2. /\ s \in Relays /\ SameBut(r, s, {"nextId", "incoming", "serving"})
      /\ s.nextId = r.nextId + 1 /\ r.nextId \in Nat
      /\ s.incoming = r.incoming \cup {rx} /\ s.serving = r.serving \cup {sv}
  BY <1>1, AskingIs
<1>3. /\ s.dump = r.dump /\ s.nextDump = r.nextDump /\ s.runs = r.runs
      /\ s.session = r.session /\ s.held = r.held
      /\ s.granted = r.granted /\ s.out = r.out /\ s.head = r.head
  BY <1>2 DEF SameBut, Fields
<1>4. RunWaitedFor(s) /\ Downloading(s) /\ HandsOwn(s, l)
  <2>1. RunWaitedFor(s) /\ Downloading(s)
    BY <1>3 DEF Sound, RunWaitedFor, Downloading
  <2>. QED  BY <1>3, <2>1, NothingHanded DEF Sound
<1>5. \A x \in r.incoming : x.id \in Nat /\ x.id < r.nextId
  BY <1>1 DEF Sound, Numbered, Relays, Fetches
<1>6. \A x \in r.serving : x.id \in Nat /\ x.id < r.nextId
  BY <1>1 DEF Sound, Numbered, Relays, Servings
<1>7. Numbered(s)
  BY <1>2, <1>5, <1>6 DEF Sound, Numbered
<1>8. FetchedOnce(s)
  <2>1. \A x \in r.incoming : rx.joiner # None => x.joiner # rx.joiner
    BY DEF Fetched
  <2>. QED  BY <1>2, <2>1 DEF Sound, FetchedOnce
<1>9. FetchedForIts(s)
  <2>. SUFFICES ASSUME NEW a \in s.serving, NEW x \in s.incoming,
                       x.source = a.source, x.id = a.id, x.joiner # None
                PROVE  Admitted(s, x.joiner) /\ a.for = s.session[x.joiner].client
    BY DEF FetchedForIts
  <2>1. CASE x \in r.incoming /\ a \in r.serving
    BY <1>3, <2>1 DEF Sound, FetchedForIts, Admitted
  <2>2. CASE x = rx /\ a = sv
    BY <1>3, <2>2 DEF Admitted
  <2>3. ~(x = rx /\ a \in r.serving) /\ ~(x \in r.incoming /\ a = sv)
    BY <1>5, <1>6
  <2>. QED  BY <1>2, <2>1, <2>2, <2>3
<1>. QED  BY <1>2, <1>4, <1>7, <1>8, <1>9 DEF Sound

\* start_snapshot_fetch, from a client.
LEMMA AskSourceKeeps ==
    ASSUME NEW r, NEW l, NEW todo, NEW gone, Sound(r, l), Placed(r, l, todo, gone), NEW j \in todo,
           NEW source \in Peer, NEW s \in AskSource(r, source, j, r.session[j].client)
    PROVE  Sound(s, l) /\ Placed(s, l, todo \ {j}, gone) /\ s.phase = r.phase
<1>. DEFINE client == r.session[j].client
<1>1. r \in Relays /\ j \in Peer /\ Waits(r, l, j) = {} /\ Admitted(r, j)
  BY DEF Sound, Placed, OnItsWay, IsSyncing
<1>2. j \in Peer \cup {None} /\ client \in {0} \cup Client /\ s \in AskSource(r, source, j, client)
  BY <1>1 DEF Relays, Admitted, Sessions
<1>. HIDE DEF client
<1>3. PICK rx \in Fetches, sv \in Servings :
         /\ s = Asking(r, rx, sv)
         /\ rx.id = r.nextId /\ rx.joiner = j /\ rx.got <= rx.declared
         /\ sv.id = r.nextId /\ sv.for = client
  BY <1>1, <1>2, AskSourceIs
<1>4. Fetched(r, j) = {} /\ ~AwaitsDump(r, j) /\ j \notin r.waiting
  BY <1>1, OnNoWay
<1>5. Sound(s, l)
  BY <1>1, <1>3, <1>4, AskingKeeps DEF client
<1>6. /\ SameBut(r, s, {"nextId", "incoming", "serving"}) /\ s.incoming = r.incoming \cup {rx}
  BY <1>1, <1>3, AskingIs
<1>7. /\ s.dump = r.dump /\ s.waiting = r.waiting /\ s.session = r.session /\ s.held = r.held
      /\ s.granted = r.granted /\ s.out = r.out /\ s.phase = r.phase
  BY <1>6 DEF SameBut, Fields
<1>8. \A p \in Peer \ {j} : Fetched(s, p) = Fetched(r, p)
  BY <1>3, <1>6 DEF Fetched
<1>9. Fetched(s, j) # {}
  BY <1>3, <1>6 DEF Fetched
<1>10. Placed(s, l, todo \ {j}, gone)
  BY <1>4, <1>7, <1>8, <1>9, TakesAWay DEF AwaitsDump
<1>. QED  BY <1>5, <1>7, <1>10

\* start_snapshot_fetch, while the restore is under way.
LEMMA AwaitRestoreKeeps ==
    ASSUME NEW r, NEW l, NEW todo, NEW gone, Sound(r, l), Placed(r, l, todo, gone), NEW j \in todo,
           NEW s, s = [r EXCEPT !.waiting = @ \cup {j}]
    PROVE  Sound(s, l) /\ Placed(s, l, todo \ {j}, gone) /\ s.phase = r.phase
<1>1. r \in Relays /\ j \in Peer /\ Waits(r, l, j) = {}
  BY DEF Sound, Placed
<1>2. s \in Relays /\ s.waiting = r.waiting \cup {j}
  BY <1>1 DEF Relays
<1>3. SameBut(r, s, {"waiting"})
  BY <1>1 DEF Relays, SameBut, Fields
<1>4. /\ s.incoming = r.incoming /\ s.serving = r.serving /\ s.nextId = r.nextId
      /\ s.dump = r.dump /\ s.nextDump = r.nextDump /\ s.runs = r.runs
      /\ s.session = r.session /\ s.held = r.held
      /\ s.granted = r.granted /\ s.out = r.out /\ s.head = r.head /\ s.phase = r.phase
  BY <1>3 DEF SameBut, Fields
<1>5. /\ Numbered(s) /\ FetchedOnce(s) /\ FetchedForIts(s) /\ Downloading(s) /\ RunWaitedFor(s)
      /\ HandsOwn(s, l)
  <2>1. Numbered(s) /\ FetchedOnce(s) /\ FetchedForIts(s) /\ Downloading(s) /\ RunWaitedFor(s)
    BY <1>4 DEF Sound, Numbered, FetchedOnce, FetchedForIts, Downloading, RunWaitedFor, Admitted
  <2>. QED  BY <1>4, <2>1, NothingHanded DEF Sound
<1>6. Placed(s, l, todo \ {j}, gone)
  <2>1. Fetched(r, j) = {} /\ ~AwaitsDump(r, j)
    BY <1>1, OnNoWay
  <2>2. \A p \in Peer : Fetched(s, p) = Fetched(r, p) /\ (AwaitsDump(s, p) <=> AwaitsDump(r, p))
    BY <1>4 DEF Fetched, AwaitsDump
  <2>3. j \in s.waiting /\ \A p \in Peer \ {j} : p \in s.waiting <=> p \in r.waiting
    BY <1>2
  <2>4. Fetched(s, j) = {} /\ ~AwaitsDump(s, j)
    BY <1>1, <2>1, <2>2
  <2>. QED  BY <1>4, <2>2, <2>3, <2>4, TakesAWay
<1>. QED  BY <1>2, <1>4, <1>5, <1>6 DEF Sound

\* retry_join remembers the source that failed.
Trying(r, j, q) == [r EXCEPT !.session[j].tried = @ \cup {q}]

LEMMA TryingKeeps ==
    ASSUME NEW r, NEW l, NEW todo, NEW gone, Sound(r, l), Placed(r, l, todo, gone), NEW j \in todo,
           NEW q \in Peer, NEW s, s = Trying(r, j, q)
    PROVE  Sound(s, l) /\ Placed(s, l, todo, gone) /\ s.phase = r.phase
<1>. DEFINE new == [r.session[j] EXCEPT !.tried = @ \cup {q}]
            sessions == [r.session EXCEPT ![j] = new]
<1>1. r \in Relays /\ j \in Peer /\ Admitted(r, j)
  BY DEF Sound, Placed, OnItsWay, IsSyncing
<1>2. r.session \in [Peer -> Sessions \cup {None}] /\ r.session[j] \in Sessions
  BY <1>1 DEF Relays, Admitted
<1>3. /\ new \in Sessions /\ new # None /\ new.client = r.session[j].client
      /\ new.role = r.session[j].role /\ new.leaving = r.session[j].leaving
      /\ new.turns = r.session[j].turns
  BY <1>2, TriedAre
<1>4. s = [r EXCEPT !.session = sessions]
  BY <1>1 DEF Relays, Trying
<1>. HIDE DEF new
<1>5. /\ sessions \in [Peer -> Sessions \cup {None}] /\ sessions[j] = new
      /\ \A p \in Peer \ {j} : sessions[p] = r.session[p]
  <2>1. j \in Peer /\ new \in Sessions \cup {None}
    BY <1>1, <1>3
  <2>2. sessions \in [Peer -> Sessions \cup {None}]
    BY <1>2, <2>1
  <2>. QED  BY <1>2, <2>1, <2>2
<1>. HIDE DEF sessions
<1>6. s \in Relays /\ SameBut(r, s, {"session"}) /\ s.session = sessions
  BY <1>1, <1>4, <1>5, SessionSet
<1>7. /\ s.incoming = r.incoming /\ s.serving = r.serving /\ s.nextId = r.nextId
      /\ s.dump = r.dump /\ s.nextDump = r.nextDump /\ s.runs = r.runs
      /\ s.waiting = r.waiting /\ s.held = r.held
      /\ s.granted = r.granted /\ s.out = r.out /\ s.head = r.head /\ s.phase = r.phase
  BY <1>6 DEF SameBut, Fields
<1>8. \A p \in Peer : /\ Admitted(s, p) <=> Admitted(r, p)
                      /\ Admitted(r, p) => /\ s.session[p].client = r.session[p].client
                                           /\ s.session[p].turns = r.session[p].turns
                      /\ OnItsWay(s, p) <=> OnItsWay(r, p)
                      /\ s.session[p] = None <=> r.session[p] = None
  BY <1>1, <1>3, <1>5, <1>6 DEF Admitted, OnItsWay, IsSyncing
<1>9. \A p \in Peer : Waits(s, l, p) = Waits(r, l, p)
  BY <1>7, SameWays DEF Fetched, AwaitsDump
<1>10. Numbered(s) /\ FetchedOnce(s) /\ RunWaitedFor(s) /\ Downloading(s)
  BY <1>7 DEF Sound, Numbered, FetchedOnce, RunWaitedFor, Downloading
<1>11. FetchedForIts(s)
  BY <1>1, <1>7, <1>8 DEF Sound, FetchedForIts, Relays, Fetches
<1>12. HandsOwn(s, l)
  <2>1. \A p \in Peer : InHand(s, l, p) = InHand(r, l, p)
    BY <1>7 DEF InHand
  <2>. QED  BY <1>7, <1>8, <2>1 DEF Sound, HandsOwn, IsFor
<1>13. Placed(s, l, todo, gone)
  BY <1>8, <1>9 DEF Placed
<1>. QED  BY <1>6, <1>7, <1>10, <1>11, <1>12, <1>13 DEF Sound

\* The newest of some turns is one of them.
LEMMA MaxIs ==
    ASSUME NEW S \in SUBSET Turn, S # {}
    PROVE  Max(S) \in S
<1>. DEFINE Gaps == {MaxTurn - t : t \in S}
<1>1. Gaps \in SUBSET Nat /\ Gaps # {}
  <2>1. \A t \in S : t \in Int /\ t <= MaxTurn
    BY Consts DEF Turn
  <2>2. \A t \in S : MaxTurn - t \in Nat
    BY <2>1, Consts
  <2>. QED  BY <2>2
<1>2. PICK m \in Gaps : \A k \in Gaps : <<k, m>> \notin OpToRel(<, Nat)
  BY <1>1, WFMin, NatLessThanWellFounded, Zenon
<1>3. \A k \in Gaps : ~(k < m)
  BY <1>1, <1>2, Zenon DEF OpToRel
<1>4. PICK t \in S : m = MaxTurn - t
  BY <1>2, Zenon
<1>5. \A u \in S : t >= u
  BY <1>1, <1>3, <1>4, Consts DEF Turn
<1>. QED  BY <1>4, <1>5, Zenon DEF Max

LEMMA StoredKeeps ==
    ASSUME NEW r, NEW l, NEW todo, NEW gone, Sound(r, l), Placed(r, l, todo, gone), NEW j \in todo,
           NEW turn \in Turn, NEW s \in DeliverStored(r, j, turn)
    PROVE  Sound(s, l) /\ Placed(s, l, todo \ {j}, gone) /\ s.phase = r.phase
<1>1. PICK fits \in BOOLEAN : s = Deliver(r, j, Anyones(turn), <<turn, turn>>, fits)
  BY DEF DeliverStored
<1>2. Suits(r, j, Anyones(turn), <<turn, turn>>)
  BY Consts DEF Suits, Anyones, Snapshot
<1>. QED  BY <1>1, <1>2, DeliverKeeps

\* j is still to be served, and s is the relay once it has been.
Due(r, l, todo, gone, j) == Sound(r, l) /\ Placed(r, l, todo, gone) /\ j \in todo
Done(r, l, todo, gone, j, s) ==
    Sound(s, l) /\ Placed(s, l, todo \ {j}, gone) /\ s.phase = r.phase

\* Wherever start_snapshot_fetch turns, the joiner is on one way, or on its way out.
LEMMA StartFetchKeeps ==
    ASSUME NEW r, NEW l, NEW todo, NEW gone, NEW j, Due(r, l, todo, gone, j),
           NEW allowDump, NEW s \in StartFetch(r, j, allowDump)
    PROVE  Done(r, l, todo, gone, j, s)
<1>. DEFINE supply == Supply(r, j, allowDump)
<1>0. Sound(r, l) /\ Placed(r, l, todo, gone) /\ j \in todo
  BY DEF Due
<1>1. r.head \in Turn /\ r.ready \in Turn /\ r.seed \in Turn \cup {None} /\ r.states \subseteq Turn
  BY <1>0 DEF Sound, Relays
<1>2. supply \in {"restore", "seed", "stored", "feed dump", "client", "live dump", "nobody"}
  BY DEF Supply
<1>3. (supply = "seed" => r.seed # None) /\ (supply = "stored" => Usable(r, j) # {})
  BY DEF Supply
<1>4. CASE supply = "restore"
  <2>1. s = [r EXCEPT !.waiting = @ \cup {j}]
    BY <1>4 DEF StartFetch
  <2>. QED  BY <1>0, <2>1, AwaitRestoreKeeps DEF Done
<1>5. CASE supply = "seed"
  <2>1. s \in DeliverStored(r, j, r.seed)
    BY <1>5 DEF StartFetch
  <2>2. r.seed \in Turn
    BY <1>1, <1>3, <1>5
  <2>. QED  BY <1>0, <2>1, <2>2, StoredKeeps DEF Done
<1>6. CASE supply = "stored"
  <2>1. s \in DeliverStored(r, j, Max(Usable(r, j)))
    BY <1>6 DEF StartFetch
  <2>2. Usable(r, j) \in SUBSET Turn /\ Usable(r, j) # {}
    BY <1>1, <1>3, <1>6 DEF Usable
  <2>3. Max(Usable(r, j)) \in Turn
    BY <2>2, MaxIs
  <2>. QED  BY <1>0, <2>1, <2>3, StoredKeeps DEF Done
<1>7. CASE supply = "feed dump"
  <2>1. s = RequestDump(r, j, r.head)
    BY <1>7, Zenon DEF StartFetch
  <2>. QED  BY <1>0, <1>1, <2>1, RequestDumpKeeps DEF Done
<1>8. CASE supply = "client"
  <2>1. PICK p \in Preferred(r, j) : s \in AskSource(r, p, j, r.session[j].client)
    BY <1>8 DEF StartFetch
  <2>2. p \in Peer
    BY DEF Preferred, Candidates
  <2>. QED  BY <1>0, <2>1, <2>2, AskSourceKeeps DEF Done
<1>9. CASE supply = "live dump"
  <2>1. s = RequestDump(r, j, r.ready)
    BY <1>9, Zenon DEF StartFetch
  <2>. QED  BY <1>0, <1>1, <2>1, RequestDumpKeeps DEF Done
<1>10. CASE supply = "nobody"
  <2>1. s = Dismiss(r, j)
    BY <1>10 DEF StartFetch
  <2>. QED  BY <1>0, <2>1, DismissKeeps DEF Done
<1>. QED  BY <1>2, <1>4, <1>5, <1>6, <1>7, <1>8, <1>9, <1>10, Zenon

LEMMA RetryJoinKeeps ==
    ASSUME NEW r, NEW l, NEW todo, NEW gone, NEW j, Due(r, l, todo, gone, j),
           NEW failed \in Peer, NEW s \in RetryJoin(r, j, failed)
    PROVE  Done(r, l, todo, gone, j, s)
<1>. DEFINE q == Trying(r, j, failed)
<1>1. IsSyncing(r, j)
  BY DEF Due, Placed, OnItsWay
<1>2. s \in StartFetch(q, j, TRUE)
  BY <1>1 DEF RetryJoin, Trying
<1>3. Due(q, l, todo, gone, j) /\ q.phase = r.phase
  BY TryingKeeps DEF Due
<1>. HIDE DEF q
<1>4. Done(q, l, todo, gone, j, s)
  BY <1>2, <1>3, StartFetchKeeps, Zenon
<1>. QED  BY <1>3, <1>4 DEF Done

LEMMA AfterFailedDumpKeeps ==
    ASSUME NEW r, NEW l, NEW todo, NEW gone, NEW j, Due(r, l, todo, gone, j),
           NEW s \in AfterFailedDump(r, j)
    PROVE  Done(r, l, todo, gone, j, s)
<1>1. IsSyncing(r, j)
  BY DEF Due, Placed, OnItsWay
<1>2. CASE j \in Watcher
  <2>1. s \in StartFetch(r, j, FALSE)
    BY <1>1, <1>2 DEF AfterFailedDump
  <2>. QED  BY <2>1, StartFetchKeeps, Zenon
<1>3. CASE j \notin Watcher
  <2>1. s = Dismiss(r, j)
    BY <1>1, <1>3 DEF AfterFailedDump
  <2>. QED  BY <2>1, DismissKeeps DEF Due, Done
<1>. QED  BY <1>2, <1>3

-----------------------------------------------------------------------------
(* Serving several joiners in one handler.                                 *)

\* The calls that handlers make.
Calls ==
    {Lost(j, q) : j \in Peer, q \in Peer}
        \cup {Answered(j, how, turn, turn) : j \in Peer, how \in Answers, turn \in Turn}

LEMMA ServeKeeps ==
    ASSUME NEW r, NEW l, NEW todo, NEW gone, NEW c \in Calls, Due(r, l, todo, gone, c.joiner),
           NEW s \in Serve(r, c)
    PROVE  Done(r, l, todo, gone, c.joiner, s)
<1>1. CASE \E j \in Peer, q \in Peer : c = Lost(j, q)
  <2>1. PICK j \in Peer, q \in Peer : c = Lost(j, q)
    BY <1>1
  <2>2. c.how = "lost" /\ c.joiner = j /\ c.source = q
    BY <2>1 DEF Lost
  <2>3. s \in RetryJoin(r, j, q)
    BY <2>2 DEF Serve
  <2>. QED  BY <2>2, <2>3, RetryJoinKeeps
<1>2. CASE \E j \in Peer, how \in Answers, turn \in Turn : c = Answered(j, how, turn, turn)
  <2>1. PICK j \in Peer, how \in Answers, turn \in Turn : c = Answered(j, how, turn, turn)
    BY <1>2
  <2>2. c.how = how /\ c.joiner = j /\ c.given = turn /\ c.turn = turn
    BY <2>1 DEF Answered
  <2>3. CASE how = "failed"
    <3>1. s \in AfterFailedDump(r, j)
      BY <2>2, <2>3 DEF Serve
    <3>. QED  BY <2>2, <3>1, AfterFailedDumpKeeps
  <2>4. CASE how # "failed"
    <3>1. how = "fits" \/ how = "too long"
      BY <2>4 DEF Answers
    <3>2. c.how # "lost" /\ c.how # "failed" /\ c.how \in {"fits", "too long"}
      BY <2>2, <3>1
    <3>3. s \in {Deliver(r, c.joiner, Anyones(c.given), <<c.turn, c.turn>>, c.how = "fits")}
      BY <3>2, Zenon DEF Serve
    <3>4. PICK fits : s = Deliver(r, j, Anyones(turn), <<turn, turn>>, fits)
      BY <2>2, <3>3, Zenon
    <3>5. Suits(r, j, Anyones(turn), <<turn, turn>>)
      BY Consts DEF Suits, Anyones, Snapshot
    <3>. QED  BY <2>2, <3>4, <3>5, DeliverKeeps DEF Due, Done
  <2>. QED  BY <2>3, <2>4
<1>. QED  BY <1>1, <1>2 DEF Calls

\* One call for each of the joiners.
OneEach(calls) ==
    /\ calls \subseteq Calls
    /\ \A c, d \in calls : c.joiner = d.joiner => c = d

JoinersOf(calls) == {c.joiner : c \in calls}

LEMMA CallIs ==
    ASSUME NEW c \in Calls
    PROVE  c.joiner \in Peer
<1>1. CASE \E j \in Peer, q \in Peer : c = Lost(j, q)
  BY <1>1 DEF Lost
<1>2. CASE \E j \in Peer, how \in Answers, turn \in Turn : c = Answered(j, how, turn, turn)
  BY <1>2 DEF Answered
<1>. QED  BY <1>1, <1>2 DEF Calls

LEMMA FinitelyMany ==
    ASSUME NEW calls, OneEach(calls)
    PROVE  IsFiniteSet(calls)
<1>. DEFINE f == [c \in calls |-> c.joiner]
<1>1. f \in [calls -> Peer]
  BY CallIs DEF OneEach
<1>2. f \in Injection(calls, Peer)
  BY <1>1 DEF OneEach, Injection, IsInjective
<1>. HIDE DEF f
<1>. QED  BY <1>2, Consts, FS_Injection

\* What some of the calls leave behind, by what fewer of them do.
Outcomes(r, f, done) ==
    IF done = {} THEN {r}
    ELSE UNION {UNION {Serve(q, c) : q \in f[done \ {c}]} : c \in done}
ByOneMore(r, sets, f) == [done \in sets |-> Outcomes(r, f, done)]

LEMMA SmallerSets ==
    ASSUME NEW calls, IsFiniteSet(calls), NEW done \in SUBSET calls, NEW c \in done
    PROVE  /\ IsFiniteSet(done) /\ Cardinality(done) \in Nat /\ done \ {c} \in SUBSET calls
           /\ Cardinality(done) <= Cardinality(calls) /\ Cardinality(calls) \in Nat
           /\ Cardinality(done \ {c}) = Cardinality(done) - 1 /\ Cardinality(done) # 0
<1>1. IsFiniteSet(done) /\ Cardinality(done) <= Cardinality(calls)
  BY FS_Subset
<1>2. Cardinality(done) \in Nat /\ Cardinality(calls) \in Nat
  BY <1>1, FS_CardinalityType
<1>3. Cardinality(done \ {c}) = Cardinality(done) - 1
  BY <1>1, FS_RemoveElement
<1>4. Cardinality(done) # 0
  BY <1>1, FS_EmptySet
<1>. QED  BY <1>1, <1>2, <1>3, <1>4

\* The recursion of ServeAll defines a function.
LEMMA AfterExists ==
    ASSUME NEW r, NEW calls, IsFiniteSet(calls)
    PROVE  \E f : f = ByOneMore(r, SUBSET calls, f)
<1>. DEFINE UpTo(n) == {done \in SUBSET calls : Cardinality(done) <= n}
            Missing == {n \in Nat : ~ \E f : f = ByOneMore(r, UpTo(n), f)}
<1>1. \A done \in SUBSET calls : /\ Cardinality(done) \in Nat /\ Cardinality(calls) \in Nat
                                 /\ Cardinality(done) <= Cardinality(calls)
                                 /\ Cardinality(done) = 0 <=> done = {}
  BY FS_Subset, FS_CardinalityType, FS_EmptySet
<1>2. Missing = {}
  <2>. SUFFICES ASSUME Missing # {}  PROVE FALSE
    OBVIOUS
  <2>1. PICK m \in Missing : \A k \in Missing : <<k, m>> \notin OpToRel(<, Nat)
    BY WFMin, NatLessThanWellFounded, Zenon
  <2>2. m \in Nat /\ \A k \in Missing : ~(k < m)
    BY <2>1, Zenon DEF OpToRel
  <2>3. ~ \E f : f = ByOneMore(r, UpTo(m), f)
    BY <2>1
  <2>4. CASE m = 0
    <3>. DEFINE f == [done \in UpTo(m) |-> {r}]
    <3>1. \A done \in UpTo(m) : done = {}
      BY <1>1, <2>4
    <3>2. f = ByOneMore(r, UpTo(m), f)
      BY <3>1 DEF ByOneMore, Outcomes
    <3>. QED  BY <2>3, <3>2
  <2>5. CASE m # 0
    <3>1. m - 1 \in Nat /\ m - 1 < m
      BY <2>2, <2>5
    <3>2. m - 1 \notin Missing
      BY <2>2, <3>1
    <3>3. PICK g : g = ByOneMore(r, UpTo(m - 1), g)
      BY <3>1, <3>2
    <3>. DEFINE f == ByOneMore(r, UpTo(m), g)
    <3>4. ASSUME NEW done \in UpTo(m), NEW c \in done
          PROVE  done \ {c} \in UpTo(m - 1) /\ done \ {c} \in UpTo(m)
      BY <2>2, <3>4, SmallerSets
    <3>5. \A less \in UpTo(m - 1) :
             g[less] = IF less = {} THEN {r}
                       ELSE UNION {UNION {Serve(q, c) : q \in g[less \ {c}]} : c \in less}
      BY <3>3 DEF ByOneMore, Outcomes
    <3>6. \A less \in UpTo(m) :
             f[less] = IF less = {} THEN {r}
                       ELSE UNION {UNION {Serve(q, c) : q \in g[less \ {c}]} : c \in less}
      BY DEF ByOneMore, Outcomes
    <3>7. \A less \in UpTo(m - 1) : less \in UpTo(m) => f[less] = g[less]
      BY <3>5, <3>6
    <3>8. \A done \in UpTo(m) : \A c \in done : f[done \ {c}] = g[done \ {c}]
      BY <3>4, <3>7
    <3>9. f = ByOneMore(r, UpTo(m), f)
      <4>1. ASSUME NEW done \in UpTo(m)
            PROVE  ByOneMore(r, UpTo(m), g)[done] = ByOneMore(r, UpTo(m), f)[done]
        <5>. DEFINE With(h) == {UNION {Serve(q, c) : q \in h[done \ {c}]} : c \in done}
        <5>. HIDE DEF f
        <5>1. With(f) = With(g)
          BY <3>8, <4>1
        <5>2. ByOneMore(r, UpTo(m), g)[done] = IF done = {} THEN {r} ELSE UNION With(g)
          BY <4>1 DEF ByOneMore, Outcomes
        <5>3. ByOneMore(r, UpTo(m), f)[done] = IF done = {} THEN {r} ELSE UNION With(f)
          BY <4>1 DEF ByOneMore, Outcomes
        <5>. QED  BY <5>1, <5>2, <5>3
      <4>2. ByOneMore(r, UpTo(m), g) = [done \in UpTo(m) |-> ByOneMore(r, UpTo(m), g)[done]]
        BY DEF ByOneMore, Outcomes
      <4>3. ByOneMore(r, UpTo(m), f) = [done \in UpTo(m) |-> ByOneMore(r, UpTo(m), f)[done]]
        <5>. HIDE DEF f
        <5>. QED  BY DEF ByOneMore, Outcomes
      <4>4. ByOneMore(r, UpTo(m), g) = ByOneMore(r, UpTo(m), f)
        BY <4>1, <4>2, <4>3, Zenon
      <4>. QED  BY <4>4
    <3>. QED  BY <2>3, <3>9
  <2>. QED  BY <2>4, <2>5
<1>3. Cardinality(calls) \in Nat /\ UpTo(Cardinality(calls)) = SUBSET calls
  BY <1>1
<1>4. Cardinality(calls) \notin Missing
  BY <1>2
<1>. QED  BY <1>3, <1>4

LEMMA AfterIs ==
    ASSUME NEW r, NEW calls, IsFiniteSet(calls)
    PROVE  \E f : /\ ServeAll(r, calls) = f[calls]
                  /\ \A done \in SUBSET calls : f[done] = Outcomes(r, f, done)
<1>. DEFINE f == CHOOSE after : after = ByOneMore(r, SUBSET calls, after)
<1>1. f = ByOneMore(r, SUBSET calls, f)
  BY AfterExists, Zenon
<1>2. ServeAll(r, calls) = f[calls]
  BY DEF ServeAll, ByOneMore, Outcomes
<1>. HIDE DEF f
<1>3. \A done \in SUBSET calls : f[done] = Outcomes(r, f, done)
  BY <1>1 DEF ByOneMore
<1>. QED  BY <1>2, <1>3, Zenon

\* In whatever order the joiners are served, each is once.
LEMMA ServeAllKeeps ==
    ASSUME NEW r, NEW l, NEW gone, NEW calls, OneEach(calls),
           Sound(r, l), Placed(r, l, JoinersOf(calls), gone), NEW s \in ServeAll(r, calls)
    PROVE  Sound(s, l) /\ Placed(s, l, {}, gone) /\ s.phase = r.phase
<1>. DEFINE Good(done, q) ==
                Sound(q, l) /\ Placed(q, l, JoinersOf(calls \ done), gone) /\ q.phase = r.phase
<1>0. IsFiniteSet(calls)
  BY FinitelyMany
<1>1. PICK f : /\ ServeAll(r, calls) = f[calls]
               /\ \A done \in SUBSET calls : f[done] = Outcomes(r, f, done)
  BY <1>0, AfterIs
<1>. DEFINE Bad == {n \in Nat : \E done \in SUBSET calls : /\ Cardinality(done) = n
                                                           /\ \E q \in f[done] : ~Good(done, q)}
<1>2. Bad = {}
  <2>. SUFFICES ASSUME Bad # {}  PROVE FALSE
    OBVIOUS
  <2>1. PICK m \in Bad : \A k \in Bad : <<k, m>> \notin OpToRel(<, Nat)
    BY WFMin, NatLessThanWellFounded, Zenon
  <2>2. m \in Nat /\ \A k \in Bad : ~(k < m)
    BY <2>1, Zenon DEF OpToRel
  <2>3. PICK done \in SUBSET calls : Cardinality(done) = m /\ \E q \in f[done] : ~Good(done, q)
    BY <2>1
  <2>4. PICK q \in f[done] : ~Good(done, q)
    BY <2>3
  <2>5. CASE done = {}
    <3>1. q = r /\ calls \ done = calls
      BY <1>1, <2>4, <2>5 DEF Outcomes
    <3>. QED  BY <2>4, <3>1
  <2>6. CASE done # {}
    <3>1. q \in UNION {UNION {Serve(p, c) : p \in f[done \ {c}]} : c \in done}
      BY <1>1, <2>4, <2>6 DEF Outcomes
    <3>2. PICK c \in done : \E p \in f[done \ {c}] : q \in Serve(p, c)
      BY <3>1
    <3>3. PICK p \in f[done \ {c}] : q \in Serve(p, c)
      BY <3>2
    <3>4. done \ {c} \in SUBSET calls /\ Cardinality(done \ {c}) \in Nat /\ Cardinality(done \ {c}) < m
      BY <1>0, <2>2, <2>3, SmallerSets
    <3>5. Good(done \ {c}, p)
      BY <2>2, <3>4
    <3>. DEFINE todo == JoinersOf(calls \ (done \ {c}))
    <3>6. c \in Calls /\ c.joiner \in todo
      BY <2>3 DEF OneEach, JoinersOf
    <3>7. todo \ {c.joiner} = JoinersOf(calls \ done)
      BY <2>3 DEF OneEach, JoinersOf
    <3>8. Due(p, l, todo, gone, c.joiner) /\ p.phase = r.phase
      BY <3>5, <3>6 DEF Due
    <3>. HIDE DEF todo
    <3>9. Done(p, l, todo, gone, c.joiner, q)
      BY <3>3, <3>6, <3>8, ServeKeeps
    <3>. QED  BY <2>4, <3>7, <3>8, <3>9 DEF Done
  <2>. QED  BY <2>5, <2>6
<1>3. Good(calls, s)
  <2>1. s \in f[calls] /\ calls \in SUBSET calls
    BY <1>1
  <2>2. Cardinality(calls) \in Nat
    BY <1>0, FS_CardinalityType
  <2>. QED  BY <1>2, <2>1, <2>2
<1>4. JoinersOf(calls \ calls) = {}
  BY DEF JoinersOf
<1>. QED  BY <1>3, <1>4

-----------------------------------------------------------------------------
(* The handlers.                                                           *)

\* Tables that no part of the invariant reads.
LEMMA AsideKeeps ==
    ASSUME NEW r, NEW l, NEW todo, NEW gone, Sound(r, l), Placed(r, l, todo, gone), NEW s \in Relays,
           SameBut(r, s, {"phase", "ready", "states", "pulledAt", "restoring"})
    PROVE  Sound(s, l) /\ Placed(s, l, todo, gone)
<1>1. /\ s.incoming = r.incoming /\ s.serving = r.serving /\ s.nextId = r.nextId
      /\ s.dump = r.dump /\ s.nextDump = r.nextDump /\ s.runs = r.runs
      /\ s.waiting = r.waiting /\ s.session = r.session
      /\ s.held = r.held /\ s.granted = r.granted /\ s.out = r.out /\ s.head = r.head
  BY DEF SameBut, Fields
<1>2. /\ Numbered(s) /\ FetchedOnce(s) /\ FetchedForIts(s) /\ RunWaitedFor(s) /\ Downloading(s)
  BY <1>1 DEF Sound, Numbered, FetchedOnce, FetchedForIts, RunWaitedFor, Downloading, Admitted
<1>3. HandsOwn(s, l)
  BY <1>1, NothingHanded DEF Sound
<1>4. \A p : Waits(s, l, p) = Waits(r, l, p)
  BY <1>1, SameWays DEF Fetched, AwaitsDump
<1>5. Placed(s, l, todo, gone)
  BY <1>1, <1>4 DEF Placed, OnItsWay, IsSyncing, Admitted
<1>. QED  BY <1>2, <1>3, <1>5 DEF Sound

LEMMA StoreKeeps ==
    ASSUME NEW r, NEW l, Sound(r, l), Placed(r, l, {}, None), NEW t \in Turn, NEW s, s = Store(r, t)
    PROVE  Sound(s, l) /\ Placed(s, l, {}, None) /\ s.phase = r.phase
<1>1. CASE s = r
  BY <1>1
<1>2. CASE s # r
  <2>. DEFINE kept == r.states \cup {t}
              passed == {u \in kept : u <= r.head}
              states == {u \in kept : \A v \in passed : v <= u}
  <2>1. s = [r EXCEPT !.states = states]
    BY <1>2 DEF Store
  <2>2. r \in Relays /\ states \in SUBSET Turn
    BY DEF Sound, Relays
  <2>. HIDE DEF states
  <2>3. s \in Relays /\ s.phase = r.phase
    BY <2>1, <2>2 DEF Relays
  <2>4. SameBut(r, s, {"states"})
    BY <2>1, <2>2 DEF Relays, SameBut, Fields
  <2>5. SameBut(r, s, {"phase", "ready", "states", "pulledAt", "restoring"})
    BY <2>4 DEF SameBut
  <2>. QED  BY <2>3, <2>5, AsideKeeps
<1>. QED  BY <1>1, <1>2

\* on_checkpointed
LEMMA CheckpointedKeeps ==
    ASSUME Accounted, relay.phase # "Over", Checkpointed
    PROVE  Accounted'
<1>1. PICK t \in InitialTurn .. relay.ready : relay' = Store(relay, t)
  BY DEF Checkpointed
<1>2. relay.ready \in Turn
  BY DEF Accounted, Sound, Relays
<1>3. t \in Turn
  BY <1>2, Consts DEF InitialTurn, Turn
<1>4. Sound(relay', loading) /\ Placed(relay', loading, {}, None)
  BY <1>1, <1>3, StoreKeeps DEF Accounted
<1>. QED  BY <1>4 DEF Accounted, Checkpointed

\* release_turns
LEMMA ReleasesKeeps ==
    ASSUME Accounted, relay.phase # "Over", Releases
    PROVE  Accounted'
<1>. DEFINE n == relay.ready + 1
            r == [relay EXCEPT !.ready = n]
<1>1. relay' = AdvanceFeed(r) /\ loading' = loading /\ relay.ready < MaxTurn
  BY DEF Releases
<1>2. relay \in Relays /\ Sound(relay, loading) /\ Placed(relay, loading, {}, None)
  BY DEF Accounted, Sound
<1>3. n \in Turn
  BY <1>1, <1>2, Consts DEF Relays, Turn
<1>. HIDE DEF n
<1>4. r \in Relays
  BY <1>2, <1>3 DEF Relays
<1>5. SameBut(relay, r, {"ready"})
  BY <1>2 DEF Relays, SameBut, Fields
<1>6. SameBut(relay, r, {"phase", "ready", "states", "pulledAt", "restoring"})
  BY <1>5 DEF SameBut
<1>. HIDE DEF r
<1>7. Sound(r, loading) /\ Placed(r, loading, {}, None)
  BY <1>2, <1>4, <1>6, AsideKeeps
<1>8. Sound(relay', loading) /\ Placed(relay', loading, {}, None)
  BY <1>1, <1>7, FeedKeeps
<1>. QED  BY <1>1, <1>8 DEF Accounted

\* resume_match
LEMMA ResumesKeeps ==
    ASSUME Accounted, relay.phase # "Over", Resumes
    PROVE  Accounted'
<1>. DEFINE r == [relay EXCEPT !.phase = "InGame"]
<1>1. relay' = AdvanceFeed(r) /\ loading' = loading
  BY DEF Resumes
<1>2. relay \in Relays /\ Sound(relay, loading) /\ Placed(relay, loading, {}, None)
  BY DEF Accounted, Sound
<1>3. r \in Relays
  BY <1>2 DEF Relays
<1>4. SameBut(relay, r, {"phase"})
  BY <1>2 DEF Relays, SameBut, Fields
<1>5. SameBut(relay, r, {"phase", "ready", "states", "pulledAt", "restoring"})
  BY <1>4 DEF SameBut
<1>. HIDE DEF r
<1>6. Sound(r, loading) /\ Placed(r, loading, {}, None)
  BY <1>2, <1>3, <1>5, AsideKeeps
<1>7. Sound(relay', loading) /\ Placed(relay', loading, {}, None)
  BY <1>1, <1>6, FeedKeeps
<1>. QED  BY <1>1, <1>7 DEF Accounted

\* maybe_pull_client_state: a request for the relay itself is for no joiner.
LEMMA PullsStateKeeps ==
    ASSUME Accounted, relay.phase # "Over", PullsState
    PROVE  Accounted'
<1>. DEFINE r == [relay EXCEPT !.pulledAt = relay.ready]
<1>1. /\ loading' = loading
      /\ relay' = r \/ \E p \in Peer \ Watcher : relay' \in AskSource(r, p, None, 0)
  BY DEF PullsState
<1>2. relay \in Relays /\ Sound(relay, loading) /\ Placed(relay, loading, {}, None)
  BY DEF Accounted, Sound
<1>3. r \in Relays
  BY <1>2 DEF Relays
<1>4. SameBut(relay, r, {"pulledAt"})
  BY <1>2 DEF Relays, SameBut, Fields
<1>5. SameBut(relay, r, {"phase", "ready", "states", "pulledAt", "restoring"})
  BY <1>4 DEF SameBut
<1>. HIDE DEF r
<1>6. Sound(r, loading) /\ Placed(r, loading, {}, None)
  BY <1>2, <1>3, <1>5, AsideKeeps
<1>7. CASE relay' = r
  BY <1>1, <1>6, <1>7 DEF Accounted
<1>8. CASE \E p \in Peer \ Watcher : relay' \in AskSource(r, p, None, 0)
  <2>0. PICK s : s = relay'
    OBVIOUS
  <2>1. PICK p \in Peer : s \in AskSource(r, p, None, 0)
    BY <1>8, <2>0
  <2>2. PICK rx \in Fetches, sv \in Servings :
           /\ s = Asking(r, rx, sv)
           /\ rx.id = r.nextId /\ rx.joiner = None /\ rx.got <= rx.declared
           /\ sv.id = r.nextId /\ sv.for = 0
    BY <1>3, <2>1, AskSourceIs
  <2>3. Sound(s, loading)
    BY <1>6, <2>2, AskingKeeps
  <2>4. /\ SameBut(r, s, {"nextId", "incoming", "serving"}) /\ s.incoming = r.incoming \cup {rx}
    BY <1>3, <2>2, AskingIs
  <2>5. /\ s.dump = r.dump /\ s.waiting = r.waiting /\ s.session = r.session /\ s.held = r.held
        /\ s.granted = r.granted /\ s.out = r.out
    BY <2>4 DEF SameBut, Fields
  <2>6. \A p_1 \in Peer : Waits(s, loading, p_1) = Waits(r, loading, p_1)
    <3>1. \A p_1 \in Peer : Fetched(s, p_1) = Fetched(r, p_1)
      BY <2>2, <2>4, Consts DEF Fetched
    <3>. QED  BY <2>5, <3>1, SameWays DEF AwaitsDump
  <2>7. Placed(s, loading, {}, None)
    BY <1>6, <2>5, <2>6, Consts DEF Placed, OnItsWay, IsSyncing, Admitted
  <2>. QED  BY <1>1, <2>0, <2>3, <2>7 DEF Accounted
<1>. QED  BY <1>1, <1>7, <1>8

\* A handler that moves one peer only.
LEMMA OneMoves ==
    ASSUME NEW r, NEW l, NEW s, NEW k, NEW p \in Peer, Placed(r, l, {}, None),
           \A q \in Peer \ {p} : s.session[q] = r.session[q] /\ Waits(s, k, q) = Waits(r, l, q),
           IF OnItsWay(s, p) THEN \E w \in Ways : Waits(s, k, p) = {w} ELSE Waits(s, k, p) = {}
    PROVE  Placed(s, k, {}, None)
<1>1. \A q \in Peer \ {p} : OnItsWay(s, q) <=> OnItsWay(r, q)
  BY DEF OnItsWay, IsSyncing, Admitted
<1>. QED  BY <1>1, Consts DEF Placed

LEMMA OneHanded ==
    ASSUME NEW r, NEW l, NEW s, NEW k, NEW p \in Peer, HandsOwn(r, l), s.head = r.head,
           \A q \in Peer \ {p} : /\ s.session[q] = r.session[q] /\ s.held[q] = r.held[q]
                                 /\ InHand(s, k, q) = InHand(r, l, q),
           \A x \in InHand(s, k, p) \ {None} : IsFor(s, p, x) /\ (p \in Watcher => x.turn <= s.head),
           s.held[p] # None =>
               IsFor(s, p, s.held[p].state) /\ s.held[p].state.turn <= s.held[p].bound
    PROVE  HandsOwn(s, k)
<1>1. ASSUME NEW q \in Peer \ {p}
      PROVE  /\ \A x \in InHand(s, k, q) \ {None} : IsFor(s, q, x) /\ (q \in Watcher => x.turn <= s.head)
             /\ s.held[q] # None =>
                  IsFor(s, q, s.held[q].state) /\ s.held[q].state.turn <= s.held[q].bound
  BY <1>1 DEF HandsOwn, IsFor, Admitted
<1>. QED  BY <1>1 DEF HandsOwn

\* A peer that waits is on its way, and waits for nothing else.
LEMMA WaitsForOne ==
    ASSUME NEW r, NEW l, NEW p \in Peer, Placed(r, l, {}, None), NEW w \in Waits(r, l, p)
    PROVE  OnItsWay(r, p) /\ Waits(r, l, p) = {w}
  BY Consts DEF Placed

\* begin_send and pump: something is in flight, and nothing waits unless the window is full.
LEMMA PumpIs ==
    ASSUME NEW tx, NEW left \in Nat, NEW inFlight \in Nat, NEW state \in Snapshot,
           tx = [left |-> left, inFlight |-> inFlight, state |-> state],
           inFlight <= Window, left + inFlight <= Chunks, left + inFlight >= 1,
           NEW s, s = Pump(tx)
    PROVE  /\ s \in Downloads /\ s # None /\ s.state = state /\ s.left + s.inFlight <= Chunks
           /\ s.inFlight < Window => s.left = 0
<1>. DEFINE n == Smaller(Window - inFlight, left)
<1>1. /\ n \in Nat /\ n <= left /\ inFlight + n <= Window /\ inFlight + n >= 1
      /\ inFlight + n < Window => n = left
  BY Consts DEF Smaller
<1>2. s = [left |-> left - n, inFlight |-> inFlight + n, state |-> state]
  BY DEF Pump
<1>. HIDE DEF n
<1>3. left - n \in 0 .. Chunks /\ inFlight + n \in 1 .. Window
  BY <1>1, Consts
<1>4. s \in Downloads
  BY <1>2, <1>3 DEF Downloads
<1>5. s.state = state /\ s.left = left - n /\ s.inFlight = inFlight + n
  BY <1>2
<1>6. s.left + s.inFlight <= Chunks /\ (s.inFlight < Window => s.left = 0)
  BY <1>1, <1>5, Consts
<1>. QED  BY <1>4, <1>5, <1>6, Consts

\* The state p was granted is on its way to it, or what is left of it is.
Sending(r, p, granted, tx) == [r EXCEPT !.granted[p] = granted, !.out[p] = tx]

LEMMA SendingIs ==
    ASSUME NEW r \in Relays, NEW p \in Peer, NEW granted \in Snapshot \cup {None},
           NEW tx \in Downloads \cup {None}, NEW s, s = Sending(r, p, granted, tx)
    PROVE  /\ s \in Relays /\ SameBut(r, s, {"granted", "out"})
           /\ s.granted[p] = granted /\ s.out[p] = tx
           /\ \A q \in Peer \ {p} : s.granted[q] = r.granted[q] /\ s.out[q] = r.out[q]
<1>. DEFINE grants == [r.granted EXCEPT ![p] = granted]
            outs == [r.out EXCEPT ![p] = tx]
            first == [r EXCEPT !.granted = grants]
<1>1. /\ s = [first EXCEPT !.out = outs]
      /\ r.granted \in [Peer -> Snapshot \cup {None}] /\ r.out \in [Peer -> Downloads \cup {None}]
  BY DEF Relays, Sending
<1>2. /\ grants \in [Peer -> Snapshot \cup {None}] /\ grants[p] = granted
      /\ \A q \in Peer \ {p} : grants[q] = r.granted[q]
  BY <1>1
<1>3. /\ outs \in [Peer -> Downloads \cup {None}] /\ outs[p] = tx
      /\ \A q \in Peer \ {p} : outs[q] = r.out[q]
  BY <1>1
<1>. HIDE DEF grants, outs
<1>4. first \in Relays /\ first.granted = grants /\ SameBut(r, first, {"granted"})
  BY <1>2, GrantedSet
<1>. HIDE DEF first
<1>5. s \in Relays /\ s.out = outs
  BY <1>1, <1>3, <1>4 DEF Relays
<1>6. SameBut(first, s, {"out"})
  BY <1>1, <1>4 DEF Relays, SameBut, Fields
<1>7. SameBut(r, s, {"granted", "out"}) /\ s.granted = grants
  BY <1>4, <1>6 DEF SameBut, Fields
<1>. QED  BY <1>2, <1>3, <1>5, <1>7

\* What p holds moves on, on the one way that it is on.
LEMMA SendingKeeps ==
    ASSUME NEW r, NEW l, NEW k \in Loadings, Sound(r, l), Placed(r, l, {}, None), NEW p \in Peer,
           NEW granted \in Snapshot \cup {None}, NEW tx \in Downloads \cup {None},
           NEW s, s = Sending(r, p, granted, tx),
           tx # None => /\ tx.left + tx.inFlight <= Chunks
                        /\ tx.inFlight < Window => tx.left = 0,
           NEW v \in {"granted", "download"}, v \in Waits(r, l, p),
           NEW w \in {"download", "loading"}, Waits(s, k, p) = {w},
           NEW state, InHand(r, l, p) \ {None} = {state}, InHand(s, k, p) \ {None} = {state},
           \A q \in Peer \ {p} : k[q] = l[q]
    PROVE  Sound(s, k) /\ Placed(s, k, {}, None)
<1>1. r \in Relays
  BY DEF Sound
<1>2. /\ s \in Relays /\ SameBut(r, s, {"granted", "out"})
      /\ s.granted[p] = granted /\ s.out[p] = tx
      /\ \A q \in Peer \ {p} : s.granted[q] = r.granted[q] /\ s.out[q] = r.out[q]
  BY <1>1, SendingIs
<1>3. /\ s.incoming = r.incoming /\ s.serving = r.serving /\ s.nextId = r.nextId
      /\ s.dump = r.dump /\ s.nextDump = r.nextDump /\ s.runs = r.runs
      /\ s.waiting = r.waiting /\ s.session = r.session
      /\ s.held = r.held /\ s.head = r.head
  BY <1>2 DEF SameBut, Fields
<1>4. Numbered(s) /\ FetchedOnce(s) /\ FetchedForIts(s) /\ RunWaitedFor(s)
  BY <1>3 DEF Sound, Numbered, FetchedOnce, FetchedForIts, RunWaitedFor, Admitted
<1>5. Downloading(s)
  BY <1>2 DEF Sound, Downloading
<1>6. OnItsWay(r, p) /\ Waits(r, l, p) = {v}
  BY WaitsForOne
<1>7. \A q \in Peer \ {p} : Waits(s, k, q) = Waits(r, l, q) /\ InHand(s, k, q) = InHand(r, l, q)
  <2>1. \A q \in Peer \ {p} : Waits(s, k, q) = Waits(r, l, q)
    BY <1>2, <1>3, SameWays DEF Fetched, AwaitsDump
  <2>. QED  BY <1>2, <2>1 DEF InHand
<1>8. Placed(s, k, {}, None)
  <2>1. OnItsWay(s, p) /\ w \in Ways
    BY <1>3, <1>6 DEF OnItsWay, IsSyncing, Admitted, Ways
  <2>. QED  BY <1>3, <1>7, <2>1, OneMoves
<1>9. HandsOwn(s, k)
  <2>1. state \in InHand(r, l, p) \ {None}
    OBVIOUS
  <2>2. IsFor(s, p, state) /\ (p \in Watcher => state.turn <= s.head)
    BY <1>3, <2>1 DEF Sound, HandsOwn, IsFor, Admitted
  <2>3. s.held[p] = None
    BY <1>3, <1>6, WaitsIs
  <2>. QED  BY <1>3, <1>7, <2>2, <2>3, OneHanded DEF Sound
<1>. QED  BY <1>2, <1>4, <1>5, <1>8, <1>9 DEF Sound

\* on_gamestate_request
LEMMA RequestsKeeps ==
    ASSUME Accounted, relay.phase # "Over", NEW p \in Peer, Requests(p)
    PROVE  Accounted'
<1>. DEFINE state == relay.granted[p]
            new == [left |-> Chunks, inFlight |-> 0, state |-> state]
            tx == Pump(new)
<1>0. PICK s : s = relay'
  OBVIOUS
<1>1. /\ Sound(relay, loading) /\ Placed(relay, loading, {}, None)
      /\ loading \in Loadings /\ relay \in Relays
  BY DEF Accounted, Sound
<1>2. s = Sending(relay, p, None, tx) /\ loading' = loading /\ state # None
  BY <1>0 DEF Requests, Sending
<1>3. state \in Snapshot
  BY <1>1, <1>2 DEF Relays
<1>. HIDE DEF state
<1>4. /\ tx \in Downloads /\ tx # None /\ tx.state = state /\ tx.left + tx.inFlight <= Chunks
      /\ tx.inFlight < Window => tx.left = 0
  <2>1. /\ 0 <= Window /\ Chunks + 0 <= Chunks /\ Chunks + 0 >= 1
        /\ Chunks \in Nat /\ 0 \in Nat
    BY Consts
  <2>2. new = [left |-> Chunks, inFlight |-> 0, state |-> state] /\ tx = Pump(new)
    OBVIOUS
  <2>. HIDE DEF new, tx
  <2>. QED  BY <1>3, <2>1, <2>2, PumpIs
<1>. HIDE DEF tx
<1>5. "granted" \in Waits(relay, loading, p)
  BY <1>2, WaitsIs DEF state
<1>6. Waits(relay, loading, p) = {"granted"}
  BY <1>1, <1>5, WaitsForOne
<1>7. /\ Fetched(relay, p) = {} /\ ~AwaitsDump(relay, p) /\ p \notin relay.waiting
      /\ relay.held[p] = None /\ relay.out[p] = None /\ loading[p] = None
  BY <1>6, WaitsIs
<1>8. /\ SameBut(relay, s, {"granted", "out"}) /\ s.granted[p] = None /\ s.out[p] = tx
  BY <1>1, <1>2, <1>4, SendingIs
<1>9. /\ s.incoming = relay.incoming /\ s.dump = relay.dump /\ s.waiting = relay.waiting
      /\ s.held = relay.held /\ s.phase = relay.phase
  BY <1>8 DEF SameBut, Fields
<1>10. Waits(s, loading, p) = {"download"}
  <2>1. /\ Fetched(s, p) = {} /\ ~AwaitsDump(s, p) /\ p \notin s.waiting
        /\ s.held[p] = None /\ s.granted[p] = None /\ s.out[p] # None /\ loading[p] = None
    BY <1>4, <1>7, <1>8, <1>9 DEF Fetched, AwaitsDump
  <2>2. \A v \in Ways : v \in Waits(s, loading, p) <=> v = "download"
    BY <2>1, WaitsIs DEF Ways
  <2>. QED  BY <2>2, WaitsIs DEF Ways
<1>11. /\ InHand(relay, loading, p) \ {None} = {state}
       /\ InHand(s, loading, p) \ {None} = {state}
  BY <1>2, <1>4, <1>7, <1>8 DEF InHand, state
<1>12. Sound(s, loading) /\ Placed(s, loading, {}, None)
  BY <1>1, <1>2, <1>4, <1>5, <1>10, <1>11, SendingKeeps
<1>. QED  BY <1>0, <1>2, <1>12 DEF Accounted

\* on_ack: the next chunks follow, and the last acknowledgement ends the download.
LEMMA AcksKeeps ==
    ASSUME Accounted, relay.phase # "Over", NEW p \in Peer, NEW n \in 1 .. Window, Acks(p, n)
    PROVE  Accounted'
<1>. DEFINE old == relay.out[p]
            tx == [old EXCEPT !.inFlight = @ - n]
            next == Pump(tx)
<1>0. PICK s, k : s = relay' /\ k = loading'
  OBVIOUS
<1>1. /\ Sound(relay, loading) /\ Placed(relay, loading, {}, None)
      /\ loading \in Loadings /\ relay \in Relays
  BY DEF Accounted, Sound
<1>2. old # None /\ AckCounts(old, n)
  BY DEF Acks
<1>3. IF tx.left = 0 /\ tx.inFlight = 0
      THEN s = [relay EXCEPT !.out[p] = None] /\ k = [loading EXCEPT ![p] = tx.state]
      ELSE s = [relay EXCEPT !.out[p] = next] /\ k = loading
  BY <1>0 DEF Acks
<1>4. old \in Downloads /\ old.left + old.inFlight <= Chunks
  BY <1>1, <1>2 DEF Relays, Sound, Downloading
<1>5. "download" \in Waits(relay, loading, p)
  BY <1>2, WaitsIs
<1>6. Waits(relay, loading, p) = {"download"}
  BY <1>1, <1>5, WaitsForOne
<1>7. /\ Fetched(relay, p) = {} /\ ~AwaitsDump(relay, p) /\ p \notin relay.waiting
      /\ relay.held[p] = None /\ relay.granted[p] = None /\ loading[p] = None
  BY <1>6, WaitsIs
<1>8. /\ tx = [left |-> tx.left, inFlight |-> tx.inFlight, state |-> tx.state]
      /\ tx.left = old.left /\ tx.inFlight = old.inFlight - n /\ tx.state = old.state
  BY <1>4 DEF Downloads
<1>9. /\ tx.left \in Nat /\ tx.inFlight \in Nat /\ tx.state \in Snapshot /\ tx.inFlight <= Window
      /\ tx.left + tx.inFlight <= Chunks
  <2>1. old.left \in Nat /\ old.inFlight \in Nat /\ old.inFlight <= Window /\ old.state \in Snapshot
    BY <1>4, Consts DEF Downloads
  <2>2. n \in Nat /\ n <= old.inFlight
    BY <1>2, <2>1, Consts DEF AckCounts
  <2>. HIDE DEF tx, old
  <2>. QED  BY <1>4, <1>8, <2>1, <2>2, Consts
<1>10. InHand(relay, loading, p) \ {None} = {old.state}
  <2>1. old.state # None
    BY <1>8, <1>9, Consts
  <2>. QED  BY <1>2, <1>7, <2>1 DEF InHand
<1>. HIDE DEF tx, old
<1>11. ASSUME NEW y \in Downloads \cup {None},
              s = [relay EXCEPT !.out[p] = y]
       PROVE  s = Sending(relay, p, None, y)
  <2>1. relay.granted = [relay.granted EXCEPT ![p] = None]
    BY <1>1, <1>7 DEF Relays
  <2>. QED  BY <1>1, <1>11, <2>1 DEF Sending, Relays
<1>12. ASSUME NEW y \in Downloads \cup {None}, s = Sending(relay, p, None, y)
       PROVE  /\ SameBut(relay, s, {"granted", "out"}) /\ s.granted[p] = None /\ s.out[p] = y
              /\ Fetched(s, p) = {} /\ ~AwaitsDump(s, p) /\ p \notin s.waiting
              /\ s.held[p] = None /\ s.phase = relay.phase
  <2>1. /\ SameBut(relay, s, {"granted", "out"}) /\ s.granted[p] = None /\ s.out[p] = y
    BY <1>1, <1>12, SendingIs
  <2>2. /\ s.incoming = relay.incoming /\ s.dump = relay.dump /\ s.waiting = relay.waiting
        /\ s.held = relay.held /\ s.phase = relay.phase
    BY <2>1 DEF SameBut, Fields
  <2>. QED  BY <1>7, <2>1, <2>2 DEF Fetched, AwaitsDump
<1>13. CASE tx.left = 0 /\ tx.inFlight = 0
  <2>1. s = Sending(relay, p, None, None) /\ k = [loading EXCEPT ![p] = old.state]
    BY <1>3, <1>8, <1>11, <1>13
  <2>2. k \in Loadings /\ k[p] = old.state /\ old.state # None /\ \A q \in Peer \ {p} : k[q] = loading[q]
    BY <1>1, <1>8, <1>9, <2>1, Consts DEF Loadings
  <2>3. /\ s.granted[p] = None /\ s.out[p] = None
        /\ Fetched(s, p) = {} /\ ~AwaitsDump(s, p) /\ p \notin s.waiting
        /\ s.held[p] = None /\ s.phase = relay.phase
    BY <1>12, <2>1
  <2>4. Waits(s, k, p) = {"loading"}
    <3>1. \A v \in Ways : v \in Waits(s, k, p) <=> v = "loading"
      BY <2>2, <2>3, WaitsIs DEF Ways
    <3>. QED  BY <3>1, WaitsIs DEF Ways
  <2>5. InHand(s, k, p) \ {None} = {old.state}
    BY <2>2, <2>3 DEF InHand
  <2>6. PICK nothing : nothing = None
    OBVIOUS
  <2>7. nothing \in Downloads \cup {None} /\ nothing = None /\ s = Sending(relay, p, None, nothing)
    BY <2>1, <2>6
  <2>8. Sound(s, k) /\ Placed(s, k, {}, None)
    BY <1>1, <1>5, <1>10, <2>2, <2>4, <2>5, <2>7, SendingKeeps
  <2>. QED  BY <1>0, <2>8 DEF Accounted
<1>14. CASE ~(tx.left = 0 /\ tx.inFlight = 0)
  <2>1. tx.left + tx.inFlight >= 1
    BY <1>9, <1>14
  <2>2. next = Pump(tx) /\ s = [relay EXCEPT !.out[p] = next] /\ k = loading
    BY <1>3, <1>14
  <2>. HIDE DEF next
  <2>3. /\ next \in Downloads /\ next # None /\ next.state = old.state
        /\ next.left + next.inFlight <= Chunks
        /\ next.inFlight < Window => next.left = 0
    BY <1>8, <1>9, <2>1, <2>2, PumpIs
  <2>4. s = Sending(relay, p, None, next)
    BY <1>11, <2>2, <2>3
  <2>5. /\ s.granted[p] = None /\ s.out[p] = next
        /\ Fetched(s, p) = {} /\ ~AwaitsDump(s, p) /\ p \notin s.waiting
        /\ s.held[p] = None /\ s.phase = relay.phase
    BY <1>12, <2>3, <2>4
  <2>6. Waits(s, k, p) = {"download"}
    <3>1. s.out[p] # None /\ k[p] = None
      BY <1>7, <2>2, <2>3, <2>5
    <3>2. \A v \in Ways : v \in Waits(s, k, p) <=> v = "download"
      BY <2>5, <3>1, WaitsIs DEF Ways
    <3>. QED  BY <3>2, WaitsIs DEF Ways
  <2>7. InHand(s, k, p) \ {None} = {old.state}
    <3>1. old.state # None
      BY <1>8, <1>9, Consts
    <3>. QED  BY <1>7, <2>2, <2>3, <2>5, <3>1 DEF InHand
  <2>8. Sound(s, k) /\ Placed(s, k, {}, None)
    BY <1>1, <1>5, <1>10, <2>2, <2>3, <2>4, <2>6, <2>7, SendingKeeps
  <2>. QED  BY <1>0, <2>8 DEF Accounted
<1>. QED  BY <1>13, <1>14

\* A joiner that has loaded its state is off the way, for good or ill.
LEMMA LoadsKeeps ==
    ASSUME Accounted, relay.phase # "Over", NEW p \in Peer, Loads(p)
    PROVE  Accounted'
<1>. DEFINE old == relay.session[p]
            told == [old EXCEPT !.turns = None]
            r == [relay EXCEPT !.session[p].turns = None]
<1>0. PICK s, k : s = relay' /\ k = loading'
  OBVIOUS
<1>1. /\ Sound(relay, loading) /\ Placed(relay, loading, {}, None)
      /\ loading \in Loadings /\ relay \in Relays
  BY DEF Accounted, Sound
<1>2. /\ loading[p] # None /\ Admitted(relay, p) /\ k = [loading EXCEPT ![p] = None]
      /\ \/ s = [r EXCEPT !.session[p] = NewSession(@.client, "InGame"), !.held[p] = None]
         \/ s = Dismiss(r, p)
  BY <1>0 DEF Loads, IsSyncing
<1>3. /\ k \in Loadings /\ k[p] = None /\ \A q \in Peer \ {p} : k[q] = loading[q]
  BY <1>1, <1>2 DEF Loadings
<1>4. Waits(relay, loading, p) = {"loading"}
  <2>1. "loading" \in Waits(relay, loading, p)
    BY <1>2, WaitsIs
  <2>. QED  BY <1>1, <2>1, WaitsForOne
<1>5. /\ Fetched(relay, p) = {} /\ ~AwaitsDump(relay, p) /\ p \notin relay.waiting
      /\ relay.held[p] = None /\ relay.granted[p] = None /\ relay.out[p] = None
  BY <1>4, WaitsIs
<1>6. relay.session \in [Peer -> Sessions \cup {None}] /\ old \in Sessions
  BY <1>1, <1>2 DEF Relays, Admitted
<1>7. told \in Sessions /\ told # None /\ told.client = old.client
  BY <1>6, TurnsAre
<1>8. \E new \in Sessions : /\ s = [relay EXCEPT !.session = [@ EXCEPT ![p] = new]]
                            /\ new.client = old.client /\ (new.role = "InGame" \/ new.leaving)
  <2>1. CASE s = Dismiss(r, p)
    <3>. DEFINE new == [told EXCEPT !.leaving = TRUE]
    <3>1. new \in Sessions /\ new.client = old.client /\ new.leaving
      <4>. HIDE DEF told
      <4>. QED  BY <1>7, LeavingIs
    <3>2. s = [relay EXCEPT !.session = [@ EXCEPT ![p] = new]]
      BY <1>1, <1>6, <2>1 DEF Dismiss, Relays
    <3>. QED  BY <3>1, <3>2
  <2>2. CASE s = [r EXCEPT !.session[p] = NewSession(@.client, "InGame"), !.held[p] = None]
    <3>. DEFINE new == NewSession(old.client, "InGame")
    <3>1. new \in Sessions /\ new.client = old.client /\ new.role = "InGame"
      BY <1>6 DEF NewSession, Sessions
    <3>2. relay.held = [relay.held EXCEPT ![p] = None]
      BY <1>1, <1>5 DEF Relays
    <3>3. s = [[relay EXCEPT !.session = [@ EXCEPT ![p] = new]]
                   EXCEPT !.held = [relay.held EXCEPT ![p] = None]]
      <4>1. r = [relay EXCEPT !.session = [@ EXCEPT ![p] = told]]
        BY <1>1, <1>6 DEF Relays
      <4>2. r.session = [relay.session EXCEPT ![p] = told] /\ r.session[p].client = old.client
        <5>. HIDE DEF told
        <5>. QED  BY <1>1, <1>6, <1>7, <4>1 DEF Relays
      <4>3. s = [r EXCEPT !.session = [@ EXCEPT ![p] = new], !.held = [@ EXCEPT ![p] = None]]
        <5>1. NewSession(r.session[p].client, "InGame") = new
          BY <4>2
        <5>2. r \in Relays
          <6>. HIDE DEF told
          <6>1. [relay.session EXCEPT ![p] = told] \in [Peer -> Sessions \cup {None}]
            BY <1>6, <1>7
          <6>. QED  BY <1>1, <4>1, <6>1 DEF Relays
        <5>. HIDE DEF r, new
        <5>. QED  BY <2>2, <5>1, <5>2 DEF Relays
      <4>. HIDE DEF told, r, new
      <4>. QED  BY <1>1, <1>6, <4>1, <4>2, <4>3 DEF Relays
    <3>4. s = [relay EXCEPT !.session = [@ EXCEPT ![p] = new]]
      <4>. HIDE DEF new
      <4>. QED  BY <1>1, <3>2, <3>3 DEF Relays
    <3>. QED  BY <3>1, <3>4
  <2>. QED  BY <1>2, <2>1, <2>2
<1>9. PICK new \in Sessions : /\ s = [relay EXCEPT !.session = [@ EXCEPT ![p] = new]]
                              /\ new.client = old.client /\ (new.role = "InGame" \/ new.leaving)
  BY <1>8
<1>. DEFINE sessions == [relay.session EXCEPT ![p] = new]
<1>10. /\ sessions \in [Peer -> Sessions \cup {None}] /\ sessions[p] = new
       /\ \A q \in Peer \ {p} : sessions[q] = relay.session[q]
       /\ s = [relay EXCEPT !.session = sessions]
  BY <1>6, <1>9
<1>. HIDE DEF sessions
<1>11. s \in Relays /\ SameBut(relay, s, {"session"}) /\ s.session = sessions
  BY <1>1, <1>10, SessionSet
<1>12. /\ s.incoming = relay.incoming /\ s.serving = relay.serving /\ s.nextId = relay.nextId
       /\ s.dump = relay.dump /\ s.nextDump = relay.nextDump /\ s.runs = relay.runs
       /\ s.waiting = relay.waiting
       /\ s.held = relay.held /\ s.granted = relay.granted /\ s.out = relay.out
       /\ s.head = relay.head /\ s.phase = relay.phase
  BY <1>11 DEF SameBut, Fields
<1>13. Numbered(s) /\ FetchedOnce(s) /\ RunWaitedFor(s) /\ Downloading(s)
  BY <1>1, <1>12 DEF Sound, Numbered, FetchedOnce, RunWaitedFor, Downloading
<1>14. FetchedForIts(s)
  <2>1. \A q \in Peer : Admitted(relay, q) => Admitted(s, q) /\ s.session[q].client = relay.session[q].client
    BY <1>9, <1>10, <1>11, Consts DEF Admitted
  <2>. QED  BY <1>1, <1>12, <2>1 DEF Sound, FetchedForIts, Relays, Fetches
<1>15. /\ \A q \in Peer \ {p} : /\ Waits(s, k, q) = Waits(relay, loading, q)
                                /\ InHand(s, k, q) = InHand(relay, loading, q)
       /\ Waits(s, k, p) = {} /\ InHand(s, k, p) \ {None} = {}
  <2>1. \A q \in Peer \ {p} : Waits(s, k, q) = Waits(relay, loading, q)
    BY <1>3, <1>12, SameWays DEF Fetched, AwaitsDump
  <2>2. \A v \in Ways : v \notin Waits(s, k, p)
    BY <1>3, <1>5, <1>12, WaitsIs DEF Fetched, AwaitsDump, Ways
  <2>. QED  BY <1>3, <1>5, <1>12, <2>1, <2>2, WaitsIs DEF InHand
<1>16. Placed(s, k, {}, None)
  <2>1. ~OnItsWay(s, p)
    BY <1>9, <1>10, <1>11 DEF OnItsWay, IsSyncing
  <2>. QED  BY <1>1, <1>10, <1>11, <1>15, <2>1, OneMoves
<1>17. HandsOwn(s, k)
  <2>1. /\ \A x \in InHand(s, k, p) \ {None} : IsFor(s, p, x) /\ (p \in Watcher => x.turn <= s.head)
        /\ s.held[p] # None =>
             IsFor(s, p, s.held[p].state) /\ s.held[p].state.turn <= s.held[p].bound
    BY <1>5, <1>12, <1>15
  <2>2. \A q \in Peer \ {p} : /\ s.session[q] = relay.session[q] /\ s.held[q] = relay.held[q]
                             /\ InHand(s, k, q) = InHand(relay, loading, q)
    BY <1>10, <1>11, <1>12, <1>15
  <2>. QED  BY <1>1, <1>12, <2>1, <2>2, OneHanded DEF Sound
<1>. QED  BY <1>0, <1>3, <1>11, <1>13, <1>14, <1>16, <1>17 DEF Accounted, Sound

-----------------------------------------------------------------------------
(* Transfers that make progress, and those that end.                       *)

LEMMA IncomingSet ==
    ASSUME NEW r \in Relays, NEW x \in SUBSET Fetches, NEW s, s = [r EXCEPT !.incoming = x]
    PROVE  s \in Relays /\ s.incoming = x /\ SameBut(r, s, {"incoming"})
<1>1. s \in Relays /\ s.incoming = x
  BY DEF Relays
<1>2. SameBut(r, s, {"incoming"})
  BY DEF Relays, SameBut, Fields
<1>. QED  BY <1>1, <1>2

\* What is still coming was asked for.
LEMMA FetchingKeeps ==
    ASSUME NEW r, NEW l, Sound(r, l), NEW s \in Relays, SameBut(r, s, {"incoming"}), FetchedOnce(s),
           \A y \in s.incoming :
               /\ y.got <= y.declared
               /\ \E x \in r.incoming : x.source = y.source /\ x.id = y.id /\ x.joiner = y.joiner
    PROVE  Sound(s, l)
<1>1. /\ s.serving = r.serving /\ s.nextId = r.nextId
      /\ s.dump = r.dump /\ s.nextDump = r.nextDump /\ s.runs = r.runs /\ s.session = r.session
      /\ s.held = r.held /\ s.granted = r.granted /\ s.out = r.out /\ s.head = r.head
  BY DEF SameBut, Fields
<1>2. Numbered(s)
  BY <1>1 DEF Sound, Numbered
<1>3. FetchedForIts(s)
  BY <1>1 DEF Sound, FetchedForIts, Admitted
<1>4. RunWaitedFor(s) /\ Downloading(s) /\ HandsOwn(s, l)
  BY <1>1, NothingHanded DEF Sound, RunWaitedFor, Downloading
<1>. QED  BY <1>2, <1>3, <1>4 DEF Sound

\* Those whose transfer is over are to be served otherwise.
LEMMA FetchesEnd ==
    ASSUME NEW r, NEW l, Placed(r, l, {}, None), NEW s, SameBut(r, s, {"incoming"}),
           NEW todo \in SUBSET Peer,
           \A p \in todo : Fetched(r, p) # {} /\ Fetched(s, p) = {},
           \A p \in Peer \ todo : Fetched(s, p) # {} <=> Fetched(r, p) # {}
    PROVE  Placed(s, l, todo, None)
<1>1. /\ s.dump = r.dump /\ s.waiting = r.waiting /\ s.session = r.session
      /\ s.held = r.held /\ s.granted = r.granted /\ s.out = r.out
  BY DEF SameBut, Fields
<1>2. \A p \in Peer \ todo : Waits(s, l, p) = Waits(r, l, p)
  BY <1>1, SameWays DEF AwaitsDump
<1>3. ASSUME NEW p \in todo
      PROVE  OnItsWay(r, p) /\ Waits(s, l, p) = {}
  <2>1. "client" \in Waits(r, l, p)
    BY WaitsIs
  <2>2. OnItsWay(r, p) /\ Waits(r, l, p) = {"client"}
    BY <2>1, WaitsForOne
  <2>3. /\ ~AwaitsDump(s, p) /\ p \notin s.waiting /\ s.held[p] = None /\ s.granted[p] = None
        /\ s.out[p] = None /\ l[p] = None
    BY <1>1, <2>2, WaitsIs DEF AwaitsDump
  <2>4. \A w \in Ways : w \notin Waits(s, l, p)
    BY <2>3, WaitsIs DEF Ways
  <2>. QED  BY <2>2, <2>4, WaitsIs
<1>4. \A p \in Peer : OnItsWay(s, p) <=> OnItsWay(r, p)
  BY <1>1 DEF OnItsWay, IsSyncing, Admitted
<1>5. \A p \in Peer \ {None} :
         IF OnItsWay(s, p) /\ p \notin todo THEN \E w \in Ways : Waits(s, l, p) = {w}
                                            ELSE Waits(s, l, p) = {}
  BY <1>2, <1>3, <1>4, Consts DEF Placed
<1>. QED  BY <1>3, <1>4, <1>5, Consts DEF Placed

\* The joiner of a transfer, if it is for one.
Whose(rx) == {rx.joiner} \ {None}

LEMMA DropKeeps ==
    ASSUME NEW r, NEW l, Sound(r, l), Placed(r, l, {}, None), NEW rx \in r.incoming,
           NEW s, s = Drop(r, rx)
    PROVE  /\ Sound(s, l) /\ Placed(s, l, Whose(rx), None) /\ s.phase = r.phase
           /\ SameBut(r, s, {"incoming"}) /\ rx \in Fetches
<1>1. r \in Relays /\ r.incoming \in SUBSET Fetches
  BY DEF Sound, Relays
<1>. DEFINE left == r.incoming \ {rx}
<1>2. s = [r EXCEPT !.incoming = left]
  BY DEF Drop
<1>3. s \in Relays /\ s.incoming = left /\ SameBut(r, s, {"incoming"})
  BY <1>1, <1>2, IncomingSet
<1>4. Sound(s, l)
  <2>1. FetchedOnce(s)
    BY <1>3 DEF Sound, FetchedOnce
  <2>. QED  BY <1>3, <2>1, FetchingKeeps DEF Sound, Numbered
<1>5. Whose(rx) \in SUBSET Peer
  BY <1>1 DEF Whose, Fetches
<1>6. \A p \in Whose(rx) : Fetched(r, p) # {} /\ Fetched(s, p) = {}
  BY <1>1, <1>3 DEF Whose, Fetched, Sound, FetchedOnce
<1>7. \A p \in Peer \ Whose(rx) : Fetched(s, p) = Fetched(r, p)
  BY <1>3, Consts DEF Whose, Fetched
<1>8. Placed(s, l, Whose(rx), None)
  BY <1>3, <1>5, <1>6, <1>7, FetchesEnd
<1>. QED  BY <1>1, <1>3, <1>4, <1>8 DEF SameBut, Fields

LEMMA UpdateKeeps ==
    ASSUME NEW r, NEW l, Sound(r, l), Placed(r, l, {}, None), NEW rx \in r.incoming,
           NEW new \in Fetches, new.source = rx.source, new.id = rx.id, new.joiner = rx.joiner,
           new.got <= new.declared, NEW s, s = Update(r, rx, new)
    PROVE  Sound(s, l) /\ Placed(s, l, {}, None) /\ s.phase = r.phase
<1>1. r \in Relays /\ r.incoming \in SUBSET Fetches
  BY DEF Sound, Relays
<1>. DEFINE now == (r.incoming \ {rx}) \cup {new}
<1>2. s = [r EXCEPT !.incoming = now] /\ now \in SUBSET Fetches
  BY <1>1 DEF Update
<1>. HIDE DEF now
<1>3. s \in Relays /\ s.incoming = now /\ SameBut(r, s, {"incoming"})
  BY <1>1, <1>2, IncomingSet
<1>4. Sound(s, l)
  <2>1. FetchedOnce(s)
    BY <1>3 DEF Sound, FetchedOnce, now
  <2>. QED  BY <1>3, <2>1, FetchingKeeps DEF Sound, Numbered, now
<1>5. \A p \in Peer : Fetched(s, p) # {} <=> Fetched(r, p) # {}
  BY <1>3 DEF Fetched, now
<1>6. Placed(s, l, {}, None)
  BY <1>3, <1>5, FetchesEnd
<1>. QED  BY <1>3, <1>4, <1>6 DEF SameBut, Fields

\* A transfer at the start, and one that goes on.
LEMMA ProgressIs ==
    ASSUME NEW rx \in Fetches, NEW declared \in {0, Chunks}, NEW got \in Nat, got <= declared,
           NEW new, new = [rx EXCEPT !.declared = declared, !.got = got, !.clock = FALSE]
    PROVE  /\ new \in Fetches /\ new.source = rx.source /\ new.id = rx.id
           /\ new.joiner = rx.joiner /\ new.got <= new.declared
  BY DEF Fetches

LEMMA NoneYet == 0 \in Nat /\ 0 <= Chunks
  BY Consts

\* on_gamestate_response
LEMMA RespondsKeeps ==
    ASSUME Accounted, relay.phase # "Over", NEW s \in relay.serving,
           NEW length \in {"fits", "too long", "empty"}, Responds(s, length)
    PROVE  Accounted'
<1>0. PICK next : next = relay'
  OBVIOUS
<1>1. Sound(relay, loading) /\ Placed(relay, loading, {}, None) /\ relay \in Relays
  BY DEF Accounted, Sound
<1>2. PICK rx \in relay.incoming : next = OnResponse(relay, rx, length)
  BY <1>0 DEF Responds, Expected
<1>3. rx \in Fetches
  BY <1>1 DEF Relays
<1>4. \A q : q = Drop(relay, rx) =>
          Sound(q, loading) /\ Placed(q, loading, Whose(rx), None) /\ q.phase = relay.phase
  BY <1>1, DropKeeps
<1>5. CASE length = "fits"
  <2>. DEFINE new == [rx EXCEPT !.declared = Chunks, !.got = 0, !.clock = FALSE]
  <2>1. next = Update(relay, rx, new)
    BY <1>2, <1>5 DEF OnResponse
  <2>2. Chunks \in {0, Chunks}
    OBVIOUS
  <2>3. 0 \in Nat /\ 0 <= Chunks
    BY NoneYet
  <2>4. /\ new \in Fetches /\ new.source = rx.source /\ new.id = rx.id
        /\ new.joiner = rx.joiner /\ new.got <= new.declared
    BY <1>3, <2>2, <2>3, ProgressIs, Zenon
  <2>. HIDE DEF new
  <2>5. Sound(next, loading) /\ Placed(next, loading, {}, None)
    BY <1>1, <2>1, <2>4, UpdateKeeps
  <2>. QED  BY <1>0, <2>5 DEF Accounted, Responds
<1>6. CASE length # "fits" /\ rx.joiner = None /\ next = Drop(relay, rx)
  <2>1. Sound(next, loading) /\ Placed(next, loading, {}, None)
    BY <1>4, <1>6 DEF Whose
  <2>. QED  BY <1>0, <2>1 DEF Accounted, Responds
<1>7. CASE length = "too long" /\ rx.joiner # None
  <2>. DEFINE r == Drop(relay, rx)
  <2>1. Sound(r, loading) /\ Placed(r, loading, {rx.joiner}, None)
    BY <1>4, <1>7 DEF Whose
  <2>2. IsSyncing(r, rx.joiner)
    BY <2>1 DEF Placed, OnItsWay
  <2>3. next = Dismiss(r, rx.joiner)
    BY <1>2, <1>7, <2>2 DEF OnResponse, Refuse
  <2>. HIDE DEF r
  <2>4. /\ Sound(Dismiss(r, rx.joiner), loading)
        /\ Placed(Dismiss(r, rx.joiner), loading, {rx.joiner} \ {rx.joiner}, None)
    BY <2>1, DismissKeeps
  <2>5. {rx.joiner} \ {rx.joiner} = {}
    OBVIOUS
  <2>6. Sound(next, loading) /\ Placed(next, loading, {}, None)
    BY <2>3, <2>4, <2>5
  <2>. QED  BY <1>0, <2>6 DEF Accounted, Responds
<1>8. CASE next = relay
  BY <1>0, <1>1, <1>8 DEF Accounted, Responds
<1>9. length = "too long" \/ length = "empty" \/ length = "fits"
  OBVIOUS
<1>10. length # "fits" => next = relay \/ (rx.joiner = None /\ next = Drop(relay, rx))
                          \/ (length = "too long" /\ rx.joiner # None)
  BY <1>2, <1>9 DEF OnResponse
<1>. QED  BY <1>5, <1>6, <1>7, <1>8, <1>10

\* on_gamestate_chunk
LEMMA SendsKeeps ==
    ASSUME Accounted, relay.phase # "Over", NEW s \in relay.serving, NEW size \in {1, Chunks + 1},
           Sends(s, size)
    PROVE  Accounted'
<1>0. PICK next : next = relay'
  OBVIOUS
<1>1. Sound(relay, loading) /\ Placed(relay, loading, {}, None) /\ relay \in Relays
  BY DEF Accounted, Sound
<1>2. PICK rx \in relay.incoming : /\ rx.source = s.source /\ rx.id = s.id
                                   /\ next \in OnChunk(relay, rx, s, size)
  BY <1>0 DEF Sends, Expected
<1>3. /\ rx \in Fetches /\ rx.got \in Nat /\ rx.declared \in {0, Chunks} /\ rx.floor \in Turn
      /\ rx.joiner \in Peer \cup {None} /\ rx.source \in Peer /\ rx.declared \in Nat
      /\ size \in Nat /\ s \in Servings
  BY <1>1, Consts DEF Relays, Fetches
<1>4. PICK r : r = Drop(relay, rx)
  OBVIOUS
<1>5. /\ Sound(r, loading) /\ Placed(r, loading, Whose(rx), None) /\ r.phase = relay.phase
      /\ SameBut(relay, r, {"incoming"})
  BY <1>1, <1>4, DropKeeps
<1>6. CASE rx.got + size > rx.declared
  <2>1. next \in Fails(relay, rx)
    BY <1>2, <1>3, <1>6 DEF OnChunk
  <2>2. CASE rx.joiner = None
    <3>1. next = r /\ Whose(rx) = {}
      BY <1>4, <2>1, <2>2 DEF Fails, Whose
    <3>. QED  BY <1>0, <1>5, <3>1 DEF Accounted, Sends
  <2>3. CASE rx.joiner # None
    <3>1. next \in RetryJoin(r, rx.joiner, rx.source) /\ Whose(rx) = {rx.joiner}
      BY <1>4, <2>1, <2>3 DEF Fails, Whose
    <3>2. Done(r, loading, {rx.joiner}, None, rx.joiner, next)
      BY <1>3, <1>5, <3>1, RetryJoinKeeps DEF Due
    <3>3. {rx.joiner} \ {rx.joiner} = {}
      OBVIOUS
    <3>. QED  BY <1>0, <3>2, <3>3 DEF Accounted, Sends, Done
  <2>. QED  BY <2>2, <2>3
<1>7. CASE rx.got + size < rx.declared
  <2>. DEFINE new == [rx EXCEPT !.declared = rx.declared, !.got = rx.got + size, !.clock = FALSE]
  <2>1. next = Update(relay, rx, [rx EXCEPT !.got = @ + size, !.clock = FALSE])
    BY <1>2, <1>3, <1>7 DEF OnChunk
  <2>2. new = [rx EXCEPT !.got = @ + size, !.clock = FALSE]
    BY <1>3 DEF Fetches
  <2>3. rx.got + size \in Nat /\ rx.got + size <= rx.declared
    BY <1>3, <1>7
  <2>4. /\ new \in Fetches /\ new.source = rx.source /\ new.id = rx.id
        /\ new.joiner = rx.joiner /\ new.got <= new.declared
    BY <1>3, <2>3, ProgressIs, Zenon
  <2>5. next = Update(relay, rx, new)
    BY <2>1, <2>2
  <2>. HIDE DEF new
  <2>6. Sound(next, loading) /\ Placed(next, loading, {}, None)
    BY <1>1, <2>4, <2>5, UpdateKeeps
  <2>. QED  BY <1>0, <2>6 DEF Accounted, Sends
<1>8. CASE rx.got + size = rx.declared
  <2>. DEFINE last == SealedTo(r, rx.source)
  <2>0. next \in OnState(r, rx, s)
    BY <1>2, <1>3, <1>4, <1>8 DEF OnChunk
  <2>1. r \in Relays /\ r.ready \in Turn /\ r.head \in Turn /\ last \in Turn
    BY <1>5 DEF Sound, Relays, SealedTo
  <2>2. CASE rx.joiner = None
    <3>1. PICK t \in Turn : next = IF t \in rx.floor .. r.ready THEN Store(r, t) ELSE r
      BY <2>0, <2>2 DEF OnState
    <3>2. Sound(r, loading) /\ Placed(r, loading, {}, None)
      BY <1>5, <2>2 DEF Whose
    <3>3. Sound(next, loading) /\ Placed(next, loading, {}, None)
      BY <3>1, <3>2, StoreKeeps
    <3>. QED  BY <1>0, <3>3 DEF Accounted, Sends
  <2>3. CASE rx.joiner # None
    <3>1. PICK t \in rx.floor .. last :
             next = Deliver(r, rx.joiner, [turn |-> t, for |-> s.for], <<rx.floor, last>>, TRUE)
      BY <2>0, <2>3, Zenon DEF OnState
    <3>. HIDE DEF last
    <3>2. s.for = r.session[rx.joiner].client /\ s.for \in {0} \cup Client
      BY <1>1, <1>2, <1>3, <1>5, <2>3 DEF Sound, FetchedForIts, SameBut, Fields, Servings
    <3>3. t \in Turn
      BY <1>3, <2>1, <3>1, Consts DEF Turn
    <3>4. Suits(r, rx.joiner, [turn |-> t, for |-> s.for], <<rx.floor, last>>)
      BY <1>3, <2>1, <3>1, <3>2, <3>3 DEF Suits, Snapshot
    <3>5. Placed(r, loading, {rx.joiner}, None)
      BY <1>5, <2>3 DEF Whose
    <3>6. Sound(next, loading) /\ Placed(next, loading, {rx.joiner} \ {rx.joiner}, None)
      <4>. DEFINE state == [turn |-> t, for |-> s.for]
                  turns == <<rx.floor, last>>
      <4>1. PICK fits : fits = TRUE
        OBVIOUS
      <4>2. next = Deliver(r, rx.joiner, state, turns, fits) /\ Suits(r, rx.joiner, state, turns)
        BY <3>1, <3>4, <4>1, Zenon
      <4>. HIDE DEF state, turns
      <4>. QED  BY <1>5, <3>5, <4>2, DeliverKeeps
    <3>7. {rx.joiner} \ {rx.joiner} = {}
      OBVIOUS
    <3>. QED  BY <1>0, <3>6, <3>7 DEF Accounted, Sends
  <2>. QED  BY <2>2, <2>3
<1>. QED  BY <1>3, <1>6, <1>7, <1>8

\* Transfers::stalled: everyone whose source has gone quiet is served otherwise.
LEMMA TickKeeps ==
    ASSUME Accounted, relay.phase # "Over", NEW expired \in SUBSET relay.incoming, Tick(expired)
    PROVE  Accounted'
<1>. DEFINE lost == {x \in expired : x.joiner # None}
            calls == {Lost(rx.joiner, rx.source) : rx \in lost}
            clocked(rx) == [rx EXCEPT !.clock = TRUE]
            now == {clocked(rx) : rx \in relay.incoming \ expired}
            r == [relay EXCEPT !.incoming = now]
<1>0. PICK s : s = relay'
  OBVIOUS
<1>1. /\ Sound(relay, loading) /\ Placed(relay, loading, {}, None)
      /\ relay \in Relays /\ relay.incoming \in SUBSET Fetches
  BY DEF Accounted, Sound, Relays
<1>2. s \in ServeAll(r, calls)
  BY <1>0 DEF Tick
<1>3. \A c \in calls : \E rx \in lost : c.joiner = rx.joiner /\ c = Lost(rx.joiner, rx.source)
  BY DEF Lost
<1>4. OneEach(calls)
  <2>1. calls \subseteq Calls
    <3>1. \A rx \in lost : rx.joiner \in Peer /\ rx.source \in Peer
      BY <1>1 DEF Fetches
    <3>. QED  BY <3>1 DEF Calls
  <2>2. \A x, y \in lost : x.joiner = y.joiner => x = y
    BY <1>1 DEF Sound, FetchedOnce
  <2>. HIDE DEF calls, lost
  <2>. QED  BY <1>3, <2>1, <2>2 DEF OneEach
<1>5. JoinersOf(calls) = {rx.joiner : rx \in lost}
  <2>1. \A rx \in lost : Lost(rx.joiner, rx.source).joiner = rx.joiner
    BY DEF Lost
  <2>. QED  BY <2>1 DEF JoinersOf
<1>6. \A x \in relay.incoming :
         /\ clocked(x) \in Fetches /\ clocked(x).source = x.source /\ clocked(x).id = x.id
         /\ clocked(x).joiner = x.joiner /\ clocked(x).got = x.got
         /\ clocked(x).declared = x.declared
  BY <1>1 DEF Fetches
<1>. HIDE DEF now, calls, clocked
<1>7. r \in Relays /\ r.incoming = now /\ SameBut(relay, r, {"incoming"})
  <2>1. now \in SUBSET Fetches
    BY <1>6 DEF now
  <2>. QED  BY <1>1, <2>1, IncomingSet
<1>. HIDE DEF r
<1>8. Sound(r, loading)
  <2>1. FetchedOnce(r)
    BY <1>1, <1>6, <1>7 DEF Sound, FetchedOnce, now
  <2>2. \A y \in r.incoming :
          /\ y.got <= y.declared
          /\ \E x \in relay.incoming : x.source = y.source /\ x.id = y.id /\ x.joiner = y.joiner
    BY <1>1, <1>6, <1>7 DEF Sound, Numbered, now
  <2>. QED  BY <1>1, <1>7, <2>1, <2>2, FetchingKeeps
<1>9. Placed(r, loading, JoinersOf(calls), None)
  <2>1. JoinersOf(calls) \in SUBSET Peer
    BY <1>1, <1>5 DEF Fetches
  <2>2. ASSUME NEW p \in JoinersOf(calls)
        PROVE  Fetched(relay, p) # {} /\ Fetched(r, p) = {}
    <3>1. PICK rx \in lost : rx.joiner = p
      BY <1>5
    <3>2. \A x \in relay.incoming : x.joiner = p => x = rx
      BY <1>1, <3>1 DEF Sound, FetchedOnce
    <3>. QED  BY <1>6, <1>7, <3>1, <3>2 DEF Fetched, now
  <2>3. ASSUME NEW p \in Peer \ JoinersOf(calls)
        PROVE  Fetched(r, p) # {} <=> Fetched(relay, p) # {}
    <3>1. \A x \in relay.incoming : x.joiner = p => x \notin expired
      BY <1>5, Consts
    <3>. QED  BY <1>6, <1>7, <3>1 DEF Fetched, now
  <2>. QED  BY <1>1, <1>7, <2>1, <2>2, <2>3, FetchesEnd
<1>10. Sound(s, loading) /\ Placed(s, loading, {}, None)
  BY <1>2, <1>4, <1>8, <1>9, ServeAllKeeps
<1>. QED  BY <1>0, <1>10 DEF Accounted, Tick

-----------------------------------------------------------------------------
(* Runs and restores that are answered.                                    *)

\* Those who waited for what has been answered are to be served.
LEMMA WaitsEnd ==
    ASSUME NEW r, NEW l, NEW s, NEW todo \in SUBSET Peer, Placed(r, l, {}, None),
           s.session = r.session,
           \A p \in todo : Waits(r, l, p) # {} /\ Waits(s, l, p) = {},
           \A p \in Peer \ todo : Waits(s, l, p) = Waits(r, l, p)
    PROVE  Placed(s, l, todo, None)
<1>1. \A p \in Peer : OnItsWay(s, p) <=> OnItsWay(r, p)
  BY DEF OnItsWay, IsSyncing, Admitted
<1>2. \A p \in todo : OnItsWay(r, p)
  BY WaitsForOne
<1>3. \A p \in Peer \ {None} :
         IF OnItsWay(s, p) /\ p \notin todo THEN \E w \in Ways : Waits(s, l, p) = {w}
                                            ELSE Waits(s, l, p) = {}
  BY <1>1 DEF Placed
<1>. QED  BY <1>1, <1>2, <1>3, Consts DEF Placed

\* A state, or none, for all of them.
LEMMA AnsweredEach ==
    ASSUME NEW todo \in SUBSET Peer, NEW how \in Answers, NEW turn \in Turn,
           NEW calls, calls = {Answered(p, how, turn, turn) : p \in todo}
    PROVE  OneEach(calls) /\ JoinersOf(calls) = todo
<1>1. \A p \in todo : Answered(p, how, turn, turn).joiner = p
  BY DEF Answered
<1>2. OneEach(calls)
  BY <1>1 DEF OneEach, Calls
<1>. QED  BY <1>1, <1>2 DEF JoinersOf

\* Nothing in a relay that is sound but for the runs reads them.
LEMMA RunsKeep ==
    ASSUME NEW r, NEW l, Sound(r, l), NEW s \in Relays, SameBut(r, s, {"dump", "nextDump", "runs"}),
           RunWaitedFor(s)
    PROVE  Sound(s, l)
<1>1. /\ s.incoming = r.incoming /\ s.serving = r.serving /\ s.nextId = r.nextId
      /\ s.session = r.session /\ s.held = r.held /\ s.granted = r.granted /\ s.out = r.out
      /\ s.head = r.head
  BY DEF SameBut, Fields
<1>2. Numbered(s) /\ FetchedOnce(s) /\ FetchedForIts(s) /\ Downloading(s)
  BY <1>1 DEF Sound, Numbered, FetchedOnce, FetchedForIts, Downloading, Admitted
<1>. QED  BY <1>1, <1>2, NothingHanded DEF Sound

\* on_state_dumped: the run that is waited for serves all who wait, another serves nobody.
LEMMA DumpAnsweredKeeps ==
    ASSUME Accounted, relay.phase # "Over", NEW run \in relay.runs, NEW answer \in Answers,
           DumpAnswered(run, answer)
    PROVE  Accounted'
<1>. DEFINE runs == relay.runs \ {run}
            calls == {Answered(p, answer, run.turn, relay.dump.turn) : p \in relay.dump.waiting}
<1>0. PICK s : s = relay'
  OBVIOUS
<1>1. Sound(relay, loading) /\ Placed(relay, loading, {}, None) /\ relay \in Relays
  BY DEF Accounted, Sound
<1>2. /\ relay.dump \in Dumps \cup {None} /\ relay.nextDump \in Nat
      /\ runs \in SUBSET [id : Nat, turn : Turn]
  BY <1>1 DEF Relays
<1>3. CASE ~IsWaitedFor(relay, run.id)
  <2>1. s = [relay EXCEPT !.runs = runs]
    BY <1>0, <1>1, <1>3 DEF DumpAnswered, IsWaitedFor, Relays
  <2>2. s = WithRun(relay, relay.dump, relay.nextDump, runs)
    BY <1>1, <2>1 DEF WithRun, Relays
  <2>. HIDE DEF runs
  <2>3. /\ s \in Relays /\ s.dump = relay.dump /\ s.nextDump = relay.nextDump /\ s.runs = runs
        /\ SameBut(relay, s, {"dump", "nextDump", "runs"})
    BY <1>1, <1>2, <2>2, DumpSet
  <2>4. RunWaitedFor(s)
    BY <1>1, <1>3, <2>3 DEF Sound, RunWaitedFor, IsWaitedFor, runs
  <2>5. Sound(s, loading)
    BY <1>1, <2>3, <2>4, RunsKeep
  <2>6. /\ s.incoming = relay.incoming /\ s.waiting = relay.waiting /\ s.session = relay.session
        /\ s.held = relay.held /\ s.granted = relay.granted /\ s.out = relay.out
    BY <2>3 DEF SameBut, Fields
  <2>7. \A p \in Peer : Waits(s, loading, p) = Waits(relay, loading, p)
    BY <2>3, <2>6, SameWays DEF Fetched, AwaitsDump
  <2>8. Placed(s, loading, {}, None)
    BY <1>1, <2>6, <2>7, WaitsEnd
  <2>. QED  BY <1>0, <2>5, <2>8 DEF Accounted, DumpAnswered
<1>4. CASE IsWaitedFor(relay, run.id)
  <2>. DEFINE q == WithRun(relay, None, relay.nextDump, runs)
              todo == relay.dump.waiting
  <2>1. relay.dump # None /\ relay.dump \in Dumps /\ todo \in SUBSET Peer /\ relay.dump.turn \in Turn
    BY <1>2, <1>4 DEF IsWaitedFor, Dumps
  <2>2. s \in ServeAll(q, calls)
    <3>1. [[relay EXCEPT !.runs = @ \ {run}] EXCEPT !.dump = None] = q
      BY <1>1 DEF WithRun, Relays
    <3>2. /\ [relay EXCEPT !.runs = @ \ {run}].dump = relay.dump
          /\ IsWaitedFor([relay EXCEPT !.runs = @ \ {run}], run.id)
      BY <1>1, <1>4 DEF Relays, IsWaitedFor
    <3>. HIDE DEF q
    <3>. QED  BY <1>0, <3>1, <3>2 DEF DumpAnswered
  <2>. HIDE DEF runs
  <2>3. /\ q \in Relays /\ q.dump = None /\ q.nextDump = relay.nextDump /\ q.runs = runs
        /\ SameBut(relay, q, {"dump", "nextDump", "runs"})
    BY <1>1, <1>2, DumpSet
  <2>. HIDE DEF q
  <2>4. Sound(q, loading)
    <3>1. RunWaitedFor(q)
      BY <1>1, <2>3 DEF Sound, RunWaitedFor, runs
    <3>. QED  BY <1>1, <2>3, <3>1, RunsKeep
  <2>5. /\ q.incoming = relay.incoming /\ q.waiting = relay.waiting /\ q.session = relay.session
        /\ q.held = relay.held /\ q.granted = relay.granted /\ q.out = relay.out
        /\ q.phase = relay.phase
    BY <2>3 DEF SameBut, Fields
  <2>6. \A p \in Peer \ todo : Waits(q, loading, p) = Waits(relay, loading, p)
    BY <2>3, <2>5, SameWays DEF Fetched, AwaitsDump
  <2>7. ASSUME NEW p \in todo
        PROVE  Waits(relay, loading, p) # {} /\ Waits(q, loading, p) = {}
    <3>1. "dump" \in Waits(relay, loading, p)
      BY <2>1, WaitsIs DEF AwaitsDump
    <3>2. Waits(relay, loading, p) = {"dump"}
      BY <1>1, <2>1, <3>1, WaitsForOne
    <3>3. /\ Fetched(q, p) = {} /\ ~AwaitsDump(q, p) /\ p \notin q.waiting /\ q.held[p] = None
          /\ q.granted[p] = None /\ q.out[p] = None /\ loading[p] = None
      BY <2>3, <2>5, <3>2, WaitsIs DEF Fetched, AwaitsDump
    <3>4. \A w \in Ways : w \notin Waits(q, loading, p)
      BY <3>3, WaitsIs DEF Ways
    <3>. QED  BY <3>1, <3>4, WaitsIs
  <2>8. Placed(q, loading, todo, None)
    BY <1>1, <2>1, <2>5, <2>6, <2>7, WaitsEnd
  <2>9. OneEach(calls) /\ JoinersOf(calls) = todo
    <3>1. run.turn = relay.dump.turn
      BY <1>1, <1>4, <2>1 DEF Sound, RunWaitedFor, IsWaitedFor
    <3>2. PICK turn \in Turn, who \in SUBSET Peer : turn = relay.dump.turn /\ who = todo
      BY <2>1
    <3>3. calls = {Answered(p, answer, turn, turn) : p \in who}
      BY <3>1, <3>2
    <3>. HIDE DEF calls, todo
    <3>. QED  BY <3>2, <3>3, AnsweredEach
  <2>. HIDE DEF calls
  <2>10. Sound(s, loading) /\ Placed(s, loading, {}, None)
    BY <2>2, <2>4, <2>8, <2>9, ServeAllKeeps
  <2>. QED  BY <1>0, <2>10 DEF Accounted, DumpAnswered
<1>. QED  BY <1>3, <1>4

\* Sessions that are told to go, those who wait and the phase.
LEMMA DismissalsKeep ==
    ASSUME NEW r, NEW l, Sound(r, l), NEW s \in Relays,
           SameBut(r, s, {"phase", "restoring", "states", "session", "waiting"}),
           \A p \in Peer : /\ Admitted(s, p) <=> Admitted(r, p)
                           /\ Admitted(r, p) => /\ s.session[p].client = r.session[p].client
                                                /\ s.session[p].turns = r.session[p].turns
    PROVE  Sound(s, l)
<1>1. /\ s.incoming = r.incoming /\ s.serving = r.serving /\ s.nextId = r.nextId
      /\ s.dump = r.dump /\ s.nextDump = r.nextDump /\ s.runs = r.runs /\ s.held = r.held
      /\ s.granted = r.granted /\ s.out = r.out /\ s.head = r.head
  BY DEF SameBut, Fields
<1>2. Numbered(s) /\ FetchedOnce(s) /\ RunWaitedFor(s) /\ Downloading(s)
  BY <1>1 DEF Sound, Numbered, FetchedOnce, RunWaitedFor, Downloading
<1>3. FetchedForIts(s)
  BY <1>1 DEF Sound, FetchedForIts, Relays, Fetches
<1>4. HandsOwn(s, l)
  <2>1. \A p \in Peer : InHand(s, l, p) = InHand(r, l, p)
    BY <1>1 DEF InHand
  <2>. QED  BY <1>1, <2>1 DEF Sound, HandsOwn, IsFor
<1>. QED  BY <1>2, <1>3, <1>4 DEF Sound

\* on_restored
LEMMA RestoredKeeps ==
    ASSUME Accounted, relay.phase # "Over", NEW answer \in Answers, Restored(answer)
    PROVE  Accounted'
<1>0. PICK s : s = relay'
  OBVIOUS
<1>1. /\ Sound(relay, loading) /\ Placed(relay, loading, {}, None) /\ relay \in Relays
      /\ relay.waiting \in SUBSET Peer /\ relay.ready \in Turn /\ relay.states \in SUBSET Turn
      /\ relay.session \in [Peer -> Sessions \cup {None}]
  BY DEF Accounted, Sound, Relays
<1>2. CASE answer = "failed"
  <2>. DEFINE sessions == [p \in Peer |-> IF p \in relay.waiting
                                          THEN [relay.session[p] EXCEPT !.leaving = TRUE]
                                          ELSE relay.session[p]]
  <2>1. s = [relay EXCEPT !.restoring = FALSE, !.waiting = {}, !.phase = "Over", !.session = sessions]
    BY <1>0, <1>2 DEF Restored, RestoreFailed
  <2>2. \A p \in relay.waiting : relay.session[p] \in Sessions
    <3>1. \A p \in relay.waiting : "restore" \in Waits(relay, loading, p)
      BY WaitsIs
    <3>2. \A p \in relay.waiting : OnItsWay(relay, p)
      BY <1>1, <3>1, WaitsForOne
    <3>. QED  BY <1>1, <3>2 DEF OnItsWay, IsSyncing, Admitted
  <2>3. \A p \in Peer : /\ sessions[p] \in Sessions \cup {None}
                        /\ sessions[p] = None <=> relay.session[p] = None
                        /\ sessions[p] # None => /\ sessions[p].client = relay.session[p].client
                                                 /\ sessions[p].turns = relay.session[p].turns
    <3>1. \A p \in relay.waiting : /\ sessions[p] \in Sessions /\ sessions[p] # None
                                   /\ sessions[p].client = relay.session[p].client
                                   /\ sessions[p].turns = relay.session[p].turns
      BY <1>1, <2>2, LeavingIs
    <3>2. \A p \in Peer \ relay.waiting : sessions[p] = relay.session[p]
      OBVIOUS
    <3>. HIDE DEF sessions
    <3>. QED  BY <1>1, <2>2, <3>1, <3>2, Consts
  <2>4. sessions \in [Peer -> Sessions \cup {None}]
    BY <2>3
  <2>. HIDE DEF sessions
  <2>5. s \in Relays /\ s.session = sessions /\ s.phase = "Over"
    BY <1>1, <2>1, <2>4 DEF Relays
  <2>6. SameBut(relay, s, {"phase", "restoring", "states", "session", "waiting"})
    BY <1>1, <2>1 DEF Relays, SameBut, Fields
  <2>7. Sound(s, loading)
    BY <1>1, <2>3, <2>5, <2>6, DismissalsKeep DEF Admitted
  <2>. QED  BY <1>0, <2>5, <2>7 DEF Accounted, Restored
<1>3. CASE answer # "failed"
  <2>. DEFINE states == relay.states \cup {relay.ready}
              r == [relay EXCEPT !.restoring = FALSE, !.waiting = {}, !.states = states]
              calls == {Answered(p, answer, relay.ready, relay.ready) : p \in relay.waiting}
  <2>1. s \in ServeAll(r, calls)
    <3>1. r.ready = relay.ready
      BY <1>1 DEF Relays
    <3>2. r = [relay EXCEPT !.restoring = FALSE, !.waiting = {}, !.states = @ \cup {relay.ready}]
      OBVIOUS
    <3>3. s \in ServeAll(r, {Answered(p, answer, r.ready, r.ready) : p \in relay.waiting})
      BY <1>0, <1>3, <3>2, Zenon DEF Restored
    <3>. HIDE DEF r
    <3>. QED  BY <3>1, <3>3
  <2>2. states \in SUBSET Turn
    BY <1>1
  <2>. HIDE DEF states
  <2>3. r \in Relays /\ r.waiting = {}
    BY <1>1, <2>2 DEF Relays
  <2>4. SameBut(relay, r, {"phase", "restoring", "states", "session", "waiting"})
        /\ r.session = relay.session
    BY <1>1 DEF Relays, SameBut, Fields
  <2>. HIDE DEF r
  <2>5. Sound(r, loading)
    BY <1>1, <2>3, <2>4, DismissalsKeep DEF Admitted
  <2>6. /\ r.incoming = relay.incoming /\ r.dump = relay.dump /\ r.held = relay.held
        /\ r.granted = relay.granted /\ r.out = relay.out
    BY <2>4 DEF SameBut, Fields
  <2>7. \A p \in Peer \ relay.waiting : Waits(r, loading, p) = Waits(relay, loading, p)
    BY <2>3, <2>6, SameWays DEF Fetched, AwaitsDump
  <2>8. ASSUME NEW p \in relay.waiting
        PROVE  Waits(relay, loading, p) # {} /\ Waits(r, loading, p) = {}
    <3>1. "restore" \in Waits(relay, loading, p)
      BY WaitsIs
    <3>2. Waits(relay, loading, p) = {"restore"}
      BY <1>1, <3>1, WaitsForOne
    <3>3. /\ Fetched(r, p) = {} /\ ~AwaitsDump(r, p) /\ p \notin r.waiting /\ r.held[p] = None
          /\ r.granted[p] = None /\ r.out[p] = None /\ loading[p] = None
      BY <2>3, <2>6, <3>2, WaitsIs DEF Fetched, AwaitsDump
    <3>4. \A w \in Ways : w \notin Waits(r, loading, p)
      BY <3>3, WaitsIs DEF Ways
    <3>. QED  BY <3>1, <3>4, WaitsIs
  <2>9. Placed(r, loading, relay.waiting, None)
    BY <1>1, <2>4, <2>7, <2>8, WaitsEnd
  <2>10. OneEach(calls) /\ JoinersOf(calls) = relay.waiting
    BY <1>1, AnsweredEach
  <2>. HIDE DEF calls
  <2>11. Sound(s, loading) /\ Placed(s, loading, {}, None)
    BY <2>1, <2>5, <2>9, <2>10, ServeAllKeeps
  <2>. QED  BY <1>0, <2>11 DEF Accounted, Restored
<1>. QED  BY <1>2, <1>3

-----------------------------------------------------------------------------
(* Clients that come and go.                                               *)

\* The session of a client that is admitted.
Entering(r, p, client, session) ==
    [r EXCEPT !.clients = client, !.session = [@ EXCEPT ![p] = session]]

\* admit_session
LEMMA AdmitsKeeps ==
    ASSUME Accounted, relay.phase # "Over", NEW p \in Peer, Admits(p)
    PROVE  Accounted'
<1>. DEFINE client == relay.clients + 1
            new == NewSession(client, "Syncing")
            sessions == [relay.session EXCEPT ![p] = new]
            r == [relay EXCEPT !.clients = client, !.session = sessions]
<1>0. PICK s : s = relay'
  OBVIOUS
<1>1. /\ Sound(relay, loading) /\ Placed(relay, loading, {}, None) /\ relay \in Relays
      /\ relay.session \in [Peer -> Sessions \cup {None}] /\ relay.clients \in 0 .. MaxClients
  BY DEF Accounted, Sound, Relays
<1>2. /\ ~Admitted(relay, p) /\ relay.clients < MaxClients
      /\ s \in StartFetch([relay EXCEPT !.clients = client, !.session[p] = new], p, TRUE)
  BY <1>0 DEF Admits
<1>3. client \in Client /\ client \in 0 .. MaxClients
  BY <1>1, <1>2, Consts DEF Client
<1>4. /\ new \in Sessions /\ new.client = client /\ new.role = "Syncing" /\ ~new.leaving
      /\ new # None
  <2>. HIDE DEF client
  <2>1. new \in Sessions
    BY <1>3 DEF NewSession, Sessions
  <2>. QED  BY <2>1, Consts DEF NewSession
<1>5. [relay EXCEPT !.clients = client, !.session[p] = new] = r
  <2>. HIDE DEF client, new
  <2>. QED  BY <1>1 DEF Relays
<1>. HIDE DEF new, client
<1>6. /\ sessions \in [Peer -> Sessions \cup {None}] /\ sessions[p] = new
      /\ \A q \in Peer \ {p} : sessions[q] = relay.session[q]
  BY <1>1, <1>4
<1>. HIDE DEF sessions
<1>7. r \in Relays /\ r.session = sessions
  BY <1>1, <1>3, <1>6 DEF Relays
<1>8. SameBut(relay, r, {"clients", "session"})
  BY <1>1 DEF Relays, SameBut, Fields
<1>9. s \in StartFetch(r, p, TRUE)
  BY <1>2, <1>5
<1>. HIDE DEF r
<1>10. /\ r.incoming = relay.incoming /\ r.serving = relay.serving /\ r.nextId = relay.nextId
       /\ r.dump = relay.dump /\ r.nextDump = relay.nextDump /\ r.runs = relay.runs
       /\ r.waiting = relay.waiting
       /\ r.held = relay.held /\ r.granted = relay.granted /\ r.out = relay.out
       /\ r.head = relay.head /\ r.phase = relay.phase
  BY <1>8 DEF SameBut, Fields
<1>11. Waits(relay, loading, p) = {}
  BY <1>1, <1>2, Consts DEF Placed, OnItsWay, IsSyncing
<1>12. /\ Fetched(relay, p) = {} /\ relay.held[p] = None /\ relay.granted[p] = None
       /\ relay.out[p] = None /\ loading[p] = None
  BY <1>11, OnNoWay
<1>13. \A q \in Peer : /\ Waits(r, loading, q) = Waits(relay, loading, q)
                       /\ InHand(r, loading, q) = InHand(relay, loading, q)
  <2>1. \A q \in Peer : Waits(r, loading, q) = Waits(relay, loading, q)
    BY <1>10, SameWays DEF Fetched, AwaitsDump
  <2>. QED  BY <1>10, <2>1 DEF InHand
<1>14. Sound(r, loading)
  <2>1. Numbered(r) /\ FetchedOnce(r) /\ RunWaitedFor(r) /\ Downloading(r)
    BY <1>1, <1>10 DEF Sound, Numbered, FetchedOnce, RunWaitedFor, Downloading
  <2>2. FetchedForIts(r)
    <3>1. \A rx \in r.incoming : rx.joiner # None => rx.joiner \in Peer \ {p}
      BY <1>1, <1>10, <1>12 DEF Fetched, Relays, Fetches
    <3>. QED  BY <1>1, <1>6, <1>7, <1>10, <3>1 DEF Sound, FetchedForIts, Admitted
  <2>3. HandsOwn(r, loading)
    <3>1. /\ \A x \in InHand(r, loading, p) \ {None} : IsFor(r, p, x) /\ (p \in Watcher => x.turn <= r.head)
          /\ r.held[p] # None =>
               IsFor(r, p, r.held[p].state) /\ r.held[p].state.turn <= r.held[p].bound
      BY <1>10, <1>12 DEF InHand
    <3>2. \A q \in Peer \ {p} : /\ r.session[q] = relay.session[q] /\ r.held[q] = relay.held[q]
                               /\ InHand(r, loading, q) = InHand(relay, loading, q)
      BY <1>6, <1>7, <1>10, <1>13
    <3>. QED  BY <1>1, <1>10, <3>1, <3>2, OneHanded DEF Sound
  <2>. QED  BY <1>1, <1>7, <2>1, <2>2, <2>3 DEF Sound
<1>15. Placed(r, loading, {p}, None)
  <2>1. OnItsWay(r, p)
    BY <1>4, <1>6, <1>7 DEF OnItsWay, IsSyncing, Admitted
  <2>2. \A q \in Peer \ {p} : OnItsWay(r, q) <=> OnItsWay(relay, q)
    BY <1>6, <1>7 DEF OnItsWay, IsSyncing, Admitted
  <2>3. \A q \in Peer \ {None} :
           IF OnItsWay(r, q) /\ q \notin {p} THEN \E w \in Ways : Waits(r, loading, q) = {w}
                                             ELSE Waits(r, loading, q) = {}
    BY <1>1, <1>11, <1>13, <2>2 DEF Placed
  <2>. QED  BY <2>1, <2>3, Consts DEF Placed
<1>16. Done(r, loading, {p}, None, p, s)
  <2>1. Due(r, loading, {p}, None, p)
    BY <1>14, <1>15 DEF Due
  <2>. QED  BY <1>9, <2>1, StartFetchKeeps, Zenon
<1>17. {p} \ {p} = {}
  OBVIOUS
<1>. QED  BY <1>0, <1>16, <1>17 DEF Accounted, Admits, Done

\* What is left of the relay's tables once p has gone.
LEMMA ForgottenIs ==
    ASSUME NEW r \in Relays, NEW p \in Peer, NEW s, s = Forgotten(r, p)
    PROVE  /\ s \in Relays
           /\ SameBut(r, s, {"session", "incoming", "granted", "out", "held", "waiting", "serving"})
           /\ s.incoming = StillComing(r, p) /\ s.waiting = r.waiting \ {p}
           /\ s.serving = {x \in r.serving : x.source # p}
           /\ s.session[p] = None /\ s.granted[p] = None /\ s.out[p] = None /\ s.held[p] = None
           /\ \A q \in Peer \ {p} : /\ s.session[q] = r.session[q] /\ s.granted[q] = r.granted[q]
                                    /\ s.out[q] = r.out[q] /\ s.held[q] = r.held[q]
<1>. DEFINE session == [r.session EXCEPT ![p] = None]
            granted == [r.granted EXCEPT ![p] = None]
            out == [r.out EXCEPT ![p] = None]
            held == [r.held EXCEPT ![p] = None]
            incoming == StillComing(r, p)
            waiting == r.waiting \ {p}
            serving == {x \in r.serving : x.source # p}
<1>1. s = [r EXCEPT !.session = session, !.incoming = incoming, !.granted = granted, !.out = out,
                    !.held = held, !.waiting = waiting, !.serving = serving]
  BY DEF Forgotten, Relays
<1>2. /\ session \in [Peer -> Sessions \cup {None}] /\ session[p] = None
      /\ \A q \in Peer \ {p} : session[q] = r.session[q]
  BY DEF Relays
<1>3. /\ granted \in [Peer -> Snapshot \cup {None}] /\ granted[p] = None
      /\ \A q \in Peer \ {p} : granted[q] = r.granted[q]
  BY DEF Relays
<1>4. /\ out \in [Peer -> Downloads \cup {None}] /\ out[p] = None
      /\ \A q \in Peer \ {p} : out[q] = r.out[q]
  BY DEF Relays
<1>5. /\ held \in [Peer -> Helds \cup {None}] /\ held[p] = None
      /\ \A q \in Peer \ {p} : held[q] = r.held[q]
  BY DEF Relays
<1>6. incoming \in SUBSET Fetches /\ waiting \in SUBSET Peer /\ serving \in SUBSET Servings
  BY DEF Relays, StillComing
<1>. HIDE DEF session, granted, out, held, incoming, waiting, serving
<1>7. s \in Relays
  <2>. DEFINE a == [r EXCEPT !.session = session, !.incoming = incoming, !.granted = granted]
              b == [a EXCEPT !.out = out, !.held = held]
  <2>1. s = [b EXCEPT !.waiting = waiting, !.serving = serving]
    BY <1>1
  <2>2. a \in Relays
    BY <1>2, <1>3, <1>6 DEF Relays
  <2>. HIDE DEF a
  <2>3. b \in Relays
    BY <1>4, <1>5, <2>2 DEF Relays
  <2>. HIDE DEF b
  <2>. QED  BY <1>6, <2>1, <2>3 DEF Relays
<1>8. /\ s.session = session /\ s.incoming = incoming /\ s.granted = granted
      /\ s.out = out /\ s.held = held /\ s.waiting = waiting /\ s.serving = serving
  BY <1>1 DEF Relays
<1>9. SameBut(r, s, {"session", "incoming", "granted", "out", "held", "waiting", "serving"})
  BY <1>1 DEF Relays, SameBut, Fields
<1>. QED  BY <1>2, <1>3, <1>4, <1>5, <1>7, <1>8, <1>9 DEF incoming, waiting, serving

\* on_disconnected, before the others are served: those the peer was sending a state wait
\* for nothing, and the run that the peer waited for may yet be waited for.
LEMMA ForgottenKeeps ==
    ASSUME NEW r, NEW l, Sound(r, l), Placed(r, l, {}, None), NEW p \in Peer,
           NEW s, s = Forgotten(r, p), NEW k \in Loadings, k[p] = None,
           \A q \in Peer \ {p} : k[q] = l[q]
    PROVE  /\ Sound(s, k) /\ Placed(s, k, Orphans(r, p), p) /\ s.phase = r.phase
           /\ Orphans(r, p) \subseteq Peer
<1>1. r \in Relays /\ r.incoming \in SUBSET Fetches /\ l \in Loadings
  BY DEF Sound, Relays
<1>2. /\ s \in Relays
      /\ SameBut(r, s, {"session", "incoming", "granted", "out", "held", "waiting", "serving"})
      /\ s.incoming = StillComing(r, p) /\ s.waiting = r.waiting \ {p}
      /\ s.serving = {x \in r.serving : x.source # p}
      /\ s.session[p] = None /\ s.granted[p] = None /\ s.out[p] = None /\ s.held[p] = None
      /\ \A q \in Peer \ {p} : /\ s.session[q] = r.session[q] /\ s.granted[q] = r.granted[q]
                               /\ s.out[q] = r.out[q] /\ s.held[q] = r.held[q]
  BY <1>1, ForgottenIs
<1>3. /\ s.nextId = r.nextId /\ s.dump = r.dump /\ s.nextDump = r.nextDump /\ s.runs = r.runs
      /\ s.head = r.head
      /\ s.phase = r.phase
  BY <1>2 DEF SameBut, Fields
<1>4. k \in Loadings /\ k[p] = None /\ \A q \in Peer \ {p} : k[q] = l[q]
  OBVIOUS
<1>5. Orphans(r, p) \subseteq Peer \ {p}
  BY <1>1 DEF Orphans, Fetches
<1>6. \A q \in Orphans(r, p) : Fetched(r, q) # {} /\ Fetched(s, q) = {}
  BY <1>2 DEF Sound, FetchedOnce, Orphans, Fetched, StillComing
<1>7. \A q \in Peer \ {p} : q \notin Orphans(r, p) => Fetched(s, q) = Fetched(r, q)
  BY <1>2, Consts DEF Orphans, Fetched, StillComing
<1>8. ASSUME NEW q \in Peer \ {p}, q \notin Orphans(r, p)
      PROVE  Waits(s, k, q) = Waits(r, l, q)
  <2>1. Fetched(s, q) = Fetched(r, q) /\ (AwaitsDump(s, q) <=> AwaitsDump(r, q))
    BY <1>3, <1>7, <1>8 DEF AwaitsDump
  <2>2. /\ q \in s.waiting <=> q \in r.waiting
        /\ s.held[q] = r.held[q] /\ s.granted[q] = r.granted[q] /\ s.out[q] = r.out[q]
        /\ k[q] = l[q]
    BY <1>2, <1>4
  <2>. QED  BY <2>1, <2>2, SameWays
<1>9. ASSUME NEW q \in Orphans(r, p)
      PROVE  OnItsWay(r, q) /\ Waits(s, k, q) = {}
  <2>1. Waits(r, l, q) = {"client"} /\ OnItsWay(r, q)
    <3>1. "client" \in Waits(r, l, q)
      BY <1>6, WaitsIs
    <3>. QED  BY <1>5, <3>1, WaitsForOne
  <2>2. /\ Fetched(s, q) = {} /\ ~AwaitsDump(s, q) /\ q \notin s.waiting /\ s.held[q] = None
        /\ s.granted[q] = None /\ s.out[q] = None /\ k[q] = None
    BY <1>2, <1>3, <1>4, <1>5, <1>6, <2>1, WaitsIs DEF AwaitsDump
  <2>. QED  BY <2>1, <2>2, NoWayIs
<1>10. Waits(s, k, p) \subseteq {"dump"}
  <2>1. Fetched(s, p) = {}
    BY <1>2 DEF Fetched, StillComing
  <2>2. p \notin s.waiting /\ s.held[p] = None /\ s.granted[p] = None /\ s.out[p] = None /\ k[p] = None
    BY <1>2, <1>4
  <2>3. \A w \in Ways : w # "dump" => w \notin Waits(s, k, p)
    BY <2>1, <2>2, WaitsIs DEF Ways
  <2>. QED  BY <2>3, WaitsIs
<1>11. Placed(s, k, Orphans(r, p), p)
  <2>1. \A q \in Peer \ {p} : OnItsWay(s, q) <=> OnItsWay(r, q)
    BY <1>2 DEF OnItsWay, IsSyncing, Admitted
  <2>2. \A q \in Peer \ {p} :
           IF OnItsWay(s, q) /\ q \notin Orphans(r, p) THEN \E w \in Ways : Waits(s, k, q) = {w}
                                                       ELSE Waits(s, k, q) = {}
    BY <1>8, <1>9, <2>1, Consts DEF Placed
  <2>3. \A q \in Orphans(r, p) : q \in Peer \ {p} /\ OnItsWay(s, q)
    BY <1>5, <1>9, <2>1
  <2>. QED  BY <1>2, <1>10, <2>2, <2>3 DEF Placed
<1>12. Numbered(s) /\ FetchedOnce(s) /\ RunWaitedFor(s) /\ Downloading(s)
  BY <1>2, <1>3 DEF Sound, Numbered, FetchedOnce, RunWaitedFor, Downloading, StillComing
<1>13. FetchedForIts(s)
  <2>1. \A rx \in s.incoming : rx \in r.incoming /\ rx.joiner # p /\ rx.joiner \in Peer \cup {None}
    BY <1>1, <1>2 DEF StillComing, Fetches
  <2>. QED  BY <1>2, <2>1 DEF Sound, FetchedForIts, Admitted
<1>14. HandsOwn(s, k)
  <2>1. /\ \A x \in InHand(s, k, p) \ {None} : IsFor(s, p, x) /\ (p \in Watcher => x.turn <= s.head)
        /\ s.held[p] # None =>
             IsFor(s, p, s.held[p].state) /\ s.held[p].state.turn <= s.held[p].bound
    BY <1>2, <1>4 DEF InHand
  <2>2. \A q \in Peer \ {p} : /\ s.session[q] = r.session[q] /\ s.held[q] = r.held[q]
                             /\ InHand(s, k, q) = InHand(r, l, q)
    BY <1>2, <1>4 DEF InHand
  <2>3. HandsOwn(r, l) /\ s.head = r.head
    BY <1>3 DEF Sound
  <2>. QED  BY <2>1, <2>2, <2>3, OneHanded
<1>. QED  BY <1>2, <1>3, <1>4, <1>5, <1>11, <1>12, <1>13, <1>14 DEF Sound

\* on_disconnected: the peer waits for no run, and a run that nobody waits for is cancelled.
LEMMA WithoutWaiterKeeps ==
    ASSUME NEW r, NEW l, NEW p \in Peer, Sound(r, l), Placed(r, l, {}, p),
           NEW s, s = WithoutWaiter(r, p)
    PROVE  Sound(s, l) /\ Placed(s, l, {}, None) /\ s.phase = r.phase
<1>1. /\ r \in Relays /\ r.dump \in Dumps \cup {None} /\ r.nextDump \in Nat
      /\ r.runs \in SUBSET [id : Nat, turn : Turn]
  BY DEF Sound, Relays
<1>2. \E d \in Dumps \cup {None} :
         /\ s = WithRun(r, d, r.nextDump, r.runs)
         /\ d # None => /\ r.dump # None /\ d.id = r.dump.id /\ d.turn = r.dump.turn
                        /\ d.waiting = r.dump.waiting \ {p} /\ d.waiting # {}
         /\ d = None => \A q \in Peer \ {p} : ~AwaitsDump(r, q)
  <2>1. CASE r.dump = None
    <3>1. s = WithRun(r, None, r.nextDump, r.runs)
      BY <1>1, <2>1 DEF WithoutWaiter, WithRun, Relays
    <3>2. \A q \in Peer \ {p} : ~AwaitsDump(r, q)
      BY <2>1 DEF AwaitsDump
    <3>. QED  BY <3>1, <3>2
  <2>2. CASE r.dump # None /\ r.dump.waiting \subseteq {p}
    <3>1. s = WithRun(r, None, r.nextDump, r.runs)
      BY <1>1, <2>2 DEF WithoutWaiter, WithRun, Relays
    <3>2. \A q \in Peer \ {p} : ~AwaitsDump(r, q)
      BY <2>2 DEF AwaitsDump
    <3>. QED  BY <3>1, <3>2
  <2>3. CASE r.dump # None /\ ~(r.dump.waiting \subseteq {p})
    <3>. DEFINE d == [r.dump EXCEPT !.waiting = @ \ {p}]
    <3>1. s = WithRun(r, d, r.nextDump, r.runs)
      BY <1>1, <2>3 DEF WithoutWaiter, WithRun, Relays
    <3>2. /\ d \in Dumps /\ d # None /\ d.id = r.dump.id /\ d.turn = r.dump.turn
          /\ d.waiting = r.dump.waiting \ {p}
      BY <1>1, <2>3, Consts DEF Dumps
    <3>. HIDE DEF d
    <3>3. d.waiting # {}
      BY <2>3, <3>2
    <3>. QED  BY <2>3, <3>1, <3>2, <3>3
  <2>. QED  BY <2>1, <2>2, <2>3
<1>3. PICK d \in Dumps \cup {None} :
         /\ s = WithRun(r, d, r.nextDump, r.runs)
         /\ d # None => /\ r.dump # None /\ d.id = r.dump.id /\ d.turn = r.dump.turn
                        /\ d.waiting = r.dump.waiting \ {p} /\ d.waiting # {}
         /\ d = None => \A q \in Peer \ {p} : ~AwaitsDump(r, q)
  BY <1>2
<1>4. /\ s \in Relays /\ s.dump = d /\ s.nextDump = r.nextDump /\ s.runs = r.runs
      /\ SameBut(r, s, {"dump", "nextDump", "runs"})
  BY <1>1, <1>3, DumpSet
<1>5. RunWaitedFor(s)
  BY <1>3, <1>4 DEF Sound, RunWaitedFor
<1>6. Sound(s, l)
  BY <1>4, <1>5, RunsKeep
<1>7. /\ s.incoming = r.incoming /\ s.waiting = r.waiting /\ s.session = r.session
      /\ s.held = r.held /\ s.granted = r.granted /\ s.out = r.out /\ s.phase = r.phase
  BY <1>4 DEF SameBut, Fields
<1>8. ~AwaitsDump(s, p) /\ \A q \in Peer \ {p} : AwaitsDump(s, q) <=> AwaitsDump(r, q)
  BY <1>3, <1>4 DEF AwaitsDump
<1>9. \A q \in Peer \ {p} : Waits(s, l, q) = Waits(r, l, q)
  BY <1>7, <1>8, SameWays DEF Fetched
<1>10. Waits(s, l, p) = {} /\ ~OnItsWay(s, p)
  <2>1. r.session[p] = None /\ Waits(r, l, p) \subseteq {"dump"}
    BY DEF Placed
  <2>2. /\ Fetched(s, p) = {} /\ p \notin s.waiting /\ s.held[p] = None
        /\ s.granted[p] = None /\ s.out[p] = None /\ l[p] = None
    BY <1>7, <2>1, WaitsIs DEF Fetched
  <2>3. \A w \in Ways : w \notin Waits(s, l, p)
    BY <1>8, <2>2, WaitsIs DEF Ways
  <2>. QED  BY <1>7, <2>1, <2>3, WaitsIs DEF OnItsWay, IsSyncing, Admitted
<1>11. Placed(s, l, {}, None)
  <2>1. \A q \in Peer : OnItsWay(s, q) <=> OnItsWay(r, q)
    BY <1>7 DEF OnItsWay, IsSyncing, Admitted
  <2>2. \A q \in Peer : IF OnItsWay(s, q) THEN \E w \in Ways : Waits(s, l, q) = {w}
                                          ELSE Waits(s, l, q) = {}
    BY <1>9, <1>10, <2>1 DEF Placed
  <2>. QED  BY <2>2, Consts DEF Placed
<1>. QED  BY <1>6, <1>7, <1>11

\* on_disconnected
LEMMA DisconnectedKeeps ==
    ASSUME Accounted, relay.phase # "Over", NEW p \in Peer, Disconnected(p)
    PROVE  Accounted'
<1>. DEFINE r == Forgotten(relay, p)
            calls == {Lost(q, p) : q \in Orphans(relay, p)}
<1>0. PICK s, k : s = relay' /\ k = loading'
  OBVIOUS
<1>1. Sound(relay, loading) /\ Placed(relay, loading, {}, None)
  BY DEF Accounted
<1>2. PICK t \in ServeAll(r, calls) :
         s = IF WithoutWaiter(t, p).phase = "InGame" THEN AdvanceFeed(WithoutWaiter(t, p))
                                                     ELSE WithoutWaiter(t, p)
  BY <1>0 DEF Disconnected
<1>3. k \in Loadings /\ k[p] = None /\ \A q \in Peer \ {p} : k[q] = loading[q]
  <2>1. k = [loading EXCEPT ![p] = None] /\ loading \in Loadings
    BY <1>0, <1>1 DEF Disconnected, Sound
  <2>. QED  BY <2>1 DEF Loadings
<1>4. /\ Sound(r, k) /\ Placed(r, k, Orphans(relay, p), p) /\ r.phase = relay.phase
      /\ Orphans(relay, p) \subseteq Peer
  BY <1>1, <1>3, ForgottenKeeps
<1>. HIDE DEF r
<1>5. OneEach(calls) /\ JoinersOf(calls) = Orphans(relay, p)
  <2>1. \A q : Lost(q, p).joiner = q
    BY DEF Lost
  <2>2. OneEach(calls)
    BY <1>4, <2>1 DEF OneEach, Calls
  <2>. QED  BY <2>1, <2>2 DEF JoinersOf
<1>. HIDE DEF calls
<1>6. Sound(t, k) /\ Placed(t, k, {}, p)
  BY <1>2, <1>4, <1>5, ServeAllKeeps
<1>. DEFINE left == WithoutWaiter(t, p)
<1>7. Sound(left, k) /\ Placed(left, k, {}, None)
  BY <1>6, WithoutWaiterKeeps
<1>. HIDE DEF left
<1>8. Sound(s, k) /\ Placed(s, k, {}, None)
  <2>1. s = left \/ s = AdvanceFeed(left)
    BY <1>2 DEF left
  <2>. QED  BY <1>7, <2>1, FeedKeeps
<1>. QED  BY <1>0, <1>8 DEF Accounted

-----------------------------------------------------------------------------
(* How a game begins.                                                      *)

\* Nothing is under way yet.
LEMMA NothingUnderWay ==
    ASSUME NEW r \in Relays, NEW l, l = [p \in Peer |-> None],
           r.incoming = {}, r.dump = None, r.runs = {}, r.waiting = {}, r.serving = {},
           \A p \in Peer : /\ r.held[p] = None /\ r.granted[p] = None /\ r.out[p] = None
                           /\ ~OnItsWay(r, p)
    PROVE  Sound(r, l) /\ Placed(r, l, {}, None)
<1>1. l \in Loadings /\ \A p \in Peer : l[p] = None
  BY DEF Loadings
<1>2. \A p \in Peer : Waits(r, l, p) = {}
  BY <1>1, NoWayIs DEF Fetched, AwaitsDump
<1>3. Placed(r, l, {}, None)
  BY <1>2, Consts DEF Placed
<1>4. Numbered(r) /\ FetchedOnce(r) /\ FetchedForIts(r) /\ RunWaitedFor(r) /\ Downloading(r)
  BY DEF Numbered, FetchedOnce, FetchedForIts, RunWaitedFor, Downloading
<1>5. HandsOwn(r, l)
  <2>1. \A p \in Peer : InHand(r, l, p) = {None}
    BY <1>1 DEF InHand
  <2>. QED  BY <2>1 DEF HandsOwn
<1>. QED  BY <1>1, <1>3, <1>4, <1>5 DEF Sound

\* A game without a past.
StartsAs(r, phase, sidecar, seed, ready, session, clients) ==
    /\ phase \in {"InGame", "Resuming"} /\ sidecar \in BOOLEAN
    /\ seed \in Turn \cup {None} /\ ready \in Turn
    /\ session \in [Peer -> Sessions \cup {None}] /\ clients \in 0 .. MaxClients
    /\ r = Fresh(phase, sidecar, seed, ready, session, clients)

LEMMA FreshIs ==
    ASSUME NEW r, NEW phase, NEW sidecar, NEW seed, NEW ready, NEW session, NEW clients,
           StartsAs(r, phase, sidecar, seed, ready, session, clients)
    PROVE  /\ r \in Relays /\ r.session = session /\ r.phase = phase
           /\ r.incoming = {} /\ r.dump = None /\ r.runs = {} /\ r.waiting = {} /\ r.serving = {}
           /\ \A p \in Peer : r.held[p] = None /\ r.granted[p] = None /\ r.out[p] = None
<1>. DEFINE nothing == [p \in Peer |-> None]
            head == Larger(ready - Delay, InitialTurn)
<1>0. /\ phase \in {"InGame", "Resuming"} /\ sidecar \in BOOLEAN
      /\ seed \in Turn \cup {None} /\ ready \in Turn
      /\ session \in [Peer -> Sessions \cup {None}] /\ clients \in 0 .. MaxClients
      /\ r = Fresh(phase, sidecar, seed, ready, session, clients)
  BY Zenon DEF StartsAs
<1>1. PICK restoring \in BOOLEAN : restoring = (phase = "Resuming" /\ sidecar)
  BY Zenon
<1>2. /\ r = [phase |-> phase, sidecar |-> sidecar, seed |-> seed, ready |-> ready, head |-> head,
              session |-> session, clients |-> clients, incoming |-> {}, nextId |-> 1,
              dump |-> None, nextDump |-> 1, restoring |-> restoring, waiting |-> {},
              states |-> {}, pulledAt |-> ready, held |-> nothing, granted |-> nothing,
              out |-> nothing, serving |-> {}, runs |-> {}]
  BY <1>0, <1>1, Zenon DEF Fresh
<1>3. head \in Turn
  BY <1>0, TransferAssumption, Consts DEF Larger, Turn, InitialTurn
<1>4. /\ nothing \in [Peer -> Helds \cup {None}] /\ nothing \in [Peer -> Snapshot \cup {None}]
      /\ nothing \in [Peer -> Downloads \cup {None}] /\ \A p \in Peer : nothing[p] = None
  OBVIOUS
<1>. HIDE DEF nothing, head
<1>5. r \in Relays
  BY <1>0, <1>2, <1>3, <1>4 DEF Relays
<1>6. /\ r.session = session /\ r.phase = phase /\ r.incoming = {} /\ r.dump = None
      /\ r.runs = {} /\ r.waiting = {} /\ r.serving = {} /\ r.held = nothing
      /\ r.granted = nothing /\ r.out = nothing
  BY <1>2
<1>. QED  BY <1>4, <1>5, <1>6

\* What a resumed match has at hand.
LEMMA AtHandIs ==
    ASSUME NEW r \in Relays, NEW restoring \in BOOLEAN, NEW states \in SUBSET Turn,
           NEW s, s = [r EXCEPT !.restoring = restoring, !.states = states]
    PROVE  s \in Relays /\ SameBut(r, s, {"restoring", "states"})
<1>1. s \in Relays
  BY DEF Relays
<1>2. SameBut(r, s, {"restoring", "states"})
  BY DEF Relays, SameBut, Fields
<1>. QED  BY <1>1, <1>2

\* The clients of a match that begins are numbered.
LEMMA NumberIs ==
    ASSUME NEW S, IsFiniteSet(S)
    PROVE  LET f == CHOOSE f \in [S -> 1 .. Cardinality(S)] : \A p, q \in S : f[p] = f[q] => p = q
           IN  f \in [S -> 1 .. Cardinality(S)]
<1>. DEFINE n == Cardinality(S)
            Good(f) == \A p, q \in S : f[p] = f[q] => p = q
<1>1. PICK g : g \in Bijection(1 .. n, S)
  BY FS_CardinalityType DEF ExistsBijection
<1>2. \A p \in S : \E i \in 1 .. n : g[i] = p
  BY <1>1 DEF Bijection, Surjection
<1>. DEFINE f == [p \in S |-> CHOOSE i \in 1 .. n : g[i] = p]
<1>3. \A p \in S : f[p] \in 1 .. n /\ g[f[p]] = p
  BY <1>2, Zenon
<1>. HIDE DEF n
<1>4. f \in [S -> 1 .. n]
  BY <1>3
<1>5. Good(f)
  <2>. HIDE DEF f
  <2>. QED  BY <1>3
<1>6. \E h \in [S -> 1 .. n] : Good(h)
  BY <1>4, <1>5, Zenon
<1>7. (CHOOSE h \in [S -> 1 .. n] : Good(h)) \in [S -> 1 .. n]
  BY <1>6, Zenon
<1>. QED  BY <1>7, Zenon DEF n

LEMMA Starts ==
    ASSUME Init
    PROVE  Accounted
<1>1. loading = [p \in Peer |-> None]
  BY DEF Init
<1>2. CASE \E starters \in Starters, sidecar \in BOOLEAN : relay = InGameAtFirst(starters, sidecar)
  <2>1. PICK starters \in Starters, sidecar \in BOOLEAN : relay = InGameAtFirst(starters, sidecar)
    BY <1>2
  <2>2. /\ starters \subseteq Peer /\ IsFiniteSet(starters) /\ Cardinality(starters) \in Nat
        /\ Cardinality(starters) <= MaxClients
    BY TransferAssumption, FS_Subset, FS_CardinalityType
  <2>3. PICK number \in [starters -> 1 .. Cardinality(starters)] :
           relay = Fresh("InGame", sidecar, None, InitialTurn,
                         [p \in Peer |-> IF p \in starters THEN NewSession(number[p], "InGame")
                                                           ELSE None],
                         Cardinality(starters))
    BY <2>1, <2>2, NumberIs, Zenon DEF InGameAtFirst
  <2>. DEFINE session == [p \in Peer |-> IF p \in starters THEN NewSession(number[p], "InGame")
                                                           ELSE None]
  <2>4. \A p \in Peer : session[p] = None \/ (session[p] \in Sessions /\ session[p].role = "InGame")
    <3>1. \A p \in starters : number[p] \in Client
      BY <2>2, Consts DEF Client
    <3>. QED  BY <3>1 DEF NewSession, Sessions
  <2>5. session \in [Peer -> Sessions \cup {None}]
    BY <2>4
  <2>6. relay = Fresh("InGame", sidecar, None, InitialTurn, session, Cardinality(starters))
    BY <2>3
  <2>7. InitialTurn \in Turn /\ Cardinality(starters) \in 0 .. MaxClients
    BY <2>2, TransferAssumption, Consts DEF InitialTurn, Turn
  <2>. HIDE DEF session
  <2>8. StartsAs(relay, "InGame", sidecar, None, InitialTurn, session, Cardinality(starters))
    BY <2>5, <2>6, <2>7, Zenon DEF StartsAs
  <2>9. /\ relay \in Relays /\ relay.session = session /\ relay.phase = "InGame"
        /\ relay.incoming = {} /\ relay.dump = None /\ relay.runs = {}
        /\ relay.waiting = {} /\ relay.serving = {}
        /\ \A p \in Peer : relay.held[p] = None /\ relay.granted[p] = None /\ relay.out[p] = None
    BY <2>8, FreshIs, Zenon
  <2>10. \A p \in Peer : ~OnItsWay(relay, p)
    BY <2>4, <2>9 DEF OnItsWay, IsSyncing, Admitted
  <2>. QED  BY <1>1, <2>9, <2>10, NothingUnderWay DEF Accounted
<1>3. CASE \E sidecar \in BOOLEAN, base \in {InitialTurn, InitialTurn + 1} :
              relay = ResumedAt(InitialTurn + 1, sidecar, base)
  <2>1. PICK sidecar \in BOOLEAN, base \in {InitialTurn, InitialTurn + 1} :
           relay = ResumedAt(InitialTurn + 1, sidecar, base)
    BY <1>3
  <2>2. PICK ready : ready = InitialTurn + 1
    OBVIOUS
  <2>3. PICK seed : seed = IF sidecar THEN None ELSE base
    OBVIOUS
  <2>4. PICK restoring \in BOOLEAN : restoring = (sidecar /\ base # ready)
    BY Zenon
  <2>5. PICK states : states = IF base = ready THEN {ready} ELSE {}
    OBVIOUS
  <2>. DEFINE session == [p \in Peer |-> None]
  <2>6. PICK r : r = Fresh("Resuming", sidecar, seed, ready, session, 1)
    OBVIOUS
  <2>7. base \in Turn /\ ready \in Turn /\ 1 \in 0 .. MaxClients
    BY <2>1, <2>2, TransferAssumption, Consts DEF InitialTurn, Turn
  <2>8. seed \in Turn \cup {None} /\ states \in SUBSET Turn
    BY <2>3, <2>5, <2>7
  <2>9. relay = [r EXCEPT !.restoring = restoring, !.states = states]
    BY <2>1, <2>2, <2>3, <2>4, <2>5, <2>6, Zenon DEF ResumedAt
  <2>a. session \in [Peer -> Sessions \cup {None}] /\ \A p \in Peer : session[p] = None
    OBVIOUS
  <2>. HIDE DEF session
  <2>b. StartsAs(r, "Resuming", sidecar, seed, ready, session, 1)
    BY <2>6, <2>7, <2>8, <2>a, Zenon DEF StartsAs
  <2>c. /\ r \in Relays /\ r.session = session /\ r.phase = "Resuming"
        /\ r.incoming = {} /\ r.dump = None /\ r.runs = {} /\ r.waiting = {} /\ r.serving = {}
        /\ \A p \in Peer : r.held[p] = None /\ r.granted[p] = None /\ r.out[p] = None
    BY <2>b, FreshIs, Zenon
  <2>d. relay \in Relays /\ SameBut(r, relay, {"restoring", "states"})
    BY <2>8, <2>9, <2>c, AtHandIs
  <2>10. /\ relay.session = session /\ relay.phase = "Resuming"
         /\ relay.incoming = {} /\ relay.dump = None /\ relay.runs = {}
         /\ relay.waiting = {} /\ relay.serving = {}
         /\ \A p \in Peer : relay.held[p] = None /\ relay.granted[p] = None /\ relay.out[p] = None
    BY <2>c, <2>d DEF SameBut, Fields
  <2>11. \A p \in Peer : ~OnItsWay(relay, p)
    BY <2>a, <2>10 DEF OnItsWay, IsSyncing, Admitted
  <2>. QED  BY <1>1, <2>10, <2>11, <2>d, NothingUnderWay DEF Accounted
<1>. QED  BY <1>2, <1>3 DEF Init

\* Nothing happens.
LEMMA StaysAccounted ==
    ASSUME Accounted, UNCHANGED vars
    PROVE  Accounted'
<1>1. relay' = relay /\ loading' = loading
  BY DEF vars
<1>. QED  BY <1>1 DEF Accounted

LEMMA Steps ==
    ASSUME Accounted, [Next]_vars
    PROVE  Accounted'
<1>1. CASE UNCHANGED vars
  BY <1>1, StaysAccounted
<1>2. CASE Next
  <2>. SUFFICES ASSUME relay.phase # "Over"  PROVE Accounted'
    BY <1>2 DEF Next
  <2>1. ASSUME NEW p \in Peer, Admits(p)  PROVE Accounted'
    BY <2>1, AdmitsKeeps
  <2>2. ASSUME NEW p \in Peer, Disconnected(p)  PROVE Accounted'
    BY <2>2, DisconnectedKeeps
  <2>3. ASSUME NEW p \in Peer, Requests(p)  PROVE Accounted'
    BY <2>3, RequestsKeeps
  <2>4. ASSUME NEW p \in Peer, Loads(p)  PROVE Accounted'
    BY <2>4, LoadsKeeps
  <2>5. ASSUME NEW p \in Peer, NEW n \in 1 .. Window, Acks(p, n)  PROVE Accounted'
    BY <2>5, AcksKeeps
  <2>6. ASSUME NEW s \in relay.serving,
               \E length \in {"fits", "too long", "empty"} : Responds(s, length)
        PROVE  Accounted'
    BY <2>6, RespondsKeeps
  <2>7. ASSUME NEW s \in relay.serving, NEW size \in {1, Chunks + 1}, Sends(s, size)
        PROVE  Accounted'
    BY <2>7, SendsKeeps
  <2>8. ASSUME NEW expired \in SUBSET relay.incoming, Tick(expired)  PROVE Accounted'
    BY <2>8, TickKeeps
  <2>9. ASSUME NEW run \in relay.runs, NEW answer \in Answers, DumpAnswered(run, answer)
        PROVE  Accounted'
    BY <2>9, DumpAnsweredKeeps
  <2>10. ASSUME NEW answer \in Answers, Restored(answer)  PROVE Accounted'
    BY <2>10, RestoredKeeps
  <2>11. CASE PullsState
    BY <2>11, PullsStateKeeps
  <2>12. CASE Checkpointed
    BY <2>12, CheckpointedKeeps
  <2>13. CASE Releases
    BY <2>13, ReleasesKeeps
  <2>14. CASE Resumes
    BY <2>14, ResumesKeeps
  <2>. QED  BY <1>2, <2>1, <2>2, <2>3, <2>4, <2>5, <2>6, <2>7, <2>8, <2>9, <2>10, <2>11, <2>12,
               <2>13, <2>14, Zenon DEF Next
<1>. QED  BY <1>1, <1>2

-----------------------------------------------------------------------------
(* Theorems.                                                               *)

\* In every state each joiner is accounted for: the tables of the relay agree with each
\* other, every joiner that is on its way is on one way and nobody else is on any, and what
\* it is handed is for it.  Every handler of gamestate_transfer.rs and server_fsm.rs that
\* serves joiners leaves it so, in whatever order it serves them.
THEOREM JoinersAccounted == Spec => []Accounted
<1>. QED  BY Starts, Steps, PTL DEF Spec

\* Every table has its type, a download always has a chunk in flight and fills its window
\* (begin_send, pump, on_ack), nobody is sent more than was announced (on_gamestate_chunk),
\* and a run that is waited for will answer somebody (request_state_dump, on_state_dumped,
\* on_disconnected).
THEOREM TypeCorrect == Spec => []TypeOK
<1>1. Accounted => TypeOK
  <2>. SUFFICES ASSUME Sound(relay, loading)  PROVE TypeOK
    BY DEF Accounted
  <2>1. /\ relay \in Relays /\ loading \in Loadings /\ Numbered(relay) /\ RunWaitedFor(relay)
        /\ Downloading(relay)
    BY DEF Sound
  <2>2. /\ relay.phase \in {"InGame", "Resuming", "Over"}
        /\ {relay.ready, relay.head, relay.pulledAt} \subseteq Turn /\ relay.states \subseteq Turn
    BY <2>1 DEF Relays
  <2>3. ASSUME NEW p \in Peer
        PROVE  /\ relay.session[p] \in Sessions \cup {None} /\ relay.held[p] \in Helds \cup {None}
               /\ relay.out[p] \in Downloads \cup {None}
               /\ {relay.granted[p], loading[p]} \subseteq Snapshot \cup {None}
    BY <2>1 DEF Relays, Loadings
  <2>4. \A rx \in relay.incoming : rx.got <= rx.declared /\ rx.declared \in {0, Chunks}
    BY <2>1 DEF Numbered, Relays, Fetches
  <2>. QED  BY <2>1, <2>2, <2>3, <2>4 DEF TypeOK, RunWaitedFor, Downloading
<1>. QED  BY <1>1, JoinersAccounted, PTL

\* A joiner is always on exactly one way into the match, and nobody else is on any
\* (start_snapshot_fetch, retry_join, on_state_dumped, on_restored, on_disconnected).
THEOREM OneWay == Spec => []OnOneWay
<1>1. Accounted => OnOneWay
  <2>. SUFFICES ASSUME Sound(relay, loading), Placed(relay, loading, {}, None), NEW p \in Peer
                PROVE  /\ Cardinality(Fetched(relay, p)) <= 1
                       /\ Cardinality(Waits(relay, loading, p)) =
                             IF IsSyncing(relay, p) /\ ~relay.session[p].leaving THEN 1 ELSE 0
    BY DEF Accounted, OnOneWay
  <2>0. Cardinality({}) = 0 /\ \A x : Cardinality({x}) = 1
    BY FS_EmptySet, FS_Singleton
  <2>1. Fetched(relay, p) = {} \/ \E rx : Fetched(relay, p) = {rx}
    BY Consts DEF Sound, FetchedOnce, Fetched
  <2>2. Cardinality(Fetched(relay, p)) <= 1
    <3>1. Cardinality(Fetched(relay, p)) = 0 \/ Cardinality(Fetched(relay, p)) = 1
      BY <2>0, <2>1, Zenon
    <3>. QED  BY <3>1
  <2>3. IF OnItsWay(relay, p) THEN \E w \in Ways : Waits(relay, loading, p) = {w}
                              ELSE Waits(relay, loading, p) = {}
    BY Consts DEF Placed
  <2>4. Cardinality(Waits(relay, loading, p)) = IF OnItsWay(relay, p) THEN 1 ELSE 0
    BY <2>0, <2>3
  <2>. QED  BY <2>2, <2>4 DEF OnItsWay
<1>. QED  BY <1>1, JoinersAccounted, PTL

\* A client is only ever handed a state that anyone may have or that was fetched for it and
\* not for an earlier client of its peer id, of a turn that its LOADED_GAME may name, and on
\* the delayed feed of none that the feed has not reached (deliver_snapshot, advance_feed,
\* Transfers::forget, due_joins, on_loaded_game).
THEOREM Own == Spec => []OwnState
<1>1. Accounted => OwnState
  BY DEF Accounted, Sound, HandsOwn, IsFor, OwnState
<1>. QED  BY <1>1, JoinersAccounted, PTL
=============================================================================
