------------------------- MODULE HashCompare_proofs -------------------------
(***************************************************************************)
(* Proofs about HashCompare, for every set of peers, hash and turn.        *)
(*                                                                         *)
(* CompareAllDoes says what one run of the comparison does, whatever       *)
(* handler asked for it.  The inductive invariant adds to what the runs    *)
(* check where the reports stand: a client has reported only turns it has  *)
(* simulated, one hash per turn, and no player still owes a report for a   *)
(* turn that has its reference, so a reference is never looked at again.   *)
(***************************************************************************)
EXTENDS HashCompare, TLAPS

\* Pending reports are reports of the players there, on turns they are compared on.
PendingReported(pend, rep, cs) ==
    \A r \in pend : r \in rep /\ r.peer \in Players(cs) /\ Compared(r.peer, r.turn)

\* Whoever has reported a turn has simulated it, and reported it once.
ReportsInSequence(rep, cs) ==
    /\ \A r \in rep : r.peer \in Players(cs) /\ r.turn <= cs[r.peer].simulated
    /\ \A r, s \in rep : r.peer = s.peer /\ r.turn = s.turn => r = s

\* No player owes a report for a turn that has its reference.
NothingOwed(cs, refs) ==
    \A p \in Players(cs), t \in DOMAIN refs : Compared(p, t) => t <= cs[p].simulated

\* Only the AI host may be behind the newest turn compared.
NobodyBehind(cs, last) ==
    \A p \in Players(cs) : p # AiHost => last <= cs[p].simulated

\* Nothing pending has a reference already.
PendingUnsettled(pend, refs) == \A r \in pend : r.turn \notin DOMAIN refs

\* Nothing is simulated, and nothing agreed on, past the ready turn.
WithinReleased ==
    /\ \A p \in Registered : clients[p].simulated <= readyTurn
    /\ \A t \in DOMAIN references : t <= readyTurn
    /\ lastCompared <= readyTurn

\* The checked invariants over any state the comparison may be handed.
Agrees(rep, latched, refs) ==
    \A r \in rep :
        r.peer \notin latched /\ r.turn \in DOMAIN refs /\ Compared(r.peer, r.turn)
            => r.hash = refs[r.turn]

LatchedFor(latched, rep, refs, cs) ==
    \A p \in latched :
        /\ p \in Players(cs)
        /\ \E r \in rep : r.peer = p /\ r.turn \in DOMAIN refs /\ r.hash # refs[r.turn]

Retired(pend, waiting, last) ==
    /\ \A r \in pend : r.turn <= last => r.peer = AiHost
    /\ \A r \in waiting : r.turn > last

IInv ==
    /\ TypeOK
    /\ PendingReported(pending, reported, clients)
    /\ ReportsInSequence(reported, clients)
    /\ NothingOwed(clients, references)
    /\ NobodyBehind(clients, lastCompared)
    /\ PendingUnsettled(pending, references)
    /\ WithinReleased
    /\ NoSilentDesync
    /\ DesyncJustified
    /\ NoComparisonMissed
    /\ RetiredStaysRetired

-----------------------------------------------------------------------------

\* A run of the comparison agrees on some complete candidates, all of them unless
\* it ends latched, and latches exactly those who differ on one of them.
LEMMA CompareAllDoes ==
    ASSUME NEW candidates \in SUBSET Nat, NEW cs, NEW reports \in SUBSET Report,
           NEW waiting \in SUBSET Report, NEW latched \in SUBSET Peer,
           NEW watchersOut \in SUBSET Peer, lastCompared \in Nat,
           DOMAIN references \subseteq Nat, references \in [DOMAIN references -> Hash],
           CompareAll(candidates, cs, reports, waiting, latched, watchersOut)
    PROVE  \E done \in SUBSET candidates : \E agreed \in [done -> Hash] :
             /\ \A t \in done : Complete(t, cs, reports)
             /\ pending' = Retire(done, reports)
             /\ observerPending' = Retire(done, waiting)
             /\ observersOut' \in SUBSET Peer
             /\ lastCompared' \in done \cup {lastCompared}
             /\ \A t \in done \cup {lastCompared} : t <= lastCompared'
             /\ DOMAIN references' = DOMAIN references \cup done
             /\ \A t \in done : references'[t] = agreed[t]
             /\ \A t \in DOMAIN references \ done : references'[t] = references[t]
             /\ references' \in [DOMAIN references' -> Hash]
             /\ \/ latched # {} /\ done = {} /\ outOfSync' = latched
                \/ /\ latched = {}
                   /\ outOfSync' = UNION {Dissent(t, agreed[t], reports) : t \in done}
                   /\ outOfSync' = {} =>
                        \A t \in candidates : Complete(t, cs, reports) => t \in done
<1>1. CASE latched # {}
  <2>1. /\ pending' = reports /\ outOfSync' = latched /\ observerPending' = waiting
        /\ observersOut' = watchersOut
        /\ lastCompared' = lastCompared /\ references' = references
    BY <1>1 DEF CompareAll
  <2>2. Retire({}, reports) = reports /\ Retire({}, waiting) = waiting
    BY DEF Retire
  <2>3. {} \in SUBSET candidates /\ [t \in {} |-> 0] \in [{} -> Hash]
    OBVIOUS
  <2>4. DOMAIN references' = DOMAIN references /\ references' \in [DOMAIN references' -> Hash]
    BY <2>1
  <2>. WITNESS {} \in SUBSET candidates
  <2>. WITNESS [t \in {} |-> 0] \in [{} -> Hash]
  <2>. QED  BY <1>1, <2>1, <2>2, <2>4
<1>2. CASE latched = {}
  <2>. DEFINE complete == {t \in candidates : Complete(t, cs, reports)}
  <2>1. PICK done \in SUBSET complete : \E choice \in [complete -> Hash] :
          /\ \A t \in done, u \in complete :
                u < t => u \in done /\ Dissent(u, choice[u], reports) = {}
          /\ done # complete => \E t \in done : Dissent(t, choice[t], reports) # {}
          /\ pending' = Retire(done, reports)
          /\ outOfSync' = UNION {Dissent(t, choice[t], reports) : t \in done}
          /\ lastCompared' \in done \cup {lastCompared}
          /\ \A t \in done \cup {lastCompared} : t <= lastCompared'
          /\ references' = [t \in DOMAIN references \cup done |->
                               IF t \in done THEN choice[t] ELSE references[t]]
          /\ observersOut' = watchersOut \cup
                {r.peer : r \in {s \in waiting :
                                   s.turn \in done /\ s.hash # choice[s.turn]}}
          /\ observerPending' = Retire(done, waiting)
    BY <1>2 DEF CompareAll
  <2>2. PICK choice \in [complete -> Hash] :
          /\ done # complete => \E t \in done : Dissent(t, choice[t], reports) # {}
          /\ outOfSync' = UNION {Dissent(t, choice[t], reports) : t \in done}
          /\ references' = [t \in DOMAIN references \cup done |->
                               IF t \in done THEN choice[t] ELSE references[t]]
          /\ observersOut' = watchersOut \cup
                {r.peer : r \in {s \in waiting :
                                   s.turn \in done /\ s.hash # choice[s.turn]}}
    BY <2>1
  <2>. DEFINE agreed == [t \in done |-> choice[t]]
  <2>3. /\ done \in SUBSET candidates /\ agreed \in [done -> Hash]
        /\ \A t \in done : Complete(t, cs, reports)
    OBVIOUS
  <2>4. observersOut' \in SUBSET Peer
    <3>1. \A r \in waiting : r.peer \in Peer
      BY DEF Report
    <3>. QED  BY <2>2, <3>1
  <2>5. /\ DOMAIN references' = DOMAIN references \cup done
        /\ \A t \in done : references'[t] = agreed[t]
        /\ \A t \in DOMAIN references \ done : references'[t] = references[t]
        /\ references' \in [DOMAIN references' -> Hash]
    BY <2>2
  <2>6. outOfSync' = UNION {Dissent(t, agreed[t], reports) : t \in done}
    <3>1. \A t \in done : Dissent(t, agreed[t], reports) = Dissent(t, choice[t], reports)
      OBVIOUS
    <3>. HIDE DEF agreed
    <3>. QED  BY <2>2, <3>1
  <2>7. ASSUME outOfSync' = {}, NEW t \in candidates, Complete(t, cs, reports)
        PROVE  t \in done
    <3>1. \A u \in done : Dissent(u, choice[u], reports) = {}
      BY <2>2, <2>7
    <3>. QED  BY <2>2, <2>7, <3>1
  <2>. QED
    <3>. HIDE DEF agreed, complete
    <3>. QED  BY <1>2, <2>1, <2>3, <2>4, <2>5, <2>6, <2>7
<1>. QED  BY <1>1, <1>2

\* The comparison keeps the invariant of whatever reports, clients and latch a
\* handler hands it, if every turn that may have become complete is a candidate.
LEMMA CompareAllKeeps ==
    ASSUME NEW candidates \in SUBSET Nat, NEW cs, NEW reports \in SUBSET Report,
           NEW waiting \in SUBSET Report, NEW latched \in SUBSET Peer,
           NEW watchersOut \in SUBSET Peer, NEW rep \in SUBSET Report,
           lastCompared \in Nat,
           DOMAIN references \subseteq Nat, references \in [DOMAIN references -> Hash],
           cs \in [DOMAIN cs -> ClientTurn],
           PendingReported(reports, rep, cs), ReportsInSequence(rep, cs),
           NothingOwed(cs, references), NobodyBehind(cs, lastCompared),
           PendingUnsettled(reports, references), Agrees(rep, latched, references),
           LatchedFor(latched, rep, references, cs),
           Retired(reports, waiting, lastCompared),
           latched = {} => \A r \in reports :
                Complete(r.turn, cs, reports) => r.turn \in candidates,
           CompareAll(candidates, cs, reports, waiting, latched, watchersOut)
    PROVE  /\ pending' \subseteq reports /\ observerPending' \subseteq waiting
           /\ observersOut' \subseteq Peer /\ outOfSync' \subseteq Peer
           /\ lastCompared' \in Nat
           /\ references' \in [DOMAIN references' -> Hash]
           /\ \A t \in DOMAIN references' \cup {lastCompared'} :
                \/ t \in DOMAIN references \cup {lastCompared}
                \/ \E r \in reports : t = r.turn
           /\ \A t \in DOMAIN references :
                t \in DOMAIN references' /\ references'[t] = references[t]
           /\ NothingOwed(cs, references')
           /\ NobodyBehind(cs, lastCompared')
           /\ PendingUnsettled(pending', references')
           /\ Agrees(rep, outOfSync', references')
           /\ LatchedFor(outOfSync', rep, references', cs)
           /\ outOfSync' = {} => \A r \in pending' : ~Complete(r.turn, cs, pending')
           /\ Retired(pending', observerPending', lastCompared')
<1>1. PICK done \in SUBSET candidates : \E agreed \in [done -> Hash] :
             /\ \A t \in done : Complete(t, cs, reports)
             /\ pending' = Retire(done, reports)
             /\ observerPending' = Retire(done, waiting)
             /\ observersOut' \in SUBSET Peer
             /\ lastCompared' \in done \cup {lastCompared}
             /\ \A t \in done \cup {lastCompared} : t <= lastCompared'
             /\ DOMAIN references' = DOMAIN references \cup done
             /\ \A t \in done : references'[t] = agreed[t]
             /\ \A t \in DOMAIN references \ done : references'[t] = references[t]
             /\ references' \in [DOMAIN references' -> Hash]
             /\ \/ latched # {} /\ done = {} /\ outOfSync' = latched
                \/ /\ latched = {}
                   /\ outOfSync' = UNION {Dissent(t, agreed[t], reports) : t \in done}
                   /\ outOfSync' = {} =>
                        \A t \in candidates : Complete(t, cs, reports) => t \in done
  BY CompareAllDoes, ZenonT(40)
<1>2. PICK agreed \in [done -> Hash] :
             /\ \A t \in done : references'[t] = agreed[t]
             /\ \/ latched # {} /\ done = {} /\ outOfSync' = latched
                \/ /\ latched = {}
                   /\ outOfSync' = UNION {Dissent(t, agreed[t], reports) : t \in done}
                   /\ outOfSync' = {} =>
                        \A t \in candidates : Complete(t, cs, reports) => t \in done
  BY <1>1
<1>3. /\ \A r \in reports : r.peer \in Peer /\ r.turn \in Nat
      /\ \A r \in rep : r.peer \in Peer /\ r.turn \in Nat
      /\ done \subseteq Nat
  BY DEF Report
<1>4. \A p \in Players(cs) : cs[p].simulated \in Nat
  BY DEF Players, ClientTurn
\* A turn that was agreed on has been reported by everyone who had to.
<1>5. ASSUME NEW t \in done
      PROVE  /\ \E r \in reports : r.turn = t
             /\ \A p \in Players(cs) : Compared(p, t) =>
                   /\ t <= cs[p].simulated
                   /\ \E r \in reports : r.turn = t /\ r.peer = p
  <2>1. Complete(t, cs, reports)
    BY <1>1
  <2>2. \A r \in reports : r \in rep
    BY DEF PendingReported
  <2>. QED  BY <2>1, <2>2 DEF Complete, ReportsInSequence
<1>6. \A t \in done : t \notin DOMAIN references
  BY <1>5 DEF PendingUnsettled
<1>7. pending' \subseteq reports /\ observerPending' \subseteq waiting
  BY <1>1 DEF Retire
<1>8. outOfSync' \subseteq Peer
  <2>1. \A t \in done : Dissent(t, agreed[t], reports) \subseteq Peer
    BY <1>3 DEF Dissent
  <2>. QED  BY <1>2, <2>1
<1>9. lastCompared' \in Nat
  BY <1>1, <1>3
<1>10. \A t \in DOMAIN references' \cup {lastCompared'} :
          \/ t \in DOMAIN references \cup {lastCompared}
          \/ \E r \in reports : t = r.turn
  BY <1>1, <1>5
<1>11. \A t \in DOMAIN references :
          t \in DOMAIN references' /\ references'[t] = references[t]
  BY <1>1, <1>6
<1>12. NothingOwed(cs, references')
  BY <1>1, <1>5 DEF NothingOwed
<1>13. NobodyBehind(cs, lastCompared')
  <2>1. \A p, t : p # AiHost => Compared(p, t)
    BY DEF Compared
  <2>. QED  BY <1>1, <1>5, <2>1 DEF NobodyBehind
<1>14. PendingUnsettled(pending', references')
  <2>. SUFFICES ASSUME NEW r \in pending', r.turn \in DOMAIN references'
                PROVE  FALSE
    BY DEF PendingUnsettled
  <2>1. r \in reports /\ \A t \in done : r.turn > t
    BY <1>1 DEF Retire
  <2>2. r.turn \in DOMAIN references
    BY <1>1, <1>3, <2>1
  <2>. QED  BY <2>1, <2>2 DEF PendingUnsettled
<1>15. Agrees(rep, outOfSync', references')
  <2>. SUFFICES ASSUME NEW r \in rep, r.peer \notin outOfSync',
                       r.turn \in DOMAIN references', Compared(r.peer, r.turn)
                PROVE  r.hash = references'[r.turn]
    BY DEF Agrees
  <2>1. CASE r.turn \in done
    <3>1. r.peer \in Players(cs)
      BY DEF ReportsInSequence
    <3>2. PICK s \in reports : s.turn = r.turn /\ s.peer = r.peer
      BY <1>5, <2>1, <3>1
    <3>3. s = r
      BY <3>2 DEF PendingReported, ReportsInSequence
    <3>4. r.peer \notin Dissent(r.turn, agreed[r.turn], reports)
      BY <1>2, <2>1
    <3>. QED  BY <1>2, <2>1, <3>2, <3>3, <3>4 DEF Dissent
  <2>2. CASE r.turn \notin done
    <3>1. r.turn \in DOMAIN references
      BY <1>1, <2>2
    \* It was judged before, and no run of the comparison lifts a latch.
    <3>2. r.peer \notin latched
      BY <1>2
    <3>. QED  BY <1>11, <3>1, <3>2 DEF Agrees
  <2>. QED  BY <2>1, <2>2
<1>16. LatchedFor(outOfSync', rep, references', cs)
  <2>. SUFFICES ASSUME NEW p \in outOfSync'
                PROVE  /\ p \in Players(cs)
                       /\ \E r \in rep : /\ r.peer = p
                                         /\ r.turn \in DOMAIN references'
                                         /\ r.hash # references'[r.turn]
    BY DEF LatchedFor
  <2>1. CASE latched # {}
    BY <1>2, <1>11, <2>1 DEF LatchedFor
  <2>2. CASE latched = {}
    <3>1. PICK t \in done : p \in Dissent(t, agreed[t], reports)
      BY <1>2, <2>2
    <3>2. PICK r \in reports : r.peer = p /\ r.turn = t /\ r.hash # agreed[t]
      BY <3>1 DEF Dissent
    <3>3. t \in DOMAIN references' /\ references'[t] = agreed[t]
      BY <1>1, <1>2
    <3>. QED  BY <3>2, <3>3 DEF PendingReported
  <2>. QED  BY <2>1, <2>2
<1>17. ASSUME outOfSync' = {}, NEW r \in pending', Complete(r.turn, cs, pending')
       PROVE  FALSE
  <2>1. latched = {}
    BY <1>2, <1>17
  <2>2. r \in reports /\ Complete(r.turn, cs, reports)
    BY <1>7, <1>17 DEF Complete
  <2>3. r.turn \in done
    BY <1>2, <1>17, <2>1, <2>2
  <2>4. r.turn > r.turn
    BY <1>1, <2>3 DEF Retire
  <2>. QED  BY <1>3, <2>2, <2>4
<1>18. Retired(pending', observerPending', lastCompared')
  <2>1. CASE lastCompared' = lastCompared
    BY <1>7, <2>1 DEF Retired
  <2>2. CASE lastCompared' \in done
    <3>1. \A r \in pending' \cup observerPending' : r.turn > lastCompared'
      BY <1>1, <2>2 DEF Retire
    <3>2. \A r \in pending' : r.turn \in Nat
      BY <1>3, <1>7
    <3>. QED  BY <1>9, <3>1, <3>2 DEF Retired
  <2>. QED  BY <1>1, <2>1, <2>2
<1>. QED
  BY <1>1, <1>7, <1>8, <1>9, <1>10, <1>11, <1>12, <1>13, <1>14, <1>15, <1>16, <1>17, <1>18

-----------------------------------------------------------------------------

\* The named invariants are instances of the parts.
LEMMA Parts ==
    /\ NoSilentDesync <=> Agrees(reported, outOfSync, references)
    /\ DesyncJustified <=> LatchedFor(outOfSync, reported, references, clients)
    /\ RetiredStaysRetired <=> Retired(pending, observerPending, lastCompared)
BY DEF NoSilentDesync, Agrees, DesyncJustified, LatchedFor, RetiredStaysRetired, Retired

\* A fresh match, and one rebuilt from its save, start with nothing reported.
LEMMA InitIInv == Init => IInv
<1>. SUFFICES ASSUME Init
              PROVE  IInv
  OBVIOUS
<1>. USE FullHashAssumption, TurnAssumption
<1>1. /\ readyTurn \in Nat /\ lastCompared \in Nat /\ lastCompared <= readyTurn
      /\ Registered \subseteq Peer /\ clients \in [Registered -> ClientTurn]
      /\ \A p \in Registered : clients[p].simulated = 0
  <2>1. CASE readyTurn = InitialReadyTurn /\ lastCompared = 0 /\
             \E starting \in SUBSET Peer \ {{}}, watching \in SUBSET Peer :
                clients = [p \in starting |->
                    [simulated |-> 0, watcher |-> p \in watching \ {AiHost}]]
    BY <2>1 DEF Registered, ClientTurn
  <2>2. CASE readyTurn \in InitialReadyTurn .. MaxTurn /\ lastCompared \in 0 .. readyTurn /\
             clients = [p \in {} |-> 0]
    <3>1. Registered = {}
      BY <2>2 DEF Registered
    <3>2. clients \in [Registered -> ClientTurn]
      BY <2>2, <3>1
    <3>. QED  BY <2>2, <3>1, <3>2
  <2>. QED  BY <2>1, <2>2 DEF Init
<1>2. /\ DOMAIN references \subseteq Nat /\ references \in [DOMAIN references -> Hash]
      /\ \A t \in DOMAIN references : t <= readyTurn
      /\ DOMAIN references # {} => Registered = {}
      /\ lastCompared # 0 => Registered = {}
  <2>1. CASE references = [t \in {} |-> 0] /\ lastCompared = 0
    <3>1. DOMAIN references = {}
      BY <2>1
    <3>2. references \in [DOMAIN references -> Hash]
      BY <2>1, <3>1
    <3>. QED  BY <2>1, <3>1, <3>2
  <2>2. CASE /\ clients = [p \in {} |-> 0]
             /\ \E older \in SUBSET (1 .. lastCompared - 1) :
                   references \in [older \cup ({lastCompared} \ {0}) -> Hash]
    <3>1. PICK older \in SUBSET (1 .. lastCompared - 1) :
                 references \in [older \cup ({lastCompared} \ {0}) -> Hash]
      BY <2>2
    <3>2. DOMAIN references = older \cup ({lastCompared} \ {0})
      BY <3>1
    <3>3. \A t \in DOMAIN references : t \in Nat /\ t <= lastCompared
      <4>. SUFFICES ASSUME NEW t \in DOMAIN references
                    PROVE  t \in Nat /\ t <= lastCompared
        OBVIOUS
      <4>1. t \in 1 .. lastCompared - 1 \/ t = lastCompared
        BY <3>2
      <4>2. lastCompared \in Nat
        BY <1>1
      <4>. QED  BY <4>1, <4>2
    <3>4. Registered = {}
      BY <2>2 DEF Registered
    <3>. QED  BY <1>1, <3>1, <3>2, <3>3, <3>4
  <2>. QED  BY <2>1, <2>2 DEF Init
<1>3. pending = {} /\ observerPending = {} /\ reported = {} /\ outOfSync = {} /\ observersOut = {}
  BY DEF Init
<1>4. TypeOK
  BY <1>1, <1>2, <1>3 DEF TypeOK
<1>5. NothingOwed(clients, references) /\ NobodyBehind(clients, lastCompared)
  BY <1>1, <1>2 DEF NothingOwed, NobodyBehind, Players, Registered
<1>. QED
  BY <1>1, <1>2, <1>3, <1>4, <1>5
     DEF IInv, PendingReported, ReportsInSequence, PendingUnsettled, WithinReleased,
         NoSilentDesync, DesyncJustified, NoComparisonMissed, RetiredStaysRetired

\* The next turn being released changes no report and no comparison.
LEMMA TurnReleasedKeeps == IInv /\ TurnReleased => IInv'
<1>. SUFFICES ASSUME IInv, TurnReleased
              PROVE  IInv'
  OBVIOUS
<1>1. /\ readyTurn \in Nat /\ readyTurn' = readyTurn + 1
      /\ UNCHANGED <<clients, pending, outOfSync, lastCompared, references,
                     observerPending, observersOut, reported>>
  BY DEF TurnReleased, turnManager, IInv, TypeOK
<1>2. WithinReleased'
  <2>1. \A p \in Registered : clients[p].simulated \in Nat
    BY DEF IInv, TypeOK, ClientTurn
  <2>. QED  BY <1>1, <2>1 DEF IInv, TypeOK, WithinReleased, Registered
<1>. QED
  BY <1>1, <1>2
     DEF IInv, TypeOK, Registered, NoSilentDesync, DesyncJustified, NoComparisonMissed,
         RetiredStaysRetired

\* A joiner is registered at the ready turn, past everything agreed on, and can only
\* hold comparisons back.
LEMMA LoadedGameKeeps ==
    ASSUME IInv, NEW p \in Peer, NEW watcher \in BOOLEAN, LoadedGame(p, watcher)
    PROVE  IInv'
<1>. USE TurnAssumption
<1>1. PICK replayed \in InitialReadyTurn .. readyTurn :
         /\ ~watcher => replayed = readyTurn
         /\ clients' = [q \in Registered \cup {p} |->
                          IF q = p THEN [simulated |-> replayed, watcher |-> watcher]
                          ELSE clients[q]]
  BY DEF LoadedGame, LastHashed
<1>2. p \notin Registered /\ Registered' = Registered \cup {p}
  BY <1>1 DEF LoadedGame, Registered
<1>3. UNCHANGED <<readyTurn, pending, outOfSync, lastCompared, references,
                  observerPending, observersOut, reported>>
  BY DEF LoadedGame, turnManager
<1>4. /\ \A q \in Registered : clients'[q] = clients[q]
      /\ clients'[p] = [simulated |-> replayed, watcher |-> watcher]
      /\ replayed \in Nat /\ readyTurn \in Nat /\ replayed <= readyTurn
  BY <1>1, <1>2 DEF IInv, TypeOK
<1>5. Players(clients) \subseteq Players(clients')
  BY <1>2, <1>4 DEF Players, Registered
<1>6. TypeOK'
  <2>1. clients' \in [Registered' -> ClientTurn]
    <3>1. \A q \in Registered' : clients'[q] \in ClientTurn
      BY <1>2, <1>4 DEF IInv, TypeOK, ClientTurn
    <3>2. clients' = [q \in Registered' |-> clients'[q]]
      BY <1>1, <1>2
    <3>. QED  BY <3>1, <3>2
  <2>. QED  BY <1>2, <1>3, <2>1 DEF IInv, TypeOK
<1>7. PendingReported(pending, reported, clients)'
  BY <1>3, <1>5 DEF IInv, PendingReported
<1>8. ReportsInSequence(reported, clients)'
  <2>1. \A r \in reported : r.peer \in Registered
    BY DEF IInv, ReportsInSequence, Players, Registered
  <2>. QED  BY <1>3, <1>4, <1>5, <2>1 DEF IInv, ReportsInSequence
<1>9. ASSUME NEW q \in Players(clients')
      PROVE  \/ q \in Players(clients) /\ clients'[q] = clients[q]
             \/ q = p /\ clients'[q].simulated = readyTurn
  BY <1>1, <1>2, <1>4 DEF Players, Registered
<1>10. NothingOwed(clients, references)' /\ NobodyBehind(clients, lastCompared)'
  BY <1>3, <1>9 DEF IInv, NothingOwed, NobodyBehind, WithinReleased
<1>11. WithinReleased'
  BY <1>2, <1>3, <1>4 DEF IInv, WithinReleased
<1>12. NoComparisonMissed'
  <2>1. \A t : Complete(t, clients', pending) => Complete(t, clients, pending)
    BY <1>5 DEF Complete
  <2>. QED  BY <1>3, <2>1 DEF IInv, NoComparisonMissed
<1>13. DesyncJustified'
  BY <1>3, <1>5 DEF IInv, DesyncJustified
<1>14. PendingUnsettled(pending, references)' /\ NoSilentDesync' /\ RetiredStaysRetired'
  BY <1>3 DEF IInv, PendingUnsettled, NoSilentDesync, RetiredStaysRetired
<1>. QED
  BY <1>6, <1>7, <1>8, <1>10, <1>11, <1>12, <1>13, <1>14 DEF IInv

\* A report: an observer's touches only what concerns observers, a player's runs
\* the comparison of its turn unless it is dropped.
LEMMA StateHashKeeps ==
    ASSUME IInv, NEW p \in Peer, NEW hash \in Hash, StateHash(p, hash)
    PROVE  IInv' /\ (\A t \in DOMAIN references :
                        t \in DOMAIN references' /\ references'[t] = references[t])
<1>. DEFINE turn == clients[p].simulated + 1
            report == [turn |-> turn, peer |-> p, hash |-> hash]
            cs == [clients EXCEPT ![p].simulated = turn]
<1>1. /\ p \in Registered /\ clients[p].simulated < readyTurn
      /\ clients' = cs /\ readyTurn' = readyTurn
      /\ reported' = IF clients[p].watcher THEN reported ELSE reported \cup {report}
  BY DEF StateHash
<1>2. /\ clients[p] \in ClientTurn /\ turn \in Nat /\ readyTurn \in Nat
      /\ turn > clients[p].simulated /\ turn <= readyTurn
      /\ report \in Report
  <2>1. clients[p] \in ClientTurn /\ readyTurn \in Nat
    BY <1>1 DEF IInv, TypeOK
  <2>2. clients[p].simulated \in Nat
    BY <2>1 DEF ClientTurn
  <2>. QED  BY <1>1, <2>1, <2>2 DEF Report
<1>3. /\ DOMAIN cs = Registered
      /\ cs \in [DOMAIN cs -> ClientTurn]
      /\ \A q \in Registered : cs[q].watcher = clients[q].watcher
      /\ \A q \in Registered : q # p => cs[q] = clients[q]
      /\ cs[p].simulated = turn
      /\ Players(cs) = Players(clients)
  <2>1. clients \in [Registered -> ClientTurn]
    BY DEF IInv, TypeOK
  <2>2. \A q \in Registered : cs[q] = IF q = p THEN [clients[p] EXCEPT !.simulated = turn]
                                      ELSE clients[q]
    BY <1>1 DEF Registered
  <2>3. [clients[p] EXCEPT !.simulated = turn] \in ClientTurn
    BY <1>2 DEF ClientTurn
  <2>4. /\ [clients[p] EXCEPT !.simulated = turn].watcher = clients[p].watcher
        /\ [clients[p] EXCEPT !.simulated = turn].simulated = turn
    BY <1>2 DEF ClientTurn
  <2>5. DOMAIN cs = Registered
    BY DEF Registered
  <2>6. cs \in [DOMAIN cs -> ClientTurn]
    BY <2>1, <2>2, <2>3, <2>5
  <2>. QED  BY <1>1, <2>2, <2>4, <2>5, <2>6 DEF Players, Registered
<1>4. \A q \in Players(cs) : clients[q].simulated <= cs[q].simulated /\ cs[q].simulated \in Nat
  BY <1>2, <1>3 DEF Players, ClientTurn
<1>5. WithinReleased /\ TypeOK
  BY DEF IInv
<1>6. NothingOwed(cs, references) /\ NobodyBehind(cs, lastCompared)
  <2>1. \A q \in Players(cs) : clients[q].simulated \in Nat
    BY <1>3, <1>5 DEF TypeOK, Players, Registered, ClientTurn
  <2>2. /\ \A t \in DOMAIN references : t \in Nat
        /\ lastCompared \in Nat
    BY <1>5 DEF TypeOK
  <2>3. NothingOwed(clients, references) /\ NobodyBehind(clients, lastCompared)
    BY DEF IInv
  <2>. HIDE DEF cs, turn, report
  <2>. QED  BY <1>3, <1>4, <2>1, <2>2, <2>3 DEF NothingOwed, NobodyBehind
<1>7. \A q \in Registered : cs[q].simulated <= readyTurn
  BY <1>2, <1>3, <1>5 DEF WithinReleased
<1>8. CASE clients[p].watcher
  <2>1. /\ reported' = reported
        /\ UNCHANGED <<pending, outOfSync, lastCompared, references>>
        /\ observerPending' = observerPending \/
              (observerPending' = observerPending \cup {report} /\ turn > lastCompared)
        /\ observersOut' = observersOut \/ observersOut' = observersOut \cup {p}
    BY <1>1, <1>8 DEF StateHash, ReferenceMayCome
  <2>2. TypeOK'
    BY <1>1, <1>2, <1>3, <1>5, <2>1 DEF TypeOK, Registered
  <2>3. PendingReported(pending, reported, clients)' /\ ReportsInSequence(reported, clients)'
    <3>1. \A r \in reported : r.peer \in Players(clients) /\ r.peer # p
      BY <1>8 DEF IInv, ReportsInSequence, Players
    <3>2. \A r \in reported : cs[r.peer] = clients[r.peer]
      BY <1>3, <3>1 DEF Players, Registered
    <3>. QED  BY <1>1, <1>3, <2>1, <3>1, <3>2 DEF IInv, PendingReported, ReportsInSequence
  <2>4. NothingOwed(clients, references)' /\ NobodyBehind(clients, lastCompared)'
    BY <1>1, <1>6, <2>1
  <2>5. PendingUnsettled(pending, references)' /\ WithinReleased' /\ NoSilentDesync'
    BY <1>1, <1>3, <1>7, <2>1
       DEF IInv, PendingUnsettled, WithinReleased, NoSilentDesync, Registered
  <2>6. DesyncJustified' /\ NoComparisonMissed'
    <3>1. \A t : Complete(t, cs, pending) <=> Complete(t, clients, pending)
      BY <1>3 DEF Complete
    <3>2. DesyncJustified /\ NoComparisonMissed
      BY DEF IInv
    <3>. HIDE DEF cs, turn, report
    <3>. QED  BY <1>1, <1>3, <2>1, <3>1, <3>2 DEF DesyncJustified, NoComparisonMissed
  <2>7. RetiredStaysRetired'
    BY <2>1 DEF IInv, RetiredStaysRetired
  <2>. QED  BY <2>1, <2>2, <2>3, <2>4, <2>5, <2>6, <2>7 DEF IInv
<1>9. CASE ~clients[p].watcher
  <2>. DEFINE rep == reported \cup {report}
  <2>1. reported' = rep /\ rep \in SUBSET Report
    BY <1>1, <1>2, <1>5, <1>9 DEF TypeOK
  <2>2. p \in Players(cs)
    BY <1>1, <1>3, <1>9 DEF Players, Registered
  <2>3. \A r \in reported : ~(r.peer = p /\ r.turn = turn)
    <3>1. \A r \in reported : r.turn \in Nat /\ clients[r.peer].simulated \in Nat
                              /\ r.turn <= clients[r.peer].simulated
      BY <1>5 DEF IInv, ReportsInSequence, TypeOK, Report, Players, Registered, ClientTurn
    <3>. QED  BY <1>2, <3>1
  <2>4. ReportsInSequence(rep, cs)
    <3>1. \A r \in reported : r.peer \in Players(cs) /\ r.turn <= cs[r.peer].simulated
      <4>1. \A r \in reported : r.turn \in Nat /\ clients[r.peer].simulated \in Nat
        BY <1>5 DEF IInv, ReportsInSequence, TypeOK, Report, Players, Registered, ClientTurn
      <4>. QED  BY <1>3, <1>4, <4>1 DEF IInv, ReportsInSequence
    <3>2. \A r, s \in reported : r.peer = s.peer /\ r.turn = s.turn => r = s
      BY DEF IInv, ReportsInSequence
    <3>3. turn <= cs[p].simulated
      BY <1>2, <1>3
    <3>4. \A r \in rep : r \in reported \/ (r = report /\ r.peer = p /\ r.turn = turn)
      OBVIOUS
    <3>. HIDE DEF cs, turn, report, rep
    <3>. QED  BY <2>2, <2>3, <3>1, <3>2, <3>3, <3>4 DEF ReportsInSequence
  \* The player owed this report, so if anyone waits for it the turn is still open.
  <2>5. Compared(p, turn) => turn \notin DOMAIN references
    <3>1. p \in Players(clients)
      BY <1>3, <2>2
    <3>2. clients[p].simulated \in Nat
      BY <1>2 DEF ClientTurn
    <3>. QED  BY <3>1, <3>2, <1>2 DEF IInv, NothingOwed
  <2>6. Agrees(rep, outOfSync, references)
    BY <2>5 DEF IInv, NoSilentDesync, Agrees
  <2>7. LatchedFor(outOfSync, rep, references, cs)
    BY <1>3 DEF IInv, DesyncJustified, LatchedFor
  <2>8. CASE Compared(p, turn) /\ outOfSync = {}
    <3>. DEFINE reports == pending \cup {report}
    <3>1. CompareAll({turn}, cs, reports, observerPending, outOfSync, observersOut)
      BY <1>1, <1>9, <2>8 DEF StateHash
    <3>2. PendingReported(reports, rep, cs)
      BY <1>3, <2>2, <2>8 DEF IInv, PendingReported
    <3>3. PendingUnsettled(reports, references)
      BY <2>5, <2>8 DEF IInv, PendingUnsettled
    <3>4. Retired(reports, observerPending, lastCompared)
      <4>1. turn <= lastCompared => p = AiHost
        <5>1. p \in Players(clients)
          BY <1>3, <2>2
        <5>2. clients[p].simulated \in Nat /\ lastCompared \in Nat
          BY <1>2, <1>5 DEF ClientTurn, TypeOK
        <5>. QED  BY <1>2, <5>1, <5>2 DEF IInv, NobodyBehind
      <4>. QED  BY <4>1 DEF IInv, RetiredStaysRetired, Retired
    <3>5. \A r \in reports : Complete(r.turn, cs, reports) => r.turn \in {turn}
      <4>. SUFFICES ASSUME NEW r \in reports, Complete(r.turn, cs, reports), r.turn # turn
                    PROVE  FALSE
        OBVIOUS
      <4>1. r \in pending /\ Complete(r.turn, clients, pending)
        BY <1>3 DEF Complete
      <4>. QED  BY <2>8, <4>1 DEF IInv, NoComparisonMissed
    <3>6. /\ reports \in SUBSET Report /\ observerPending \in SUBSET Report
          /\ outOfSync \in SUBSET Peer /\ observersOut \in SUBSET Peer
          /\ lastCompared \in Nat /\ {turn} \in SUBSET Nat
          /\ DOMAIN references \subseteq Nat /\ references \in [DOMAIN references -> Hash]
      BY <1>2, <1>5 DEF TypeOK
    <3>. HIDE DEF reports, rep, cs, turn, report
    <3>7. /\ pending' \subseteq reports /\ observerPending' \subseteq observerPending
          /\ observersOut' \subseteq Peer /\ outOfSync' \subseteq Peer
          /\ lastCompared' \in Nat
          /\ references' \in [DOMAIN references' -> Hash]
          /\ \A t \in DOMAIN references' \cup {lastCompared'} :
               \/ t \in DOMAIN references \cup {lastCompared}
               \/ \E r \in reports : t = r.turn
          /\ \A t \in DOMAIN references :
               t \in DOMAIN references' /\ references'[t] = references[t]
          /\ NothingOwed(cs, references')
          /\ NobodyBehind(cs, lastCompared')
          /\ PendingUnsettled(pending', references')
          /\ Agrees(rep, outOfSync', references')
          /\ LatchedFor(outOfSync', rep, references', cs)
          /\ outOfSync' = {} => \A r \in pending' : ~Complete(r.turn, cs, pending')
          /\ Retired(pending', observerPending', lastCompared')
      BY <1>3, <1>6, <2>1, <2>4, <2>6, <2>7, <3>1, <3>2, <3>3, <3>4, <3>5, <3>6,
         CompareAllKeeps
    <3>8. TypeOK'
      <4>1. DOMAIN references' \subseteq Nat
        BY <3>6, <3>7 DEF Report
      <4>2. Registered' = Registered /\ clients' \in [Registered' -> ClientTurn]
        BY <1>1, <1>3 DEF Registered
      <4>. QED  BY <1>1, <1>2, <1>5, <2>1, <3>6, <3>7, <4>1, <4>2 DEF TypeOK
    <3>9. PendingReported(pending, reported, clients)' /\ ReportsInSequence(reported, clients)'
      BY <1>1, <2>1, <2>4, <3>2, <3>7 DEF PendingReported
    <3>10. WithinReleased'
      <4>1. \A r \in reports : r.turn <= readyTurn
        BY <1>2, <1>7, <2>4, <3>2, <1>3, <3>6
           DEF PendingReported, ReportsInSequence, Report, Players, Registered, ClientTurn
      <4>2. Registered' = Registered
        BY <1>1, <1>3 DEF Registered
      <4>. QED  BY <1>1, <1>5, <1>7, <3>7, <4>1, <4>2 DEF WithinReleased
    <3>. QED
      BY <1>1, <2>1, <3>7, <3>8, <3>9, <3>10
         DEF IInv, NoSilentDesync, Agrees, DesyncJustified, LatchedFor,
             NoComparisonMissed, RetiredStaysRetired, Retired
  <2>9. CASE ~(Compared(p, turn) /\ outOfSync = {})
    <3>1. UNCHANGED turnManager
      BY <1>1, <1>9, <2>9 DEF StateHash
    <3>2. UNCHANGED <<pending, outOfSync, lastCompared, references, observerPending,
                      observersOut>>
      BY <3>1 DEF turnManager
    <3>3. TypeOK'
      BY <1>1, <1>2, <1>3, <1>5, <2>1, <3>2 DEF TypeOK, Registered
    <3>4. PendingReported(pending, reported, clients)' /\ ReportsInSequence(reported, clients)'
      BY <1>1, <1>3, <2>1, <2>4, <3>2 DEF IInv, PendingReported
    <3>5. NoSilentDesync' /\ DesyncJustified'
      <4>1. NoSilentDesync'
        BY <1>1, <2>1, <2>6, <3>2 DEF NoSilentDesync, Agrees
      <4>2. DesyncJustified'
        <5>1. LatchedFor(outOfSync, reported', references, clients')
          BY <1>1, <2>1, <2>7
        <5>. QED  BY <3>2, <5>1 DEF DesyncJustified, LatchedFor
      <4>. QED  BY <4>1, <4>2
    <3>6. NothingOwed(clients, references)' /\ NobodyBehind(clients, lastCompared)'
      BY <1>1, <1>6, <3>2
    <3>7. /\ PendingUnsettled(pending, references)' /\ WithinReleased'
          /\ NoComparisonMissed' /\ RetiredStaysRetired'
      BY <1>1, <1>3, <1>5, <1>7, <3>2
         DEF IInv, PendingUnsettled, WithinReleased, NoComparisonMissed, Complete,
             RetiredStaysRetired, Registered
    <3>. QED  BY <3>2, <3>3, <3>4, <3>5, <3>6, <3>7 DEF IInv
  <2>. QED  BY <2>8, <2>9
<1>. QED  BY <1>8, <1>9

\* A departure takes the client's reports and its latch along, and everything
\* pending is compared again.
LEMMA DisconnectedKeeps ==
    ASSUME IInv, NEW p \in Peer, Disconnected(p)
    PROVE  IInv' /\ (\A t \in DOMAIN references :
                        t \in DOMAIN references' /\ references'[t] = references[t])
<1>. DEFINE cs == [q \in Registered \ {p} |-> clients[q]]
            reports == ReportsWithout(p, pending)
            waiting == ReportsWithout(p, observerPending)
            latched == Unlatched(p, outOfSync)
            rep == ReportsWithout(p, reported)
            candidates == ToRecheck(reports)
<1>1. /\ p \in Registered
      /\ clients' = cs /\ reported' = rep /\ readyTurn' = readyTurn
      /\ CompareAll(candidates, cs, reports, waiting, latched, observersOut \ {p})
  BY DEF Disconnected
<1>2. TypeOK /\ WithinReleased
  BY DEF IInv
<1>3. /\ DOMAIN cs = Registered \ {p}
      /\ cs \in [DOMAIN cs -> ClientTurn]
      /\ Players(cs) = Players(clients) \ {p}
      /\ \A q \in Players(cs) : cs[q] = clients[q]
  BY <1>2 DEF TypeOK, Players, Registered
<1>4. /\ reports \subseteq pending /\ \A r \in reports : r.peer # p
      /\ waiting \subseteq observerPending
      /\ rep \subseteq reported /\ \A r \in rep : r.peer # p
      /\ \A r \in reported : r.peer # p => r \in rep
      /\ latched = outOfSync \ {p}
  BY DEF ReportsWithout, Unlatched
<1>5. /\ reports \in SUBSET Report /\ waiting \in SUBSET Report /\ rep \in SUBSET Report
      /\ latched \in SUBSET Peer /\ observersOut \ {p} \in SUBSET Peer
      /\ lastCompared \in Nat
      /\ DOMAIN references \subseteq Nat /\ references \in [DOMAIN references -> Hash]
  BY <1>2, <1>4 DEF TypeOK
<1>6. candidates \in SUBSET Nat /\ \A r \in reports : r.turn \in candidates
  BY <1>5 DEF ToRecheck, Report
<1>7. PendingReported(reports, rep, cs) /\ ReportsInSequence(rep, cs)
  <2>1. PendingReported(pending, reported, clients) /\ ReportsInSequence(reported, clients)
    BY DEF IInv
  <2>. HIDE DEF reports, rep, cs
  <2>. QED  BY <1>3, <1>4, <2>1 DEF PendingReported, ReportsInSequence
<1>8. NothingOwed(cs, references) /\ NobodyBehind(cs, lastCompared)
  <2>1. NothingOwed(clients, references) /\ NobodyBehind(clients, lastCompared)
    BY DEF IInv
  <2>. HIDE DEF cs
  <2>. QED  BY <1>3, <2>1 DEF NothingOwed, NobodyBehind
<1>9. PendingUnsettled(reports, references) /\ Retired(reports, waiting, lastCompared)
  <2>1. /\ PendingUnsettled(pending, references)
        /\ Retired(pending, observerPending, lastCompared)
    BY Parts DEF IInv
  <2>. HIDE DEF reports, waiting
  <2>. QED  BY <1>4, <2>1 DEF PendingUnsettled, Retired
<1>10. Agrees(rep, latched, references) /\ LatchedFor(latched, rep, references, cs)
  <2>1. /\ Agrees(reported, outOfSync, references)
        /\ LatchedFor(outOfSync, reported, references, clients)
    BY Parts DEF IInv
  <2>. HIDE DEF rep, latched, cs
  <2>. QED  BY <1>3, <1>4, <2>1 DEF Agrees, LatchedFor
<1>. HIDE DEF cs, reports, waiting, latched, rep, candidates
<1>11. /\ pending' \subseteq reports /\ observerPending' \subseteq waiting
       /\ observersOut' \subseteq Peer /\ outOfSync' \subseteq Peer
       /\ lastCompared' \in Nat
       /\ references' \in [DOMAIN references' -> Hash]
       /\ \A t \in DOMAIN references' \cup {lastCompared'} :
            \/ t \in DOMAIN references \cup {lastCompared}
            \/ \E r \in reports : t = r.turn
       /\ \A t \in DOMAIN references :
            t \in DOMAIN references' /\ references'[t] = references[t]
       /\ NothingOwed(cs, references')
       /\ NobodyBehind(cs, lastCompared')
       /\ PendingUnsettled(pending', references')
       /\ Agrees(rep, outOfSync', references')
       /\ LatchedFor(outOfSync', rep, references', cs)
       /\ outOfSync' = {} => \A r \in pending' : ~Complete(r.turn, cs, pending')
       /\ Retired(pending', observerPending', lastCompared')
  BY <1>1, <1>3, <1>5, <1>6, <1>7, <1>8, <1>9, <1>10, CompareAllKeeps
<1>12. TypeOK'
  <2>1. DOMAIN references' \subseteq Nat
    BY <1>5, <1>11 DEF Report
  <2>2. Registered' = Registered \ {p} /\ clients' \in [Registered' -> ClientTurn]
    BY <1>1, <1>3 DEF Registered
  <2>. QED  BY <1>1, <1>2, <1>5, <1>11, <2>1, <2>2 DEF TypeOK
<1>13. PendingReported(pending, reported, clients)' /\ ReportsInSequence(reported, clients)'
  BY <1>1, <1>7, <1>11 DEF PendingReported
<1>14. WithinReleased'
  <2>1. \A q \in DOMAIN cs : cs[q].simulated <= readyTurn
    BY <1>2, <1>3 DEF WithinReleased, cs
  <2>2. \A r \in reports : r.turn <= readyTurn
    <3>1. \A r \in reports : r.peer \in Players(cs) /\ r.turn <= cs[r.peer].simulated
      BY <1>7 DEF PendingReported, ReportsInSequence
    <3>2. \A r \in reports : r.turn \in Nat
      BY <1>5 DEF Report
    <3>3. \A q \in Players(cs) : cs[q].simulated \in Nat /\ cs[q].simulated <= readyTurn
      BY <1>3, <2>1 DEF Players, ClientTurn
    <3>4. readyTurn \in Nat
      BY <1>2 DEF TypeOK
    <3>. QED  BY <3>1, <3>2, <3>3, <3>4
  <2>3. DOMAIN clients' = DOMAIN cs
    BY <1>1
  <2>. QED  BY <1>1, <1>2, <1>11, <2>1, <2>2, <2>3 DEF WithinReleased, Registered
<1>. QED
  BY <1>1, <1>11, <1>12, <1>13, <1>14
     DEF IInv, NoSilentDesync, Agrees, DesyncJustified, LatchedFor,
         NoComparisonMissed, RetiredStaysRetired, Retired

\* Every step keeps the invariant and every reference.
LEMMA StepKeeps ==
    ASSUME IInv, [Next]_vars
    PROVE  IInv' /\ (\A t \in DOMAIN references :
                        t \in DOMAIN references' /\ references'[t] = references[t])
<1>1. CASE TurnReleased
  BY <1>1, TurnReleasedKeeps DEF TurnReleased, turnManager
<1>2. CASE \E p \in Peer, hash \in Hash : StateHash(p, hash)
  BY <1>2, StateHashKeeps
<1>3. CASE \E p \in Peer, watcher \in BOOLEAN : LoadedGame(p, watcher)
  <2>1. references' = references
    BY <1>3 DEF LoadedGame, turnManager
  <2>. QED  BY <1>3, <2>1, LoadedGameKeeps
<1>4. CASE \E p \in Peer : Disconnected(p)
  BY <1>4, DisconnectedKeeps
<1>5. CASE UNCHANGED vars
  BY <1>5
     DEF vars, turnManager, IInv, TypeOK, Registered, WithinReleased, NoSilentDesync,
         DesyncJustified, NoComparisonMissed, RetiredStaysRetired
<1>. QED  BY <1>1, <1>2, <1>3, <1>4, <1>5 DEF Next

\* Every conjunct of the inductive invariant holds in every reachable state.
THEOREM InvariantHolds == Spec => []IInv
<1>1. IInv /\ [Next]_vars => IInv'
  BY StepKeeps
<1>. QED  BY InitIInv, <1>1, PTL DEF Spec

\* Every variable keeps its type, for every set of peers and hashes (TurnManager).
THEOREM TypeCorrect == Spec => []TypeOK
<1>1. IInv => TypeOK
  BY DEF IInv
<1>. QED  BY InvariantHolds, <1>1, PTL

\* No player whose hash differs from the one agreed on goes unnoticed (compare).
THEOREM DesyncNoticed == Spec => []NoSilentDesync
<1>1. IInv => NoSilentDesync
  BY DEF IInv
<1>. QED  BY InvariantHolds, <1>1, PTL

\* Comparison is suspended only by a player that is there and did differ (forget).
THEOREM LatchJustified == Spec => []DesyncJustified
<1>1. IInv => DesyncJustified
  BY DEF IInv
<1>. QED  BY InvariantHolds, <1>1, PTL

\* The latch holds exactly those who may be out of sync, both ways.
THEOREM LatchRight == Spec => []LatchIsRight
<1>1. NoSilentDesync /\ DesyncJustified => LatchIsRight
  BY DEF LatchIsRight
<1>. QED  BY <1>1, DesyncNoticed, LatchJustified, PTL

\* A turn everyone has reported is compared, whoever left meanwhile (recheck_pending).
THEOREM NothingMissed == Spec => []NoComparisonMissed
<1>1. IInv => NoComparisonMissed
  BY DEF IInv
<1>. QED  BY InvariantHolds, <1>1, PTL

\* A compared turn retires every older one, the AI host's reports apart (compare).
THEOREM RetirementHolds == Spec => []RetiredStaysRetired
<1>1. IInv => RetiredStaysRetired
  BY DEF IInv
<1>. QED  BY InvariantHolds, <1>1, PTL

\* What is pending is neither comparable yet nor already retired.
THEOREM PendingDue == Spec => []PendingIsDue
<1>1. NoComparisonMissed /\ RetiredStaysRetired => PendingIsDue
  BY DEF PendingIsDue
<1>. QED  BY <1>1, NothingMissed, RetirementHolds, PTL

\* The hash agreed on for a turn never changes (references).
THEOREM AgreementFinal == Spec => ReferencesStable
<1>1. IInv /\ [Next]_vars =>
        [\A t \in DOMAIN references :
            t \in DOMAIN references' /\ references'[t] = references[t]]_vars
  BY StepKeeps
<1>. QED  BY InvariantHolds, <1>1, PTL DEF Spec, ReferencesStable
=============================================================================
