------------------------ MODULE LobbyHosting_proofs ------------------------
(***************************************************************************)
(* Proofs about LobbyHosting, for every set of plans and names and every   *)
(* capacity of the control queues: the end of each game is told to the     *)
(* main task exactly once, an account is reserved for a reason, saved      *)
(* matches go first, and a name is taken only while a game of its host is  *)
(* in the pool; the game holds it unless it is a saved match that shared   *)
(* the name with an earlier one.                                           *)
(*                                                                         *)
(* The channels are unbounded sequences, so the inductive invariant says   *)
(* for each account what may be in them: of an account without a game, no  *)
(* order to host and no report of an end; of one with a game, exactly one  *)
(* of an order to host it, with no release behind that would take it back, *)
(* the game being hosted, and a report of its end.  Names and accounts are *)
(* kept apart by who holds what: one account for each name that is taken,  *)
(* and one account for each game in the pool.  That a game with a free     *)
(* name is a saved match follows since a name is claimed by that game      *)
(* itself or by a saved match before it, and saved matches come before all *)
(* others.                                                                 *)
(*                                                                         *)
(* A second inductive invariant, AllInTouch, is about what the lobby       *)
(* shows. Of each account with a session it says that the bot, once it has *)
(* heard all that is on its way from the account, has the occupant the     *)
(* account takes itself to be; of each account with a game, that the       *)
(* account, once it has read all the events on their way from the game,    *)
(* knows the game as it is. Both say where a sequence leads without        *)
(* folding over it: there is a chain of pictures, one for each element,    *)
(* from the first to the last.                                             *)
(***************************************************************************)
EXTENDS LobbyHosting, SequenceTheorems, FiniteSetTheorems, WellFoundedInduction, TLAPS

-----------------------------------------------------------------------------
(* The inductive invariant.                                                *)

\* The attributes of a listing.
Attrs == Nat \X Nat

\* What an account sends.
Stanzas ==
    [kind : {"register"}, attrs : Attrs]
    \cup [kind : {"changestate", "unregister", "join", "available", "playing"}, attrs : {None}]

\* A task's own state; a window is open only for a listing.
Accs ==
    {acc \in [personal : BOOLEAN, assigned : GameIds \cup {None}, unlisted : BOOLEAN,
              lastSent : Attrs \cup {None}, pending : Attrs \cup {None}, debounce : BOOLEAN,
              started : BOOLEAN, playing : BOOLEAN, bound : BOOLEAN, out : Seq(Stanzas)] :
        acc.debounce => acc.pending # None}

\* What the manager tells an account.
Messages == [kind : {"assign"}, game : GameIds] \cup [kind : {"release", "shutdown"}, game : {0}]

\* An account's task, its queue and its link.
Tasks ==
    [acc : Accs, live : {"running", "exited", "dead"}, control : Seq(Messages),
     link : {"asleep", "connecting", "up", "down", "left"}, news : Seq({"new", "resumed"})]

\* What a game tells its account.
GameEvents ==
    [kind : {"listing"}, attrs : Attrs] \cup [kind : {"started", "ended", "unlisted"}, attrs : {None}]

\* A game and the channel to its account.
Games ==
    [phase : {"none", "boot", "setup", "match", "over", "gone", "destroyed"},
     host : Name \cup {None}, resumed : BOOLEAN, here : BOOLEAN, rev : Nat,
     account : Accounts \cup {0}, chan : Seq(GameEvents)]

\* What the accounts tell the main task.
Events ==
    [kind : {"ended"}, account : Accounts, sender : {None}]
    \cup [kind : {"hostme"}, account : Accounts, sender : Name]

\* A game to be hosted.
Jobs == [account : Accounts, host : Name, saved : BOOLEAN]

\* The main task.
Mains ==
    [at : {"saving", "next", "hosting", "waiting", "quitting", "closing", "stopped"},
     job : Jobs \cup {None}, saved : Seq([host : Name, account : Nat]),
     inUse : SUBSET Accounts, refused : SUBSET Accounts, active : SUBSET Name,
     senderOf : [Accounts -> Name \cup {None}], gameOf : [Accounts -> GameIds \cup {None}],
     next : 1 .. plan.games + 1]

\* The types, and what the main task can be about.
Typed ==
    /\ plan \in Plans /\ main \in Mains
    /\ tasks \in [Accounts -> Tasks] /\ games \in [GameIds -> Games] /\ events \in Seq(Events)
    /\ main.at = "hosting" => main.job \in Jobs
    /\ main.at = "next" => plan.personal
    /\ \A a \in Accounts : Len(tasks[a].control) <= ControlCap

\* The events that tell of the end of an account's game.
Reported(e, a) == e.kind = "ended" /\ e.account = a

Unreported(es, a) == \A i \in DOMAIN es : ~Reported(es[i], a)

ReportedOnce(es, a) ==
    \E i \in DOMAIN es : Reported(es[i], a) /\ \A j \in DOMAIN es : Reported(es[j], a) => j = i

\* The orders of a queue.
Orderless(c) == \A i \in DOMAIN c : c[i].kind # "assign"

Unreleased(c) == \A i \in DOMAIN c : c[i].kind # "release"

\* One order, to host g, and no release behind it.
OrderedLast(c, g) ==
    \E i \in DOMAIN c : /\ c[i] = [kind |-> "assign", game |-> g]
                        /\ \A j \in DOMAIN c : /\ c[j].kind = "assign" => j = i
                                               /\ c[j].kind = "release" => j < i

\* A task that runs is on its way to the account's game g, hosts it, or has
\* reported its end.
Telling(g, task, es, a) ==
    \/ task.acc.assigned = g /\ Orderless(task.control) /\ Unreleased(task.control) /\ Unreported(es, a)
    \/ task.acc.assigned = None /\ Orderless(task.control) /\ ReportedOnce(es, a)
    \/ task.acc.assigned = None /\ OrderedLast(task.control, g) /\ Unreported(es, a)

\* Whether it runs or not, no end is told that is not due.
Told1(g, task, es, a) ==
    IF g = None
    THEN /\ Unreported(es, a)
         /\ task.live = "running" => task.acc.assigned = None /\ Orderless(task.control)
    ELSE /\ Unreported(es, a) \/ ReportedOnce(es, a)
         /\ task.live = "running" => Telling(g, task, es, a)

\* For every account.
EndsTold == \A a \in Accounts : Told1(main.gameOf[a], tasks[a], events, a)

\* One account for each game in the pool.
GamesPlaced ==
    /\ \A a \in Accounts : main.gameOf[a] # None =>
          Pooled(main.gameOf[a]) /\ games[main.gameOf[a]].account = a
    /\ \A g \in GameIds : Pooled(g) =>
          games[g].account \in Accounts /\ main.gameOf[games[g].account] = g
    /\ \A g \in GameIds : g >= main.next => games[g].phase = "none"

\* One account for each name that is taken, and its game is one of that name.
NamesPlaced ==
    /\ \A a \in Accounts : main.senderOf[a] # None =>
          /\ main.gameOf[a] # None /\ games[main.gameOf[a]].host = main.senderOf[a]
          /\ main.senderOf[a] \in main.active
          /\ \A b \in Accounts : main.senderOf[b] = main.senderOf[a] => b = a
    /\ \A s \in main.active : \E a \in Accounts : main.senderOf[a] = s
    /\ \A g \in GameIds : Pooled(g) /\ ~games[g].resumed =>
          games[g].host # None /\ main.senderOf[games[g].account] = games[g].host

\* The account a job is for is reserved and has no game, and a job that was asked
\* for is not in the way of a saved match or of its sender's other game.
JobPlaced ==
    main.at = "hosting" =>
        /\ main.job.account \in main.inUse /\ main.gameOf[main.job.account] = None
        /\ ~main.job.saved => main.job.host \notin main.active
        /\ ~main.job.saved => main.saved = <<>>

\* A saved match is still to be hosted; until the last of them is, nothing else was.
SavedLeft == main.saved # <<>> \/ (main.at = "hosting" /\ main.job.saved)
SavedCameFirst == SavedLeft => \A g \in GameIds : games[g].phase # "none" => games[g].resumed

\* The name of game g's host is held by h: by g itself, or by a saved match that was hosted
\* before it, which has ended or still holds it.
Holds(h) ==
    Pooled(h) /\ games[h].host # None /\ main.senderOf[games[h].account] = games[h].host
Claims(h, g) ==
    /\ h <= g /\ games[h].host = games[g].host
    /\ h = g \/ games[h].resumed
    /\ Holds(h) \/ (h # g /\ games[h].phase = "destroyed")
NamesKept == \A g \in GameIds : Pooled(g) => \E h \in GameIds : Claims(h, g)

\* All of it, until the pool is dropped.
Hosting ==
    /\ EndsTold /\ GamesPlaced /\ NamesPlaced /\ NamesKept
    /\ JobPlaced /\ SavedCameFirst /\ ReservedForAReason /\ SavedFirst

\* The inductive invariant.
IInv == Typed /\ (main.at # "stopped" => Hosting)

-----------------------------------------------------------------------------
(* Events and orders in their channels.                                    *)

\* A sequence with one more element, and one with its first taken off.
LEMMA AppendIs ==
    ASSUME NEW S, NEW es \in Seq(S), NEW e \in S, NEW fs, fs = Append(es, e)
    PROVE  /\ fs \in Seq(S) /\ es \in Seq(S) /\ Len(es) \in Nat
           /\ DOMAIN es = 1 .. Len(es) /\ DOMAIN fs = 1 .. Len(es) + 1
           /\ Len(fs) = Len(es) + 1 /\ fs[Len(es) + 1] = e
           /\ \A i \in DOMAIN es : fs[i] = es[i]
BY AppendProperties, LenProperties

\* The rest of a queue is the queue moved up by one.
LEMMA TailIs ==
    ASSUME NEW S, NEW es \in Seq(S), es # <<>>, NEW fs, fs = Tail(es)
    PROVE  /\ fs \in Seq(S) /\ Len(es) \in Nat \ {0} /\ Head(es) = es[1] /\ Head(es) \in S
           /\ DOMAIN es = 1 .. Len(es) /\ DOMAIN fs = 1 .. Len(es) - 1
           /\ Len(fs) = Len(es) - 1
           /\ \A i \in 1 .. Len(es) - 1 : fs[i] = es[i + 1]
BY HeadTailProperties, LenProperties, EmptySeq

\* A further event reports the end of one game, or of none.
LEMMA ReportAppend ==
    ASSUME NEW S, NEW es \in Seq(S), NEW e \in S, NEW fs, fs = Append(es, e), NEW a
    PROVE  /\ ~Reported(e, a) /\ Unreported(es, a) => Unreported(fs, a)
           /\ ~Reported(e, a) /\ ReportedOnce(es, a) => ReportedOnce(fs, a)
           /\ Reported(e, a) /\ Unreported(es, a) => ReportedOnce(fs, a)
<1>1. /\ Len(es) \in Nat /\ DOMAIN es = 1 .. Len(es) /\ DOMAIN fs = 1 .. Len(es) + 1
      /\ fs[Len(es) + 1] = e /\ \A i \in DOMAIN es : fs[i] = es[i]
  BY AppendIs
<1>2. \A i \in DOMAIN fs : i \in DOMAIN es \/ i = Len(es) + 1
  BY <1>1
<1>3. DOMAIN es \subseteq DOMAIN fs /\ Len(es) + 1 \in DOMAIN fs /\ Len(es) + 1 \notin DOMAIN es
  BY <1>1
<1>4. ~Reported(e, a) /\ Unreported(es, a) => Unreported(fs, a)
  BY <1>1, <1>2 DEF Unreported
<1>5. ~Reported(e, a) /\ ReportedOnce(es, a) => ReportedOnce(fs, a)
  BY <1>1, <1>2, <1>3 DEF ReportedOnce
<1>6. Reported(e, a) /\ Unreported(es, a) => ReportedOnce(fs, a)
  BY <1>1, <1>2, <1>3 DEF ReportedOnce, Unreported
<1>. QED  BY <1>4, <1>5, <1>6

\* The first event is read, and with it the report it may be.
LEMMA ReportTail ==
    ASSUME NEW S, NEW es \in Seq(S), es # <<>>, NEW fs, fs = Tail(es), NEW a
    PROVE  /\ Unreported(es, a) => Unreported(fs, a) /\ ~Reported(Head(es), a)
           /\ ~Reported(Head(es), a) /\ ReportedOnce(es, a) => ReportedOnce(fs, a)
           /\ Reported(Head(es), a) /\ ReportedOnce(es, a) => Unreported(fs, a)
<1>1. /\ Len(es) \in Nat \ {0} /\ DOMAIN es = 1 .. Len(es) /\ DOMAIN fs = 1 .. Len(es) - 1
      /\ Head(es) = es[1] /\ \A i \in 1 .. Len(es) - 1 : fs[i] = es[i + 1]
  BY TailIs
<1>2. /\ 1 \in DOMAIN es
      /\ \A i \in DOMAIN fs : i + 1 \in DOMAIN es /\ i + 1 # 1 /\ fs[i] = es[i + 1]
      /\ \A i \in DOMAIN es : i = 1 \/ (i - 1 \in DOMAIN fs /\ fs[i - 1] = es[i])
  BY <1>1
<1>3. Unreported(es, a) => Unreported(fs, a) /\ ~Reported(Head(es), a)
  BY <1>1, <1>2 DEF Unreported
<1>4. ASSUME ~Reported(Head(es), a), ReportedOnce(es, a)
      PROVE  ReportedOnce(fs, a)
  <2>1. PICK i \in DOMAIN es : Reported(es[i], a) /\ \A j \in DOMAIN es : Reported(es[j], a) => j = i
    BY <1>4 DEF ReportedOnce
  <2>2. i - 1 \in DOMAIN fs /\ fs[i - 1] = es[i]
    BY <1>1, <1>2, <1>4, <2>1
  <2>3. ASSUME NEW j \in DOMAIN fs, Reported(fs[j], a)
        PROVE  j = i - 1
    BY <1>1, <1>2, <2>1, <2>3
  <2>. QED  BY <2>1, <2>2, <2>3 DEF ReportedOnce
<1>5. ASSUME Reported(Head(es), a), ReportedOnce(es, a)
      PROVE  Unreported(fs, a)
  BY <1>1, <1>2, <1>5 DEF ReportedOnce, Unreported
<1>. QED  BY <1>3, <1>4, <1>5

\* What one more message makes of the orders in a queue.
LEMMA QueueAppend ==
    ASSUME NEW S, NEW c \in Seq(S), NEW m \in S, NEW d, d = Append(c, m), NEW g
    PROVE  /\ m.kind # "assign" /\ Orderless(c) => Orderless(d)
           /\ m.kind # "release" /\ Unreleased(c) => Unreleased(d)
           /\ m.kind \notin {"assign", "release"} /\ OrderedLast(c, g) => OrderedLast(d, g)
           /\ m = [kind |-> "assign", game |-> g] /\ Orderless(c) => OrderedLast(d, g)
<1>1. /\ Len(c) \in Nat /\ DOMAIN c = 1 .. Len(c) /\ DOMAIN d = 1 .. Len(c) + 1
      /\ d[Len(c) + 1] = m /\ \A i \in DOMAIN c : d[i] = c[i]
  BY AppendIs
<1>2. /\ \A i \in DOMAIN d : i \in DOMAIN c \/ i = Len(c) + 1
      /\ \A i \in DOMAIN c : i < Len(c) + 1
  BY <1>1
<1>3. DOMAIN c \subseteq DOMAIN d /\ Len(c) + 1 \in DOMAIN d
  BY <1>1
<1>4. m.kind # "assign" /\ Orderless(c) => Orderless(d)
  BY <1>1, <1>2 DEF Orderless
<1>5. m.kind # "release" /\ Unreleased(c) => Unreleased(d)
  BY <1>1, <1>2 DEF Unreleased
<1>6. m.kind \notin {"assign", "release"} /\ OrderedLast(c, g) => OrderedLast(d, g)
  BY <1>1, <1>2, <1>3 DEF OrderedLast
<1>7. m = [kind |-> "assign", game |-> g] /\ Orderless(c) => OrderedLast(d, g)
  BY <1>1, <1>2, <1>3 DEF OrderedLast, Orderless
<1>. QED  BY <1>4, <1>5, <1>6, <1>7

\* The first message is read, and with it the order or the release it may be.
LEMMA QueueTail ==
    ASSUME NEW S, NEW c \in Seq(S), c # <<>>, NEW d, d = Tail(c), NEW g
    PROVE  /\ Orderless(c) => Orderless(d) /\ Head(c).kind # "assign"
           /\ Unreleased(c) => Unreleased(d) /\ Head(c).kind # "release"
           /\ OrderedLast(c, g) /\ Head(c).kind = "assign" =>
                 Head(c).game = g /\ Orderless(d) /\ Unreleased(d)
           /\ OrderedLast(c, g) /\ Head(c).kind # "assign" => OrderedLast(d, g)
<1>1. /\ Len(c) \in Nat \ {0} /\ DOMAIN c = 1 .. Len(c) /\ DOMAIN d = 1 .. Len(c) - 1
      /\ Head(c) = c[1] /\ \A i \in 1 .. Len(c) - 1 : d[i] = c[i + 1]
  BY TailIs
<1>2. /\ 1 \in DOMAIN c
      /\ \A i \in DOMAIN d : i + 1 \in DOMAIN c /\ i + 1 # 1 /\ d[i] = c[i + 1]
      /\ \A i \in DOMAIN c : i = 1 \/ (i - 1 \in DOMAIN d /\ d[i - 1] = c[i])
  BY <1>1
<1>3. Orderless(c) => Orderless(d) /\ Head(c).kind # "assign"
  BY <1>1, <1>2 DEF Orderless
<1>4. Unreleased(c) => Unreleased(d) /\ Head(c).kind # "release"
  BY <1>1, <1>2 DEF Unreleased
<1>5. ASSUME OrderedLast(c, g), Head(c).kind = "assign"
      PROVE  Head(c).game = g /\ Orderless(d) /\ Unreleased(d)
  <2>1. PICK i \in DOMAIN c : /\ c[i] = [kind |-> "assign", game |-> g]
                              /\ \A j \in DOMAIN c : /\ c[j].kind = "assign" => j = i
                                                     /\ c[j].kind = "release" => j < i
    BY <1>5 DEF OrderedLast
  <2>2. i = 1
    BY <1>1, <1>2, <1>5, <2>1
  <2>3. Orderless(d) /\ Unreleased(d)
    BY <1>1, <1>2, <2>1, <2>2 DEF Orderless, Unreleased
  <2>. QED  BY <1>1, <2>1, <2>2, <2>3
<1>6. ASSUME OrderedLast(c, g), Head(c).kind # "assign"
      PROVE  OrderedLast(d, g)
  <2>1. PICK i \in DOMAIN c : /\ c[i] = [kind |-> "assign", game |-> g]
                              /\ \A j \in DOMAIN c : /\ c[j].kind = "assign" => j = i
                                                     /\ c[j].kind = "release" => j < i
    BY <1>6 DEF OrderedLast
  <2>2. i # 1
    BY <1>1, <1>6, <2>1
  <2>3. i - 1 \in DOMAIN d /\ d[i - 1] = c[i]
    BY <1>1, <1>2, <2>1, <2>2
  <2>4. ASSUME NEW j \in DOMAIN d
        PROVE  (d[j].kind = "assign" => j = i - 1) /\ (d[j].kind = "release" => j < i - 1)
    <3>1. j + 1 \in DOMAIN c /\ d[j] = c[j + 1] /\ j \in Nat /\ i \in Nat
      BY <1>1, <1>2, <2>4
    <3>2. (c[j + 1].kind = "assign" => j + 1 = i) /\ (c[j + 1].kind = "release" => j + 1 < i)
      BY <2>1, <3>1
    <3>. QED  BY <3>1, <3>2
  <2>. QED  BY <2>1, <2>3, <2>4 DEF OrderedLast
<1>. QED  BY <1>3, <1>4, <1>5, <1>6

-----------------------------------------------------------------------------
(* An account's own state.                                                 *)

\* A handler that leaves the assignment alone.
Keeps(acc, new) == new \in Accs /\ new.assigned = acc.assigned

\* No listing, account, game or name is mistaken for None.
LEMMA NoneApart ==
    /\ \A attrs \in Attrs : attrs # None
    /\ \A a \in Accounts : a # None
    /\ \A g \in GameIds : g # None
    /\ \A n \in Name : n # None
BY HostingAssumption DEF Attrs, Accounts, GameIds

\* To send a stanza leaves the assignment alone.
LEMMA PutKeeps ==
    ASSUME NEW acc \in Accs, NEW stanza \in Stanzas, NEW new,
           new = [acc EXCEPT !.out = Append(@, stanza)]
    PROVE  Keeps(acc, new)
<1>1. acc.out \in Seq(Stanzas)
  BY DEF Accs
<1>2. Append(acc.out, stanza) \in Seq(Stanzas)
  BY <1>1, AppendProperties
<1>. QED  BY <1>2 DEF Accs, Keeps

\* So does one that is sent on a condition.
LEMMA PutIfKeeps ==
    ASSUME NEW acc \in Accs, NEW condition,
           NEW kind \in {"changestate", "unregister", "join", "available", "playing"},
           NEW new, new = PutIf(condition, acc, kind)
    PROVE  Keeps(acc, new)
<1>1. Stanza(kind) \in Stanzas
  BY DEF Stanza, Stanzas
<1>2. CASE new = acc
  BY <1>2 DEF Keeps
<1>3. CASE new = Put(acc, kind)
  BY <1>1, <1>3, PutKeeps DEF Put
<1>. QED  BY <1>2, <1>3 DEF PutIf

\* So does one without attributes.
LEMMA PutKindKeeps ==
    ASSUME NEW acc \in Accs,
           NEW kind \in {"changestate", "unregister", "join", "available", "playing"},
           NEW new, new = Put(acc, kind)
    PROVE  Keeps(acc, new)
<1>1. Stanza(kind) \in Stanzas
  BY DEF Stanza, Stanzas
<1>. QED  BY <1>1, PutKeeps DEF Put

\* To forget what the bot was told leaves the assignment alone.
LEMMA ClearKeeps ==
    ASSUME NEW acc \in Accs, NEW new, new = Clear(acc)
    PROVE  Keeps(acc, new)
BY DEF Clear, Accs, Keeps

\* To close the window leaves the assignment alone.
LEMMA ClosedKeeps ==
    ASSUME NEW acc \in Accs, NEW new, new = Closed(acc)
    PROVE  Keeps(acc, new)
BY DEF Closed, Accs, Keeps

\* To open the window, for a listing, leaves the assignment alone.
LEMMA OfferKeeps ==
    ASSUME NEW acc \in Accs, NEW attrs \in Attrs, NEW new, new = Offer(acc, attrs)
    PROVE  Keeps(acc, new)
<1>1. attrs # None
  BY NoneApart
<1>. QED  BY <1>1 DEF Offer, Accs, Keeps

\* To register a listing leaves the assignment alone.
LEMMA RegisterKeeps ==
    ASSUME NEW acc \in Accs, NEW attrs \in Attrs, NEW new, new = Register(acc, attrs)
    PROVE  Keeps(acc, new)
<1>. DEFINE stanza == [kind |-> "register", attrs |-> attrs]
            sent == [acc EXCEPT !.lastSent = attrs]
<1>1. Keeps(acc, sent) /\ stanza \in Stanzas
  BY DEF Accs, Keeps, Stanzas
<1>2. new = [sent EXCEPT !.out = Append(@, stanza)]
  BY DEF Register, Accs
<1>. HIDE DEF sent, stanza
<1>. QED  BY <1>1, <1>2, PutKeeps DEF Keeps

\* The window closes with or without a register, and the assignment stays.
LEMMA FlushKeeps ==
    ASSUME NEW acc \in Accs, NEW new, new = Flush(acc)
    PROVE  Keeps(acc, new)
<1>1. Keeps(acc, Closed(acc))
  BY ClosedKeeps
<1>2. acc.pending \in Attrs \cup {None}
  BY DEF Accs
<1>. QED  BY <1>1, <1>2, RegisterKeeps DEF Flush, Keeps

\* To list a game again leaves the assignment alone.
LEMMA ResendKeeps ==
    ASSUME NEW acc \in Accs, NEW new, new = Resend(acc)
    PROVE  Keeps(acc, new)
<1>. DEFINE newest == IF acc.pending # None THEN acc.pending ELSE acc.lastSent
            again == Register(Closed(acc), newest)
<1>1. newest \in Attrs \cup {None}
  BY DEF Accs
<1>. HIDE DEF newest
<1>2. Keeps(acc, Closed(acc))
  BY ClosedKeeps
<1>3. newest # None => Keeps(acc, again)
  BY <1>1, <1>2, RegisterKeeps DEF Keeps
<1>4. CASE new = [acc EXCEPT !.debounce = FALSE]
  BY <1>4 DEF Accs, Keeps
<1>5. CASE newest # None /\ new = PutIf(acc.started, again, "changestate")
  <2>1. Keeps(acc, again)
    BY <1>3, <1>5
  <2>. HIDE DEF again
  <2>. QED  BY <1>5, <2>1, PutIfKeeps DEF Keeps
<1>. QED  BY <1>4, <1>5 DEF Resend, newest

\* To show the player playing, or not, leaves the assignment alone.
LEMMA SetPlayingKeeps ==
    ASSUME NEW acc \in Accs, NEW value \in BOOLEAN, NEW new, new = SetPlaying(acc, value)
    PROVE  Keeps(acc, new)
<1>. DEFINE shown == [acc EXCEPT !.playing = value]
            kind == IF value THEN "playing" ELSE "available"
<1>1. Keeps(acc, shown)
  BY DEF Accs, Keeps
<1>. HIDE DEF shown
<1>2. Keeps(acc, PutIf(acc.bound, shown, kind))
  BY <1>1, PutIfKeeps DEF Keeps
<1>3. Keeps(acc, acc)
  BY DEF Keeps
<1>. QED  BY <1>2, <1>3 DEF SetPlaying, shown

\* Whether the game is unlisted has no part in the assignment.
LEMMA UnlistedKeeps ==
    ASSUME NEW acc \in Accs, NEW value \in BOOLEAN, NEW new, new = [acc EXCEPT !.unlisted = value]
    PROVE  Keeps(acc, new)
BY DEF Accs, Keeps

\* Started, the account hosts nothing.
LEMMA StartedIs ==
    ASSUME NEW personal \in BOOLEAN
    PROVE  Started(personal) \in Accs /\ Started(personal).assigned = None
<1>1. <<>> \in Seq(Stanzas)
  BY EmptySeq
<1>. QED  BY <1>1 DEF Started, Accs

\* An order to host a game assigns it.
LEMMA OnAssignIs ==
    ASSUME NEW acc \in Accs, NEW g \in GameIds, NEW new, new = OnAssign(acc, g)
    PROVE  new \in Accs /\ new.assigned = g
<1>. DEFINE assigned == [acc EXCEPT !.assigned = g, !.unlisted = FALSE]
<1>1. assigned \in Accs /\ assigned.assigned = g
  BY DEF Accs
<1>. HIDE DEF assigned
<1>. QED  BY <1>1, ClearKeeps DEF OnAssign, assigned, Keeps

\* A release takes the assignment back.
LEMMA OnReleaseIs ==
    ASSUME NEW acc \in Accs, NEW new, new = OnRelease(acc)
    PROVE  new \in Accs /\ new.assigned = None
<1>. DEFINE free == [acc EXCEPT !.assigned = None, !.unlisted = FALSE]
<1>1. free \in Accs /\ free.assigned = None
  BY DEF Accs
<1>2. new = SetPlaying(Clear(free), FALSE)
  BY DEF OnRelease
<1>. HIDE DEF free
<1>3. Keeps(free, Clear(free))
  BY <1>1, ClearKeeps
<1>. QED  BY <1>1, <1>2, <1>3, SetPlayingKeeps DEF Keeps

\* A listing from the game leaves the assignment alone.
LEMMA OnListingKeeps ==
    ASSUME NEW acc \in Accs, NEW attrs \in Attrs, NEW new, new = OnListing(acc, attrs)
    PROVE  Keeps(acc, new)
<1>. DEFINE offered == Offer(acc, attrs)
            shown == [offered EXCEPT !.unlisted = FALSE]
<1>1. Keeps(acc, offered)
  BY OfferKeeps
<1>2. new = SetPlaying(shown, TRUE)
  BY DEF OnListing
<1>. HIDE DEF offered
<1>3. Keeps(acc, shown)
  BY <1>1, UnlistedKeeps DEF Keeps
<1>. HIDE DEF shown
<1>. QED  BY <1>2, <1>3, SetPlayingKeeps DEF Keeps

\* The start of the match leaves the assignment alone.
LEMMA OnStartedKeeps ==
    ASSUME NEW acc \in Accs, NEW new, new = OnStarted(acc)
    PROVE  Keeps(acc, new)
<1>. DEFINE told == IF acc.bound THEN Put(Flush(acc), "changestate") ELSE acc
<1>1. Keeps(acc, Flush(acc))
  BY FlushKeeps
<1>2. Keeps(acc, Put(Flush(acc), "changestate"))
  BY <1>1, PutKindKeeps DEF Keeps
<1>3. Keeps(acc, told)
  BY <1>2 DEF Keeps
<1>4. new = [told EXCEPT !.started = TRUE]
  BY DEF OnStarted
<1>. HIDE DEF told
<1>. QED  BY <1>3, <1>4 DEF Keeps, Accs

\* The verdict leaves the assignment alone: the game is still there.
LEMMA OnEndedKeeps ==
    ASSUME NEW acc \in Accs, NEW new, new = OnEnded(acc)
    PROVE  Keeps(acc, new)
<1>1. Keeps(acc, Clear(acc))
  BY ClearKeeps
<1>. DEFINE off == PutIf(acc.bound, Clear(acc), "unregister")
<1>2. Keeps(acc, off)
  BY <1>1, PutIfKeeps DEF Keeps
<1>3. new = [off EXCEPT !.unlisted = TRUE]
  BY DEF OnEnded
<1>. HIDE DEF off
<1>. QED  BY <1>2, <1>3, UnlistedKeeps DEF Keeps

\* To unregister a game leaves the assignment alone.
LEMMA OffKeeps ==
    ASSUME NEW acc \in Accs, NEW new,
           new = PutIf(acc.bound /\ ~acc.unlisted, Clear(acc), "unregister")
    PROVE  Keeps(acc, new)
<1>1. Keeps(acc, Clear(acc))
  BY ClearKeeps
<1>. QED  BY <1>1, PutIfKeeps DEF Keeps

\* A game that is taken off the lobby leaves the assignment alone.
LEMMA OnUnlistedKeeps ==
    ASSUME NEW acc \in Accs, NEW new, new = OnUnlisted(acc)
    PROVE  Keeps(acc, new)
<1>. DEFINE off == PutIf(acc.bound /\ ~acc.unlisted, Clear(acc), "unregister")
            unlisted == [off EXCEPT !.unlisted = TRUE]
<1>1. Keeps(acc, off)
  BY OffKeeps
<1>2. new = SetPlaying(unlisted, FALSE)
  BY DEF OnUnlisted
<1>. HIDE DEF off
<1>3. Keeps(acc, unlisted)
  BY <1>1, UnlistedKeeps DEF Keeps
<1>. HIDE DEF unlisted
<1>. QED  BY <1>2, <1>3, SetPlayingKeeps DEF Keeps

\* A game whose channel is closed is no longer assigned.
LEMMA OnGoneIs ==
    ASSUME NEW acc \in Accs, NEW new, new = OnGone(acc)
    PROVE  new \in Accs /\ new.assigned = None
<1>. DEFINE off == PutIf(acc.bound /\ ~acc.unlisted, Clear(acc), "unregister")
            free == [off EXCEPT !.assigned = None, !.unlisted = FALSE]
<1>1. Keeps(acc, off)
  BY OffKeeps
<1>2. new = SetPlaying(free, FALSE)
  BY DEF OnGone
<1>. HIDE DEF off
<1>3. free \in Accs /\ free.assigned = None
  BY <1>1 DEF Keeps, Accs
<1>. HIDE DEF free
<1>. QED  BY <1>2, <1>3, SetPlayingKeeps DEF Keeps

\* The close of a window leaves the assignment alone.
LEMMA OnDebounceKeeps ==
    ASSUME NEW acc \in Accs, NEW new, new = OnDebounce(acc)
    PROVE  Keeps(acc, new)
<1>1. Keeps(acc, [acc EXCEPT !.debounce = FALSE])
  BY DEF Accs, Keeps
<1>. QED  BY <1>1, FlushKeeps DEF OnDebounce

\* A session, new or resumed, leaves the assignment alone.
LEMMA OnOnlineKeeps ==
    ASSUME NEW acc \in Accs, NEW resumed, NEW new, new = OnOnline(acc, resumed)
    PROVE  Keeps(acc, new)
<1>. DEFINE bound == [acc EXCEPT !.bound = TRUE]
            joined == Put(bound, "join")
            shown == PutIf(acc.personal /\ acc.playing, joined, "playing")
<1>1. Keeps(acc, bound)
  BY DEF Accs, Keeps
<1>2. new = shown \/ new = Resend(shown)
  BY DEF OnOnline
<1>. HIDE DEF bound
<1>4. Keeps(acc, joined)
  BY <1>1, PutKindKeeps DEF Keeps
<1>. HIDE DEF joined
<1>5. Keeps(acc, shown)
  BY <1>4, PutIfKeeps DEF Keeps
<1>. HIDE DEF shown
<1>. QED  BY <1>2, <1>5, ResendKeeps DEF Keeps

\* The end of a client leaves the assignment alone: its successor hosts on.
LEMMA OnStreamEndKeeps ==
    ASSUME NEW acc \in Accs, NEW new, new = OnStreamEnd(acc)
    PROVE  Keeps(acc, new)
<1>1. <<>> \in Seq(Stanzas)
  BY EmptySeq
<1>. QED  BY <1>1 DEF OnStreamEnd, Accs, Keeps

\* The last unregister leaves the assignment alone.
LEMMA OnShutdownKeeps ==
    ASSUME NEW acc \in Accs, NEW new, new = OnShutdown(acc)
    PROVE  Keeps(acc, new)
BY PutIfKeeps DEF OnShutdown

-----------------------------------------------------------------------------
(* Steps that leave the games of the accounts alone.                       *)

\* What a plan gives the main task.
LEMMA PlanIs ==
    ASSUME plan \in Plans
    PROVE  /\ plan.personal \in BOOLEAN /\ plan.accounts \in Nat \ {0} /\ plan.games \in Nat
           /\ plan.saved \in Seq([host : Name, account : Nat]) /\ plan.senders \subseteq Name
           /\ plan.personal => plan.accounts = 1 /\ plan.name \in Name
BY HostingAssumption

\* What the main task relies on of the games.
GamesKept ==
    /\ games' \in [GameIds -> Games]
    /\ \A g \in GameIds :
         /\ games'[g].phase = "none" <=> games[g].phase = "none"
         /\ games'[g].phase = "destroyed" <=> games[g].phase = "destroyed"
         /\ games'[g].host = games[g].host /\ games'[g].resumed = games[g].resumed
         /\ games'[g].account = games[g].account

\* What is to be told of an account's game is told as before.
ToldKept ==
    /\ tasks' \in [Accounts -> Tasks] /\ events' \in Seq(Events)
    /\ \A a \in Accounts :
         /\ Len(tasks'[a].control) <= ControlCap
         /\ Told1(main.gameOf[a], tasks[a], events, a) => Told1(main.gameOf[a], tasks'[a], events', a)

\* Who hosts what, and under which name, is as it was.
HostsKept ==
    /\ main' \in Mains
    /\ main'.gameOf = main.gameOf /\ main'.senderOf = main.senderOf
    /\ main'.active = main.active /\ main'.next = main.next

\* A step that keeps who hosts what keeps the invariant, if the jobs and the
\* reservations it makes are in order.
LEMMA StepKeeps ==
    ASSUME IInv, plan' = plan, GamesKept, ToldKept, HostsKept,
           main'.at = "hosting" => main'.job \in Jobs, main'.at = "next" => plan.personal,
           main'.at # "stopped" => main.at # "stopped",
           main.at # "stopped" => JobPlaced' /\ ReservedForAReason' /\ SavedFirst' /\ (SavedLeft' => SavedLeft)
    PROVE  IInv'
<1>1. Typed'
  BY DEF IInv, Typed, GamesKept, ToldKept, HostsKept, Accounts, GameIds, Mains, Tasks, Games, Accs, Jobs,
         Messages, Events, GameEvents, Stanzas
<1>2. ASSUME main'.at # "stopped" PROVE Hosting'
  <2>. USE <1>2
  <2>1. Hosting /\ Typed
    BY DEF IInv
  <2>2. EndsTold'
    <3>. SUFFICES ASSUME NEW a \in Accounts'
                  PROVE  Told1(main.gameOf[a], tasks[a], events, a)'
      BY DEF EndsTold
    <3>1. a \in Accounts
      BY DEF Accounts
    <3>2. Told1(main.gameOf[a], tasks'[a], events', a)
      BY <2>1, <3>1 DEF Hosting, EndsTold, ToldKept
    <3>. QED  BY <3>2 DEF HostsKept
  <2>3. \A g \in GameIds : Pooled(g)' <=> Pooled(g)
    BY DEF Pooled, GamesKept
  <2>4. GameIds' = GameIds /\ Accounts' = Accounts
    BY DEF GameIds, Accounts
  <2>5. \A a \in Accounts : main.gameOf[a] \in GameIds \cup {None}
    BY <2>1 DEF Typed, Mains
  <2>6. GamesPlaced'
    BY <2>1, <2>3, <2>4, <2>5, NoneApart DEF Hosting, GamesPlaced, GamesKept, HostsKept
  <2>7. NamesPlaced'
    BY <2>1, <2>3, <2>4, <2>5, NoneApart DEF Hosting, NamesPlaced, GamesKept, HostsKept
  <2>8. NamesKept'
    <3>1. \A h \in GameIds : Holds(h)' <=> Holds(h)
      BY <2>3 DEF Holds, GamesKept, HostsKept
    <3>2. \A g, h \in GameIds : Claims(h, g) => Claims(h, g)'
      BY <3>1 DEF Claims, GamesKept
    <3>3. NamesKept
      BY <2>1 DEF Hosting
    <3>. QED  BY <2>3, <2>4, <3>2, <3>3 DEF NamesKept
  <2>9. SavedCameFirst'
    BY <2>1, <2>4 DEF Hosting, SavedCameFirst, GamesKept
  <2>. QED  BY <2>2, <2>6, <2>7, <2>8, <2>9 DEF Hosting
<1>. QED  BY <1>1, <1>2 DEF IInv

\* The main task has no part in a step.
LEMMA QuietKeeps ==
    ASSUME IInv, plan' = plan, main' = main, GamesKept, ToldKept
    PROVE  IInv'
<1>1. HostsKept
  BY DEF HostsKept, IInv, Typed
<1>2. main.at # "stopped" => JobPlaced' /\ ReservedForAReason' /\ SavedFirst' /\ (SavedLeft' => SavedLeft)
  BY DEF IInv, Hosting, JobPlaced, ReservedForAReason, SavedFirst, SavedLeft, Accounts
<1>. QED  BY <1>1, <1>2, StepKeeps DEF IInv, Typed

\* Games that do not move are as the main task knew them.
LEMMA SameGames ==
    ASSUME IInv, games' = games
    PROVE  GamesKept
BY DEF GamesKept, IInv, Typed

\* One game moves on, and stays in the pool.
LEMMA GameKeeps ==
    ASSUME IInv, NEW g \in GameIds, NEW game \in Games, games' = [games EXCEPT ![g] = game],
           games[g].phase \notin {"none", "destroyed"}, game.phase \notin {"none", "destroyed"},
           game.host = games[g].host, game.resumed = games[g].resumed,
           game.account = games[g].account
    PROVE  GamesKept
BY DEF GamesKept, IInv, Typed

\* Tasks and events that do not move tell what they told.
LEMMA SameTold ==
    ASSUME IInv, tasks' = tasks, events' = events
    PROVE  ToldKept
BY DEF ToldKept, IInv, Typed

\* One task moves on, with the same assignment and the same orders.
LEMMA TaskKeeps ==
    ASSUME IInv, NEW a \in Accounts, NEW task \in Tasks, tasks' = [tasks EXCEPT ![a] = task],
           task.live = tasks[a].live, task.control = tasks[a].control,
           task.acc.assigned = tasks[a].acc.assigned, events' = events
    PROVE  ToldKept
<1>1. tasks' \in [Accounts -> Tasks] /\ tasks'[a] = task
      /\ \A b \in Accounts : b # a => tasks'[b] = tasks[b]
  BY DEF IInv, Typed
<1>2. \A b \in Accounts : Len(tasks'[b].control) <= ControlCap
  BY <1>1 DEF IInv, Typed
<1>3. ASSUME NEW b \in Accounts, Told1(main.gameOf[b], tasks[b], events, b)
      PROVE  Told1(main.gameOf[b], tasks'[b], events, b)
  BY <1>1, <1>3 DEF Told1, Telling
<1>. QED  BY <1>1, <1>2, <1>3 DEF ToldKept, IInv, Typed

\* A task's record, its own state or its link changed.
LEMMA TaskOf ==
    ASSUME IInv, NEW a \in Accounts
    PROVE  tasks[a] \in Tasks /\ tasks[a].acc \in Accs
BY DEF IInv, Typed, Tasks

-----------------------------------------------------------------------------
(* The account tasks.                                                      *)

\* A handler's outcome, the rest of the task as it was.
LEMMA AccKeeps ==
    ASSUME IInv, NEW a \in Accounts, NEW acc, Keeps(tasks[a].acc, acc), Handled(a, acc),
           events' = events
    PROVE  ToldKept
<1>. DEFINE task == [tasks[a] EXCEPT !.acc = acc]
<1>1. task \in Tasks /\ task.live = tasks[a].live /\ task.control = tasks[a].control
      /\ task.acc = acc
  BY TaskOf DEF Keeps, Tasks
<1>2. tasks' = [tasks EXCEPT ![a] = task]
  BY DEF Handled
<1>. HIDE DEF task
<1>. QED  BY <1>1, <1>2, TaskKeeps DEF Keeps

\* An order read becomes the assignment; a release is read only by an account
\* whose game was reported, or ahead of the order.
LEMMA TakeControlKeeps ==
    ASSUME IInv, NEW a \in Accounts, TakeControl(a)
    PROVE  IInv'
<1>. DEFINE c == tasks[a].control
            message == Head(c)
            acc == tasks[a].acc
            task == tasks'[a]
<1>1. tasks[a] \in Tasks /\ acc \in Accs /\ c \in Seq(Messages) /\ c # <<>>
      /\ tasks \in [Accounts -> Tasks] /\ tasks[a].live = "running"
      /\ Len(c) <= ControlCap
  BY TaskOf DEF TakeControl, Awake, Tasks, IInv, Typed
<1>2. /\ message \in Messages /\ Tail(c) \in Seq(Messages) /\ Len(Tail(c)) <= ControlCap
  <2>1. Len(c) \in Nat \ {0} /\ Len(Tail(c)) = Len(c) - 1 /\ Head(c) \in Messages /\ Tail(c) \in Seq(Messages)
    BY <1>1, TailIs
  <2>. QED  BY <1>1, <2>1, HostingAssumption
<1>3. /\ task \in Tasks /\ task.control = Tail(c) /\ tasks' = [tasks EXCEPT ![a] = task]
      /\ \/ message.kind = "assign" /\ task.live = "running" /\ task.acc.assigned = message.game
         \/ message.kind = "release" /\ task.live = "running" /\ task.acc.assigned = None
         \/ message.kind = "shutdown" /\ task.live = "exited"
  <2>1. CASE message.kind = "assign"
    <3>1. tasks' = [[tasks EXCEPT ![a].control = Tail(@)] EXCEPT ![a].acc = OnAssign(acc, message.game)]
      BY <2>1 DEF TakeControl
    <3>2. message.game \in GameIds
      BY <1>2, <2>1 DEF Messages
    <3>3. OnAssign(acc, message.game) \in Accs /\ OnAssign(acc, message.game).assigned = message.game
      BY <1>1, <3>2, OnAssignIs
    <3>. HIDE DEF message, acc
    <3>. QED  BY <1>1, <1>2, <2>1, <3>1, <3>3 DEF Tasks
  <2>2. CASE message.kind = "release"
    <3>1. tasks' = [[tasks EXCEPT ![a].control = Tail(@)] EXCEPT ![a].acc = OnRelease(acc)]
      BY <2>2 DEF TakeControl
    <3>3. OnRelease(acc) \in Accs /\ OnRelease(acc).assigned = None
      BY <1>1, OnReleaseIs
    <3>. HIDE DEF message, acc
    <3>. QED  BY <1>1, <1>2, <2>2, <3>1, <3>3 DEF Tasks
  <2>3. CASE message.kind = "shutdown"
    <3>1. tasks' = [[tasks EXCEPT ![a].control = Tail(@)]
                       EXCEPT ![a].acc = OnShutdown(acc), ![a].live = "exited"]
      BY <2>3 DEF TakeControl
    <3>3. OnShutdown(acc) \in Accs
      BY <1>1, OnShutdownKeeps DEF Keeps
    <3>. HIDE DEF message, acc
    <3>. QED  BY <1>1, <1>2, <2>3, <3>1, <3>3 DEF Tasks
  <2>. QED  BY <1>2, <2>1, <2>2, <2>3 DEF Messages
<1>4. Told1(main.gameOf[a], tasks[a], events, a) => Told1(main.gameOf[a], task, events, a)
  <2>. DEFINE g == main.gameOf[a]
  <2>1. /\ Orderless(c) => Orderless(Tail(c)) /\ message.kind # "assign"
        /\ Unreleased(c) => Unreleased(Tail(c)) /\ message.kind # "release"
        /\ OrderedLast(c, g) /\ message.kind = "assign" =>
              message.game = g /\ Orderless(Tail(c)) /\ Unreleased(Tail(c))
        /\ OrderedLast(c, g) /\ message.kind # "assign" => OrderedLast(Tail(c), g)
    BY <1>1, QueueTail
  <2>2. CASE task.live # "running"
    BY <1>1, <2>2 DEF Told1, Telling
  <2>3. CASE message.kind = "assign" /\ task.live = "running" /\ task.acc.assigned = message.game
    <3>. HIDE DEF task, message
    <3>. QED  BY <1>1, <1>3, <2>1, <2>3 DEF Told1, Telling
  <2>4. CASE message.kind = "release" /\ task.live = "running" /\ task.acc.assigned = None
    <3>. HIDE DEF task, message
    <3>. QED  BY <1>1, <1>3, <2>1, <2>4 DEF Told1, Telling
  <2>. QED  BY <1>3, <2>2, <2>3, <2>4
<1>5. ToldKept
  <2>. HIDE DEF task
  <2>1. tasks' \in [Accounts -> Tasks] /\ \A b \in Accounts : b # a => tasks'[b] = tasks[b]
    BY <1>1, <1>3
  <2>. QED  BY <1>2, <1>3, <1>4, <2>1 DEF ToldKept, TakeControl, IInv, Typed, task
<1>. QED  BY <1>5, QuietKeeps, SameGames DEF TakeControl

\* An event of the game changes what the account lists, not what it hosts.
LEMMA TakeGameEventKeeps ==
    ASSUME IInv, NEW a \in Accounts, TakeGameEvent(a)
    PROVE  IInv'
<1>. DEFINE acc == tasks[a].acc
            g == acc.assigned
            event == Head(games[g].chan)
            new == CASE event.kind = "listing" -> OnListing(acc, event.attrs)
                     [] event.kind = "started" -> OnStarted(acc)
                     [] event.kind = "ended" -> OnEnded(acc)
                     [] event.kind = "unlisted" -> OnUnlisted(acc)
            game == [games[g] EXCEPT !.chan = Tail(@)]
<1>1. /\ g # None /\ games[g].chan # <<>> /\ Handled(a, new) /\ games' = [games EXCEPT ![g] = game]
      /\ UNCHANGED <<plan, main, events>>
  BY Zenon DEF TakeGameEvent
<1>2. acc \in Accs
  BY TaskOf
<1>3. g \in GameIds
  <2>. HIDE DEF acc
  <2>1. acc.assigned \in GameIds \cup {None}
    BY <1>2 DEF Accs
  <2>. QED  BY <1>1, <2>1
<1>4. games \in [GameIds -> Games]
  BY DEF IInv, Typed
<1>. HIDE DEF acc, g
<1>5. games[g] \in Games /\ games[g].chan \in Seq(GameEvents)
  BY <1>3, <1>4 DEF Games
<1>6. event \in GameEvents /\ Tail(games[g].chan) \in Seq(GameEvents)
  BY <1>1, <1>5, TailIs
<1>7. /\ event.kind \in {"listing", "started", "ended", "unlisted"}
      /\ event.kind = "listing" => event.attrs \in Attrs
  BY <1>6 DEF GameEvents
<1>. HIDE DEF event
<1>8. Keeps(acc, new)
  BY <1>2, <1>7, OnListingKeeps, OnStartedKeeps, OnEndedKeeps, OnUnlistedKeeps
<1>. HIDE DEF new
<1>9. ToldKept
  BY <1>1, <1>8, AccKeeps DEF acc
<1>10. game \in Games /\ game.phase = games[g].phase /\ game.host = games[g].host
       /\ game.resumed = games[g].resumed /\ game.account = games[g].account
  BY <1>5, <1>6 DEF Games
<1>. HIDE DEF game
<1>11. GamesKept
  BY <1>1, <1>3, <1>4, <1>10 DEF GamesKept
<1>. QED  BY <1>1, <1>9, <1>11, QuietKeeps

\* An assignment that ends becomes the one report of it.
LEMMA TakeGameEndKeeps ==
    ASSUME IInv, NEW a \in Accounts, TakeGameEnd(a)
    PROVE  IInv'
<1>. DEFINE acc == OnGone(tasks[a].acc)
            task == [tasks[a] EXCEPT !.acc = acc]
            report == [kind |-> "ended", account |-> a, sender |-> None]
<1>1. tasks[a] \in Tasks /\ tasks[a].acc \in Accs /\ tasks \in [Accounts -> Tasks] /\ events \in Seq(Events)
  BY TaskOf DEF IInv, Typed
<1>2. acc \in Accs /\ acc.assigned = None
  BY <1>1, OnGoneIs
<1>3. tasks' = [tasks EXCEPT ![a] = task]
  BY DEF TakeGameEnd, Handled
<1>. HIDE DEF acc
<1>4. task \in Tasks /\ task.acc = acc /\ task.control = tasks[a].control /\ task.live = tasks[a].live
  BY <1>1, <1>2 DEF Tasks
<1>. HIDE DEF task
<1>5. report \in Events /\ Reported(report, a) /\ \A b \in Accounts : b # a => ~Reported(report, b)
  BY DEF Events, Reported
<1>6. events' = Append(events, report)
  BY DEF TakeGameEnd
<1>. HIDE DEF report
<1>7. events' \in Seq(Events)
  BY <1>1, <1>5, <1>6, AppendIs
<1>8. /\ Unreported(events, a) => ReportedOnce(events', a)
      /\ \A b \in Accounts : b # a =>
            /\ Unreported(events, b) => Unreported(events', b)
            /\ ReportedOnce(events, b) => ReportedOnce(events', b)
  BY <1>1, <1>5, <1>6, ReportAppend
<1>9. tasks[a].live = "running" /\ tasks[a].acc.assigned # None
  BY DEF TakeGameEnd, Awake
<1>10. Told1(main.gameOf[a], tasks[a], events, a) => Told1(main.gameOf[a], task, events', a)
  BY <1>2, <1>4, <1>8, <1>9 DEF Told1, Telling
<1>11. tasks' \in [Accounts -> Tasks] /\ tasks'[a] = task /\ \A b \in Accounts : b # a => tasks'[b] = tasks[b]
  BY <1>1, <1>3, <1>4
<1>12. ASSUME NEW b \in Accounts, b # a, Told1(main.gameOf[b], tasks[b], events, b)
       PROVE  Told1(main.gameOf[b], tasks'[b], events', b)
  BY <1>8, <1>11, <1>12 DEF Told1, Telling
<1>13. ToldKept
  BY <1>4, <1>7, <1>10, <1>11, <1>12 DEF ToldKept, IInv, Typed
<1>. QED  BY <1>13, QuietKeeps, SameGames DEF TakeGameEnd

\* A window that closes is no concern of the main task.
LEMMA DebounceFiresKeeps ==
    ASSUME IInv, NEW a \in Accounts, DebounceFires(a)
    PROVE  IInv'
<1>1. Keeps(tasks[a].acc, OnDebounce(tasks[a].acc))
  BY TaskOf, OnDebounceKeeps
<1>2. ToldKept
  BY <1>1, AccKeeps DEF DebounceFires
<1>. QED  BY <1>2, QuietKeeps, SameGames DEF DebounceFires

\* A hostme is not a report.
LEMMA HearHostmeKeeps ==
    ASSUME IInv, NEW a \in Accounts, HearHostme(a)
    PROVE  IInv'
<1>1. PICK s \in plan.senders : events' = Append(events, [kind |-> "hostme", account |-> a, sender |-> s])
  BY DEF HearHostme
<1>. DEFINE event == [kind |-> "hostme", account |-> a, sender |-> s]
<1>2. events \in Seq(Events) /\ plan \in Plans /\ tasks \in [Accounts -> Tasks]
  BY DEF IInv, Typed
<1>3. event \in Events /\ \A b \in Accounts : ~Reported(event, b)
  BY <1>2, PlanIs DEF Events, Reported
<1>4. events' = Append(events, event)
  BY <1>1
<1>. HIDE DEF event
<1>5. /\ events' \in Seq(Events)
      /\ \A b \in Accounts : /\ Unreported(events, b) => Unreported(events', b)
                             /\ ReportedOnce(events, b) => ReportedOnce(events', b)
  BY <1>2, <1>3, <1>4, AppendIs, ReportAppend
<1>6. ToldKept
  BY <1>2, <1>5 DEF ToldKept, Told1, Telling, HearHostme, IInv, Typed
<1>. QED  BY <1>6, QuietKeeps, SameGames DEF HearHostme

\* The task's news, its link and what it sends change.
LEMMA LinkKeeps ==
    ASSUME IInv, NEW a \in Accounts, NEW task \in Tasks, tasks' = [tasks EXCEPT ![a] = task],
           task.live = tasks[a].live, task.control = tasks[a].control,
           task.acc.assigned = tasks[a].acc.assigned,
           plan' = plan, main' = main, games' = games, events' = events
    PROVE  IInv'
<1>1. ToldKept
  BY TaskKeeps
<1>. QED  BY <1>1, QuietKeeps, SameGames

\* A session that is reported is no concern of the main task.
LEMMA TakeOnlineKeeps ==
    ASSUME IInv, NEW a \in Accounts, TakeOnline(a)
    PROVE  IInv'
<1>. DEFINE acc == OnOnline(tasks[a].acc, Head(tasks[a].news) = "resumed")
            news == Tail(tasks[a].news)
            task == [tasks[a] EXCEPT !.acc = acc, !.news = news]
<1>1. tasks[a] \in Tasks /\ tasks[a].news \in Seq({"new", "resumed"}) /\ tasks[a].news # <<>>
  BY TaskOf DEF Tasks, TakeOnline
<1>2. news \in Seq({"new", "resumed"})
  BY <1>1, TailIs
<1>3. Keeps(tasks[a].acc, acc)
  BY TaskOf, OnOnlineKeeps
<1>4. tasks' = [tasks EXCEPT ![a] = task]
  BY DEF TakeOnline
<1>. HIDE DEF acc, news
<1>5. /\ task \in Tasks /\ task.live = tasks[a].live /\ task.control = tasks[a].control
      /\ task.acc.assigned = tasks[a].acc.assigned
  BY <1>1, <1>2, <1>3 DEF Tasks, Keeps
<1>. HIDE DEF task
<1>. QED  BY <1>4, <1>5, LinkKeeps DEF TakeOnline

\* Nor is a client that ends.
LEMMA StreamEndsKeeps ==
    ASSUME IInv, NEW a \in Accounts, StreamEnds(a)
    PROVE  IInv'
<1>. DEFINE acc == OnStreamEnd(tasks[a].acc)
            task == [tasks[a] EXCEPT !.acc = acc, !.link = "asleep"]
<1>1. Keeps(tasks[a].acc, acc)
  BY TaskOf, OnStreamEndKeeps
<1>2. tasks' = [tasks EXCEPT ![a] = task]
  BY DEF StreamEnds
<1>. HIDE DEF acc
<1>3. /\ task \in Tasks /\ task.live = tasks[a].live /\ task.control = tasks[a].control
      /\ task.acc.assigned = tasks[a].acc.assigned
  BY <1>1, TaskOf DEF Tasks, Keeps
<1>. HIDE DEF task
<1>. QED  BY <1>2, <1>3, LinkKeeps DEF StreamEnds

\* Nor the pause before the next one.
LEMMA WakeKeeps ==
    ASSUME IInv, NEW a \in Accounts, Wake(a)
    PROVE  IInv'
<1>. DEFINE task == [tasks[a] EXCEPT !.link = "connecting"]
<1>1. tasks' = [tasks EXCEPT ![a] = task]
  BY DEF Wake
<1>2. /\ task \in Tasks /\ task.live = tasks[a].live /\ task.control = tasks[a].control
      /\ task.acc.assigned = tasks[a].acc.assigned
  BY TaskOf DEF Tasks
<1>. HIDE DEF task
<1>. QED  BY <1>1, <1>2, LinkKeeps DEF Wake

\* A task that dies tells nothing more; what it had reported still counts.
LEMMA DiesKeeps ==
    ASSUME IInv, NEW a \in Accounts, Dies(a)
    PROVE  IInv'
<1>. DEFINE task == [tasks[a] EXCEPT !.live = "dead", !.control = <<>>]
<1>1. tasks' = [tasks EXCEPT ![a] = task]
  BY DEF Dies
<1>2. <<>> \in Seq(Messages) /\ Len(<<>>) <= ControlCap
  BY EmptySeq, HostingAssumption
<1>3. task \in Tasks /\ task.live = "dead" /\ task.control = <<>>
  BY <1>2, TaskOf DEF Tasks
<1>. HIDE DEF task
<1>4. tasks \in [Accounts -> Tasks] /\ events \in Seq(Events)
  BY DEF IInv, Typed
<1>5. tasks' \in [Accounts -> Tasks] /\ tasks'[a] = task /\ \A b \in Accounts : b # a => tasks'[b] = tasks[b]
  BY <1>1, <1>3, <1>4
<1>6. Told1(main.gameOf[a], tasks[a], events, a) => Told1(main.gameOf[a], task, events, a)
  BY <1>3 DEF Told1, Telling, Dies
<1>7. ToldKept
  BY <1>2, <1>3, <1>4, <1>5, <1>6 DEF ToldKept, Dies, IInv, Typed
<1>. QED  BY <1>7, QuietKeeps, SameGames DEF Dies

-----------------------------------------------------------------------------
(* The lobby.                                                              *)

\* A connection that is lost is no concern of the main task.
LEMMA DropKeeps ==
    ASSUME IInv, NEW a \in Accounts, Drop(a)
    PROVE  IInv'
<1>. DEFINE task == [tasks[a] EXCEPT !.link = "down"]
<1>1. tasks' = [tasks EXCEPT ![a] = task]
  BY DEF Drop
<1>2. /\ task \in Tasks /\ task.live = tasks[a].live /\ task.control = tasks[a].control
      /\ task.acc.assigned = tasks[a].acc.assigned
  BY TaskOf DEF Tasks
<1>. HIDE DEF task
<1>. QED  BY <1>1, <1>2, LinkKeeps DEF Drop

\* Nor is one that resumes.
LEMMA ResumeSessionKeeps ==
    ASSUME IInv, NEW a \in Accounts, ResumeSession(a)
    PROVE  IInv'
<1>. DEFINE news == Append(tasks[a].news, "resumed")
            task == [tasks[a] EXCEPT !.link = "up", !.news = news]
<1>1. tasks' = [tasks EXCEPT ![a] = task]
  BY DEF ResumeSession
<1>2. news \in Seq({"new", "resumed"})
  <2>1. tasks[a].news \in Seq({"new", "resumed"})
    BY TaskOf DEF Tasks
  <2>. QED  BY <2>1, AppendIs
<1>. HIDE DEF news
<1>3. /\ task \in Tasks /\ task.live = tasks[a].live /\ task.control = tasks[a].control
      /\ task.acc.assigned = tasks[a].acc.assigned
  BY <1>2, TaskOf DEF Tasks
<1>. HIDE DEF task
<1>. QED  BY <1>1, <1>3, LinkKeeps DEF ResumeSession

\* Nor a new session, whatever of the stanzas it loses.
LEMMA NewSessionKeeps ==
    ASSUME IInv, NEW a \in Accounts, NewSession(a)
    PROVE  IInv'
<1>1. PICK k \in 1 .. Len(tasks[a].acc.out) + 1 :
         tasks' = [tasks EXCEPT ![a].link = "up", ![a].news = Append(@, "new"),
                                ![a].acc.out = SubSeq(@, k, Len(@))]
  BY DEF NewSession
<1>. DEFINE news == Append(tasks[a].news, "new")
            acc == [tasks[a].acc EXCEPT !.out = SubSeq(@, k, Len(@))]
            task == [tasks[a] EXCEPT !.link = "up", !.news = news, !.acc = acc]
<1>2. tasks' = [tasks EXCEPT ![a] = task]
  BY <1>1
<1>3. news \in Seq({"new", "resumed"})
  <2>1. tasks[a].news \in Seq({"new", "resumed"})
    BY TaskOf DEF Tasks
  <2>. QED  BY <2>1, AppendIs
<1>4. Keeps(tasks[a].acc, acc)
  <2>1. tasks[a].acc \in Accs
    BY TaskOf
  <2>2. tasks[a].acc.out \in Seq(Stanzas)
    BY <2>1 DEF Accs
  <2>3. SubSeq(tasks[a].acc.out, k, Len(tasks[a].acc.out)) \in Seq(Stanzas)
    BY <2>2, SubSeqProperties, LenProperties
  <2>. QED  BY <2>1, <2>3 DEF Accs, Keeps
<1>. HIDE DEF news, acc
<1>5. /\ task \in Tasks /\ task.live = tasks[a].live /\ task.control = tasks[a].control
      /\ task.acc.assigned = tasks[a].acc.assigned
  BY <1>3, <1>4, TaskOf DEF Tasks, Keeps
<1>. HIDE DEF task
<1>. QED  BY <1>2, <1>5, LinkKeeps DEF NewSession

\* Nor an occupant that leaves.
LEMMA LeaveRoomKeeps ==
    ASSUME IInv, NEW a \in Accounts, LeaveRoom(a)
    PROVE  IInv'
<1>. DEFINE link == IF tasks[a].link = "down" \/ ~Alive(a) THEN "left" ELSE tasks[a].link
            task == [tasks[a] EXCEPT !.link = link]
<1>1. tasks' = [tasks EXCEPT ![a] = task]
  BY DEF LeaveRoom
<1>2. link \in {"asleep", "connecting", "up", "down", "left"}
  BY TaskOf DEF Tasks
<1>. HIDE DEF link
<1>3. /\ task \in Tasks /\ task.live = tasks[a].live /\ task.control = tasks[a].control
      /\ task.acc.assigned = tasks[a].acc.assigned
  BY <1>2, TaskOf DEF Tasks
<1>. HIDE DEF task
<1>. QED  BY <1>1, <1>3, LinkKeeps DEF LeaveRoom

\* Nor a stanza that is delivered.
LEMMA DeliverKeeps ==
    ASSUME IInv, NEW a \in Accounts, Deliver(a)
    PROVE  IInv'
<1>. DEFINE acc == [tasks[a].acc EXCEPT !.out = Tail(@)]
            task == [tasks[a] EXCEPT !.acc = acc]
<1>1. tasks' = [tasks EXCEPT ![a] = task]
  BY DEF Deliver
<1>2. Keeps(tasks[a].acc, acc)
  <2>1. tasks[a].acc \in Accs /\ tasks[a].acc.out # <<>>
    BY TaskOf DEF Deliver
  <2>2. tasks[a].acc.out \in Seq(Stanzas)
    BY <2>1 DEF Accs
  <2>3. Tail(tasks[a].acc.out) \in Seq(Stanzas)
    BY <2>1, <2>2, TailIs
  <2>. QED  BY <2>1, <2>3 DEF Accs, Keeps
<1>. HIDE DEF acc
<1>3. /\ task \in Tasks /\ task.live = tasks[a].live /\ task.control = tasks[a].control
      /\ task.acc.assigned = tasks[a].acc.assigned
  BY <1>2, TaskOf DEF Tasks, Keeps
<1>. HIDE DEF task
<1>. QED  BY <1>1, <1>3, LinkKeeps DEF Deliver

-----------------------------------------------------------------------------
(* The games' threads.                                                     *)

\* A game that runs goes on, and its channel with it.
LEMMA PushKeeps ==
    ASSUME IInv, NEW g \in GameIds, NEW game \in Games, NEW more \in Seq(GameEvents),
           Push(g, game, more), games[g].phase \notin {"none", "destroyed"},
           game.phase \notin {"none", "destroyed"}, game.host = games[g].host,
           game.resumed = games[g].resumed, game.account = games[g].account,
           UNCHANGED <<plan, main, tasks, room, events, left>>
    PROVE  IInv'
<1>. DEFINE pushed == [game EXCEPT !.chan = @ \o more]
<1>1. games' = [games EXCEPT ![g] = pushed]
  BY DEF Push
<1>2. game.chan \o more \in Seq(GameEvents)
  <2>1. game.chan \in Seq(GameEvents)
    BY DEF Games
  <2>. QED  BY <2>1, ConcatProperties
<1>3. /\ pushed \in Games /\ pushed.phase = game.phase /\ pushed.host = game.host
      /\ pushed.resumed = game.resumed /\ pushed.account = game.account
  BY <1>2 DEF Games
<1>. HIDE DEF pushed
<1>4. GamesKept
  BY <1>1, <1>3, GameKeeps
<1>. QED  BY <1>4, SameTold, QuietKeeps

\* The fields of a game and the events it sends.
LEMMA GameOf ==
    ASSUME IInv, NEW g \in GameIds
    PROVE  /\ games[g] \in Games /\ games[g].rev \in Nat /\ g \in Nat
           /\ \A rev \in Nat : Listing(g, rev) \in GameEvents
           /\ Event("started") \in GameEvents /\ Event("ended") \in GameEvents
           /\ Event("unlisted") \in GameEvents
<1>1. games[g] \in Games /\ g \in Nat
  BY DEF IInv, Typed, GameIds
<1>2. games[g].rev \in Nat
  BY <1>1 DEF Games
<1>3. \A rev \in Nat : <<g, rev>> \in Attrs
  BY <1>1 DEF Attrs
<1>. QED  BY <1>1, <1>2, <1>3 DEF Listing, Event, GameEvents

\* What a game sends at once.
LEMMA EventsAreSeq ==
    ASSUME NEW e \in GameEvents, NEW f \in GameEvents
    PROVE  <<>> \in Seq(GameEvents) /\ <<e>> \in Seq(GameEvents) /\ <<e, f>> \in Seq(GameEvents)
           /\ <<e>> \o <<f>> \in Seq(GameEvents) /\ <<e>> \o <<>> \in Seq(GameEvents)
OBVIOUS

\* A game that opens stays in the pool.
LEMMA OpenKeeps ==
    ASSUME IInv, NEW g \in GameIds, Open(g)
    PROVE  IInv'
<1>. DEFINE phase == IF games[g].phase = "boot" /\ games[g].resumed THEN "match" ELSE "setup"
            game == [games[g] EXCEPT !.phase = phase]
            more == IF Hidden(game) THEN <<>>
                    ELSE IF game.resumed THEN <<Listing(g, 0), Event("started")>>
                    ELSE <<Listing(g, 0)>>
<1>1. Push(g, game, more)
  BY DEF Open
<1>2. phase \in {"match", "setup"}
  OBVIOUS
<1>. HIDE DEF phase
<1>3. /\ game \in Games /\ game.phase = phase /\ game.host = games[g].host
      /\ game.resumed = games[g].resumed /\ game.account = games[g].account
  BY <1>2, GameOf DEF Games
<1>. HIDE DEF game
<1>4. more \in Seq(GameEvents)
  BY GameOf, EventsAreSeq
<1>. HIDE DEF more
<1>. QED  BY <1>1, <1>2, <1>3, <1>4, PushKeeps DEF Open

\* So does one whose slots change,
LEMMA ChangeSlotsKeeps ==
    ASSUME IInv, NEW g \in GameIds, ChangeSlots(g)
    PROVE  IInv'
<1>. DEFINE game == [games[g] EXCEPT !.rev = @ + 1]
            more == <<Listing(g, games[g].rev + 1)>>
<1>1. Push(g, game, more)
  BY DEF ChangeSlots
<1>2. /\ game \in Games /\ game.phase = games[g].phase /\ game.host = games[g].host
      /\ game.resumed = games[g].resumed /\ game.account = games[g].account
  BY GameOf DEF Games
<1>. HIDE DEF game
<1>3. more \in Seq(GameEvents)
  BY GameOf, EventsAreSeq
<1>. HIDE DEF more
<1>. QED  BY <1>1, <1>2, <1>3, PushKeeps DEF ChangeSlots

\* one that starts,
LEMMA StartMatchKeeps ==
    ASSUME IInv, NEW g \in GameIds, StartMatch(g)
    PROVE  IInv'
<1>. DEFINE game == [games[g] EXCEPT !.phase = "match"]
            more == IF Hidden(games[g]) THEN <<>> ELSE <<Event("started")>>
<1>1. Push(g, game, more)
  BY DEF StartMatch
<1>2. /\ game \in Games /\ game.phase = "match" /\ game.host = games[g].host
      /\ game.resumed = games[g].resumed /\ game.account = games[g].account
  BY GameOf DEF Games
<1>. HIDE DEF game
<1>3. more \in Seq(GameEvents)
  BY GameOf, EventsAreSeq
<1>. HIDE DEF more
<1>. QED  BY <1>1, <1>2, <1>3, PushKeeps DEF StartMatch

\* one that is decided,
LEMMA DecideKeeps ==
    ASSUME IInv, NEW g \in GameIds, Decide(g)
    PROVE  IInv'
<1>. DEFINE game == [games[g] EXCEPT !.phase = "over"]
            more == <<Event("ended")>>
<1>1. Push(g, game, more)
  BY DEF Decide
<1>2. /\ game \in Games /\ game.phase = "over" /\ game.host = games[g].host
      /\ game.resumed = games[g].resumed /\ game.account = games[g].account
  BY GameOf DEF Games
<1>. HIDE DEF game
<1>3. more \in Seq(GameEvents)
  BY GameOf, EventsAreSeq
<1>. HIDE DEF more
<1>. QED  BY <1>1, <1>2, <1>3, PushKeeps DEF Decide

\* one its player comes into,
LEMMA PlayerArrivesKeeps ==
    ASSUME IInv, NEW g \in GameIds, PlayerArrives(g)
    PROVE  IInv'
<1>. DEFINE rev == games[g].rev + 1
            game == [games[g] EXCEPT !.here = TRUE, !.rev = rev]
            more == <<Listing(g, rev)>> \o
                    IF games[g].phase = "match" THEN <<Event("started")>> ELSE <<>>
<1>1. Push(g, game, more)
  BY DEF PlayerArrives
<1>2. rev \in Nat
  BY GameOf
<1>3. more \in Seq(GameEvents)
  <2>. HIDE DEF rev
  <2>1. Listing(g, rev) \in GameEvents /\ Event("started") \in GameEvents
    BY <1>2, GameOf
  <2>2. <<Listing(g, rev)>> \in Seq(GameEvents) /\ <<Event("started")>> \in Seq(GameEvents)
        /\ <<>> \in Seq(GameEvents)
    BY <2>1, EventsAreSeq
  <2>. QED  BY <2>2, ConcatProperties
<1>. HIDE DEF more, rev
<1>4. /\ game \in Games /\ game.phase = games[g].phase /\ game.host = games[g].host
      /\ game.resumed = games[g].resumed /\ game.account = games[g].account
  BY <1>2, GameOf DEF Games
<1>. HIDE DEF game
<1>. QED  BY <1>1, <1>3, <1>4, PushKeeps DEF PlayerArrives

\* one its player leaves,
LEMMA PlayerLeavesKeeps ==
    ASSUME IInv, NEW g \in GameIds, PlayerLeaves(g)
    PROVE  IInv'
<1>. DEFINE game == [games[g] EXCEPT !.here = FALSE]
            more == <<Event("unlisted")>>
<1>1. Push(g, game, more)
  BY DEF PlayerLeaves
<1>2. /\ game \in Games /\ game.phase = games[g].phase /\ game.host = games[g].host
      /\ game.resumed = games[g].resumed /\ game.account = games[g].account
  BY GameOf DEF Games
<1>. HIDE DEF game
<1>3. more \in Seq(GameEvents)
  BY GameOf, EventsAreSeq
<1>. HIDE DEF more
<1>. QED  BY <1>1, <1>2, <1>3, PushKeeps DEF PlayerLeaves, Running

\* and one whose thread is gone, until the main task hears of it.
LEMMA ExitKeeps ==
    ASSUME IInv, NEW g \in GameIds, Exit(g)
    PROVE  IInv'
<1>. DEFINE game == [games[g] EXCEPT !.phase = "gone", !.here = FALSE]
<1>1. Push(g, game, <<>>)
  BY DEF Exit
<1>2. /\ game \in Games /\ game.phase = "gone" /\ game.host = games[g].host
      /\ game.resumed = games[g].resumed /\ game.account = games[g].account
  BY GameOf DEF Games
<1>. HIDE DEF game
<1>3. <<>> \in Seq(GameEvents)
  BY EmptySeq
<1>. QED  BY <1>1, <1>2, <1>3, PushKeeps DEF Exit, Running

-----------------------------------------------------------------------------
(* The main task.                                                          *)

\* The least of a set of numbers is one of them.
LEMMA MinIs ==
    ASSUME NEW S \in SUBSET Nat, S # {}
    PROVE  Min(S) \in S
<1>1. PICK m \in S : \A k \in S : <<k, m>> \notin OpToRel(<, Nat)
  BY WFMin, NatLessThanWellFounded, Zenon
<1>2. \A k \in S : ~(k < m)
  BY <1>1, Zenon DEF OpToRel
<1>3. \A k \in S : m <= k
  BY <1>2
<1>. QED  BY <1>3, Zenon DEF Min

\* The account that is reserved is one that was free.
LEMMA FreeAccountIs ==
    ASSUME NEW preferred, Typed, ~(Accounts \subseteq main.inUse)
    PROVE  FreeAccount(preferred) \in Accounts /\ FreeAccount(preferred) \notin main.inUse
<1>. DEFINE free == Accounts \ main.inUse
<1>1. free # {} /\ free \in SUBSET Nat
  BY DEF Accounts
<1>2. Min(free) \in free
  BY <1>1, MinIs
<1>. QED  BY <1>2 DEF FreeAccount

\* The fields of the main task.
LEMMA MainIs ==
    ASSUME IInv
    PROVE  /\ main \in Mains /\ main.job \in Jobs \cup {None} /\ main.active \subseteq Name
           /\ main.saved \in Seq([host : Name, account : Nat])
           /\ main.inUse \subseteq Accounts /\ main.refused \subseteq Accounts
           /\ main.senderOf \in [Accounts -> Name \cup {None}]
           /\ main.gameOf \in [Accounts -> GameIds \cup {None}]
           /\ main.next \in 1 .. plan.games + 1 /\ main.next \in Nat
           /\ plan \in Plans /\ tasks \in [Accounts -> Tasks] /\ games \in [GameIds -> Games]
           /\ events \in Seq(Events)
<1>1. plan.games \in Nat
  BY PlanIs DEF IInv, Typed
<1>. QED  BY <1>1 DEF IInv, Typed, Mains

\* A saved match takes a free account, or the main task waits with none left.
LEMMA HostSavedKeeps ==
    ASSUME IInv, HostSaved
    PROVE  IInv'
<1>1. CASE main' = [main EXCEPT !.at = "waiting"] /\ (main.saved = <<>> \/ Accounts \subseteq main.inUse)
  <2>1. HostsKept /\ main'.at = "waiting" /\ main'.saved = main.saved /\ main'.inUse = main.inUse
        /\ main'.refused = main.refused
    BY <1>1, MainIs DEF HostsKept, Mains
  <2>2. main.at # "stopped" => JobPlaced' /\ ReservedForAReason' /\ SavedFirst' /\ (SavedLeft' => SavedLeft)
    BY <1>1, <2>1 DEF IInv, Hosting, JobPlaced, ReservedForAReason, SavedFirst, SavedLeft, HostSaved, HostsKept, Accounts
  <2>. QED  BY <2>1, <2>2, StepKeeps, SameGames, SameTold DEF HostSaved
<1>2. CASE ~(main.saved = <<>> \/ Accounts \subseteq main.inUse)
  <2>. DEFINE match == Head(main.saved)
              job == [account |-> FreeAccount(match.account), host |-> match.host, saved |-> TRUE]
              rest == Tail(main.saved)
  <2>1. main' = [main EXCEPT !.saved = rest, !.at = "hosting", !.job = job, !.inUse = @ \cup {job.account}]
    BY <1>2, MainIs DEF HostSaved, Reserved, Mains
  <2>2. match \in [host : Name, account : Nat] /\ rest \in Seq([host : Name, account : Nat])
    BY <1>2, MainIs, TailIs
  <2>3. job \in Jobs /\ job.account \notin main.inUse /\ job.saved
    BY <1>2, <2>2, FreeAccountIs DEF IInv, Jobs
  <2>. HIDE DEF job, rest
  <2>4. job.account \in Accounts
    BY <2>3 DEF Jobs
  <2>5. HostsKept /\ main'.at = "hosting" /\ main'.inUse = main.inUse \cup {job.account}
        /\ main'.refused = main.refused /\ main'.job = job
    BY <2>1, <2>2, <2>3, <2>4, MainIs DEF HostsKept, Mains
  <2>6. main.at # "stopped" => JobPlaced' /\ ReservedForAReason' /\ SavedFirst'
    BY <2>3, <2>4, <2>5, MainIs
       DEF IInv, Hosting, JobPlaced, ReservedForAReason, SavedFirst, HostSaved, HostsKept, Accounts
  <2>7. SavedLeft
    BY <1>2 DEF SavedLeft
  <2>. QED  BY <2>3, <2>5, <2>6, <2>7, StepKeeps, SameGames, SameTold DEF HostSaved
<1>. QED  BY <1>1, <1>2 DEF HostSaved

\* The next game of the one player: the account has none, so no name is taken.
LEMMA HostPersonalKeeps ==
    ASSUME IInv, HostPersonal
    PROVE  IInv'
<1>1. plan.personal /\ plan.accounts = 1 /\ plan.name \in Name /\ 1 \in Accounts
      /\ \A a \in Accounts : a = 1
  BY PlanIs DEF HostPersonal, IInv, Typed, Accounts
<1>2. CASE main' = [main EXCEPT !.at = "quitting"]
  <2>1. HostsKept /\ main'.at = "quitting" /\ main'.saved = main.saved /\ main'.inUse = main.inUse
        /\ main'.refused = main.refused
    BY <1>2, MainIs DEF HostsKept, Mains
  <2>2. main.at # "stopped" => JobPlaced' /\ ReservedForAReason' /\ SavedFirst' /\ (SavedLeft' => SavedLeft)
    BY <2>1 DEF IInv, Hosting, JobPlaced, ReservedForAReason, SavedFirst, SavedLeft, HostPersonal, HostsKept, Accounts
  <2>. QED  BY <2>1, <2>2, StepKeeps, SameGames, SameTold DEF HostPersonal
<1>3. CASE 1 \notin main.inUse
  <2>. DEFINE job == [account |-> 1, host |-> plan.name, saved |-> main.saved # <<>>]
  <2>1. main' = [main EXCEPT !.saved = <<>>, !.at = "hosting", !.job = job, !.inUse = @ \cup {job.account}]
    BY <1>3, MainIs DEF HostPersonal, Reserved, Mains
  <2>2. job \in Jobs /\ job.account = 1
    BY <1>1 DEF Jobs
  <2>3. main.at # "stopped" => main.active = {} /\ main.gameOf[1] = None
    BY <1>1, <1>3, MainIs, NoneApart DEF IInv, Hosting, NamesPlaced, ReservedForAReason
  <2>. HIDE DEF job
  <2>4. <<>> \in Seq([host : Name, account : Nat])
    BY EmptySeq
  <2>5. HostsKept /\ main'.at = "hosting" /\ main'.inUse = main.inUse \cup {1}
        /\ main'.refused = main.refused /\ main'.job = job /\ main'.saved = <<>>
    BY <1>1, <2>1, <2>2, <2>4, MainIs DEF HostsKept, Mains
  <2>6. main.at # "stopped" => JobPlaced' /\ ReservedForAReason' /\ SavedFirst'
    BY <1>1, <2>2, <2>3, <2>5, MainIs
       DEF IInv, Hosting, JobPlaced, ReservedForAReason, SavedFirst, HostPersonal, HostsKept, Accounts
  <2>7. SavedLeft' => SavedLeft
    <3>1. job.saved => main.saved # <<>>
      BY DEF job
    <3>. QED  BY <2>5, <3>1 DEF SavedLeft
  <2>. QED  BY <1>1, <2>2, <2>5, <2>6, <2>7, StepKeeps, SameGames, SameTold DEF HostPersonal
<1>. QED  BY <1>2, <1>3 DEF HostPersonal

\* A hostme that is taken comes from nobody who hosts, for an account without a game.
LEMMA TakeHostmeKeeps ==
    ASSUME IInv, TakeHostme
    PROVE  IInv'
<1>. DEFINE event == Head(events)
            job == [account |-> event.account, host |-> event.sender, saved |-> FALSE]
<1>1. /\ event \in Events /\ event.kind = "hostme" /\ events' \in Seq(Events)
      /\ \A a \in Accounts : /\ Unreported(events, a) => Unreported(events', a)
                             /\ ReportedOnce(events, a) => ReportedOnce(events', a)
  <2>1. events # <<>> /\ events' = Tail(events) /\ event.kind = "hostme" /\ events \in Seq(Events)
    BY MainIs DEF TakeHostme
  <2>2. \A a \in Accounts : ~Reported(event, a)
    BY <2>1 DEF Reported
  <2>. HIDE DEF event
  <2>. QED  BY <2>1, <2>2, TailIs, ReportTail DEF event
<1>2. event.account \in Accounts /\ event.sender \in Name
  <2>. HIDE DEF event
  <2>. QED  BY <1>1 DEF Events
<1>3. ToldKept
  BY <1>1, MainIs DEF ToldKept, Told1, Telling, TakeHostme, IInv, Typed
<1>4. CASE main' = main
  BY <1>3, <1>4, QuietKeeps, SameGames DEF TakeHostme
<1>5. CASE /\ ~plan.personal /\ event.sender \notin main.active /\ event.account \notin main.inUse
           /\ main' = Reserved(main, job)
  <2>1. job \in Jobs /\ job.account \in Accounts /\ job.account \notin main.inUse /\ ~job.saved
        /\ job.host \notin main.active
    BY <1>2, <1>5 DEF Jobs
  <2>2. main' = [main EXCEPT !.at = "hosting", !.job = job, !.inUse = @ \cup {job.account}]
    BY <1>5 DEF Reserved
  <2>. HIDE DEF job
  <2>3. HostsKept /\ main'.at = "hosting" /\ main'.inUse = main.inUse \cup {job.account}
        /\ main'.refused = main.refused /\ main'.job = job /\ main'.saved = main.saved
    BY <2>1, <2>2, MainIs DEF HostsKept, Mains
  <2>4. main.at = "waiting" /\ plan' = plan
    BY DEF TakeHostme
  <2>5. main.at # "stopped" => JobPlaced' /\ ReservedForAReason' /\ SavedFirst' /\ (SavedLeft' => SavedLeft)
    BY <1>5, <2>1, <2>3, <2>4, MainIs
       DEF IInv, Hosting, JobPlaced, ReservedForAReason, SavedFirst, SavedLeft, HostsKept, Accounts
  <2>. QED  BY <1>3, <2>1, <2>3, <2>4, <2>5, StepKeeps, SameGames DEF TakeHostme
<1>6. \/ main' = main
      \/ /\ ~plan.personal /\ event.sender \notin main.active /\ event.account \notin main.inUse
         /\ main' = Reserved(main, job)
  BY Zenon DEF TakeHostme
<1>. QED  BY <1>4, <1>5, <1>6

\* What an account is told is behind what it was told before, if its queue takes it.
LEMMA ToldIs ==
    ASSUME IInv, NEW a \in Accounts, NEW m \in Messages, NEW t, t = Told(a, m)
    PROVE  /\ t \in [Accounts -> Tasks] /\ \A b \in Accounts : b # a => t[b] = tasks[b]
           /\ Len(t[a].control) <= ControlCap
           /\ t[a].live = tasks[a].live /\ t[a].acc = tasks[a].acc
           /\ Accepts(a) => t[a].control = Append(tasks[a].control, m)
           /\ ~Accepts(a) => t = tasks
<1>1. tasks \in [Accounts -> Tasks] /\ tasks[a] \in Tasks /\ Len(tasks[a].control) <= ControlCap
  BY DEF IInv, Typed
<1>2. CASE ~Accepts(a)
  BY <1>1, <1>2 DEF Told
<1>3. CASE Accepts(a)
  <2>. DEFINE c == Append(tasks[a].control, m)
              task == [tasks[a] EXCEPT !.control = c]
  <2>1. tasks[a].control \in Seq(Messages)
    BY <1>1 DEF Tasks
  <2>2. c \in Seq(Messages) /\ Len(c) = Len(tasks[a].control) + 1 /\ Len(tasks[a].control) \in Nat
    BY <2>1, AppendIs
  <2>3. Len(c) <= ControlCap
    BY <1>3, <2>2, HostingAssumption DEF Accepts
  <2>4. t = [tasks EXCEPT ![a] = task]
    BY <1>3 DEF Told
  <2>. HIDE DEF c
  <2>5. task \in Tasks /\ task.control = c /\ task.live = tasks[a].live /\ task.acc = tasks[a].acc
    BY <1>1, <2>2 DEF Tasks
  <2>. HIDE DEF task
  <2>. QED  BY <1>1, <1>3, <2>3, <2>4, <2>5 DEF c
<1>. QED  BY <1>2, <1>3

\* The messages without a game.
LEMMA ControlIs == Control("release") \in Messages /\ Control("shutdown") \in Messages
BY DEF Control, Messages

\* An account without a game may be released, and any may be shut down.
LEMMA TellKeeps ==
    ASSUME IInv, NEW a \in Accounts, NEW m \in Messages, NEW t, t = Told(a, m), NEW g, NEW es,
           (m.kind = "release" /\ g = None) \/ m.kind = "shutdown", Told1(g, tasks[a], es, a)
    PROVE  Told1(g, t[a], es, a)
<1>1. CASE ~Accepts(a)
  BY <1>1, ToldIs
<1>2. CASE Accepts(a)
  <2>. DEFINE c == tasks[a].control
  <2>1. t[a].live = tasks[a].live /\ t[a].acc = tasks[a].acc /\ t[a].control = Append(c, m)
    BY <1>2, ToldIs
  <2>2. c \in Seq(Messages)
    BY TaskOf DEF Tasks
  <2>. HIDE DEF c
  <2>3. /\ m.kind # "assign" /\ Orderless(c) => Orderless(t[a].control)
        /\ m.kind # "release" /\ Unreleased(c) => Unreleased(t[a].control)
        /\ m.kind \notin {"assign", "release"} /\ OrderedLast(c, g) => OrderedLast(t[a].control, g)
    BY <2>1, <2>2, QueueAppend
  <2>. QED  BY <2>1, <2>3 DEF Told1, Telling, c
<1>. QED  BY <1>1, <1>2

\* A game that could not be made gives its account back.
LEMMA HostFailsKeeps ==
    ASSUME IInv, HostFails
    PROVE  IInv'
<1>. DEFINE job == main.job
            a == job.account
            at == IF plan.personal THEN "quitting" ELSE IF job.saved THEN "saving" ELSE "waiting"
<1>1. job \in Jobs /\ a \in Accounts /\ main.at = "hosting"
  BY DEF IInv, Typed, Jobs, HostFails
<1>2. main' = [main EXCEPT !.inUse = @ \ {a}, !.job = None, !.at = at]
  BY MainIs DEF HostFails, Resumes, Released, Mains
<1>3. at \in {"quitting", "saving", "waiting"} /\ (at = "waiting" => ~plan.personal /\ ~job.saved)
  OBVIOUS
<1>. HIDE DEF at
<1>4. HostsKept /\ main'.at = at /\ main'.inUse = main.inUse \ {a} /\ main'.refused = main.refused
      /\ main'.saved = main.saved
  BY <1>2, <1>3, MainIs DEF HostsKept, Mains
<1>5. main.gameOf[a] = None /\ (~job.saved => main.saved = <<>>)
  BY <1>1 DEF IInv, Hosting, JobPlaced
<1>6. main.at # "stopped" => JobPlaced' /\ ReservedForAReason' /\ SavedFirst' /\ (SavedLeft' => SavedLeft)
  BY <1>1, <1>3, <1>4, <1>5, MainIs
     DEF IInv, Hosting, JobPlaced, ReservedForAReason, SavedFirst, SavedLeft, HostsKept, Accounts, HostFails
<1>7. ToldKept
  <2>1. tasks' = Told(a, Control("release")) /\ events' = events
    BY DEF HostFails
  <2>2. Control("release").kind = "release"
    BY DEF Control
  <2>3. tasks' \in [Accounts -> Tasks] /\ (\A b \in Accounts : b # a => tasks'[b] = tasks[b])
        /\ Len(tasks'[a].control) <= ControlCap
    BY <1>1, <2>1, ControlIs, ToldIs
  <2>4. Told1(main.gameOf[a], tasks[a], events, a) => Told1(main.gameOf[a], tasks'[a], events, a)
    BY <1>1, <1>5, <2>1, <2>2, ControlIs, TellKeeps
  <2>. QED  BY <2>1, <2>3, <2>4 DEF ToldKept, IInv, Typed
<1>. QED  BY <1>1, <1>3, <1>4, <1>6, <1>7, StepKeeps, SameGames DEF HostFails

\* To stop hosting changes nothing of what is hosted.
LEMMA TakeSignalKeeps ==
    ASSUME IInv, TakeSignal
    PROVE  IInv'
<1>1. main' = [main EXCEPT !.at = "quitting"] /\ main.at = "waiting"
  BY DEF TakeSignal
<1>2. HostsKept /\ main'.at = "quitting" /\ main'.inUse = main.inUse /\ main'.refused = main.refused
  BY <1>1, MainIs DEF HostsKept, Mains
<1>3. main.at # "stopped" => JobPlaced' /\ ReservedForAReason' /\ SavedFirst' /\ (SavedLeft' => SavedLeft)
  BY <1>1, <1>2 DEF IInv, Hosting, JobPlaced, ReservedForAReason, SavedFirst, SavedLeft, HostsKept, Accounts, TakeSignal
<1>. QED  BY <1>1, <1>2, <1>3, StepKeeps, SameGames, SameTold DEF TakeSignal

\* The shutdown goes behind whatever the accounts were told.
LEMMA ShutAccountsKeeps ==
    ASSUME IInv, ShutAccounts
    PROVE  IInv'
<1>1. main' = [main EXCEPT !.at = "closing"] /\ main.at = "quitting"
  BY DEF ShutAccounts
<1>2. HostsKept /\ main'.at = "closing" /\ main'.inUse = main.inUse /\ main'.refused = main.refused
  BY <1>1, MainIs DEF HostsKept, Mains
<1>3. main.at # "stopped" => JobPlaced' /\ ReservedForAReason' /\ SavedFirst' /\ (SavedLeft' => SavedLeft)
  BY <1>1, <1>2 DEF IInv, Hosting, JobPlaced, ReservedForAReason, SavedFirst, SavedLeft, HostsKept, Accounts, ShutAccounts
<1>4. ToldKept
  <2>. DEFINE t(a) == Told(a, Control("shutdown"))
  <2>1. tasks' = [a \in Accounts |-> t(a)[a]] /\ events' = events
    BY DEF ShutAccounts
  <2>2. Control("shutdown").kind = "shutdown"
    BY DEF Control
  <2>3. ASSUME NEW a \in Accounts
        PROVE  /\ t(a)[a] \in Tasks /\ Len(t(a)[a].control) <= ControlCap
               /\ Told1(main.gameOf[a], tasks[a], events, a) => Told1(main.gameOf[a], t(a)[a], events, a)
    <3>1. t(a) \in [Accounts -> Tasks] /\ Len(t(a)[a].control) <= ControlCap
      BY ControlIs, ToldIs
    <3>2. Told1(main.gameOf[a], tasks[a], events, a) => Told1(main.gameOf[a], t(a)[a], events, a)
      BY <2>2, ControlIs, TellKeeps
    <3>. QED  BY <3>1, <3>2
  <2>. HIDE DEF t
  <2>4. tasks' \in [Accounts -> Tasks] /\ \A a \in Accounts : tasks'[a] = t(a)[a]
    BY <2>1, <2>3
  <2>. QED  BY <2>1, <2>3, <2>4, MainIs DEF ToldKept
<1>. QED  BY <1>1, <1>2, <1>3, <1>4, StepKeeps, SameGames DEF ShutAccounts

\* The pool is dropped, and nothing is promised of it any more.
LEMMA DropPoolKeeps ==
    ASSUME IInv, DropPool
    PROVE  IInv'
<1>1. main' = [main EXCEPT !.at = "stopped"]
  BY DEF DropPool
<1>2. main' \in Mains /\ main'.at = "stopped"
  BY <1>1, MainIs DEF Mains
<1>3. games' \in [GameIds -> Games]
  <2>1. ASSUME NEW game \in Games PROVE [game EXCEPT !.phase = "destroyed"] \in Games
    BY DEF Games
  <2>. QED  BY <2>1, MainIs DEF DropPool, Destroyed
<1>4. Typed'
  BY <1>2, <1>3 DEF DropPool, IInv, Typed, Accounts, GameIds, Mains, Tasks, Games, Accs, Jobs,
         Messages, Events, GameEvents, Stanzas
<1>. QED  BY <1>2, <1>4 DEF IInv

\* The next game starts, and its account is told, or has refused it.
LEMMA HostGameKeeps ==
    ASSUME IInv, HostGame
    PROVE  IInv'
<1>0. PICK job, a, g : job = main.job /\ a = job.account /\ g = main.next
  OBVIOUS
<1>. DEFINE order == [kind |-> "assign", game |-> g]
            at == IF plan.personal THEN (IF Accepts(a) THEN "waiting" ELSE "quitting")
                  ELSE IF job.saved THEN "saving" ELSE "waiting"
            game == IF Accepts(a) THEN Created(job) ELSE [Created(job) EXCEPT !.phase = "destroyed"]
<1>1. /\ games' = [games EXCEPT ![g] = game] /\ tasks' = Told(a, order)
      /\ main' = Resumes(IF Accepts(a) THEN Hosted(main, job, g) ELSE Refused(main, job, g),
                         job, Accepts(a))
      /\ UNCHANGED <<plan, room, events, left>>
      /\ g \in GameIds /\ main.at = "hosting"
  BY <1>0, Zenon DEF HostGame
<1>2. job \in Jobs /\ a \in Accounts /\ job.host \in Name /\ job.saved \in BOOLEAN /\ job.host # None
  BY <1>0, <1>1, NoneApart DEF IInv, Typed, Jobs
<1>3. order \in Messages /\ g \in Nat /\ g # None /\ g + 1 \in 1 .. plan.games + 1
  BY <1>0, <1>1, MainIs, NoneApart, PlanIs DEF Messages, GameIds
<1>4. /\ Typed /\ Hosting /\ main.gameOf[a] = None /\ main.senderOf[a] = None /\ a \in main.inUse
      /\ (~job.saved => job.host \notin main.active)
      /\ (~job.saved => main.saved = <<>>)
      /\ games[g].phase = "none" /\ (\A h \in GameIds : h > g => games[h].phase = "none")
      /\ job.saved \/ main.saved # <<>> => \A h \in GameIds : games[h].phase # "none" => games[h].resumed
  <2>1. Typed /\ Hosting /\ main.gameOf[a] = None /\ main.senderOf[a] = None /\ a \in main.inUse
        /\ (~job.saved => job.host \notin main.active)
        /\ (~job.saved => main.saved = <<>>)
    BY <1>0, <1>1, <1>2, <1>3, MainIs DEF IInv, Hosting, JobPlaced, NamesPlaced, GamesPlaced
  <2>2. \A h \in GameIds : h >= g => games[h].phase = "none"
    BY <1>0, <2>1 DEF Hosting, GamesPlaced
  <2>3. job.saved \/ main.saved # <<>> => \A h \in GameIds : games[h].phase # "none" => games[h].resumed
    BY <1>0, <1>1, <2>1 DEF Hosting, SavedCameFirst, SavedLeft
  <2>. QED  BY <1>1, <1>3, <2>1, <2>2, <2>3 DEF GameIds
<1>5. at \in {"waiting", "quitting", "saving"} /\ (at = "waiting" /\ ~plan.personal => ~job.saved)
  OBVIOUS
<1>6. /\ game \in Games /\ game.host = job.host /\ game.resumed = job.saved /\ game.account = a
      /\ game.phase = IF Accepts(a) THEN "boot" ELSE "destroyed"
  <2>1. <<>> \in Seq(GameEvents)
    BY EmptySeq
  <2>. QED  BY <1>0, <1>2, <2>1 DEF Created, NoGame, Games
<1>. HIDE DEF game, order, at
<1>7. /\ games' \in [GameIds -> Games] /\ games'[g] = game
      /\ \A h \in GameIds : h # g => games'[h] = games[h]
  BY <1>1, <1>6, MainIs
<1>8. /\ tasks' \in [Accounts -> Tasks] /\ \A b \in Accounts : b # a => tasks'[b] = tasks[b]
      /\ Len(tasks'[a].control) <= ControlCap
      /\ tasks'[a].live = tasks[a].live /\ tasks'[a].acc = tasks[a].acc
      /\ Accepts(a) => tasks'[a].control = Append(tasks[a].control, order)
      /\ ~Accepts(a) => tasks' = tasks
  BY <1>1, <1>2, <1>3, ToldIs
<1>9. \A b \in Accounts : Len(tasks'[b].control) <= ControlCap
  BY <1>8 DEF IInv, Typed
<1>10. ASSUME main'.at = at, main'.saved = main.saved PROVE SavedCameFirst'
  <2>1. job.saved = game.resumed /\ (SavedLeft' => main.saved # <<>>) /\ GameIds' = GameIds
    BY <1>1, <1>5, <1>6, <1>10 DEF SavedLeft, GameIds
  <2>. SUFFICES ASSUME main.saved # <<>>, NEW h \in GameIds, games'[h].phase # "none"
                PROVE  games'[h].resumed
    BY <2>1 DEF SavedCameFirst
  <2>2. CASE h # g
    BY <1>4, <1>7, <2>2
  <2>3. CASE h = g
    <3>1. job.saved
      BY <1>4
    <3>. QED  BY <1>6, <1>7, <2>3, <3>1
  <2>. QED  BY <2>2, <2>3
\* Whoever claimed the name of an older game's host still does.
<1>11. ASSUME \A b \in Accounts : b # a => main'.senderOf[b] = main.senderOf[b],
              NEW k \in GameIds, k # g, Pooled(k)
       PROVE  \E h \in GameIds : Claims(h, k)'
  <2>1. PICK h \in GameIds : Claims(h, k)
    BY <1>4, <1>11 DEF Hosting, NamesKept
  <2>2. h # g /\ games'[h] = games[h] /\ games'[k] = games[k]
    BY <1>4, <1>7, <1>11, <2>1 DEF Claims, Holds, Pooled
  <2>3. Holds(h) => Holds(h)'
    <3>. SUFFICES ASSUME Holds(h) PROVE Holds(h)'
      OBVIOUS
    <3>1. games[h].account \in Accounts /\ main.gameOf[games[h].account] = h
      BY <1>4 DEF Holds, Hosting, GamesPlaced
    <3>2. games[h].account # a
      BY <1>4, <3>1, NoneApart
    <3>. QED  BY <1>11, <2>2, <3>1, <3>2 DEF Holds, Pooled
  <2>. QED  BY <2>1, <2>2, <2>3 DEF Claims
<1>12. CASE ~Accepts(a)
  <2>1. main' = [main EXCEPT !.refused = @ \cup {a}, !.next = g + 1, !.job = None, !.at = at]
    BY <1>0, <1>1, <1>12, MainIs DEF Refused, Resumes, Mains, at
  <2>2. /\ main' \in Mains /\ main'.at = at /\ main'.gameOf = main.gameOf /\ main'.senderOf = main.senderOf
        /\ main'.active = main.active /\ main'.inUse = main.inUse /\ main'.saved = main.saved
        /\ main'.refused = main.refused \cup {a} /\ main'.next = g + 1
    BY <1>2, <1>3, <1>5, <2>1, MainIs DEF Mains
  <2>3. EndsTold'
    BY <1>1, <1>4, <1>8, <1>12, <2>2 DEF Hosting, EndsTold, Accounts
  <2>4. \A h \in GameIds : Pooled(h)' <=> Pooled(h)
    BY <1>4, <1>6, <1>7, <1>12 DEF Pooled
  <2>5. GamesPlaced'
    <3>1. \A b \in Accounts : main.gameOf[b] # None => main.gameOf[b] # g /\ main.gameOf[b] \in GameIds
      BY <1>4, MainIs DEF Hosting, GamesPlaced, Pooled
    <3>2. \A b \in Accounts : main.gameOf[b] # None =>
             /\ games'[main.gameOf[b]].phase \notin {"none", "destroyed"}
             /\ games'[main.gameOf[b]].account = b
      BY <1>4, <1>7, <3>1 DEF Hosting, GamesPlaced, Pooled
    <3>3. \A h \in GameIds : Pooled(h)' =>
             games'[h].account \in Accounts /\ main.gameOf[games'[h].account] = h
      <4>1. \A h \in GameIds : Pooled(h)' => h # g /\ Pooled(h)
        BY <1>4, <2>4 DEF Pooled
      <4>. QED  BY <1>4, <1>7, <4>1 DEF Hosting, GamesPlaced
    <3>4. \A h \in GameIds : h >= g + 1 => games'[h].phase = "none"
      BY <1>0, <1>3, <1>4, <1>7 DEF Hosting, GamesPlaced, GameIds
    <3>5. Accounts' = Accounts /\ GameIds' = GameIds
      BY <1>1 DEF Accounts, GameIds
    <3>. QED  BY <2>2, <3>2, <3>3, <3>4, <3>5 DEF GamesPlaced, Pooled
  <2>6. NamesPlaced'
    <3>1. \A b \in Accounts : main.senderOf[b] # None => games'[main.gameOf[b]] = games[main.gameOf[b]]
      BY <1>4, <1>7, MainIs DEF Hosting, GamesPlaced, NamesPlaced, Pooled
    <3>2. \A h \in GameIds : Pooled(h)' => Pooled(h) /\ games'[h] = games[h]
      BY <1>4, <1>7, <2>4 DEF Pooled
    <3>3. Accounts' = Accounts /\ GameIds' = GameIds
      BY <1>1 DEF Accounts, GameIds
    <3>4. NamesPlaced
      BY <1>4 DEF Hosting
    <3>. QED  BY <2>2, <3>1, <3>2, <3>3, <3>4 DEF NamesPlaced
  <2>7. JobPlaced' /\ ReservedForAReason' /\ SavedFirst'
    BY <1>0, <1>1, <1>4, <1>5, <2>2 DEF Hosting, JobPlaced, ReservedForAReason, SavedFirst, Accounts
  <2>8. Typed'
    BY <1>1, <1>4, <1>5, <1>7, <1>8, <1>9, <2>2
       DEF Typed, Accounts, GameIds, Mains, Tasks, Games, Accs, Jobs, Messages, Events, GameEvents, Stanzas
  <2>9. NamesKept'
    <3>1. \A k \in GameIds : Pooled(k)' => Pooled(k) /\ k # g
      BY <1>4, <2>4 DEF Pooled
    <3>2. GameIds' = GameIds
      BY <1>1 DEF GameIds
    <3>3. \A k \in GameIds : k # g /\ Pooled(k) => \E h \in GameIds : Claims(h, k)'
      BY <1>11, <2>2
    <3>. QED  BY <3>1, <3>2, <3>3 DEF NamesKept
  <2>10. SavedCameFirst'
    BY <1>10, <2>2
  <2>. QED  BY <2>3, <2>5, <2>6, <2>7, <2>8, <2>9, <2>10 DEF IInv, Hosting
<1>13. CASE Accepts(a)
  <2>. DEFINE senderOf == IF job.host \in main.active THEN main.senderOf
                          ELSE [main.senderOf EXCEPT ![a] = job.host]
              gameOf == [main.gameOf EXCEPT ![a] = g]
  <2>1. main' = [main EXCEPT !.active = @ \cup {job.host}, !.senderOf = senderOf, !.gameOf = gameOf,
                             !.next = g + 1, !.job = None, !.at = at]
    BY <1>0, <1>1, <1>2, <1>13, MainIs DEF Hosted, Resumes, Mains, at
  <2>2. /\ senderOf \in [Accounts -> Name \cup {None}] /\ gameOf \in [Accounts -> GameIds \cup {None}]
        /\ gameOf[a] = g /\ \A b \in Accounts : b # a => gameOf[b] = main.gameOf[b]
        /\ \A b \in Accounts : b # a => senderOf[b] = main.senderOf[b]
        /\ senderOf[a] = IF job.host \in main.active THEN None ELSE job.host
    BY <1>1, <1>2, <1>4, MainIs
  <2>. HIDE DEF senderOf, gameOf
  <2>3. /\ main' \in Mains /\ main'.at = at /\ main'.gameOf = gameOf /\ main'.senderOf = senderOf
        /\ main'.active = main.active \cup {job.host} /\ main'.inUse = main.inUse
        /\ main'.saved = main.saved /\ main'.refused = main.refused /\ main'.next = g + 1
    BY <1>2, <1>3, <1>5, <2>1, <2>2, MainIs DEF Mains
  <2>4. Told1(g, tasks'[a], events, a)
    <3>1. tasks[a].live = "running" /\ tasks[a].control \in Seq(Messages)
      BY <1>2, <1>13, TaskOf DEF Accepts, Tasks
    <3>2. Unreported(events, a) /\ tasks[a].acc.assigned = None /\ Orderless(tasks[a].control)
      BY <1>2, <1>4, <3>1 DEF Hosting, EndsTold, Told1
    <3>3. OrderedLast(tasks'[a].control, g)
      <4>1. order = [kind |-> "assign", game |-> g]
        BY DEF order
      <4>2. order = [kind |-> "assign", game |-> g] /\ Orderless(tasks[a].control) =>
               OrderedLast(tasks'[a].control, g)
        <5>1. tasks'[a].control = Append(tasks[a].control, order)
          BY <1>8, <1>13
        <5>. QED  BY <1>3, <3>1, <5>1, QueueAppend, Zenon
      <4>. QED  BY <3>2, <4>1, <4>2
    <3>. QED  BY <1>3, <1>8, <3>2, <3>3 DEF Told1, Telling
  <2>5. EndsTold'
    <3>. SUFFICES ASSUME NEW b \in Accounts'
                  PROVE  Told1(main.gameOf[b], tasks[b], events, b)'
      BY DEF EndsTold
    <3>1. b \in Accounts
      BY <1>1 DEF Accounts
    <3>2. Told1(gameOf[b], tasks'[b], events, b)
      BY <1>4, <1>8, <2>2, <2>4, <3>1 DEF Hosting, EndsTold
    <3>. QED  BY <1>1, <2>3, <3>2
  <2>6. Pooled(g)' /\ ~Pooled(g) /\ \A h \in GameIds : h # g => (Pooled(h)' <=> Pooled(h))
    BY <1>1, <1>4, <1>6, <1>7, <1>13 DEF Pooled
  <2>7. GamesPlaced'
    <3>1. \A b \in Accounts : b # a /\ main.gameOf[b] # None =>
             main.gameOf[b] # g /\ main.gameOf[b] \in GameIds
      BY <1>4, <2>6, MainIs DEF Hosting, GamesPlaced
    <3>2. \A b \in Accounts : gameOf[b] # None =>
             games'[gameOf[b]].phase \notin {"none", "destroyed"} /\ games'[gameOf[b]].account = b
      <4>. SUFFICES ASSUME NEW b \in Accounts, gameOf[b] # None
                    PROVE  /\ games'[gameOf[b]].phase \notin {"none", "destroyed"}
                           /\ games'[gameOf[b]].account = b
        OBVIOUS
      <4>1. CASE b = a
        BY <1>6, <1>7, <1>13, <2>2, <4>1
      <4>2. CASE b # a
        BY <1>4, <1>7, <2>2, <3>1, <4>2 DEF Hosting, GamesPlaced, Pooled
      <4>. QED  BY <4>1, <4>2
    <3>3. \A h \in GameIds : Pooled(h)' => games'[h].account \in Accounts /\ gameOf[games'[h].account] = h
      <4>. SUFFICES ASSUME NEW h \in GameIds, Pooled(h)'
                    PROVE  games'[h].account \in Accounts /\ gameOf[games'[h].account] = h
        OBVIOUS
      <4>1. CASE h = g
        BY <1>2, <1>6, <1>7, <2>2, <4>1
      <4>2. CASE h # g
        <5>1. games'[h] = games[h] /\ Pooled(h)
          BY <1>7, <2>6, <4>2
        <5>2. games[h].account \in Accounts /\ main.gameOf[games[h].account] = h
          BY <1>4, <5>1 DEF Hosting, GamesPlaced
        <5>. QED  BY <1>4, <2>2, <5>1, <5>2, NoneApart
      <4>. QED  BY <4>1, <4>2
    <3>4. \A h \in GameIds : h >= g + 1 => games'[h].phase = "none"
      BY <1>0, <1>3, <1>4, <1>7 DEF Hosting, GamesPlaced, GameIds
    <3>5. Accounts' = Accounts /\ GameIds' = GameIds
      BY <1>1 DEF Accounts, GameIds
    <3>. QED  BY <2>3, <3>2, <3>3, <3>4, <3>5 DEF GamesPlaced, Pooled
  <2>8. NamesPlaced'
    <3>1. \A b \in Accounts : b # a /\ main.gameOf[b] # None =>
             main.gameOf[b] # g /\ main.gameOf[b] \in GameIds
      BY <1>4, <2>6, MainIs DEF Hosting, GamesPlaced
    <3>2. ASSUME NEW b \in Accounts, senderOf[b] # None
          PROVE  /\ gameOf[b] # None /\ games'[gameOf[b]].host = senderOf[b]
                 /\ senderOf[b] \in main.active \cup {job.host}
                 /\ \A c \in Accounts : senderOf[c] = senderOf[b] => c = b
      BY <1>2, <1>3, <1>4, <1>6, <1>7, <2>2, <3>1, <3>2 DEF Hosting, NamesPlaced
    <3>3. ASSUME NEW s \in main.active \cup {job.host}
          PROVE  \E b \in Accounts : senderOf[b] = s
      <4>1. CASE s \in main.active
        <5>1. PICK b \in Accounts : main.senderOf[b] = s
          BY <1>4, <4>1 DEF Hosting, NamesPlaced
        <5>2. b # a
          BY <1>4, <4>1, <5>1, MainIs, NoneApart
        <5>. QED  BY <2>2, <5>1, <5>2
      <4>2. CASE s \notin main.active
        BY <1>2, <2>2, <3>3, <4>2
      <4>. QED  BY <4>1, <4>2
    <3>4. ASSUME NEW h \in GameIds, Pooled(h)', ~games'[h].resumed
          PROVE  games'[h].host # None /\ senderOf[games'[h].account] = games'[h].host
      <4>1. CASE h = g
        BY <1>2, <1>4, <1>6, <1>7, <2>2, <3>4, <4>1
      <4>2. CASE h # g
        <5>1. Pooled(h) /\ games'[h] = games[h]
          BY <1>7, <2>6, <3>4, <4>2
        <5>2. games[h].account \in Accounts /\ games[h].account # a
          BY <1>4, <5>1, NoneApart DEF Hosting, GamesPlaced
        <5>. QED  BY <1>4, <2>2, <3>4, <5>1, <5>2 DEF Hosting, NamesPlaced
      <4>. QED  BY <4>1, <4>2
    <3>. QED  BY <1>1, <2>3, <3>2, <3>3, <3>4 DEF NamesPlaced, Accounts, GameIds
  <2>9. JobPlaced' /\ ReservedForAReason' /\ SavedFirst'
    <3>1. JobPlaced' /\ SavedFirst'
      BY <1>1, <1>4, <1>5, <2>3 DEF Hosting, JobPlaced, SavedFirst, Accounts
    <3>2. \A b \in Accounts : /\ gameOf[b] # None => b \in main.inUse
                              /\ b \in main.inUse => gameOf[b] # None \/ b \in main.refused
      BY <1>0, <1>3, <1>4, <2>2 DEF Hosting, ReservedForAReason
    <3>. QED  BY <1>1, <2>3, <3>1, <3>2 DEF ReservedForAReason, Accounts
  <2>10. Typed'
    BY <1>1, <1>4, <1>5, <1>7, <1>8, <1>9, <2>3
       DEF Typed, Accounts, GameIds, Mains, Tasks, Games, Accs, Jobs, Messages, Events, GameEvents, Stanzas
  <2>11. NamesKept'
    <3>1. \E h \in GameIds : Claims(h, g)'
      <4>1. CASE job.host \in main.active
        <5>1. PICK b \in Accounts : main.senderOf[b] = job.host
          BY <1>4, <4>1 DEF Hosting, NamesPlaced
        <5>2. b # a
          BY <1>2, <1>4, <5>1
        <5>3. PICK h \in GameIds : h = main.gameOf[b] /\ Pooled(h) /\ games[h].account = b /\ games[h].host = job.host
          BY <1>2, <1>4, <5>1, MainIs DEF Hosting, NamesPlaced, GamesPlaced
        <5>4. h # g /\ games'[h] = games[h] /\ ~(h > g) /\ games[h].resumed
          BY <1>4, <1>7, <4>1, <5>3 DEF Pooled
        <5>5. Holds(h)'
          BY <1>2, <2>2, <2>3, <5>1, <5>2, <5>3, <5>4 DEF Holds, Pooled
        <5>6. h <= g
          BY <1>1, <5>4, MainIs DEF GameIds
        <5>. QED  BY <1>6, <1>7, <5>3, <5>4, <5>5, <5>6 DEF Claims
      <4>2. CASE job.host \notin main.active
        <5>1. Holds(g)'
          BY <1>2, <1>6, <1>7, <2>2, <2>3, <2>6, <4>2 DEF Holds
        <5>2. g <= g
          BY <1>3
        <5>. QED  BY <1>1, <5>1, <5>2 DEF Claims
      <4>. QED  BY <4>1, <4>2
    <3>2. \A k \in GameIds : k # g /\ Pooled(k) => \E h \in GameIds : Claims(h, k)'
      BY <1>11, <2>2, <2>3
    <3>3. GameIds' = GameIds
      BY <1>1 DEF GameIds
    <3>. QED  BY <2>6, <3>1, <3>2, <3>3 DEF NamesKept
  <2>12. SavedCameFirst'
    BY <1>10, <2>3
  <2>. QED  BY <2>5, <2>7, <2>8, <2>9, <2>10, <2>11, <2>12 DEF IInv, Hosting
<1>. QED  BY <1>12, <1>13

\* A game is reported over: its account and its host's name are free.
LEMMA EndsGameKeeps ==
    ASSUME IInv, NEW then \in {"saving", "next"}, EndsGame(then), then = "next" => plan.personal
    PROVE  IInv'
<1>. DEFINE event == Head(events)
<1>0. PICK a, g : a = event.account /\ g = main.gameOf[a]
  OBVIOUS
<1>1. /\ games' = Destroyed({g}) /\ tasks' = Told(a, Control("release"))
      /\ main' = [Released(Freed(main, a), a) EXCEPT !.at = then]
      /\ events' = Tail(events) /\ UNCHANGED <<plan, room, left>>
      /\ main.at = "waiting" /\ events # <<>> /\ event.kind = "ended"
  BY <1>0, Zenon DEF EndsGame
<1>2. event \in Events /\ events' \in Seq(Events)
  BY <1>1, MainIs, TailIs
<1>3. a \in Accounts /\ Reported(event, a) /\ \A b \in Accounts : b # a => ~Reported(event, b)
  <2>. HIDE DEF event
  <2>. QED  BY <1>0, <1>1, <1>2 DEF Events, Reported
<1>4. /\ Unreported(events, a) => FALSE
      /\ ReportedOnce(events, a) => Unreported(events', a)
      /\ \A b \in Accounts : b # a =>
            /\ Unreported(events, b) => Unreported(events', b)
            /\ ReportedOnce(events, b) => ReportedOnce(events', b)
  <2>1. events \in Seq(Events)
    BY MainIs
  <2>. QED  BY <1>1, <1>3, <2>1, ReportTail
<1>5. /\ Typed /\ Hosting /\ g \in GameIds /\ g # None
      /\ Unreported(events', a) /\ tasks[a].live = "running" =>
            tasks[a].acc.assigned = None /\ Orderless(tasks[a].control)
      /\ Unreported(events', a)
  <2>1. Typed /\ Hosting /\ Told1(g, tasks[a], events, a)
    BY <1>0, <1>1, <1>3 DEF IInv, Hosting, EndsTold
  <2>2. g # None /\ ReportedOnce(events, a)
    BY <1>4, <2>1 DEF Told1
  <2>3. g \in GameIds
    BY <1>0, <1>3, <2>2, MainIs
  <2>. QED  BY <1>4, <2>1, <2>2, <2>3 DEF Told1, Telling
<1>. HIDE DEF event
<1>6. /\ tasks' \in [Accounts -> Tasks] /\ \A b \in Accounts : b # a => tasks'[b] = tasks[b]
      /\ Len(tasks'[a].control) <= ControlCap
  BY <1>1, <1>3, ControlIs, ToldIs
<1>7. \A b \in Accounts : Len(tasks'[b].control) <= ControlCap
  BY <1>6 DEF IInv, Typed
<1>8. /\ games' \in [GameIds -> Games] /\ games'[g].phase = "destroyed"
      /\ \A h \in GameIds : h # g => games'[h] = games[h]
  <2>1. ASSUME NEW game \in Games
        PROVE  [game EXCEPT !.phase = "destroyed"] \in Games
               /\ [game EXCEPT !.phase = "destroyed"].phase = "destroyed"
    BY DEF Games
  <2>. QED  BY <1>1, <1>5, <2>1, MainIs DEF Destroyed
<1>9. /\ main' \in Mains /\ main'.at = then /\ main'.inUse = main.inUse \ {a}
      /\ main'.active = main.active \ {main.senderOf[a]} /\ main'.refused = main.refused
      /\ main'.senderOf = [main.senderOf EXCEPT ![a] = None]
      /\ main'.gameOf = [main.gameOf EXCEPT ![a] = None]
      /\ main'.next = main.next /\ main'.saved = main.saved
  <2>1. main' = [main EXCEPT !.active = @ \ {main.senderOf[a]}, !.senderOf = [@ EXCEPT ![a] = None],
                             !.gameOf = [@ EXCEPT ![a] = None], !.inUse = @ \ {a}, !.at = then]
    BY <1>1, MainIs DEF Released, Freed, Mains
  <2>2. /\ [main.senderOf EXCEPT ![a] = None] \in [Accounts -> Name \cup {None}]
        /\ [main.gameOf EXCEPT ![a] = None] \in [Accounts -> GameIds \cup {None}]
    BY MainIs
  <2>. QED  BY <2>1, <2>2, MainIs DEF Mains
<1>10. /\ main'.senderOf[a] = None /\ main'.gameOf[a] = None
       /\ \A b \in Accounts : b # a =>
             main'.senderOf[b] = main.senderOf[b] /\ main'.gameOf[b] = main.gameOf[b]
  BY <1>3, <1>9, MainIs
<1>11. Accounts' = Accounts /\ GameIds' = GameIds
  BY <1>1 DEF Accounts, GameIds
<1>12. EndsTold'
  <2>1. Told1(None, tasks[a], events', a)
    BY <1>5 DEF Told1
  <2>2. Told1(None, tasks'[a], events', a)
    <3>1. Control("release").kind = "release"
      BY DEF Control
    <3>. QED  BY <1>1, <1>3, <2>1, <3>1, ControlIs, TellKeeps
  <2>3. ASSUME NEW b \in Accounts, b # a
        PROVE  Told1(main.gameOf[b], tasks'[b], events', b)
    <3>1. Told1(main.gameOf[b], tasks[b], events, b)
      BY <1>5 DEF Hosting, EndsTold
    <3>. QED  BY <1>4, <1>6, <2>3, <3>1 DEF Told1, Telling
  <2>4. \A b \in Accounts : Told1(main'.gameOf[b], tasks'[b], events', b)
    BY <1>10, <2>2, <2>3
  <2>. QED  BY <1>11, <2>4 DEF EndsTold
<1>13. \A h \in GameIds : /\ games'[h].phase \notin {"none", "destroyed"} <=> h # g /\ Pooled(h)
                          /\ Pooled(h) /\ h # g => games[h].account \in Accounts /\ games[h].account # a
                                                  /\ main.gameOf[games[h].account] = h
  BY <1>0, <1>5, <1>8 DEF Hosting, GamesPlaced, Pooled
<1>14. \A b \in Accounts : b # a /\ main.gameOf[b] # None =>
          main.gameOf[b] # g /\ main.gameOf[b] \in GameIds
  BY <1>0, <1>3, <1>5, MainIs DEF Hosting, GamesPlaced
<1>15. GamesPlaced'
  <2>1. \A b \in Accounts : main'.gameOf[b] # None =>
           /\ games'[main'.gameOf[b]].phase \notin {"none", "destroyed"}
           /\ games'[main'.gameOf[b]].account = b
    BY <1>5, <1>8, <1>10, <1>14 DEF Hosting, GamesPlaced, Pooled
  <2>2. \A h \in GameIds : games'[h].phase \notin {"none", "destroyed"} =>
           games'[h].account \in Accounts /\ main'.gameOf[games'[h].account] = h
    BY <1>8, <1>10, <1>13
  <2>3. \A h \in GameIds : h >= main.next => games'[h].phase = "none"
    <3>1. Pooled(g)
      BY <1>0, <1>3, <1>5 DEF Hosting, GamesPlaced
    <3>. QED  BY <1>5, <1>8, <3>1 DEF Hosting, GamesPlaced, Pooled
  <2>. QED  BY <1>9, <1>11, <2>1, <2>2, <2>3 DEF GamesPlaced, Pooled
<1>16. NamesPlaced'
  <2>1. ASSUME NEW b \in Accounts, main'.senderOf[b] # None
        PROVE  /\ main'.gameOf[b] # None /\ games'[main'.gameOf[b]].host = main'.senderOf[b]
               /\ main'.senderOf[b] \in main'.active
               /\ \A c \in Accounts : main'.senderOf[c] = main'.senderOf[b] => c = b
    <3>1. b # a /\ main.senderOf[b] # None
      BY <1>10, <2>1
    <3>2. /\ main.gameOf[b] # None /\ games[main.gameOf[b]].host = main.senderOf[b]
          /\ main.senderOf[b] \in main.active /\ main.senderOf[b] # main.senderOf[a]
          /\ \A c \in Accounts : main.senderOf[c] = main.senderOf[b] => c = b
      BY <1>3, <1>5, <3>1 DEF Hosting, NamesPlaced
    <3>. QED  BY <1>8, <1>9, <1>10, <1>14, <2>1, <3>1, <3>2
  <2>2. ASSUME NEW s \in main'.active
        PROVE  \E b \in Accounts : main'.senderOf[b] = s
    <3>1. s \in main.active /\ s # main.senderOf[a]
      BY <1>9, <2>2
    <3>2. PICK b \in Accounts : main.senderOf[b] = s
      BY <1>5, <3>1 DEF Hosting, NamesPlaced
    <3>. QED  BY <1>10, <3>1, <3>2
  <2>3. \A h \in GameIds : games'[h].phase \notin {"none", "destroyed"} /\ ~games'[h].resumed =>
           games'[h].host # None /\ main'.senderOf[games'[h].account] = games'[h].host
    BY <1>5, <1>8, <1>10, <1>13 DEF Hosting, NamesPlaced
  <2>. QED  BY <1>11, <2>1, <2>2, <2>3 DEF NamesPlaced, Pooled
<1>17. JobPlaced' /\ SavedFirst'
  BY <1>9 DEF JobPlaced, SavedFirst
<1>18. ReservedForAReason'
  <2>1. \A b \in Accounts : /\ main'.gameOf[b] # None => b \in main'.inUse
                            /\ b \in main'.inUse => main'.gameOf[b] # None \/ b \in main'.refused
    BY <1>1, <1>5, <1>9, <1>10 DEF Hosting, ReservedForAReason
  <2>. QED  BY <1>11, <2>1 DEF ReservedForAReason
<1>19. Typed'
  BY <1>1, <1>2, <1>5, <1>6, <1>7, <1>8, <1>9
     DEF Typed, Accounts, GameIds, Mains, Tasks, Games, Accs, Jobs, Messages, Events, GameEvents, Stanzas
<1>20. \A h \in GameIds : games'[h].host = games[h].host /\ games'[h].resumed = games[h].resumed
                           /\ games'[h].account = games[h].account
  <2>1. ASSUME NEW game \in Games
        PROVE  LET over == [game EXCEPT !.phase = "destroyed"]
               IN  over.host = game.host /\ over.resumed = game.resumed /\ over.account = game.account
    BY DEF Games
  <2>. QED  BY <1>1, <2>1, MainIs DEF Destroyed
<1>21. NamesKept'
  <2>. SUFFICES ASSUME NEW k \in GameIds, Pooled(k), k # g
                PROVE  \E h \in GameIds : Claims(h, k)'
    BY <1>11, <1>13 DEF NamesKept, Pooled
  <2>1. PICK h \in GameIds : Claims(h, k)
    BY <1>5 DEF Hosting, NamesKept
  <2>2. CASE h = g
    BY <1>8, <1>20, <2>1, <2>2 DEF Claims
  <2>3. CASE h # g
    <3>1. Holds(h) => Holds(h)'
      BY <1>8, <1>10, <1>13, <2>3 DEF Holds, Pooled
    <3>. QED  BY <1>8, <1>20, <2>1, <2>3, <3>1 DEF Claims
  <2>. QED  BY <2>2, <2>3
<1>22. SavedCameFirst'
  <2>1. SavedLeft' => SavedLeft
    BY <1>9 DEF SavedLeft
  <2>2. Pooled(g)
    BY <1>0, <1>3, <1>5 DEF Hosting, GamesPlaced
  <2>. QED  BY <1>5, <1>8, <1>11, <1>20, <2>1, <2>2 DEF Hosting, SavedCameFirst, Pooled
<1>. QED  BY <1>12, <1>15, <1>16, <1>17, <1>18, <1>19, <1>21, <1>22 DEF IInv, Hosting

-----------------------------------------------------------------------------
(* The invariant of the hosting.                                           *)

\* Nothing is hosted at the start.
LEMMA InitInvariant == Init => IInv
<1>. SUFFICES ASSUME Init PROVE IInv
  OBVIOUS
<1>. USE DEF Init
<1>1. /\ plan \in Plans /\ plan.personal \in BOOLEAN /\ plan.games \in Nat
      /\ plan.saved \in Seq([host : Name, account : Nat])
  BY PlanIs
<1>2. main \in Mains /\ main.at \in {"next", "saving"} /\ (main.at = "next" => plan.personal)
      /\ main.inUse = {} /\ main.active = {} /\ main.next = 1
      /\ \A a \in Accounts : main.gameOf[a] = None /\ main.senderOf[a] = None
  BY <1>1 DEF Begins, Mains
<1>3. /\ tasks \in [Accounts -> Tasks]
      /\ \A a \in Accounts : tasks[a].control = <<>> /\ tasks[a].acc.assigned = None
  <2>1. Started(plan.personal) \in Accs /\ Started(plan.personal).assigned = None
    BY <1>1, StartedIs
  <2>2. <<>> \in Seq(Messages) /\ <<>> \in Seq({"new", "resumed"})
    BY EmptySeq
  <2>. QED  BY <2>1, <2>2 DEF Tasks
<1>4. games \in [GameIds -> Games] /\ \A g \in GameIds : games[g].phase = "none"
  <2>1. <<>> \in Seq(GameEvents)
    BY EmptySeq
  <2>. QED  BY <2>1 DEF NoGame, Games
<1>5. events \in Seq(Events) /\ DOMAIN events = {}
  BY EmptySeq
<1>6. Typed
  BY <1>1, <1>2, <1>3, <1>4, <1>5, HostingAssumption DEF Typed
<1>7. EndsTold
  BY <1>2, <1>3, <1>5 DEF EndsTold, Told1, Unreported, Orderless
<1>8. /\ GamesPlaced /\ NamesPlaced /\ NamesKept
      /\ JobPlaced /\ SavedCameFirst /\ ReservedForAReason /\ SavedFirst
  BY <1>2, <1>4 DEF GamesPlaced, NamesPlaced, NamesKept, JobPlaced, SavedCameFirst, ReservedForAReason,
                    SavedFirst, Pooled
<1>. QED  BY <1>6, <1>7, <1>8 DEF IInv, Hosting

\* Every step of the main task, the accounts, the lobby and the games keeps it.
LEMMA StepInvariant == IInv /\ [Next]_vars => IInv'
<1>. SUFFICES ASSUME IInv, [Next]_vars PROVE IInv'
  OBVIOUS
<1>1. CASE UNCHANGED vars
  BY <1>1, QuietKeeps, SameGames, SameTold DEF vars
<1>2. CASE HostSaved
  BY <1>2, HostSavedKeeps
<1>3. CASE HostPersonal
  BY <1>3, HostPersonalKeeps
<1>4. CASE HostFails
  BY <1>4, HostFailsKeeps
<1>5. CASE HostGame
  BY <1>5, HostGameKeeps
<1>6. CASE TakeHostme
  BY <1>6, TakeHostmeKeeps
<1>7. CASE TakeGameEnded
  BY <1>7, EndsGameKeeps DEF TakeGameEnded
<1>8. CASE TakePersonalEnded
  BY <1>8, EndsGameKeeps DEF TakePersonalEnded
<1>9. CASE ShutAccounts
  BY <1>9, ShutAccountsKeeps
<1>10. CASE DropPool
  BY <1>10, DropPoolKeeps
<1>11. CASE TakeSignal
  BY <1>11, TakeSignalKeeps
<1>12. ASSUME NEW a \in Accounts, TaskStep(a) PROVE IInv'
  BY <1>12, TakeControlKeeps, TakeGameEventKeeps, TakeGameEndKeeps, DebounceFiresKeeps, HearHostmeKeeps,
     TakeOnlineKeeps, StreamEndsKeeps, WakeKeeps, DiesKeeps, Zenon DEF TaskStep
<1>13. ASSUME NEW a \in Accounts, LobbyStep(a) PROVE IInv'
  BY <1>13, DropKeeps, ResumeSessionKeeps, NewSessionKeeps, LeaveRoomKeeps, DeliverKeeps, Zenon DEF LobbyStep
<1>14. ASSUME NEW g \in GameIds, GameStep(g) PROVE IInv'
  BY <1>14, OpenKeeps, ChangeSlotsKeeps, StartMatchKeeps, DecideKeeps, PlayerArrivesKeeps,
     PlayerLeavesKeeps, ExitKeeps, Zenon DEF GameStep
<1>. QED  BY <1>1, <1>2, <1>3, <1>4, <1>5, <1>6, <1>7, <1>8, <1>9, <1>10, <1>11, <1>12, <1>13, <1>14
          DEF Next, MainStep

\* The inductive invariant holds for ever, for every plan and capacity
\* (run_pool_lobby_mode, run_personal_mode, run_account).
THEOREM Invariant == Spec => []IInv
BY InitInvariant, StepInvariant, PTL DEF Spec

-----------------------------------------------------------------------------
(* What it implies.                                                        *)

\* The main task, the accounts and the games stay within their types: a job is for an
\* account and a name, no control queue holds more than its capacity, and a window is
\* open only for a listing.
THEOREM TypeCorrect == Spec => []TypeOK
<1>1. ASSUME IInv PROVE TypeOK
  <2>1. \A a \in Accounts : /\ tasks[a].live \in {"running", "exited", "dead"}
                            /\ tasks[a].link \in {"asleep", "connecting", "up", "down", "left"}
                            /\ Len(tasks[a].control) <= ControlCap
    BY <1>1 DEF IInv, Typed, Tasks
  <2>2. \A a \in Accounts : /\ tasks[a].acc.assigned \in GameIds \cup {None}
                            /\ tasks[a].acc.debounce => tasks[a].acc.pending # None
    <3>. SUFFICES ASSUME NEW a \in Accounts
                  PROVE  /\ tasks[a].acc.assigned \in GameIds \cup {None}
                         /\ tasks[a].acc.debounce => tasks[a].acc.pending # None
      OBVIOUS
    <3>1. PICK acc : acc = tasks[a].acc /\ acc \in Accs
      BY <1>1, TaskOf
    <3>2. acc.assigned \in GameIds \cup {None} /\ (acc.debounce => acc.pending # None)
      BY <3>1 DEF Accs
    <3>. QED  BY <3>1, <3>2
  <2>3. \A g \in GameIds :
          games[g].phase \in {"none", "boot", "setup", "match", "over", "gone", "destroyed"}
    BY <1>1 DEF IInv, Typed, Games
  <2>. QED  BY <1>1, <2>1, <2>2, <2>3 DEF IInv, Typed, Mains, Jobs, TypeOK
<1>. QED  BY <1>1, Invariant, PTL

\* Who tells of the end of a game, one of three.
LEMMA OwedOnce ==
    ASSUME IInv, NEW g \in GameIds, NEW a \in Accounts, games[g].account = a,
           Telling(g, tasks[a], events, a)
    PROVE  Owed(g) = 1
<1>. DEFINE c == tasks[a].control
<1>1. Cardinality({}) = 0 /\ \A x : Cardinality({x}) = 1
  BY FS_EmptySet, FS_Singleton
<1>2. Unreported(events, a) => Reports(a) = {}
  BY DEF Unreported, Reported, Reports
<1>3. ReportedOnce(events, a) => \E i : Reports(a) = {i}
  <2>. SUFFICES ASSUME ReportedOnce(events, a) PROVE \E i : Reports(a) = {i}
    OBVIOUS
  <2>1. PICK i \in DOMAIN events : Reported(events[i], a) /\ \A j \in DOMAIN events : Reported(events[j], a) => j = i
    BY DEF ReportedOnce
  <2>2. Reports(a) = {i}
    BY <2>1 DEF Reported, Reports
  <2>. QED  BY <2>2
<1>4. Orderless(c) => Orders(a, g) = {}
  BY DEF Orderless, Orders
<1>5. OrderedLast(c, g) => \E i : Orders(a, g) = {i}
  <2>. SUFFICES ASSUME OrderedLast(c, g) PROVE \E i : Orders(a, g) = {i}
    OBVIOUS
  <2>1. PICK i \in DOMAIN c : c[i] = [kind |-> "assign", game |-> g] /\ \A j \in DOMAIN c : c[j].kind = "assign" => j = i
    BY DEF OrderedLast
  <2>2. Orders(a, g) = {i}
    BY <2>1 DEF Orders
  <2>. QED  BY <2>2
<1>6. g # None
  BY NoneApart
<1>7. Owed(g) = Cardinality(Reports(a)) + Cardinality(Orders(a, g)) + (IF tasks[a].acc.assigned = g THEN 1 ELSE 0)
  BY DEF Owed
<1>8. CASE tasks[a].acc.assigned = g /\ Orderless(c) /\ Unreported(events, a)
  <2>1. Cardinality(Reports(a)) = 0 /\ Cardinality(Orders(a, g)) = 0
    BY <1>1, <1>2, <1>4, <1>8
  <2>. QED  BY <1>7, <1>8, <2>1
<1>9. CASE tasks[a].acc.assigned = None /\ Orderless(c) /\ ReportedOnce(events, a)
  <2>1. Cardinality(Reports(a)) = 1 /\ Cardinality(Orders(a, g)) = 0
    BY <1>1, <1>3, <1>4, <1>9
  <2>. QED  BY <1>6, <1>7, <1>9, <2>1
<1>10. CASE tasks[a].acc.assigned = None /\ OrderedLast(c, g) /\ Unreported(events, a)
  <2>1. Cardinality(Reports(a)) = 0 /\ Cardinality(Orders(a, g)) = 1
    BY <1>1, <1>2, <1>5, <1>10
  <2>. QED  BY <1>6, <1>7, <1>10, <2>1
<1>. QED  BY <1>8, <1>9, <1>10 DEF Telling

\* The end of each game in the pool is told exactly once unless its task is gone; an
\* account is reserved only for a reason; saved matches go first; a name is taken only while
\* a game of its host is in the pool, and free meanwhile only for a saved match that shared
\* the name with one that went before (GameEnded, LobbyGames, host_saved_matches).
THEOREM Consistent == Spec => []HostingConsistent
<1>1. ASSUME IInv, main.at # "stopped" PROVE EndsAreTold
  <2>. SUFFICES ASSUME NEW g \in GameIds, Pooled(g)
                PROVE  /\ main.gameOf[games[g].account] = g
                       /\ tasks[games[g].account].live # "running" \/ Owed(g) = 1
    BY DEF EndsAreTold
  <2>1. PICK a \in Accounts : games[g].account = a /\ main.gameOf[a] = g
    BY <1>1 DEF IInv, Hosting, GamesPlaced
  <2>2. g # None /\ Told1(g, tasks[a], events, a)
    BY <1>1, <2>1, NoneApart DEF IInv, Hosting, EndsTold
  <2>. QED  BY <1>1, <2>1, <2>2, OwedOnce DEF Told1
<1>2. ASSUME IInv, main.at # "stopped" PROVE NamesHeld
  <2>1. \A s \in main.active : \E g \in GameIds : Pooled(g) /\ games[g].host = s
    <3>. SUFFICES ASSUME NEW s \in main.active
                  PROVE  \E g \in GameIds : Pooled(g) /\ games[g].host = s
      OBVIOUS
    <3>1. PICK a \in Accounts : main.senderOf[a] = s /\ s # None
      BY <1>2, MainIs, NoneApart DEF IInv, Hosting, NamesPlaced
    <3>2. main.gameOf[a] # None /\ games[main.gameOf[a]].host = s
      BY <1>2, <3>1 DEF IInv, Hosting, NamesPlaced
    <3>3. main.gameOf[a] \in GameIds /\ Pooled(main.gameOf[a])
      BY <1>2, <3>2, MainIs DEF IInv, Hosting, GamesPlaced
    <3>. QED  BY <3>2, <3>3
  <2>2. ASSUME NEW g \in GameIds, NEW h \in GameIds, Pooled(g), Pooled(h),
               ~games[g].resumed, ~games[h].resumed, games[g].host = games[h].host
        PROVE  g = h
    <3>1. PICK a \in Accounts, b \in Accounts :
             games[g].account = a /\ games[h].account = b /\ main.gameOf[a] = g /\ main.gameOf[b] = h
      BY <1>2, <2>2 DEF IInv, Hosting, GamesPlaced
    <3>2. main.senderOf[a] = games[g].host /\ main.senderOf[b] = games[h].host
      BY <1>2, <2>2, <3>1 DEF IInv, Hosting, NamesPlaced
    <3>3. main.senderOf[a] # None
      BY <1>2, <2>2, <3>2 DEF IInv, Hosting, NamesPlaced
    <3>. QED  BY <1>2, <2>2, <3>1, <3>2, <3>3 DEF IInv, Hosting, NamesPlaced
  <2>3. ASSUME NEW g \in GameIds, Pooled(g), games[g].host \notin main.active
        PROVE  games[g].resumed /\ SharedName(g)
    <3>1. PICK h \in GameIds : Claims(h, g)
      BY <1>2, <2>3 DEF IInv, Hosting, NamesKept
    <3>2. games[h].host \notin main.active
      BY <2>3, <3>1 DEF Claims
    <3>3. ~Holds(h)
      <4>. SUFFICES ASSUME Holds(h) PROVE FALSE
        OBVIOUS
      <4>1. games[h].account \in Accounts
        BY <1>2 DEF IInv, Hosting, GamesPlaced, Holds
      <4>. QED  BY <1>2, <3>2, <4>1 DEF IInv, Hosting, NamesPlaced, Holds
    <3>4. games[g].resumed
      <4>. SUFFICES ASSUME ~games[g].resumed PROVE FALSE
        OBVIOUS
      <4>1. games[g].account \in Accounts /\ games[g].host # None
            /\ main.senderOf[games[g].account] = games[g].host
        BY <1>2, <2>3 DEF IInv, Hosting, GamesPlaced, NamesPlaced
      <4>. QED  BY <1>2, <2>3, <4>1 DEF IInv, Hosting, NamesPlaced
    <3>5. h \in 1 .. g - 1
      BY <3>1, <3>3, MainIs DEF Claims, GameIds
    <3>. QED  BY <3>1, <3>3, <3>4, <3>5 DEF Claims, SharedName
  <2>. QED  BY <2>1, <2>2, <2>3 DEF NamesHeld
<1>3. ASSUME IInv PROVE HostingConsistent
  BY <1>1, <1>2, <1>3 DEF HostingConsistent, IInv, Hosting
<1>. QED  BY <1>3, Invariant, PTL

-----------------------------------------------------------------------------
(* What the lobby shows: the second inductive invariant.                   *)

\* A listing as the bot has it, and an account's occupant.
Views == [attrs : Attrs, running : BOOLEAN]
View(attrs, running) == [attrs |-> attrs, running |-> running]
Occupants == [listing : Views \cup {None}, busy : BOOLEAN]

\* Hearing all of out makes occ the occupant f.
Hears(occ, out, f) ==
    \E v \in [0 .. Len(out) -> Occupants] :
        /\ v[0] = occ /\ v[Len(out)] = f
        /\ \A i \in 1 .. Len(out) : v[i] = Heard(v[i - 1], out[i])

\* What an account knows of its game, and what an event of the game tells it.
Knowings == [newest : Attrs \cup {None}, started : BOOLEAN, playing : BOOLEAN]
Unknown == [newest |-> None, started |-> FALSE, playing |-> FALSE]

Known(acc) ==
    [newest |-> IF acc.pending # None THEN acc.pending ELSE acc.lastSent,
     started |-> acc.started, playing |-> acc.playing]

Learned(k, e, personal) ==
    CASE e.kind = "listing" -> [newest |-> e.attrs, started |-> k.started, playing |-> personal]
      [] e.kind = "started" -> [newest |-> k.newest, started |-> TRUE, playing |-> k.playing]
      [] e.kind = "ended" -> [newest |-> None, started |-> FALSE, playing |-> k.playing]
      [] e.kind = "unlisted" -> Unknown

\* Reading all of chan makes k what f is; no game is listed anew once it has started.
Learns(k, chan, f, personal) ==
    \E v \in [0 .. Len(chan) -> Knowings] :
        /\ v[0] = k /\ v[Len(chan)] = f
        /\ \A i \in 1 .. Len(chan) : /\ v[i] = Learned(v[i - 1], chan[i], personal)
                                     /\ chan[i].kind = "listing" => ~v[i - 1].started

\* A game as its account should know it in the end.
Listed(game, personal) == game.phase \in {"setup", "match"} /\ (personal => game.here)

AsItIs(g, game, personal) ==
    [newest |-> IF Listed(game, personal) THEN <<g, game.rev>> ELSE None,
     started |-> Listed(game, personal) /\ game.phase = "match",
     playing |-> personal /\ game.here]

\* Whoever knows k of game g and reads on gets to know it as it is, while it goes on.
Follows(k, g, game, personal) ==
    \E f \in Knowings :
        /\ Learns(k, game.chan, f, personal)
        /\ game.phase \in {"boot", "setup", "match", "over"} => f = AsItIs(g, game, personal)

\* The occupant an account takes itself to be.
Seen(acc) ==
    [listing |-> IF acc.lastSent = None THEN None ELSE View(acc.lastSent, acc.started),
     busy |-> acc.playing]

\* What an account keeps of its game and what it has told agree.
Books(acc, personal) ==
    /\ acc.personal = personal /\ (acc.playing => personal)
    /\ acc.assigned = None =>
          acc.lastSent = None /\ acc.pending = None /\ ~acc.started /\ ~acc.playing
    /\ acc.unlisted => acc.lastSent = None /\ acc.pending = None
    /\ acc.bound => /\ acc.pending # None => acc.debounce
                    /\ acc.started => acc.pending = None

\* Of two pictures of the occupant, the one the account has when it sends the last of
\* what it sent; with no game to list there is none left over.
Pictured(acc, f) == f \in Occupants /\ (acc.lastSent = None => f.listing = None)

\* A session, and the news of it.  Once no new session is left to be heard of, the
\* lobby will show what the account takes itself to be.
InSession(task, occ) ==
    LET acc == task.acc IN
    IF task.link \in {"asleep", "connecting"}
    THEN ~acc.bound /\ task.news = <<>> /\ acc.out = <<>>
    ELSE /\ ~acc.bound =>
               task.news # <<>> /\ Head(task.news) = "new" /\ acc.out = <<>> /\ occ = Absent
         /\ \E f \in Occupants :
               /\ Pictured(acc, f) /\ Hears(occ, acc.out, f)
               /\ task.link \in {"up", "down"} /\ (\A i \in DOMAIN task.news : task.news[i] # "new")
                     => f = Seen(acc)

\* The game it hosts, and the one it is on its way to.
InGame(task, gs, personal) ==
    /\ task.acc.assigned # None =>
          Follows(Known(task.acc), task.acc.assigned, gs[task.acc.assigned], personal)
    /\ \A i \in DOMAIN task.control : task.control[i].kind = "assign" =>
          Follows(Unknown, task.control[i].game, gs[task.control[i].game], personal)

\* A task that runs.
InTouch(task, occ, gs, personal) ==
    task.live = "running" =>
        InSession(task, occ) /\ Books(task.acc, personal) /\ InGame(task, gs, personal)

AllInTouch ==
    /\ room \in [Accounts -> Occupants]
    /\ \A a \in Accounts : InTouch(tasks[a], room[a], games, plan.personal)
    /\ \A g \in GameIds : /\ games[g].here => plan.personal
                          /\ games[g].phase = "boot" => games[g].rev = 0
    /\ main.at = "stopped" => \A a \in Accounts : tasks[a].live # "running"

-----------------------------------------------------------------------------
(* Stanzas and events one at a time.                                       *)

\* No view is taken for None.
LEMMA ViewIs == None \notin Views /\ Absent \in Occupants /\ Absent.listing = None
  BY HostingAssumption DEF Views, Attrs, Absent, Occupants

\* What each stanza makes of an occupant.
LEMMA HeardIs ==
    ASSUME NEW o \in Occupants
    PROVE  /\ \A attrs \in Attrs :
                Heard(o, [kind |-> "register", attrs |-> attrs]) =
                    [listing |-> [attrs |-> attrs, running |-> FALSE], busy |-> o.busy]
           /\ Heard(o, Stanza("changestate")) =
                    IF o.listing = None THEN o
                    ELSE [listing |-> [attrs |-> o.listing.attrs, running |-> TRUE], busy |-> o.busy]
           /\ Heard(o, Stanza("unregister")) = [listing |-> None, busy |-> o.busy]
           /\ \A kind \in {"join", "available"} :
                Heard(o, Stanza(kind)) = [listing |-> o.listing, busy |-> FALSE]
           /\ Heard(o, Stanza("playing")) = [listing |-> o.listing, busy |-> TRUE]
<1>1. ASSUME NEW attrs \in Attrs
      PROVE  Heard(o, [kind |-> "register", attrs |-> attrs]) =
                 [listing |-> [attrs |-> attrs, running |-> FALSE], busy |-> o.busy]
  BY DEF Heard, Occupants
<1>2. Heard(o, Stanza("changestate")) =
         IF o.listing = None THEN o
         ELSE [listing |-> [attrs |-> o.listing.attrs, running |-> TRUE], busy |-> o.busy]
  <2>1. Heard(o, Stanza("changestate")) =
           IF o.listing = None THEN o ELSE [o EXCEPT !.listing = [@ EXCEPT !.running = TRUE]]
    BY DEF Heard, Stanza
  <2>2. ASSUME o.listing # None
        PROVE  [o EXCEPT !.listing = [@ EXCEPT !.running = TRUE]] =
                   [listing |-> [attrs |-> o.listing.attrs, running |-> TRUE], busy |-> o.busy]
    <3>1. o.listing \in Views
      BY <2>2 DEF Occupants
    <3>2. PICK view : view = [o.listing EXCEPT !.running = TRUE]
      OBVIOUS
    <3>3. view \in Views /\ view.attrs = o.listing.attrs /\ view.running = TRUE
      BY <3>1, <3>2 DEF Views
    <3>4. view = [attrs |-> o.listing.attrs, running |-> TRUE]
      BY <3>3 DEF Views
    <3>5. PICK h : h = [o EXCEPT !.listing = view]
      OBVIOUS
    <3>6. h \in Occupants /\ h.listing = view /\ h.busy = o.busy
      BY <3>3, <3>5 DEF Occupants
    <3>7. h = [listing |-> view, busy |-> o.busy]
      BY <3>6 DEF Occupants
    <3>. QED  BY <3>2, <3>4, <3>5, <3>7
  <2>. QED  BY <2>1, <2>2
<1>3. /\ Heard(o, Stanza("unregister")) = [listing |-> None, busy |-> o.busy]
      /\ Heard(o, Stanza("playing")) = [listing |-> o.listing, busy |-> TRUE]
  BY DEF Heard, Occupants, Stanza
<1>4. ASSUME NEW kind \in {"join", "available"}
      PROVE  Heard(o, Stanza(kind)) = [listing |-> o.listing, busy |-> FALSE]
  BY DEF Heard, Occupants, Stanza
<1>. QED  BY <1>1, <1>2, <1>3, <1>4

\* Every stanza is one of these.
LEMMA StanzaIs ==
    ASSUME NEW s \in Stanzas
    PROVE  \/ \E attrs \in Attrs : s = [kind |-> "register", attrs |-> attrs]
           \/ \E kind \in {"changestate", "unregister", "join", "available", "playing"} :
                s = Stanza(kind)
  BY DEF Stanzas, Stanza

LEMMA HeardType ==
    ASSUME NEW o \in Occupants, NEW s \in Stanzas
    PROVE  Heard(o, s) \in Occupants
<1>1. o.listing \in Views \cup {None} /\ o.busy \in BOOLEAN
  BY DEF Occupants
<1>2. CASE \E attrs \in Attrs : s = [kind |-> "register", attrs |-> attrs]
  <2>1. PICK attrs \in Attrs : s = [kind |-> "register", attrs |-> attrs]
    BY <1>2
  <2>2. Heard(o, s) = [listing |-> [attrs |-> attrs, running |-> FALSE], busy |-> o.busy]
    BY <2>1, HeardIs
  <2>. QED  BY <1>1, <2>2 DEF Occupants, Views
<1>3. CASE s = Stanza("changestate")
  <2>1. CASE o.listing = None
    BY <1>3, <2>1, HeardIs
  <2>2. CASE o.listing # None
    <3>1. Heard(o, s) = [listing |-> [attrs |-> o.listing.attrs, running |-> TRUE], busy |-> o.busy]
      BY <1>3, <2>2, HeardIs
    <3>2. o.listing.attrs \in Attrs
      BY <1>1, <2>2 DEF Views
    <3>. QED  BY <1>1, <3>1, <3>2 DEF Occupants, Views
  <2>. QED  BY <2>1, <2>2
<1>4. CASE s = Stanza("unregister")
  <2>1. Heard(o, s) = [listing |-> None, busy |-> o.busy]
    BY <1>4, HeardIs
  <2>. QED  BY <1>1, <2>1 DEF Occupants
<1>5. CASE s = Stanza("playing")
  <2>1. Heard(o, s) = [listing |-> o.listing, busy |-> TRUE]
    BY <1>5, HeardIs
  <2>. QED  BY <1>1, <2>1 DEF Occupants
<1>6. CASE \E kind \in {"join", "available"} : s = Stanza(kind)
  <2>1. Heard(o, s) = [listing |-> o.listing, busy |-> FALSE]
    BY <1>6, HeardIs
  <2>. QED  BY <1>1, <2>1 DEF Occupants
<1>. QED  BY <1>2, <1>3, <1>4, <1>5, <1>6, StanzaIs

-----------------------------------------------------------------------------
(* What is on its way to the lobby.                                        *)

LEMMA HearsNothing ==
    ASSUME NEW occ \in Occupants, NEW f
    PROVE  Hears(occ, <<>>, f) <=> f = occ
<1>1. Len(<<>>) = 0
  OBVIOUS
<1>2. Hears(occ, <<>>, f) => f = occ
  BY <1>1 DEF Hears
<1>3. f = occ => Hears(occ, <<>>, f)
  <2>. DEFINE v == [i \in 0 .. 0 |-> occ]
  <2>1. v \in [0 .. 0 -> Occupants] /\ v[0] = occ
    OBVIOUS
  <2>. HIDE DEF v
  <2>2. \A i \in 1 .. 0 : v[i] = Heard(v[i - 1], <<>>[i])
    OBVIOUS
  <2>. QED  BY <1>1, <2>1, <2>2 DEF Hears
<1>. QED  BY <1>2, <1>3

LEMMA HearsOneMore ==
    ASSUME NEW occ, NEW out \in Seq(Stanzas), NEW f, Hears(occ, out, f), NEW s \in Stanzas,
           NEW more, more = Append(out, s)
    PROVE  Hears(occ, more, Heard(f, s))
<1>1. /\ Len(out) \in Nat /\ Len(more) = Len(out) + 1 /\ more[Len(out) + 1] = s
      /\ \A i \in 1 .. Len(out) : more[i] = out[i]
  BY AppendIs
<1>2. PICK v \in [0 .. Len(out) -> Occupants] :
         /\ v[0] = occ /\ v[Len(out)] = f
         /\ \A i \in 1 .. Len(out) : v[i] = Heard(v[i - 1], out[i])
  BY DEF Hears
<1>3. f \in Occupants
  BY <1>1, <1>2
<1>4. Heard(f, s) \in Occupants
  BY <1>3, HeardType
<1>. DEFINE n == Len(out)
            w == [i \in 0 .. n + 1 |-> IF i <= n THEN v[i] ELSE Heard(f, s)]
<1>. HIDE DEF n
<1>5. w \in [0 .. n + 1 -> Occupants] /\ w[n + 1] = Heard(f, s) /\ \A i \in 0 .. n : w[i] = v[i]
  BY <1>1, <1>2, <1>4 DEF n
<1>. HIDE DEF w
<1>6. ASSUME NEW i \in 1 .. n + 1
      PROVE  w[i] = Heard(w[i - 1], more[i])
  <2>1. CASE i = n + 1
    <3>1. i - 1 = n /\ n \in 0 .. n
      BY <1>1, <2>1 DEF n
    <3>. QED  BY <1>1, <1>2, <1>5, <2>1, <3>1 DEF n
  <2>2. CASE i # n + 1
    <3>1. i \in 1 .. n /\ i \in 0 .. n /\ i - 1 \in 0 .. n
      BY <1>1, <2>2 DEF n
    <3>. QED  BY <1>1, <1>2, <1>5, <3>1 DEF n
  <2>. QED  BY <2>1, <2>2
<1>7. w[0] = occ
  BY <1>1, <1>2, <1>5 DEF n
<1>. QED  BY <1>1, <1>5, <1>6, <1>7 DEF Hears, n

LEMMA HearsTheFirst ==
    ASSUME NEW occ \in Occupants, NEW out \in Seq(Stanzas), out # <<>>, NEW f, Hears(occ, out, f),
           NEW rest, rest = Tail(out)
    PROVE  Hears(Heard(occ, Head(out)), rest, f)
<1>1. /\ Len(out) \in Nat \ {0} /\ Head(out) = out[1] /\ Head(out) \in Stanzas
      /\ Len(rest) = Len(out) - 1 /\ \A i \in 1 .. Len(out) - 1 : rest[i] = out[i + 1]
  BY TailIs
<1>. DEFINE n == Len(rest)
<1>2. n \in Nat /\ Len(out) = n + 1 /\ \A i \in 1 .. n : rest[i] = out[i + 1]
  BY <1>1
<1>3. PICK v \in [0 .. n + 1 -> Occupants] :
         /\ v[0] = occ /\ v[n + 1] = f
         /\ \A i \in 1 .. n + 1 : v[i] = Heard(v[i - 1], out[i])
  BY <1>2 DEF Hears
<1>. DEFINE w == [i \in 0 .. n |-> v[i + 1]]
<1>. HIDE DEF n
<1>4. w \in [0 .. n -> Occupants] /\ \A i \in 0 .. n : w[i] = v[i + 1]
  BY <1>2, <1>3
<1>. HIDE DEF w
<1>5. w[0] = Heard(occ, Head(out))
  <2>1. v[1] = Heard(v[1 - 1], out[1])
    BY <1>2, <1>3
  <2>. QED  BY <1>1, <1>2, <1>3, <1>4, <2>1
<1>6. ASSUME NEW i \in 1 .. n
      PROVE  w[i] = Heard(w[i - 1], rest[i])
  <2>1. i + 1 \in 1 .. n + 1 /\ (i + 1) - 1 = i /\ i \in 0 .. n /\ i - 1 \in 0 .. n /\ (i - 1) + 1 = i
    BY <1>2
  <2>2. v[i + 1] = Heard(v[i], out[i + 1])
    BY <1>3, <2>1
  <2>. QED  BY <1>2, <1>4, <2>1, <2>2
<1>7. w[n] = f
  BY <1>2, <1>3, <1>4
<1>. QED  BY <1>4, <1>5, <1>6, <1>7 DEF Hears, n

\* Two occupants that agree on everything.
LEMMA SameOccupant ==
    ASSUME NEW o \in Occupants, NEW p \in Occupants, o.listing = p.listing, o.busy = p.busy
    PROVE  o = p
  BY DEF Occupants

\* What two occupants become who hear the same.
LEMMA BothHear ==
    ASSUME NEW o \in Occupants, NEW p \in Occupants, NEW s \in Stanzas
    PROVE  /\ s.kind \in {"register", "unregister"} \/ o.listing = p.listing
                 => Heard(o, s).listing = Heard(p, s).listing
           /\ s.kind \notin {"register", "unregister"} /\ o.listing = None => Heard(o, s).listing = None
           /\ s.kind \in {"join", "available", "playing"} \/ o.busy = p.busy
                 => Heard(o, s).busy = Heard(p, s).busy
           /\ s.kind \notin {"join", "available", "playing"} => Heard(o, s).busy = o.busy
<1>1. ASSUME NEW attrs \in Attrs, s = [kind |-> "register", attrs |-> attrs], NEW q \in Occupants
      PROVE  /\ s.kind = "register"
             /\ Heard(q, s).listing = [attrs |-> attrs, running |-> FALSE] /\ Heard(q, s).busy = q.busy
  <2>. DEFINE view == [attrs |-> attrs, running |-> FALSE]
  <2>1. Heard(q, s) = [listing |-> view, busy |-> q.busy]
    BY <1>1, HeardIs
  <2>. HIDE DEF view
  <2>2. s.kind = "register"
    BY <1>1
  <2>3. Heard(q, s).busy = q.busy
    BY <2>1
  <2>4. Heard(q, s).listing = view
    BY <2>1
  <2>. QED  BY <2>2, <2>3, <2>4 DEF view
<1>2. ASSUME s = Stanza("changestate"), NEW q \in Occupants
      PROVE  /\ s.kind = "changestate" /\ Heard(q, s).busy = q.busy
             /\ Heard(q, s).listing = IF q.listing = None THEN None
                                      ELSE [attrs |-> q.listing.attrs, running |-> TRUE]
  <2>1. s.kind = "changestate"
    BY <1>2 DEF Stanza
  <2>2. CASE q.listing = None
    BY <1>2, <2>1, <2>2, HeardIs
  <2>3. CASE q.listing # None
    <3>1. Heard(q, s) = [listing |-> [attrs |-> q.listing.attrs, running |-> TRUE], busy |-> q.busy]
      BY <1>2, <2>3, HeardIs
    <3>. QED  BY <2>1, <2>3, <3>1
  <2>. QED  BY <2>2, <2>3
<1>3. ASSUME s = Stanza("unregister"), NEW q \in Occupants
      PROVE  s.kind = "unregister" /\ Heard(q, s).listing = None /\ Heard(q, s).busy = q.busy
  <2>1. Heard(q, s) = [listing |-> None, busy |-> q.busy]
    BY <1>3, HeardIs
  <2>. QED  BY <1>3, <2>1 DEF Stanza
<1>4. ASSUME NEW kind \in {"join", "available"}, s = Stanza(kind), NEW q \in Occupants
      PROVE  s.kind = kind /\ Heard(q, s).listing = q.listing /\ Heard(q, s).busy = FALSE
  <2>1. Heard(q, s) = [listing |-> q.listing, busy |-> FALSE]
    BY <1>4, HeardIs
  <2>. QED  BY <1>4, <2>1 DEF Stanza
<1>5. ASSUME s = Stanza("playing"), NEW q \in Occupants
      PROVE  s.kind = "playing" /\ Heard(q, s).listing = q.listing /\ Heard(q, s).busy = TRUE
  <2>1. Heard(q, s) = [listing |-> q.listing, busy |-> TRUE]
    BY <1>5, HeardIs
  <2>. QED  BY <1>5, <2>1 DEF Stanza
<1>. DEFINE o2 == Heard(o, s)
            p2 == Heard(p, s)
<1>. SUFFICES /\ s.kind \in {"register", "unregister"} \/ o.listing = p.listing
                    => o2.listing = p2.listing
              /\ s.kind \notin {"register", "unregister"} /\ o.listing = None => o2.listing = None
              /\ s.kind \in {"join", "available", "playing"} \/ o.busy = p.busy
                    => o2.busy = p2.busy
              /\ s.kind \notin {"join", "available", "playing"} => o2.busy = o.busy
  OBVIOUS
<1>6. CASE \E attrs \in Attrs : s = [kind |-> "register", attrs |-> attrs]
  <2>1. PICK attrs \in Attrs : s = [kind |-> "register", attrs |-> attrs]
    BY <1>6
  <2>2. /\ s.kind = "register" /\ o2.listing = p2.listing
        /\ o2.busy = o.busy /\ p2.busy = p.busy
    BY <1>1, <2>1
  <2>. HIDE DEF o2, p2
  <2>. QED  BY <2>2
<1>7. CASE s = Stanza("changestate")
  <2>1. /\ s.kind = "changestate" /\ o2.busy = o.busy /\ p2.busy = p.busy
        /\ o.listing = p.listing => o2.listing = p2.listing
        /\ o.listing = None => o2.listing = None
    BY <1>2, <1>7
  <2>. HIDE DEF o2, p2
  <2>. QED  BY <2>1
<1>8. CASE s = Stanza("unregister")
  <2>1. /\ s.kind = "unregister" /\ o2.busy = o.busy /\ p2.busy = p.busy
        /\ o2.listing = None /\ p2.listing = None
    BY <1>3, <1>8
  <2>. HIDE DEF o2, p2
  <2>. QED  BY <2>1
<1>9. CASE \E kind \in {"join", "available"} : s = Stanza(kind)
  <2>1. /\ s.kind \in {"join", "available"} /\ o2.busy = FALSE /\ p2.busy = FALSE
        /\ o2.listing = o.listing /\ p2.listing = p.listing
    BY <1>4, <1>9
  <2>. HIDE DEF o2, p2
  <2>. QED  BY <2>1
<1>10. CASE s = Stanza("playing")
  <2>1. /\ s.kind = "playing" /\ o2.busy = TRUE /\ p2.busy = TRUE
        /\ o2.listing = o.listing /\ p2.listing = p.listing
    BY <1>5, <1>10
  <2>. HIDE DEF o2, p2
  <2>. QED  BY <2>1
<1>. QED  BY <1>6, <1>7, <1>8, <1>9, <1>10, StanzaIs

\* A new occupant that hears the rest lists what f does, or nothing.
Resembles(rest, f) ==
    \E h \in Occupants : Hears(Absent, rest, h) /\ (h.listing = None \/ h.listing = f.listing)

\* An occupant that is new hears the rest of what another would have heard.
LEMMA HearsTheRest ==
    ASSUME NEW occ \in Occupants, NEW out \in Seq(Stanzas), NEW f, Hears(occ, out, f),
           NEW k \in 1 .. Len(out) + 1, NEW rest, rest = SubSeq(out, k, Len(out))
    PROVE  Resembles(rest, f)
<1>. DEFINE n == Len(rest)
<1>0. Len(out) \in Nat /\ k \in Nat /\ k >= 1
  BY LenProperties
<1>1. /\ rest \in Seq(Stanzas) /\ n \in Nat /\ n = Len(out) - k + 1
      /\ \A i \in 1 .. n : rest[i] = out[i + (k - 1)]
  BY <1>0, SubSeqProperties, LenProperties
<1>2. PICK m \in Nat : m = k - 1 /\ Len(out) = n + m
  BY <1>0, <1>1
<1>3. PICK v \in [0 .. n + m -> Occupants] :
         v[n + m] = f /\ \A i \in 1 .. n + m : v[i] = Heard(v[i - 1], out[i])
  BY <1>2 DEF Hears
<1>4. \A i \in 1 .. n : rest[i] = out[i + m] /\ rest[i] \in Stanzas
  BY <1>1, <1>2, ElementOfSeq
<1>. DEFINE Told1st(i) == \E j \in 1 .. i : rest[j].kind \in {"register", "unregister"}
            Busy1st(i) == \E j \in 1 .. i : rest[j].kind \in {"join", "available", "playing"}
            listing(i) == IF Told1st(i) THEN v[i + m].listing ELSE None
            busy(i) == Busy1st(i) /\ v[i + m].busy
            w == [i \in 0 .. n |-> [listing |-> listing(i), busy |-> busy(i)]]
<1>. HIDE DEF n
<1>5. \A i \in 0 .. n : i + m \in 0 .. n + m /\ v[i + m] \in Occupants
  BY <1>1, <1>3
<1>6. \A i \in 0 .. n : listing(i) \in Views \cup {None} /\ busy(i) \in BOOLEAN
  BY <1>5 DEF Occupants
<1>7. /\ w \in [0 .. n -> Occupants]
      /\ \A i \in 0 .. n : w[i].listing = listing(i) /\ (w[i].busy <=> busy(i)) /\ w[i].busy \in BOOLEAN
  <2>. HIDE DEF listing, busy
  <2>. QED  BY <1>6 DEF Occupants
<1>8. w[0] = Absent
  <2>1. ~Told1st(0) /\ ~Busy1st(0)
    OBVIOUS
  <2>2. 0 \in 0 .. n
    BY <1>1
  <2>. QED  BY <2>1, <2>2 DEF Absent
<1>. HIDE DEF w
<1>9. ASSUME NEW i \in 1 .. n
      PROVE  w[i] = Heard(w[i - 1], rest[i])
  <2>. DEFINE o == w[i - 1]
              p == v[(i - 1) + m]
              s == rest[i]
  <2>1. /\ i \in 0 .. n /\ i - 1 \in 0 .. n /\ i \in Nat /\ i - 1 \in Nat /\ (i - 1) + m = (i + m) - 1
        /\ i + m \in 1 .. n + m
    BY <1>1
  <2>2. o \in Occupants /\ p \in Occupants /\ s \in Stanzas /\ v[i + m] = Heard(p, s) /\ w[i] \in Occupants
    BY <1>3, <1>4, <1>5, <1>7, <2>1
  <2>3. /\ Told1st(i) <=> Told1st(i - 1) \/ s.kind \in {"register", "unregister"}
        /\ Busy1st(i) <=> Busy1st(i - 1) \/ s.kind \in {"join", "available", "playing"}
    <3>1. \A j \in 1 .. i : j \in 1 .. i - 1 \/ j = i
      BY <2>1
    <3>2. \A j \in 1 .. i - 1 : j \in 1 .. i
      BY <2>1
    <3>3. i \in 1 .. i
      BY <2>1
    <3>. QED  BY <3>1, <3>2, <3>3
  <2>4. /\ o.listing = (IF Told1st(i - 1) THEN p.listing ELSE None)
        /\ o.busy <=> (Busy1st(i - 1) /\ p.busy)
        /\ w[i].listing = (IF Told1st(i) THEN Heard(p, s).listing ELSE None)
        /\ w[i].busy <=> (Busy1st(i) /\ Heard(p, s).busy)
    BY <1>7, <2>1, <2>2
  <2>5. Heard(o, s) \in Occupants /\ Heard(p, s) \in Occupants
    BY <2>2, HeardType
  <2>. HIDE DEF o, p, s, Told1st, Busy1st
  <2>6. /\ o.busy \in BOOLEAN /\ p.busy \in BOOLEAN /\ w[i].busy \in BOOLEAN
        /\ Heard(o, s).busy \in BOOLEAN /\ Heard(p, s).busy \in BOOLEAN
    BY <2>2, <2>5 DEF Occupants
  <2>7. Heard(o, s).listing = w[i].listing
    BY <2>2, <2>3, <2>4, BothHear
  <2>8. Heard(o, s).busy = w[i].busy
    BY <2>2, <2>3, <2>4, <2>6, BothHear
  <2>9. w[i] = Heard(o, s)
    BY <2>2, <2>5, <2>7, <2>8, SameOccupant
  <2>. QED  BY <2>9 DEF o, s
<1>10. n \in 0 .. n /\ w[n] \in Occupants
  <2>1. n \in Nat
    BY <1>1
  <2>2. n \in 0 .. n
    BY <2>1
  <2>. QED  BY <1>7, <2>2
<1>11. Hears(Absent, rest, w[n])
  BY <1>1, <1>7, <1>8, <1>9 DEF Hears, n
<1>12. w[n].listing = None \/ w[n].listing = f.listing
  BY <1>3, <1>7, <1>10
<1>. QED  BY <1>10, <1>11, <1>12 DEF Resembles

-----------------------------------------------------------------------------
(* What is on its way from a game.                                         *)

LEMMA LearnedType ==
    ASSUME NEW k \in Knowings, NEW e \in GameEvents, NEW personal \in BOOLEAN
    PROVE  Learned(k, e, personal) \in Knowings
<1>1. k.newest \in Attrs \cup {None} /\ k.started \in BOOLEAN /\ k.playing \in BOOLEAN
  BY DEF Knowings
<1>2. CASE e.kind = "listing"
  <2>1. e.attrs \in Attrs
    BY <1>2 DEF GameEvents
  <2>2. Learned(k, e, personal) = [newest |-> e.attrs, started |-> k.started, playing |-> personal]
    BY <1>2 DEF Learned
  <2>. QED  BY <1>1, <2>1, <2>2 DEF Knowings
<1>3. CASE e.kind = "started"
  <2>1. Learned(k, e, personal) = [newest |-> k.newest, started |-> TRUE, playing |-> k.playing]
    BY <1>3 DEF Learned
  <2>. QED  BY <1>1, <2>1 DEF Knowings
<1>4. CASE e.kind = "ended"
  <2>1. Learned(k, e, personal) = [newest |-> None, started |-> FALSE, playing |-> k.playing]
    BY <1>4 DEF Learned
  <2>. QED  BY <1>1, <2>1 DEF Knowings
<1>5. CASE e.kind = "unlisted"
  <2>1. Learned(k, e, personal) = Unknown
    BY <1>5 DEF Learned
  <2>. QED  BY <2>1 DEF Knowings, Unknown
<1>. QED  BY <1>2, <1>3, <1>4, <1>5 DEF GameEvents

LEMMA LearnsNothing ==
    ASSUME NEW k \in Knowings, NEW f, NEW personal
    PROVE  Learns(k, <<>>, f, personal) <=> f = k
<1>1. Len(<<>>) = 0
  OBVIOUS
<1>2. Learns(k, <<>>, f, personal) => f = k
  BY <1>1 DEF Learns
<1>3. f = k => Learns(k, <<>>, f, personal)
  <2>. DEFINE v == [i \in 0 .. 0 |-> k]
  <2>1. v \in [0 .. 0 -> Knowings] /\ v[0] = k
    OBVIOUS
  <2>. HIDE DEF v
  <2>2. \A i \in 1 .. 0 : /\ v[i] = Learned(v[i - 1], <<>>[i], personal)
                          /\ <<>>[i].kind = "listing" => ~v[i - 1].started
    OBVIOUS
  <2>. QED  BY <1>1, <2>1, <2>2 DEF Learns
<1>. QED  BY <1>2, <1>3

LEMMA LearnsOneMore ==
    ASSUME NEW k, NEW chan \in Seq(GameEvents), NEW f, NEW personal \in BOOLEAN,
           Learns(k, chan, f, personal), NEW e \in GameEvents, e.kind = "listing" => ~f.started,
           NEW more, more = Append(chan, e)
    PROVE  Learns(k, more, Learned(f, e, personal), personal)
<1>1. /\ Len(chan) \in Nat /\ Len(more) = Len(chan) + 1 /\ more[Len(chan) + 1] = e
      /\ \A i \in 1 .. Len(chan) : more[i] = chan[i]
  BY AppendIs
<1>. DEFINE n == Len(chan)
            next == Learned(f, e, personal)
<1>2. PICK v \in [0 .. n -> Knowings] :
         /\ v[0] = k /\ v[n] = f
         /\ \A i \in 1 .. n : /\ v[i] = Learned(v[i - 1], chan[i], personal)
                              /\ chan[i].kind = "listing" => ~v[i - 1].started
  BY DEF Learns
<1>3. f \in Knowings
  BY <1>1, <1>2
<1>4. next \in Knowings
  BY <1>3, LearnedType
<1>. DEFINE w == [i \in 0 .. n + 1 |-> IF i <= n THEN v[i] ELSE next]
<1>. HIDE DEF n, next
<1>5. w \in [0 .. n + 1 -> Knowings] /\ w[n + 1] = next /\ \A i \in 0 .. n : w[i] = v[i]
  BY <1>1, <1>2, <1>4 DEF n
<1>. HIDE DEF w
<1>6. ASSUME NEW i \in 1 .. n + 1
      PROVE  /\ w[i] = Learned(w[i - 1], more[i], personal)
             /\ more[i].kind = "listing" => ~w[i - 1].started
  <2>1. CASE i = n + 1
    <3>1. i - 1 = n /\ n \in 0 .. n
      BY <1>1, <2>1 DEF n
    <3>2. more[i] = e /\ w[i - 1] = f
      BY <1>1, <1>2, <1>5, <2>1, <3>1 DEF n
    <3>. QED  BY <1>5, <2>1, <3>2 DEF next
  <2>2. CASE i # n + 1
    <3>1. i \in 1 .. n /\ i \in 0 .. n /\ i - 1 \in 0 .. n
      BY <1>1, <2>2 DEF n
    <3>2. more[i] = chan[i] /\ w[i - 1] = v[i - 1] /\ w[i] = v[i]
      BY <1>1, <1>5, <3>1 DEF n
    <3>. QED  BY <1>2, <3>1, <3>2
  <2>. QED  BY <2>1, <2>2
<1>7. w[0] = k
  BY <1>1, <1>2, <1>5 DEF n
<1>. QED  BY <1>1, <1>5, <1>6, <1>7 DEF Learns, n, next

LEMMA LearnsTheFirst ==
    ASSUME NEW k \in Knowings, NEW chan \in Seq(GameEvents), chan # <<>>, NEW f, NEW personal,
           Learns(k, chan, f, personal), NEW rest, rest = Tail(chan)
    PROVE  /\ Head(chan).kind = "listing" => ~k.started
           /\ Learns(Learned(k, Head(chan), personal), rest, f, personal)
<1>1. /\ Len(chan) \in Nat \ {0} /\ Head(chan) = chan[1]
      /\ Len(rest) = Len(chan) - 1 /\ \A i \in 1 .. Len(chan) - 1 : rest[i] = chan[i + 1]
  BY TailIs
<1>. DEFINE n == Len(rest)
<1>2. n \in Nat /\ Len(chan) = n + 1 /\ \A i \in 1 .. n : rest[i] = chan[i + 1]
  BY <1>1
<1>3. PICK v \in [0 .. n + 1 -> Knowings] :
         /\ v[0] = k /\ v[n + 1] = f
         /\ \A i \in 1 .. n + 1 : /\ v[i] = Learned(v[i - 1], chan[i], personal)
                                  /\ chan[i].kind = "listing" => ~v[i - 1].started
  BY <1>2 DEF Learns
<1>. DEFINE w == [i \in 0 .. n |-> v[i + 1]]
<1>. HIDE DEF n
<1>4. w \in [0 .. n -> Knowings] /\ \A i \in 0 .. n : w[i] = v[i + 1]
  BY <1>2, <1>3
<1>. HIDE DEF w
<1>5. w[0] = Learned(k, Head(chan), personal) /\ (Head(chan).kind = "listing" => ~k.started)
  <2>1. 1 \in 1 .. n + 1 /\ 1 - 1 = 0 /\ 0 \in 0 .. n /\ 0 + 1 = 1
    BY <1>2
  <2>2. v[1] = Learned(v[0], chan[1], personal) /\ (chan[1].kind = "listing" => ~v[0].started)
    BY <1>3, <2>1
  <2>. QED  BY <1>1, <1>3, <1>4, <2>1, <2>2
<1>6. ASSUME NEW i \in 1 .. n
      PROVE  /\ w[i] = Learned(w[i - 1], rest[i], personal)
             /\ rest[i].kind = "listing" => ~w[i - 1].started
  <2>1. i + 1 \in 1 .. n + 1 /\ (i + 1) - 1 = i /\ i \in 0 .. n /\ i - 1 \in 0 .. n /\ (i - 1) + 1 = i
    BY <1>2
  <2>2. /\ v[i + 1] = Learned(v[i], chan[i + 1], personal)
        /\ chan[i + 1].kind = "listing" => ~v[i].started
    BY <1>3, <2>1
  <2>3. w[i] = v[i + 1] /\ w[i - 1] = v[i] /\ rest[i] = chan[i + 1]
    BY <1>2, <1>4, <2>1
  <2>. QED  BY <2>2, <2>3
<1>7. w[n] = f
  BY <1>2, <1>3, <1>4
<1>. QED  BY <1>4, <1>5, <1>6, <1>7 DEF Learns, n

-----------------------------------------------------------------------------
(* What an account tells the lobby.                                        *)

\* The views of listings.
LEMMA ViewOf ==
    ASSUME NEW attrs \in Attrs, NEW running \in BOOLEAN
    PROVE  View(attrs, running) \in Views /\ View(attrs, running) # None /\ View(attrs, running).attrs = attrs
<1>1. View(attrs, running) \in Views /\ View(attrs, running).attrs = attrs
  BY DEF View, Views
<1>. QED  BY <1>1, ViewIs

\* What each stanza makes of an occupant, field by field.
LEMMA HeardFields ==
    ASSUME NEW q \in Occupants
    PROVE  /\ \A attrs \in Attrs :
                LET h == Heard(q, [kind |-> "register", attrs |-> attrs]) IN
                    h.listing = View(attrs, FALSE) /\ h.busy = q.busy
           /\ LET h == Heard(q, Stanza("changestate")) IN
                /\ h.busy = q.busy /\ (q.listing = None => h.listing = None)
                /\ \A attrs \in Attrs, running \in BOOLEAN :
                      q.listing = View(attrs, running) => h.listing = View(attrs, TRUE)
           /\ LET h == Heard(q, Stanza("unregister")) IN h.listing = None /\ h.busy = q.busy
           /\ \A kind \in {"join", "available"} :
                LET h == Heard(q, Stanza(kind)) IN h.listing = q.listing /\ h.busy = FALSE
           /\ LET h == Heard(q, Stanza("playing")) IN h.listing = q.listing /\ h.busy = TRUE
<1>1. ASSUME NEW attrs \in Attrs, NEW h, h = Heard(q, [kind |-> "register", attrs |-> attrs])
      PROVE  h.listing = View(attrs, FALSE) /\ h.busy = q.busy
  <2>. DEFINE view == [attrs |-> attrs, running |-> FALSE]
  <2>1. h = [listing |-> view, busy |-> q.busy]
    BY <1>1, HeardIs
  <2>. HIDE DEF view
  <2>2. h.listing = view /\ h.busy = q.busy
    BY <2>1
  <2>. QED  BY <2>2 DEF view, View
<1>2. ASSUME NEW h, h = Heard(q, Stanza("changestate"))
      PROVE  /\ h.busy = q.busy /\ (q.listing = None => h.listing = None)
             /\ \A attrs \in Attrs, running \in BOOLEAN :
                   q.listing = View(attrs, running) => h.listing = View(attrs, TRUE)
  <2>1. CASE q.listing = None
    BY <1>2, <2>1, HeardIs, ViewOf
  <2>2. CASE q.listing # None
    <3>. DEFINE view == [attrs |-> q.listing.attrs, running |-> TRUE]
    <3>1. h = [listing |-> view, busy |-> q.busy]
      BY <1>2, <2>2, HeardIs
    <3>. HIDE DEF view
    <3>2. h.listing = view /\ h.busy = q.busy
      BY <3>1
    <3>3. \A attrs \in Attrs, running \in BOOLEAN :
             q.listing = View(attrs, running) => view = View(attrs, TRUE)
      BY ViewOf, Zenon DEF view, View
    <3>. QED  BY <2>2, <3>2, <3>3
  <2>. QED  BY <2>1, <2>2
<1>3. ASSUME NEW h, h = Heard(q, Stanza("unregister"))
      PROVE  h.listing = None /\ h.busy = q.busy
  <2>1. h = [listing |-> None, busy |-> q.busy]
    BY <1>3, HeardIs
  <2>. QED  BY <2>1
<1>4. ASSUME NEW kind \in {"join", "available"}, NEW h, h = Heard(q, Stanza(kind))
      PROVE  h.listing = q.listing /\ h.busy = FALSE
  <2>1. h = [listing |-> q.listing, busy |-> FALSE]
    BY <1>4, HeardIs
  <2>. QED  BY <2>1
<1>5. ASSUME NEW h, h = Heard(q, Stanza("playing"))
      PROVE  h.listing = q.listing /\ h.busy = TRUE
  <2>1. h = [listing |-> q.listing, busy |-> TRUE]
    BY <1>5, HeardIs
  <2>. QED  BY <2>1
<1>. QED  BY <1>1, <1>2, <1>3, <1>4, <1>5, Zenon

\* A handler's part that leaves alone whom the account is for, its game and its session.
Alike(acc, new) ==
    /\ new \in Accs /\ new.personal = acc.personal
    /\ new.assigned = acc.assigned /\ new.bound = acc.bound

\* One that leaves alone what it knows and has told of its game.
SameGame(acc, new) ==
    /\ new.unlisted = acc.unlisted /\ new.lastSent = acc.lastSent /\ new.pending = acc.pending
    /\ new.debounce = acc.debounce /\ new.started = acc.started

\* Whoever pictures the occupant right before it, by what is on its way to the lobby,
\* does so after it.
Tells(acc, new) ==
    \A occ \in Occupants, f \in Occupants :
        Pictured(acc, f) /\ Hears(occ, acc.out, f) =>
            \E h \in Occupants : /\ Pictured(new, h) /\ Hears(occ, new.out, h)
                                 /\ f = Seen(acc) => h = Seen(new)

\* The fields of an account.
LEMMA AccIs ==
    ASSUME NEW acc \in Accs
    PROVE  /\ acc.personal \in BOOLEAN /\ acc.unlisted \in BOOLEAN /\ acc.debounce \in BOOLEAN
           /\ acc.started \in BOOLEAN /\ acc.playing \in BOOLEAN /\ acc.bound \in BOOLEAN
           /\ acc.lastSent \in Attrs \cup {None} /\ acc.pending \in Attrs \cup {None}
           /\ acc.assigned \in GameIds \cup {None} /\ acc.out \in Seq(Stanzas)
           /\ acc.debounce => acc.pending # None
BY DEF Accs

\* The occupant an account takes itself to be, field by field.
LEMMA SeenIs ==
    ASSUME NEW acc \in Accs
    PROVE  /\ Seen(acc) \in Occupants /\ Seen(acc).busy = acc.playing
           /\ acc.lastSent = None => Seen(acc).listing = None
           /\ acc.lastSent # None => Seen(acc).listing = View(acc.lastSent, acc.started)
           /\ \A f \in Occupants :
                 f.listing = Seen(acc).listing /\ f.busy = acc.playing => f = Seen(acc)
<1>. DEFINE listing == IF acc.lastSent = None THEN None ELSE View(acc.lastSent, acc.started)
            busy == acc.playing
<1>1. Seen(acc) = [listing |-> listing, busy |-> busy]
  BY DEF Seen
<1>2. listing \in Views \cup {None} /\ busy \in BOOLEAN
  BY AccIs, ViewOf
<1>. HIDE DEF listing, busy
<1>3. Seen(acc) \in Occupants /\ Seen(acc).listing = listing /\ Seen(acc).busy = busy
  BY <1>1, <1>2 DEF Occupants
<1>4. \A f \in Occupants : f.listing = Seen(acc).listing /\ f.busy = busy => f = Seen(acc)
  BY <1>3, SameOccupant
<1>. QED  BY <1>3, <1>4 DEF listing, busy

\* What is told in two parts.
LEMMA TellsOn ==
    ASSUME NEW acc, NEW mid, NEW new, Tells(acc, mid), Tells(mid, new)
    PROVE  Tells(acc, new)
BY DEF Tells

\* Nothing is told, and nothing need be.
LEMMA TellsNothing ==
    ASSUME NEW acc, NEW new, new.out = acc.out, new.lastSent = acc.lastSent,
           new.started = acc.started, new.playing = acc.playing
    PROVE  Tells(acc, new)
<1>1. Seen(new) = Seen(acc) /\ \A f : Pictured(acc, f) => Pictured(new, f)
  BY DEF Seen, Pictured
<1>. QED  BY <1>1 DEF Tells

-----------------------------------------------------------------------------
(* The parts of the handlers.                                              *)

LEMMA PutIs ==
    ASSUME NEW acc \in Accs,
           NEW kind \in {"changestate", "unregister", "join", "available", "playing"},
           NEW new, new = Put(acc, kind)
    PROVE  /\ Alike(acc, new) /\ SameGame(acc, new) /\ new.playing = acc.playing
           /\ new.out = Append(acc.out, Stanza(kind)) /\ Stanza(kind) \in Stanzas
<1>1. Stanza(kind) \in Stanzas
  BY DEF Stanza, Stanzas
<1>2. PICK out : out = Append(acc.out, Stanza(kind))
  OBVIOUS
<1>3. out \in Seq(Stanzas)
  BY <1>1, <1>2, AccIs, AppendProperties
<1>4. new = [acc EXCEPT !.out = out]
  BY <1>2 DEF Put
<1>. QED  BY <1>1, <1>2, <1>3, <1>4 DEF Accs, Alike, SameGame

LEMMA ClearIs ==
    ASSUME NEW acc \in Accs, NEW new, new = Clear(acc)
    PROVE  /\ Alike(acc, new) /\ new.unlisted = acc.unlisted /\ new.playing = acc.playing
           /\ new.out = acc.out /\ new.lastSent = None /\ new.pending = None
           /\ new.debounce = FALSE /\ new.started = FALSE
BY DEF Clear, Accs, Alike

LEMMA ClosedIs ==
    ASSUME NEW acc \in Accs, NEW new, new = Closed(acc)
    PROVE  /\ Alike(acc, new) /\ new.unlisted = acc.unlisted /\ new.playing = acc.playing
           /\ new.out = acc.out /\ new.lastSent = acc.lastSent /\ new.pending = None
           /\ new.debounce = FALSE /\ new.started = acc.started
BY DEF Closed, Accs, Alike

Registered(acc, attrs, new) ==
    /\ Alike(acc, new) /\ new.unlisted = acc.unlisted /\ new.playing = acc.playing
    /\ new.lastSent = attrs /\ new.pending = acc.pending
    /\ new.debounce = FALSE /\ new.started = acc.started
    /\ new.out = Append(acc.out, [kind |-> "register", attrs |-> attrs])
    /\ [kind |-> "register", attrs |-> attrs] \in Stanzas

LEMMA RegisterIs ==
    ASSUME NEW acc \in Accs, NEW attrs \in Attrs, acc.debounce = FALSE,
           NEW new, new = Register(acc, attrs)
    PROVE  Registered(acc, attrs, new)
<1>1. [kind |-> "register", attrs |-> attrs] \in Stanzas
  BY DEF Stanzas
<1>2. PICK out : out = Append(acc.out, [kind |-> "register", attrs |-> attrs])
  OBVIOUS
<1>3. out \in Seq(Stanzas)
  BY <1>1, <1>2, AccIs, AppendProperties
<1>4. new = [acc EXCEPT !.lastSent = attrs, !.out = out]
  BY <1>2 DEF Register
<1>. QED  BY <1>1, <1>2, <1>3, <1>4 DEF Accs, Alike, Registered

LEMMA OfferIs ==
    ASSUME NEW acc \in Accs, NEW attrs \in Attrs, NEW new, new = Offer(acc, attrs)
    PROVE  /\ Alike(acc, new) /\ new.unlisted = acc.unlisted /\ new.playing = acc.playing
           /\ new.out = acc.out /\ new.lastSent = acc.lastSent /\ new.started = acc.started
           /\ \/ new.pending = attrs /\ new.debounce
              \/ new.pending = None /\ new.lastSent = attrs
<1>1. attrs # None
  BY NoneApart
<1>. QED  BY <1>1 DEF Offer, Accs, Alike

\* One stanza is told.
LEMMA TellsOne ==
    ASSUME NEW acc \in Accs, NEW new, NEW s \in Stanzas, new.out = Append(acc.out, s),
           \A f \in Occupants : Pictured(acc, f) =>
               /\ Pictured(new, Heard(f, s))
               /\ f = Seen(acc) => Heard(f, s) = Seen(new)
    PROVE  Tells(acc, new)
<1>. SUFFICES ASSUME NEW occ \in Occupants, NEW f \in Occupants,
                     Pictured(acc, f), Hears(occ, acc.out, f)
              PROVE  \E h \in Occupants : /\ Pictured(new, h) /\ Hears(occ, new.out, h)
                                          /\ f = Seen(acc) => h = Seen(new)
  BY DEF Tells
<1>1. acc.out \in Seq(Stanzas)
  BY AccIs
<1>2. Hears(occ, new.out, Heard(f, s)) /\ Heard(f, s) \in Occupants
  BY <1>1, HearsOneMore, HeardType
<1>. QED  BY <1>2

\* The window closes: what is registered, if anything, was not started.
LEMMA FlushTells ==
    ASSUME NEW acc \in Accs, acc.started => acc.pending = None, NEW new, new = Flush(acc)
    PROVE  /\ Alike(acc, new) /\ new.unlisted = acc.unlisted /\ new.playing = acc.playing
           /\ new.started = acc.started /\ new.pending = None /\ new.debounce = FALSE
           /\ new.lastSent = IF acc.pending # None THEN acc.pending ELSE acc.lastSent
           /\ Tells(acc, new)
<1>1. PICK closed : closed = Closed(acc)
  OBVIOUS
<1>2. /\ Alike(acc, closed) /\ closed.unlisted = acc.unlisted /\ closed.playing = acc.playing
      /\ closed.out = acc.out /\ closed.lastSent = acc.lastSent /\ closed.pending = None
      /\ closed.debounce = FALSE /\ closed.started = acc.started /\ closed \in Accs
  BY <1>1, ClosedIs DEF Alike
<1>3. Tells(acc, closed)
  BY <1>2, TellsNothing
<1>4. CASE acc.pending \in {None, acc.lastSent}
  <2>1. new = closed
    BY <1>1, <1>4 DEF Flush
  <2>. QED  BY <1>2, <1>3, <1>4, <2>1
<1>5. CASE acc.pending \notin {None, acc.lastSent}
  <2>1. acc.pending \in Attrs /\ acc.pending # None /\ acc.started = FALSE
    BY <1>5, AccIs
  <2>2. new = Register(closed, acc.pending)
    BY <1>1, <1>5 DEF Flush
  <2>. DEFINE s == [kind |-> "register", attrs |-> acc.pending]
  <2>3. /\ Alike(closed, new) /\ new.unlisted = closed.unlisted /\ new.playing = closed.playing
        /\ new.lastSent = acc.pending /\ new.pending = closed.pending
        /\ new.debounce = FALSE /\ new.started = closed.started
        /\ new.out = Append(closed.out, s) /\ s \in Stanzas
    <3>1. Registered(closed, acc.pending, new)
      BY <1>2, <2>1, <2>2, RegisterIs
    <3>. QED  BY <3>1 DEF Registered
  <2>4. ASSUME NEW f \in Occupants
        PROVE  /\ Heard(f, s).listing = View(acc.pending, FALSE) /\ Heard(f, s).busy = f.busy
               /\ Heard(f, s) \in Occupants
    <3>1. Heard(f, s) \in Occupants
      BY <2>3, HeardType
    <3>2. \A attrs \in Attrs :
             LET h == Heard(f, [kind |-> "register", attrs |-> attrs]) IN
                 h.listing = View(attrs, FALSE) /\ h.busy = f.busy
      BY HeardFields, Zenon
    <3>. QED  BY <2>1, <3>1, <3>2, Zenon
  <2>. HIDE DEF s
  <2>5. new \in Accs /\ new.lastSent # None /\ Seen(new).listing = View(acc.pending, FALSE)
    <3>1. new \in Accs /\ new.lastSent # None
      BY <2>1, <2>3 DEF Alike
    <3>2. Seen(new).listing = View(new.lastSent, new.started)
      BY <3>1, SeenIs
    <3>3. new.started = FALSE
      BY <1>2, <2>1, <2>3
    <3>. QED  BY <2>3, <3>1, <3>2, <3>3
  <2>6. ASSUME NEW f \in Occupants
        PROVE  Pictured(new, Heard(f, s)) /\ (f = Seen(acc) => Heard(f, s) = Seen(new))
    <3>1. Pictured(new, Heard(f, s))
      BY <2>4, <2>5 DEF Pictured
    <3>2. ASSUME f = Seen(acc)
          PROVE  Heard(f, s) = Seen(new)
      <4>1. Heard(f, s).busy = new.playing
        BY <1>2, <2>3, <2>4, <3>2, SeenIs
      <4>2. Heard(f, s).listing = Seen(new).listing /\ Heard(f, s) \in Occupants
        BY <2>4, <2>5
      <4>. QED  BY <2>5, <4>1, <4>2, SeenIs
    <3>. QED  BY <3>1, <3>2
  <2>7. Tells(acc, new)
    BY <1>2, <2>3, <2>6, TellsOne
  <2>. QED  BY <1>2, <2>1, <2>3, <2>7 DEF Alike
<1>. QED  BY <1>4, <1>5

\* The bot is told to forget the game that the account forgets.
LEMMA OffTells ==
    ASSUME NEW acc \in Accs, NEW condition \in BOOLEAN,
           ~condition /\ acc.bound => acc.lastSent = None,
           NEW new, new = PutIf(condition, Clear(acc), "unregister")
    PROVE  /\ Alike(acc, new) /\ new.unlisted = acc.unlisted /\ new.playing = acc.playing
           /\ new.lastSent = None /\ new.pending = None /\ new.debounce = FALSE
           /\ new.started = FALSE
           /\ ~condition => new.out = acc.out
           /\ acc.bound => Tells(acc, new)
<1>1. PICK clear : clear = Clear(acc)
  OBVIOUS
<1>2. /\ Alike(acc, clear) /\ clear.unlisted = acc.unlisted /\ clear.playing = acc.playing
      /\ clear.out = acc.out /\ clear.lastSent = None /\ clear.pending = None
      /\ clear.debounce = FALSE /\ clear.started = FALSE /\ clear \in Accs
  BY <1>1, ClearIs DEF Alike
<1>3. CASE ~condition
  <2>1. new = clear
    BY <1>1, <1>3 DEF PutIf
  <2>2. ASSUME acc.bound
        PROVE  Tells(acc, new)
    <3>1. acc.lastSent = None
      BY <1>3, <2>2
    <3>2. Seen(new) = Seen(acc)
      BY <1>2, <2>1, <3>1 DEF Seen
    <3>3. \A f : Pictured(acc, f) => Pictured(new, f)
      BY <3>1 DEF Pictured
    <3>. QED  BY <1>2, <2>1, <3>2, <3>3 DEF Tells
  <2>. QED  BY <1>2, <2>1, <2>2
<1>4. CASE condition
  <2>1. new = Put(clear, "unregister")
    BY <1>1, <1>4 DEF PutIf
  <2>. DEFINE s == Stanza("unregister")
  <2>2. /\ Alike(clear, new) /\ SameGame(clear, new) /\ new.playing = clear.playing
        /\ new.out = Append(clear.out, s) /\ s \in Stanzas
    BY <1>2, <2>1, PutIs
  <2>3. ASSUME NEW f \in Occupants
        PROVE  Heard(f, s).listing = None /\ Heard(f, s).busy = f.busy /\ Heard(f, s) \in Occupants
    BY <2>2, HeardFields, HeardType, Zenon
  <2>. HIDE DEF s
  <2>4. new \in Accs /\ new.lastSent = None
    BY <1>2, <2>2 DEF Alike, SameGame
  <2>5. ASSUME NEW f \in Occupants
        PROVE  Pictured(new, Heard(f, s)) /\ (f = Seen(acc) => Heard(f, s) = Seen(new))
    <3>1. Pictured(new, Heard(f, s))
      BY <2>3 DEF Pictured
    <3>2. ASSUME f = Seen(acc)
          PROVE  Heard(f, s) = Seen(new)
      <4>1. Heard(f, s).busy = new.playing
        BY <1>2, <2>2, <2>3, <3>2, SeenIs
      <4>. QED  BY <2>3, <2>4, <4>1, SeenIs
    <3>. QED  BY <3>1, <3>2
  <2>6. Tells(acc, new)
    BY <1>2, <2>2, <2>5, TellsOne
  <2>. QED  BY <1>2, <1>4, <2>2, <2>6 DEF Alike, SameGame
<1>. QED  BY <1>3, <1>4

\* A personal account shows its player, in a session, as it comes to know of it.
LEMMA SetPlayingTells ==
    ASSUME NEW acc \in Accs, NEW value \in BOOLEAN, acc.playing => acc.personal,
           NEW new, new = SetPlaying(acc, value)
    PROVE  /\ Alike(acc, new) /\ SameGame(acc, new)
           /\ new.playing = (acc.personal /\ value)
           /\ ~acc.bound => new.out = acc.out
           /\ acc.bound => Tells(acc, new)
<1>0. /\ acc.playing \in BOOLEAN /\ acc.personal \in BOOLEAN /\ acc.bound \in BOOLEAN
  BY AccIs
<1>1. CASE ~(acc.personal /\ acc.playing # value)
  <2>1. new = acc
    BY <1>1 DEF SetPlaying
  <2>2. acc.playing = (acc.personal /\ value)
    BY <1>0, <1>1
  <2>. QED  BY <2>1, <2>2, TellsNothing DEF Alike, SameGame
<1>2. CASE acc.personal /\ acc.playing # value
  <2>. DEFINE kind == IF value THEN "playing" ELSE "available"
              s == Stanza(kind)
  <2>1. PICK shown : shown = [acc EXCEPT !.playing = value]
    OBVIOUS
  <2>2. /\ Alike(acc, shown) /\ SameGame(acc, shown) /\ shown.playing = value
        /\ shown.out = acc.out /\ shown \in Accs
    BY <2>1 DEF Accs, Alike, SameGame
  <2>3. new = PutIf(acc.bound, shown, kind)
    BY <1>2, <2>1 DEF SetPlaying
  <2>4. CASE ~acc.bound
    <3>1. new = shown
      BY <2>3, <2>4 DEF PutIf
    <3>. QED  BY <1>0, <1>2, <2>2, <2>4, <3>1
  <2>5. CASE acc.bound
    <3>1. new = Put(shown, kind)
      BY <2>3, <2>5 DEF PutIf
    <3>2. /\ Alike(shown, new) /\ SameGame(shown, new) /\ new.playing = shown.playing
          /\ new.out = Append(shown.out, s) /\ s \in Stanzas
      BY <2>2, <3>1, PutIs
    <3>3. ASSUME NEW f \in Occupants
          PROVE  /\ Heard(f, s).listing = f.listing /\ Heard(f, s).busy = value
                 /\ Heard(f, s) \in Occupants
      BY <3>2, HeardFields, HeardType, Zenon
    <3>. HIDE DEF s
    <3>4. new \in Accs /\ new.lastSent = acc.lastSent /\ new.started = acc.started
      BY <2>2, <3>2 DEF Alike, SameGame
    <3>5. ASSUME NEW f \in Occupants, Pictured(acc, f)
          PROVE  Pictured(new, Heard(f, s)) /\ (f = Seen(acc) => Heard(f, s) = Seen(new))
      <4>1. Pictured(new, Heard(f, s))
        BY <3>3, <3>4, <3>5 DEF Pictured
      <4>2. ASSUME f = Seen(acc)
            PROVE  Heard(f, s) = Seen(new)
        <5>1. Heard(f, s).busy = new.playing
          BY <2>2, <3>2, <3>3
        <5>2. Seen(acc).listing = Seen(new).listing
          BY <3>4 DEF Seen
        <5>. QED  BY <3>3, <3>4, <4>2, <5>1, <5>2, SeenIs
      <4>. QED  BY <4>1, <4>2
    <3>6. Tells(acc, new)
      BY <2>2, <3>2, <3>5, TellsOne
    <3>. QED  BY <1>0, <1>2, <2>2, <2>5, <3>2, <3>6 DEF Alike, SameGame
  <2>. QED  BY <1>0, <2>4, <2>5
<1>. QED  BY <1>1, <1>2

\* Two knowings that agree on everything.
LEMMA SameKnowing ==
    ASSUME NEW k \in Knowings, NEW l \in Knowings,
           k.newest = l.newest, k.started = l.started, k.playing = l.playing
    PROVE  k = l
BY DEF Knowings

\* What is known of a game, field by field.
LEMMA KnownIs ==
    /\ Unknown \in Knowings /\ Unknown.newest = None
    /\ Unknown.started = FALSE /\ Unknown.playing = FALSE
    /\ \A acc \in Accs :
         /\ Known(acc) \in Knowings /\ Known(acc).started = acc.started /\ Known(acc).playing = acc.playing
         /\ acc.pending # None => Known(acc).newest = acc.pending
         /\ acc.pending = None => Known(acc).newest = acc.lastSent
<1>1. /\ Unknown \in Knowings /\ Unknown.newest = None
      /\ Unknown.started = FALSE /\ Unknown.playing = FALSE
  BY DEF Unknown, Knowings
<1>2. ASSUME NEW acc \in Accs
      PROVE  /\ Known(acc) \in Knowings /\ Known(acc).started = acc.started /\ Known(acc).playing = acc.playing
             /\ acc.pending # None => Known(acc).newest = acc.pending
             /\ acc.pending = None => Known(acc).newest = acc.lastSent
  <2>. DEFINE newest == IF acc.pending # None THEN acc.pending ELSE acc.lastSent
  <2>1. Known(acc) = [newest |-> newest, started |-> acc.started, playing |-> acc.playing]
    BY DEF Known
  <2>2. newest \in Attrs \cup {None} /\ acc.started \in BOOLEAN /\ acc.playing \in BOOLEAN
    BY AccIs
  <2>3. (acc.pending # None => newest = acc.pending) /\ (acc.pending = None => newest = acc.lastSent)
    OBVIOUS
  <2>. HIDE DEF newest
  <2>4. Known(acc) \in Knowings /\ Known(acc).started = acc.started /\ Known(acc).playing = acc.playing
        /\ Known(acc).newest = newest
    BY <2>1, <2>2 DEF Knowings
  <2>. QED  BY <2>3, <2>4
<1>. QED  BY <1>1, <1>2, Zenon

\* What an account is said to know is what it knows.
LEMMA KnownAs ==
    ASSUME NEW acc \in Accs, NEW k \in Knowings, k.started = acc.started, k.playing = acc.playing,
           acc.pending # None => k.newest = acc.pending,
           acc.pending = None => k.newest = acc.lastSent
    PROVE  Known(acc) = k
<1>1. /\ Known(acc) \in Knowings /\ Known(acc).started = acc.started /\ Known(acc).playing = acc.playing
      /\ acc.pending # None => Known(acc).newest = acc.pending
      /\ acc.pending = None => Known(acc).newest = acc.lastSent
  BY KnownIs, Zenon
<1>. QED  BY <1>1, SameKnowing

\* What an event tells, field by field.
Tidings(k, e, personal, l) ==
    /\ e.kind = "listing" => l.newest = e.attrs /\ l.started = k.started /\ l.playing = personal
    /\ e.kind = "started" => l.newest = k.newest /\ l.started = TRUE /\ l.playing = k.playing
    /\ e.kind = "ended" => l.newest = None /\ l.started = FALSE /\ l.playing = k.playing
    /\ e.kind = "unlisted" => l.newest = None /\ l.started = FALSE /\ l.playing = FALSE

LEMMA LearnedIs ==
    ASSUME NEW k \in Knowings, NEW e \in GameEvents, NEW personal \in BOOLEAN,
           NEW l, l = Learned(k, e, personal)
    PROVE  l \in Knowings /\ Tidings(k, e, personal, l)
<1>1. l \in Knowings
  BY LearnedType
<1>2. ASSUME e.kind = "listing"
      PROVE  l.newest = e.attrs /\ l.started = k.started /\ l.playing = personal
  <2>1. l = [newest |-> e.attrs, started |-> k.started, playing |-> personal]
    BY <1>2 DEF Learned
  <2>. QED  BY <2>1
<1>3. ASSUME e.kind = "started"
      PROVE  l.newest = k.newest /\ l.started = TRUE /\ l.playing = k.playing
  <2>1. l = [newest |-> k.newest, started |-> TRUE, playing |-> k.playing]
    BY <1>3 DEF Learned
  <2>. QED  BY <2>1
<1>4. ASSUME e.kind = "ended"
      PROVE  l.newest = None /\ l.started = FALSE /\ l.playing = k.playing
  <2>1. l = [newest |-> None, started |-> FALSE, playing |-> k.playing]
    BY <1>4 DEF Learned
  <2>. QED  BY <2>1
<1>5. ASSUME e.kind = "unlisted"
      PROVE  l.newest = None /\ l.started = FALSE /\ l.playing = FALSE
  <2>1. l = Unknown
    BY <1>5 DEF Learned
  <2>. QED  BY <2>1, KnownIs
<1>. QED  BY <1>1, <1>2, <1>3, <1>4, <1>5 DEF Tidings

-----------------------------------------------------------------------------
(* The handlers.                                                           *)

\* A handler that tells the lobby in a session what it has to, and without one nothing.
Works(acc, new, personal) ==
    /\ new \in Accs /\ new.bound = acc.bound
    /\ ~acc.bound => new.out = acc.out
    /\ acc.bound => Tells(acc, new)
    /\ Books(new, personal)

\* Its part that changes neither.
LEMMA WorksOn ==
    ASSUME NEW acc, NEW mid, NEW new, mid.bound = acc.bound,
           ~acc.bound => mid.out = acc.out, acc.bound => Tells(acc, mid),
           new.bound = mid.bound, ~mid.bound => new.out = mid.out, mid.bound => Tells(mid, new)
    PROVE  new.bound = acc.bound /\ (~acc.bound => new.out = acc.out) /\ (acc.bound => Tells(acc, new))
BY TellsOn

\* A game is assigned when there is none, so of it nothing is known.
LEMMA OnAssignWorks ==
    ASSUME NEW personal \in BOOLEAN, NEW acc \in Accs, Books(acc, personal), acc.assigned = None,
           NEW g \in GameIds, NEW new, new = OnAssign(acc, g)
    PROVE  Works(acc, new, personal) /\ new.assigned = g /\ Known(new) = Unknown
<1>1. PICK mid : mid = [acc EXCEPT !.assigned = g, !.unlisted = FALSE]
  OBVIOUS
<1>2. /\ mid \in Accs /\ mid.assigned = g /\ mid.personal = acc.personal /\ mid.bound = acc.bound
      /\ mid.out = acc.out /\ mid.playing = acc.playing /\ mid.unlisted = FALSE
  BY <1>1 DEF Accs
<1>3. new = Clear(mid)
  BY <1>1 DEF OnAssign
<1>4. /\ Alike(mid, new) /\ new.unlisted = mid.unlisted /\ new.playing = mid.playing
      /\ new.out = mid.out /\ new.lastSent = None /\ new.pending = None
      /\ new.debounce = FALSE /\ new.started = FALSE
  BY <1>2, <1>3, ClearIs
<1>5. /\ acc.personal = personal /\ acc.lastSent = None /\ ~acc.started /\ ~acc.playing
      /\ acc.started \in BOOLEAN /\ acc.playing \in BOOLEAN
  BY AccIs DEF Books
<1>6. new \in Accs /\ new.personal = personal /\ new.bound = acc.bound /\ new.assigned = g
      /\ new.playing = FALSE
  BY <1>2, <1>4, <1>5 DEF Alike
<1>7. Tells(acc, new)
  BY <1>2, <1>4, <1>5, <1>6, TellsNothing
<1>8. Books(new, personal)
  BY <1>4, <1>6, NoneApart DEF Books
<1>9. Known(new) = Unknown
  BY <1>4, <1>6, KnownIs, KnownAs
<1>. QED  BY <1>2, <1>4, <1>6, <1>7, <1>8, <1>9 DEF Works

\* A release finds the account without a game.
LEMMA OnReleaseWorks ==
    ASSUME NEW personal \in BOOLEAN, NEW acc \in Accs, Books(acc, personal), acc.assigned = None,
           NEW new, new = OnRelease(acc)
    PROVE  Works(acc, new, personal) /\ new.assigned = None
<1>1. PICK mid : mid = [acc EXCEPT !.assigned = None, !.unlisted = FALSE]
  OBVIOUS
<1>2. /\ mid \in Accs /\ mid.assigned = None /\ mid.personal = acc.personal /\ mid.bound = acc.bound
      /\ mid.out = acc.out /\ mid.playing = acc.playing /\ mid.unlisted = FALSE
  BY <1>1 DEF Accs
<1>3. PICK clear : clear = Clear(mid)
  OBVIOUS
<1>4. /\ Alike(mid, clear) /\ clear.unlisted = mid.unlisted /\ clear.playing = mid.playing
      /\ clear.out = mid.out /\ clear.lastSent = None /\ clear.pending = None
      /\ clear.debounce = FALSE /\ clear.started = FALSE
  BY <1>2, <1>3, ClearIs
<1>5. /\ acc.personal = personal /\ acc.lastSent = None /\ ~acc.started /\ ~acc.playing
      /\ acc.started \in BOOLEAN /\ acc.playing \in BOOLEAN
  BY AccIs DEF Books
<1>6. clear \in Accs /\ clear.personal = personal /\ clear.bound = acc.bound /\ clear.assigned = None
      /\ clear.playing = FALSE
  BY <1>2, <1>4, <1>5 DEF Alike
<1>7. new = clear
  BY <1>1, <1>3, <1>6 DEF OnRelease, SetPlaying
<1>8. Tells(acc, new)
  BY <1>2, <1>4, <1>5, <1>6, <1>7, TellsNothing
<1>9. Books(new, personal)
  BY <1>4, <1>6, <1>7 DEF Books
<1>. QED  BY <1>2, <1>4, <1>6, <1>7, <1>8, <1>9 DEF Works

\* A listing is pending, or is what the bot has; none comes once the game has started.
LEMMA OnListingWorks ==
    ASSUME NEW personal \in BOOLEAN, NEW acc \in Accs, Books(acc, personal), acc.assigned # None,
           NEW e \in GameEvents, e.kind = "listing", ~Known(acc).started,
           NEW new, new = OnListing(acc, e.attrs)
    PROVE  Works(acc, new, personal) /\ Known(new) = Learned(Known(acc), e, personal)
<1>0. e.attrs \in Attrs
  BY DEF GameEvents
<1>1. PICK offered : offered = Offer(acc, e.attrs)
  OBVIOUS
<1>2. /\ Alike(acc, offered) /\ offered.playing = acc.playing
      /\ offered.out = acc.out /\ offered.lastSent = acc.lastSent /\ offered.started = acc.started
      /\ \/ offered.pending = e.attrs /\ offered.debounce
         \/ offered.pending = None /\ offered.lastSent = e.attrs
  BY <1>0, <1>1, OfferIs
<1>3. PICK mid : mid = [offered EXCEPT !.unlisted = FALSE]
  OBVIOUS
<1>4. /\ Alike(acc, mid) /\ mid.playing = acc.playing /\ mid.unlisted = FALSE
      /\ mid.out = acc.out /\ mid.lastSent = acc.lastSent /\ mid.started = acc.started
      /\ mid.pending = offered.pending /\ mid.debounce = offered.debounce
  BY <1>2, <1>3 DEF Accs, Alike
<1>5. new = SetPlaying(mid, TRUE)
  BY <1>1, <1>3 DEF OnListing
<1>6. /\ acc.personal = personal /\ (acc.playing => personal) /\ acc.started = FALSE
  BY AccIs, KnownIs DEF Books
<1>7. mid \in Accs /\ mid.personal = personal /\ mid.bound = acc.bound /\ mid.assigned = acc.assigned
  BY <1>4, <1>6 DEF Alike
<1>8. /\ Alike(mid, new) /\ SameGame(mid, new) /\ new.playing = (mid.personal /\ TRUE)
      /\ ~mid.bound => new.out = mid.out
      /\ mid.bound => Tells(mid, new)
  BY <1>4, <1>5, <1>6, <1>7, SetPlayingTells
<1>9. /\ new \in Accs /\ new.personal = personal /\ new.bound = acc.bound
      /\ new.assigned = acc.assigned /\ new.unlisted = FALSE /\ new.lastSent = acc.lastSent
      /\ new.pending = offered.pending /\ new.debounce = offered.debounce
      /\ new.started = FALSE /\ new.playing = personal
  BY <1>4, <1>6, <1>7, <1>8 DEF Alike, SameGame
<1>10. new.bound = acc.bound /\ (~acc.bound => new.out = acc.out) /\ (acc.bound => Tells(acc, new))
  <2>1. Tells(acc, mid)
    BY <1>4, TellsNothing
  <2>. QED  BY <1>4, <1>7, <1>8, <1>9, <2>1, WorksOn
<1>11. Books(new, personal)
  BY <1>0, <1>2, <1>9, NoneApart DEF Books
<1>12. Known(new) = Learned(Known(acc), e, personal)
  <2>1. PICK l : l = Learned(Known(acc), e, personal)
    OBVIOUS
  <2>2. Known(acc) \in Knowings /\ Known(acc).started = acc.started
    BY KnownIs, Zenon
  <2>3. l \in Knowings /\ Tidings(Known(acc), e, personal, l)
    BY <2>1, <2>2, LearnedIs, Zenon
  <2>4. l.started = new.started /\ l.playing = new.playing
    BY <1>6, <1>9, <2>2, <2>3 DEF Tidings
  <2>5. /\ new.pending # None => l.newest = new.pending
        /\ new.pending = None => l.newest = new.lastSent
    BY <1>0, <1>2, <1>9, <2>3, NoneApart DEF Tidings
  <2>6. Known(new) = l
    BY <1>9, <2>3, <2>4, <2>5, KnownAs
  <2>. QED  BY <2>1, <2>6
<1>. QED  BY <1>9, <1>10, <1>11, <1>12 DEF Works

\* The start of the match is told behind the last listing.
LEMMA OnStartedWorks ==
    ASSUME NEW personal \in BOOLEAN, NEW acc \in Accs, Books(acc, personal), acc.assigned # None,
           NEW e \in GameEvents, e.kind = "started", NEW new, new = OnStarted(acc)
    PROVE  Works(acc, new, personal) /\ Known(new) = Learned(Known(acc), e, personal)
<1>1. PICK l : l = Learned(Known(acc), e, personal)
  OBVIOUS
<1>2. /\ l \in Knowings /\ l.newest = Known(acc).newest /\ l.started = TRUE
      /\ l.playing = acc.playing
      /\ acc.pending # None => l.newest = acc.pending
      /\ acc.pending = None => l.newest = acc.lastSent
  <2>1. /\ Known(acc) \in Knowings /\ Known(acc).playing = acc.playing
        /\ acc.pending # None => Known(acc).newest = acc.pending
        /\ acc.pending = None => Known(acc).newest = acc.lastSent
    BY KnownIs, Zenon
  <2>2. l \in Knowings /\ Tidings(Known(acc), e, personal, l)
    BY <1>1, <2>1, LearnedIs, Zenon
  <2>. QED  BY <2>1, <2>2 DEF Tidings
<1>3. CASE ~acc.bound
  <2>1. new = [acc EXCEPT !.started = TRUE]
    BY <1>3 DEF OnStarted
  <2>2. /\ Alike(acc, new) /\ new.unlisted = acc.unlisted /\ new.lastSent = acc.lastSent
        /\ new.pending = acc.pending /\ new.debounce = acc.debounce
        /\ new.started = TRUE /\ new.playing = acc.playing /\ new.out = acc.out
    BY <2>1 DEF Accs, Alike
  <2>3. new \in Accs /\ new.personal = acc.personal /\ new.assigned = acc.assigned /\ new.bound = acc.bound
    BY <2>2 DEF Alike
  <2>4. Books(new, personal)
    BY <1>3, <2>2, <2>3 DEF Books
  <2>5. Known(new) = l
    BY <1>2, <2>2, <2>3, KnownAs
  <2>. QED  BY <1>1, <1>3, <2>2, <2>3, <2>4, <2>5 DEF Works
<1>4. CASE acc.bound
  <2>1. PICK flushed : flushed = Flush(acc)
    OBVIOUS
  <2>2. /\ Alike(acc, flushed) /\ flushed.unlisted = acc.unlisted /\ flushed.playing = acc.playing
        /\ flushed.started = acc.started /\ flushed.pending = None /\ flushed.debounce = FALSE
        /\ flushed.lastSent = IF acc.pending # None THEN acc.pending ELSE acc.lastSent
        /\ Tells(acc, flushed)
    BY <1>4, <2>1, FlushTells DEF Books
  <2>3. PICK told : told = Put(flushed, "changestate")
    OBVIOUS
  <2>. DEFINE s == Stanza("changestate")
  <2>4. flushed \in Accs
    BY <2>2 DEF Alike
  <2>5. /\ Alike(flushed, told) /\ SameGame(flushed, told) /\ told.playing = flushed.playing
        /\ told.out = Append(flushed.out, s) /\ s \in Stanzas /\ told \in Accs
    BY <2>3, <2>4, PutIs DEF Alike
  <2>6. new = [told EXCEPT !.started = TRUE]
    BY <1>4, <2>1, <2>3 DEF OnStarted
  <2>7. /\ Alike(told, new) /\ new.unlisted = told.unlisted /\ new.lastSent = told.lastSent
        /\ new.pending = told.pending /\ new.debounce = told.debounce
        /\ new.started = TRUE /\ new.playing = told.playing /\ new.out = told.out
    BY <2>5, <2>6 DEF Accs, Alike
  <2>8. /\ new \in Accs /\ new.personal = acc.personal /\ new.assigned = acc.assigned
        /\ new.bound = acc.bound /\ new.unlisted = acc.unlisted
        /\ new.lastSent = flushed.lastSent /\ new.pending = None /\ new.debounce = FALSE
        /\ new.playing = acc.playing /\ new.out = Append(flushed.out, s)
    BY <2>2, <2>5, <2>7 DEF Alike, SameGame
  <2>9. ASSUME NEW f \in Occupants
        PROVE  /\ Heard(f, s) \in Occupants /\ Heard(f, s).busy = f.busy
               /\ f.listing = None => Heard(f, s).listing = None
               /\ \A attrs \in Attrs, running \in BOOLEAN :
                     f.listing = View(attrs, running) => Heard(f, s).listing = View(attrs, TRUE)
    BY <2>5, HeardFields, HeardType, Zenon
  <2>. HIDE DEF s
  <2>10. ASSUME NEW f \in Occupants, Pictured(flushed, f)
         PROVE  Pictured(new, Heard(f, s)) /\ (f = Seen(flushed) => Heard(f, s) = Seen(new))
    <3>1. Pictured(new, Heard(f, s))
      BY <2>8, <2>9, <2>10 DEF Pictured
    <3>2. ASSUME f = Seen(flushed)
          PROVE  Heard(f, s) = Seen(new)
      <4>1. Heard(f, s).busy = new.playing
        BY <2>2, <2>4, <2>8, <2>9, <3>2, SeenIs
      <4>2. Heard(f, s).listing = Seen(new).listing
        <5>1. CASE flushed.lastSent = None
          BY <2>4, <2>8, <2>9, <3>2, <5>1, SeenIs
        <5>2. CASE flushed.lastSent # None
          <6>1. flushed.lastSent \in Attrs /\ flushed.started \in BOOLEAN
            BY <2>4, <5>2, AccIs
          <6>2. f.listing = View(flushed.lastSent, flushed.started)
            BY <2>4, <3>2, <5>2, SeenIs
          <6>3. Heard(f, s).listing = View(flushed.lastSent, TRUE)
            BY <2>9, <6>1, <6>2
          <6>4. Seen(new).listing = View(new.lastSent, new.started)
            BY <2>8, <5>2, SeenIs
          <6>. QED  BY <2>7, <2>8, <6>3, <6>4
        <5>. QED  BY <5>1, <5>2
      <4>. QED  BY <2>8, <2>9, <4>1, <4>2, SeenIs
    <3>. QED  BY <3>1, <3>2
  <2>11. Tells(flushed, new)
    BY <2>4, <2>5, <2>8, <2>10, TellsOne
  <2>12. Tells(acc, new)
    BY <2>2, <2>11, TellsOn
  <2>13. Books(new, personal)
    BY <2>2, <2>8 DEF Books
  <2>14. Known(new) = l
    BY <1>2, <2>2, <2>7, <2>8, KnownAs
  <2>. QED  BY <1>1, <1>4, <2>8, <2>12, <2>13, <2>14 DEF Works
<1>. QED  BY <1>3, <1>4

\* The verdict takes the game off the lobby.
LEMMA OnEndedWorks ==
    ASSUME NEW personal \in BOOLEAN, NEW acc \in Accs, Books(acc, personal), acc.assigned # None,
           NEW e \in GameEvents, e.kind = "ended", NEW new, new = OnEnded(acc)
    PROVE  Works(acc, new, personal) /\ Known(new) = Learned(Known(acc), e, personal)
<1>1. PICK off : off = PutIf(acc.bound, Clear(acc), "unregister")
  OBVIOUS
<1>2. acc.bound \in BOOLEAN /\ acc.personal = personal /\ (acc.playing => personal)
  BY AccIs DEF Books
<1>3. /\ Alike(acc, off) /\ off.playing = acc.playing
      /\ off.lastSent = None /\ off.pending = None /\ off.debounce = FALSE /\ off.started = FALSE
      /\ ~acc.bound => off.out = acc.out
      /\ acc.bound => Tells(acc, off)
  BY <1>1, <1>2, OffTells
<1>4. new = [off EXCEPT !.unlisted = TRUE]
  BY <1>1 DEF OnEnded
<1>5. /\ Alike(off, new) /\ new.playing = off.playing /\ new.out = off.out
      /\ new.lastSent = None /\ new.pending = None /\ new.debounce = FALSE /\ new.started = FALSE
  BY <1>3, <1>4 DEF Accs, Alike
<1>6. /\ new \in Accs /\ new.personal = personal /\ new.bound = acc.bound
      /\ new.assigned = acc.assigned /\ new.playing = acc.playing
  BY <1>2, <1>3, <1>5 DEF Alike
<1>7. (~acc.bound => new.out = acc.out) /\ (acc.bound => Tells(acc, new))
  <2>1. Tells(off, new)
    BY <1>3, <1>5, TellsNothing
  <2>. QED  BY <1>3, <1>5, <2>1, TellsOn
<1>8. Books(new, personal)
  BY <1>2, <1>5, <1>6 DEF Books
<1>9. PICK l : l = Learned(Known(acc), e, personal)
  OBVIOUS
<1>10. l \in Knowings /\ l.newest = None /\ l.started = FALSE /\ l.playing = acc.playing
  <2>1. Known(acc) \in Knowings /\ Known(acc).playing = acc.playing
    BY KnownIs, Zenon
  <2>2. l \in Knowings /\ Tidings(Known(acc), e, personal, l)
    BY <1>9, <2>1, LearnedIs, Zenon
  <2>. QED  BY <2>1, <2>2 DEF Tidings
<1>11. Known(new) = l
  BY <1>5, <1>6, <1>10, KnownAs
<1>. QED  BY <1>6, <1>7, <1>8, <1>9, <1>11 DEF Works

\* A game is taken off the lobby once, by the verdict or here.
LEMMA OnUnlistedWorks ==
    ASSUME NEW personal \in BOOLEAN, NEW acc \in Accs, Books(acc, personal), acc.assigned # None,
           NEW e \in GameEvents, e.kind = "unlisted", NEW new, new = OnUnlisted(acc)
    PROVE  Works(acc, new, personal) /\ Known(new) = Learned(Known(acc), e, personal)
<1>1. PICK off : off = PutIf(acc.bound /\ ~acc.unlisted, Clear(acc), "unregister")
  OBVIOUS
<1>2. /\ acc.bound \in BOOLEAN /\ acc.unlisted \in BOOLEAN /\ acc.personal = personal
      /\ acc.playing => personal
      /\ acc.unlisted => acc.lastSent = None
  BY AccIs DEF Books
<1>3. /\ Alike(acc, off) /\ off.playing = acc.playing
      /\ off.lastSent = None /\ off.pending = None /\ off.debounce = FALSE /\ off.started = FALSE
      /\ ~(acc.bound /\ ~acc.unlisted) => off.out = acc.out
      /\ acc.bound => Tells(acc, off)
  BY <1>1, <1>2, OffTells
<1>4. PICK mid : mid = [off EXCEPT !.unlisted = TRUE]
  OBVIOUS
<1>5. /\ Alike(off, mid) /\ mid.playing = off.playing /\ mid.out = off.out
      /\ mid.lastSent = None /\ mid.pending = None /\ mid.debounce = FALSE /\ mid.started = FALSE
  BY <1>3, <1>4 DEF Accs, Alike
<1>6. /\ mid \in Accs /\ mid.personal = personal /\ mid.bound = acc.bound
      /\ mid.assigned = acc.assigned /\ mid.playing = acc.playing
  BY <1>2, <1>3, <1>5 DEF Alike
<1>7. new = SetPlaying(mid, FALSE)
  BY <1>1, <1>4 DEF OnUnlisted
<1>8. /\ Alike(mid, new) /\ SameGame(mid, new) /\ new.playing = (mid.personal /\ FALSE)
      /\ ~mid.bound => new.out = mid.out
      /\ mid.bound => Tells(mid, new)
  BY <1>2, <1>6, <1>7, SetPlayingTells
<1>9. /\ new \in Accs /\ new.personal = personal /\ new.bound = acc.bound
      /\ new.assigned = acc.assigned /\ new.playing = FALSE
      /\ new.lastSent = None /\ new.pending = None /\ new.debounce = FALSE /\ new.started = FALSE
  BY <1>5, <1>6, <1>8 DEF Alike, SameGame
<1>10. (~acc.bound => new.out = acc.out) /\ (acc.bound => Tells(acc, new))
  <2>1. Tells(off, mid)
    BY <1>3, <1>5, TellsNothing
  <2>. QED  BY <1>3, <1>5, <1>6, <1>8, <2>1, TellsOn
<1>11. Books(new, personal)
  BY <1>9 DEF Books
<1>12. PICK l : l = Learned(Known(acc), e, personal)
  OBVIOUS
<1>13. l \in Knowings /\ l.newest = None /\ l.started = FALSE /\ l.playing = FALSE
  <2>1. Known(acc) \in Knowings
    BY KnownIs, Zenon
  <2>2. l \in Knowings /\ Tidings(Known(acc), e, personal, l)
    BY <1>12, <2>1, LearnedIs, Zenon
  <2>. QED  BY <2>2 DEF Tidings
<1>14. Known(new) = l
  BY <1>9, <1>13, KnownAs
<1>. QED  BY <1>9, <1>10, <1>11, <1>12, <1>14 DEF Works

\* A game that is gone is taken off the lobby, unless it was, and forgotten.
LEMMA OnGoneWorks ==
    ASSUME NEW personal \in BOOLEAN, NEW acc \in Accs, Books(acc, personal),
           NEW new, new = OnGone(acc)
    PROVE  Works(acc, new, personal) /\ new.assigned = None
<1>1. PICK off : off = PutIf(acc.bound /\ ~acc.unlisted, Clear(acc), "unregister")
  OBVIOUS
<1>2. /\ acc.bound \in BOOLEAN /\ acc.unlisted \in BOOLEAN /\ acc.personal = personal
      /\ acc.playing => personal
      /\ acc.unlisted => acc.lastSent = None
  BY AccIs DEF Books
<1>3. /\ Alike(acc, off) /\ off.playing = acc.playing
      /\ off.lastSent = None /\ off.pending = None /\ off.debounce = FALSE /\ off.started = FALSE
      /\ ~(acc.bound /\ ~acc.unlisted) => off.out = acc.out
      /\ acc.bound => Tells(acc, off)
  BY <1>1, <1>2, OffTells
<1>4. PICK mid : mid = [off EXCEPT !.assigned = None, !.unlisted = FALSE]
  OBVIOUS
<1>5. /\ mid \in Accs /\ mid.personal = off.personal /\ mid.bound = off.bound /\ mid.assigned = None
      /\ mid.playing = off.playing /\ mid.out = off.out
      /\ mid.lastSent = None /\ mid.pending = None /\ mid.debounce = FALSE /\ mid.started = FALSE
  BY <1>3, <1>4 DEF Accs, Alike
<1>6. mid.personal = personal /\ mid.bound = acc.bound /\ mid.playing = acc.playing
  BY <1>2, <1>3, <1>5 DEF Alike
<1>7. new = SetPlaying(mid, FALSE)
  BY <1>1, <1>4 DEF OnGone
<1>8. /\ Alike(mid, new) /\ SameGame(mid, new) /\ new.playing = (mid.personal /\ FALSE)
      /\ ~mid.bound => new.out = mid.out
      /\ mid.bound => Tells(mid, new)
  BY <1>2, <1>5, <1>6, <1>7, SetPlayingTells
<1>9. /\ new \in Accs /\ new.personal = personal /\ new.bound = acc.bound
      /\ new.assigned = None /\ new.playing = FALSE
      /\ new.lastSent = None /\ new.pending = None /\ new.debounce = FALSE /\ new.started = FALSE
  BY <1>5, <1>6, <1>8 DEF Alike, SameGame
<1>10. (~acc.bound => new.out = acc.out) /\ (acc.bound => Tells(acc, new))
  <2>1. Tells(off, mid)
    BY <1>3, <1>5, TellsNothing
  <2>. QED  BY <1>3, <1>5, <1>6, <1>8, <2>1, TellsOn
<1>11. Books(new, personal)
  BY <1>9 DEF Books
<1>. QED  BY <1>9, <1>10, <1>11 DEF Works

\* The window closes, in a session with what was pending told.
LEMMA OnDebounceWorks ==
    ASSUME NEW personal \in BOOLEAN, NEW acc \in Accs, Books(acc, personal),
           NEW new, new = OnDebounce(acc)
    PROVE  Works(acc, new, personal) /\ new.assigned = acc.assigned /\ Known(new) = Known(acc)
<1>1. /\ Known(acc) \in Knowings /\ Known(acc).started = acc.started /\ Known(acc).playing = acc.playing
      /\ acc.pending # None => Known(acc).newest = acc.pending
      /\ acc.pending = None => Known(acc).newest = acc.lastSent
  BY KnownIs, Zenon
<1>2. CASE ~acc.bound
  <2>1. new = [acc EXCEPT !.debounce = FALSE]
    BY <1>2 DEF OnDebounce
  <2>2. /\ Alike(acc, new) /\ new.unlisted = acc.unlisted /\ new.lastSent = acc.lastSent
        /\ new.pending = acc.pending /\ new.started = acc.started /\ new.playing = acc.playing
        /\ new.out = acc.out
    BY <2>1 DEF Accs, Alike
  <2>3. new \in Accs /\ new.personal = acc.personal /\ new.assigned = acc.assigned /\ new.bound = acc.bound
    BY <2>2 DEF Alike
  <2>4. Books(new, personal)
    BY <1>2, <2>2, <2>3 DEF Books
  <2>5. Known(new) = Known(acc)
    BY <1>1, <2>2, <2>3, KnownAs
  <2>. QED  BY <1>2, <2>2, <2>3, <2>4, <2>5 DEF Works
<1>3. CASE acc.bound
  <2>1. new = Flush(acc)
    BY <1>3 DEF OnDebounce
  <2>2. /\ Alike(acc, new) /\ new.unlisted = acc.unlisted /\ new.playing = acc.playing
        /\ new.started = acc.started /\ new.pending = None /\ new.debounce = FALSE
        /\ new.lastSent = IF acc.pending # None THEN acc.pending ELSE acc.lastSent
        /\ Tells(acc, new)
    BY <1>3, <2>1, FlushTells DEF Books
  <2>3. new \in Accs /\ new.personal = acc.personal /\ new.assigned = acc.assigned /\ new.bound = acc.bound
    BY <2>2 DEF Alike
  <2>4. Books(new, personal)
    BY <2>2, <2>3 DEF Books
  <2>5. Known(new) = Known(acc)
    BY <1>1, <2>2, <2>3, KnownAs
  <2>. QED  BY <1>3, <2>2, <2>3, <2>4, <2>5 DEF Works
<1>. QED  BY <1>2, <1>3

\* The account joins the room and shows its player: it is free then, or playing.
Showing(acc, shown) ==
    /\ shown \in Accs /\ shown.personal = acc.personal /\ shown.assigned = acc.assigned
    /\ shown.bound = TRUE /\ SameGame(acc, shown) /\ shown.playing = acc.playing
    /\ \A occ \in Occupants, f \in Occupants :
          Hears(occ, acc.out, f) =>
              \E h \in Occupants : /\ Hears(occ, shown.out, h)
                                   /\ h.listing = f.listing /\ h.busy = shown.playing

LEMMA ShownTells ==
    ASSUME NEW acc \in Accs, acc.playing => acc.personal, NEW shown,
           shown = PutIf(acc.personal /\ acc.playing, Put([acc EXCEPT !.bound = TRUE], "join"), "playing")
    PROVE  Showing(acc, shown)
<1>0. acc.playing \in BOOLEAN /\ acc.personal \in BOOLEAN /\ acc.out \in Seq(Stanzas)
  BY AccIs
<1>1. PICK bound : bound = [acc EXCEPT !.bound = TRUE]
  OBVIOUS
<1>2. /\ bound \in Accs /\ bound.personal = acc.personal /\ bound.assigned = acc.assigned
      /\ bound.bound = TRUE /\ SameGame(acc, bound) /\ bound.playing = acc.playing
      /\ bound.out = acc.out
  BY <1>1 DEF Accs, SameGame
<1>3. PICK joined : joined = Put(bound, "join")
  OBVIOUS
<1>. DEFINE s == Stanza("join")
<1>4. /\ Alike(bound, joined) /\ SameGame(bound, joined) /\ joined.playing = bound.playing
      /\ joined.out = Append(bound.out, s) /\ s \in Stanzas /\ joined \in Accs
  BY <1>2, <1>3, PutIs DEF Alike
<1>5. joined.out \in Seq(Stanzas)
  BY <1>4, AccIs
<1>6. ASSUME NEW f \in Occupants
      PROVE  Heard(f, s) \in Occupants /\ Heard(f, s).listing = f.listing /\ Heard(f, s).busy = FALSE
  BY <1>4, HeardFields, HeardType, Zenon
<1>. HIDE DEF s
<1>7. ASSUME NEW occ \in Occupants, NEW f \in Occupants, Hears(occ, acc.out, f)
      PROVE  Hears(occ, joined.out, Heard(f, s))
  BY <1>0, <1>2, <1>4, <1>7, HearsOneMore
<1>8. CASE ~acc.playing
  <2>1. shown = joined
    BY <1>1, <1>3, <1>8 DEF PutIf
  <2>2. /\ shown \in Accs /\ shown.personal = acc.personal /\ shown.assigned = acc.assigned
        /\ shown.bound = TRUE /\ SameGame(acc, shown) /\ shown.playing = acc.playing
    BY <1>2, <1>4, <2>1 DEF Alike, SameGame
  <2>3. shown.playing = FALSE
    BY <1>0, <1>8, <2>2
  <2>4. ASSUME NEW occ \in Occupants, NEW f \in Occupants, Hears(occ, acc.out, f)
        PROVE  \E h \in Occupants : /\ Hears(occ, shown.out, h)
                                    /\ h.listing = f.listing /\ h.busy = shown.playing
    BY <1>6, <1>7, <2>1, <2>3, <2>4
  <2>. QED  BY <2>2, <2>4 DEF Showing
<1>9. CASE acc.playing
  <2>1. shown = Put(joined, "playing")
    BY <1>1, <1>3, <1>9 DEF PutIf
  <2>. DEFINE t == Stanza("playing")
  <2>2. /\ Alike(joined, shown) /\ SameGame(joined, shown) /\ shown.playing = joined.playing
        /\ shown.out = Append(joined.out, t) /\ t \in Stanzas /\ shown \in Accs
    <3>1. /\ Alike(joined, shown) /\ SameGame(joined, shown) /\ shown.playing = joined.playing
          /\ shown.out = Append(joined.out, t) /\ t \in Stanzas
      BY <1>4, <2>1, PutIs
    <3>. QED  BY <3>1 DEF Alike
  <2>3. ASSUME NEW f \in Occupants
        PROVE  Heard(f, t) \in Occupants /\ Heard(f, t).listing = f.listing /\ Heard(f, t).busy = TRUE
    BY <2>2, HeardFields, HeardType, Zenon
  <2>. HIDE DEF t
  <2>4. ASSUME NEW occ \in Occupants, NEW f \in Occupants, Hears(occ, acc.out, f)
        PROVE  \E h \in Occupants : /\ Hears(occ, shown.out, h)
                                    /\ h.listing = f.listing /\ h.busy = shown.playing
    <3>1. PICK j \in Occupants : j = Heard(f, s) /\ Hears(occ, joined.out, j) /\ j.listing = f.listing
      BY <1>6, <1>7, <2>4
    <3>2. Hears(occ, shown.out, Heard(j, t))
      BY <1>5, <2>2, <3>1, HearsOneMore
    <3>3. shown.playing = TRUE
      BY <1>0, <1>2, <1>4, <1>9, <2>2
    <3>. QED  BY <2>3, <3>1, <3>2, <3>3
  <2>5. /\ shown.personal = acc.personal /\ shown.assigned = acc.assigned /\ shown.bound = TRUE
        /\ SameGame(acc, shown) /\ shown.playing = acc.playing
    BY <1>2, <1>4, <2>2 DEF Alike, SameGame
  <2>. QED  BY <2>2, <2>4, <2>5 DEF Showing
<1>. QED  BY <1>8, <1>9

\* The newest listing is told again, and that its game has started.
LEMMA ResendTells ==
    ASSUME NEW acc \in Accs, NEW new, new = Resend(acc)
    PROVE  /\ Alike(acc, new) /\ new.unlisted = acc.unlisted /\ new.playing = acc.playing
           /\ new.started = acc.started /\ new.pending = None /\ new.debounce = FALSE
           /\ new.lastSent = IF acc.pending # None THEN acc.pending ELSE acc.lastSent
           /\ \A occ \in Occupants, f \in Occupants :
                 Pictured(acc, f) /\ f.busy = acc.playing /\ Hears(occ, acc.out, f) =>
                     Hears(occ, new.out, Seen(new))
<1>1. PICK newest : newest = IF acc.pending # None THEN acc.pending ELSE acc.lastSent
  OBVIOUS
<1>2. newest \in Attrs \cup {None} /\ acc.started \in BOOLEAN
  BY <1>1, AccIs
<1>3. CASE newest = None
  <2>1. new = [acc EXCEPT !.debounce = FALSE]
    BY <1>1, <1>3 DEF Resend
  <2>2. /\ Alike(acc, new) /\ new.unlisted = acc.unlisted /\ new.lastSent = acc.lastSent
        /\ new.pending = acc.pending /\ new.started = acc.started /\ new.playing = acc.playing
        /\ new.out = acc.out /\ new.debounce = FALSE /\ new \in Accs
    BY <2>1 DEF Accs, Alike
  <2>3. acc.pending = None /\ acc.lastSent = None
    BY <1>1, <1>3
  <2>4. ASSUME NEW f \in Occupants, Pictured(acc, f), f.busy = acc.playing
        PROVE  f = Seen(new)
    BY <2>2, <2>3, <2>4, SeenIs DEF Pictured
  <2>. QED  BY <2>2, <2>3, <2>4
<1>4. CASE newest # None
  <2>0. newest \in Attrs
    BY <1>2, <1>4
  <2>1. PICK closed : closed = Closed(acc)
    OBVIOUS
  <2>2. PICK again : again = Register(closed, newest)
    OBVIOUS
  <2>3. new = PutIf(acc.started, again, "changestate")
    BY <1>1, <1>4, <2>1, <2>2 DEF Resend
  <2>4. /\ Alike(acc, closed) /\ closed.unlisted = acc.unlisted /\ closed.playing = acc.playing
        /\ closed.out = acc.out /\ closed.pending = None
        /\ closed.debounce = FALSE /\ closed.started = acc.started /\ closed \in Accs
    BY <2>1, ClosedIs DEF Alike
  <2>. DEFINE s == [kind |-> "register", attrs |-> newest]
  <2>5. /\ Alike(closed, again) /\ again.unlisted = closed.unlisted /\ again.playing = closed.playing
        /\ again.lastSent = newest /\ again.pending = closed.pending
        /\ again.debounce = FALSE /\ again.started = closed.started
        /\ again.out = Append(closed.out, s) /\ s \in Stanzas /\ again \in Accs
    <3>1. Registered(closed, newest, again)
      BY <2>0, <2>2, <2>4, RegisterIs
    <3>. QED  BY <3>1 DEF Registered, Alike
  <2>6. ASSUME NEW f \in Occupants
        PROVE  /\ Heard(f, s).listing = View(newest, FALSE) /\ Heard(f, s).busy = f.busy
               /\ Heard(f, s) \in Occupants
    <3>1. Heard(f, s) \in Occupants
      BY <2>5, HeardType
    <3>2. \A attrs \in Attrs :
             LET h == Heard(f, [kind |-> "register", attrs |-> attrs]) IN
                 h.listing = View(attrs, FALSE) /\ h.busy = f.busy
      BY HeardFields, Zenon
    <3>. QED  BY <2>0, <3>1, <3>2, Zenon
  <2>. HIDE DEF s
  <2>7. again.out \in Seq(Stanzas) /\ acc.out \in Seq(Stanzas)
    BY <2>5, AccIs
  <2>8. ASSUME NEW occ \in Occupants, NEW f \in Occupants, Hears(occ, acc.out, f)
        PROVE  Hears(occ, again.out, Heard(f, s))
    BY <2>4, <2>5, <2>7, <2>8, HearsOneMore
  <2>9. CASE ~acc.started
    <3>1. new = again
      BY <2>3, <2>9 DEF PutIf
    <3>2. /\ Alike(acc, new) /\ new.unlisted = acc.unlisted /\ new.playing = acc.playing
          /\ new.started = acc.started /\ new.pending = None /\ new.debounce = FALSE
          /\ new.lastSent = newest /\ new \in Accs /\ new.out = again.out
      BY <2>4, <2>5, <3>1 DEF Alike
    <3>3. Seen(new).listing = View(newest, FALSE)
      <4>1. Seen(new).listing = View(new.lastSent, new.started)
        BY <1>4, <3>2, SeenIs
      <4>2. new.started = FALSE
        BY <1>2, <2>9, <3>2
      <4>. QED  BY <3>2, <4>1, <4>2
    <3>4. ASSUME NEW occ \in Occupants, NEW f \in Occupants, f.busy = acc.playing, Hears(occ, acc.out, f)
          PROVE  Hears(occ, new.out, Seen(new))
      <4>1. Heard(f, s) = Seen(new)
        <5>1. /\ Heard(f, s).listing = Seen(new).listing /\ Heard(f, s).busy = new.playing
              /\ Heard(f, s) \in Occupants
          BY <2>6, <3>2, <3>3, <3>4
        <5>. QED  BY <3>2, <5>1, SeenIs
      <4>. QED  BY <2>8, <3>2, <3>4, <4>1
    <3>. QED  BY <1>1, <3>2, <3>4
  <2>10. CASE acc.started
    <3>1. new = Put(again, "changestate")
      BY <2>3, <2>10 DEF PutIf
    <3>. DEFINE t == Stanza("changestate")
    <3>2. /\ Alike(again, new) /\ SameGame(again, new) /\ new.playing = again.playing
          /\ new.out = Append(again.out, t) /\ t \in Stanzas /\ new \in Accs
      BY <2>5, <3>1, PutIs DEF Alike
    <3>3. ASSUME NEW f \in Occupants
          PROVE  /\ Heard(f, t) \in Occupants /\ Heard(f, t).busy = f.busy
                 /\ f.listing = View(newest, FALSE) => Heard(f, t).listing = View(newest, TRUE)
      <4>1. Heard(f, t) \in Occupants
        BY <3>2, HeardType
      <4>2. /\ Heard(f, t).busy = f.busy
            /\ \A attrs \in Attrs, running \in BOOLEAN :
                  f.listing = View(attrs, running) => Heard(f, t).listing = View(attrs, TRUE)
        BY HeardFields, Zenon
      <4>. QED  BY <2>0, <4>1, <4>2
    <3>. HIDE DEF t
    <3>4. /\ Alike(acc, new) /\ new.unlisted = acc.unlisted /\ new.playing = acc.playing
          /\ new.started = acc.started /\ new.pending = None /\ new.debounce = FALSE
          /\ new.lastSent = newest
      BY <2>4, <2>5, <3>2 DEF Alike, SameGame
    <3>5. Seen(new).listing = View(newest, TRUE)
      <4>1. Seen(new).listing = View(new.lastSent, new.started)
        BY <1>4, <3>2, <3>4, SeenIs
      <4>2. new.started = TRUE
        BY <1>2, <2>10, <3>4
      <4>. QED  BY <3>4, <4>1, <4>2
    <3>6. ASSUME NEW occ \in Occupants, NEW f \in Occupants, f.busy = acc.playing, Hears(occ, acc.out, f)
          PROVE  Hears(occ, new.out, Seen(new))
      <4>1. PICK j \in Occupants : /\ j = Heard(f, s) /\ Hears(occ, again.out, j)
                                   /\ j.listing = View(newest, FALSE) /\ j.busy = f.busy
        BY <2>6, <2>8, <3>6
      <4>2. Hears(occ, new.out, Heard(j, t))
        BY <2>7, <3>2, <4>1, HearsOneMore
      <4>3. Heard(j, t) = Seen(new)
        <5>1. /\ Heard(j, t).listing = Seen(new).listing /\ Heard(j, t).busy = new.playing
              /\ Heard(j, t) \in Occupants
          BY <3>3, <3>4, <3>5, <3>6, <4>1
        <5>. QED  BY <3>2, <5>1, SeenIs
      <4>. QED  BY <4>2, <4>3
    <3>. QED  BY <1>1, <3>4, <3>6
  <2>. QED  BY <2>9, <2>10
<1>. QED  BY <1>3, <1>4

\* A resumed session: the bot still has the game, and the player is shown again.
LEMMA OnlineResumedWorks ==
    ASSUME NEW personal \in BOOLEAN, NEW acc \in Accs, Books(acc, personal), acc.bound,
           NEW new, new = OnOnline(acc, TRUE)
    PROVE  Works(acc, new, personal) /\ new.assigned = acc.assigned /\ Known(new) = Known(acc)
<1>1. new = PutIf(acc.personal /\ acc.playing, Put([acc EXCEPT !.bound = TRUE], "join"), "playing")
  BY DEF OnOnline
<1>2. acc.bound = TRUE /\ acc.personal = personal /\ (acc.playing => acc.personal)
  BY AccIs DEF Books
<1>3. /\ new \in Accs /\ new.personal = acc.personal /\ new.assigned = acc.assigned
      /\ new.bound = TRUE /\ SameGame(acc, new) /\ new.playing = acc.playing
      /\ \A occ \in Occupants, f \in Occupants :
            Hears(occ, acc.out, f) =>
                \E h \in Occupants : /\ Hears(occ, new.out, h)
                                     /\ h.listing = f.listing /\ h.busy = new.playing
  <2>1. Showing(acc, new)
    BY <1>1, <1>2, ShownTells
  <2>. QED  BY <2>1 DEF Showing
<1>4. ASSUME NEW f \in Occupants, NEW h \in Occupants, h.listing = f.listing, h.busy = new.playing,
             Pictured(acc, f)
      PROVE  Pictured(new, h) /\ (f = Seen(acc) => h = Seen(new))
  <2>1. new.lastSent = acc.lastSent /\ new.started = acc.started
    BY <1>3 DEF SameGame
  <2>2. Pictured(new, h)
    BY <1>4, <2>1 DEF Pictured
  <2>3. Seen(new).listing = Seen(acc).listing
    BY <2>1 DEF Seen
  <2>4. ASSUME f = Seen(acc) PROVE h = Seen(new)
    <3>1. h.listing = Seen(new).listing /\ h.busy = new.playing
      BY <1>4, <2>3, <2>4
    <3>. QED  BY <1>3, <3>1, SeenIs
  <2>. QED  BY <2>2, <2>4
<1>5. Tells(acc, new)
  <2>. SUFFICES ASSUME NEW occ \in Occupants, NEW f \in Occupants,
                       Pictured(acc, f), Hears(occ, acc.out, f)
                PROVE  \E h \in Occupants : /\ Pictured(new, h) /\ Hears(occ, new.out, h)
                                            /\ f = Seen(acc) => h = Seen(new)
    BY DEF Tells
  <2>1. PICK h \in Occupants : Hears(occ, new.out, h) /\ h.listing = f.listing /\ h.busy = new.playing
    BY <1>3
  <2>2. Pictured(new, h) /\ (f = Seen(acc) => h = Seen(new))
    BY <1>4, <2>1
  <2>. QED  BY <2>1, <2>2
<1>6. Books(new, personal)
  BY <1>2, <1>3 DEF Books, SameGame
<1>7. Known(new) = Known(acc)
  BY <1>3 DEF Known, SameGame
<1>. QED  BY <1>2, <1>3, <1>5, <1>6, <1>7 DEF Works

\* A new session: whatever became of the occupant, the lobby will show what the account
\* takes itself to be.
LEMMA OnlineNewWorks ==
    ASSUME NEW personal \in BOOLEAN, NEW acc \in Accs, Books(acc, personal),
           NEW new, new = OnOnline(acc, FALSE)
    PROVE  /\ new \in Accs /\ new.assigned = acc.assigned /\ new.bound = TRUE
           /\ Books(new, personal) /\ Known(new) = Known(acc)
           /\ \A occ \in Occupants, f \in Occupants :
                 Pictured(acc, f) /\ Hears(occ, acc.out, f) => Hears(occ, new.out, Seen(new))
<1>1. PICK shown : shown = PutIf(acc.personal /\ acc.playing,
                                 Put([acc EXCEPT !.bound = TRUE], "join"), "playing")
  OBVIOUS
<1>2. new = Resend(shown)
  BY <1>1 DEF OnOnline
<1>3. acc.personal = personal /\ (acc.playing => acc.personal)
  BY DEF Books
<1>4. /\ shown \in Accs /\ shown.personal = acc.personal /\ shown.assigned = acc.assigned
      /\ shown.bound = TRUE /\ SameGame(acc, shown) /\ shown.playing = acc.playing
      /\ \A occ \in Occupants, f \in Occupants :
            Hears(occ, acc.out, f) =>
                \E h \in Occupants : /\ Hears(occ, shown.out, h)
                                     /\ h.listing = f.listing /\ h.busy = shown.playing
  <2>1. Showing(acc, shown)
    BY <1>1, <1>3, ShownTells
  <2>. QED  BY <2>1 DEF Showing
<1>5. /\ Alike(shown, new) /\ new.unlisted = shown.unlisted /\ new.playing = shown.playing
      /\ new.started = shown.started /\ new.pending = None /\ new.debounce = FALSE
      /\ new.lastSent = IF shown.pending # None THEN shown.pending ELSE shown.lastSent
      /\ \A occ \in Occupants, f \in Occupants :
            Pictured(shown, f) /\ f.busy = shown.playing /\ Hears(occ, shown.out, f) =>
                Hears(occ, new.out, Seen(new))
  BY <1>2, <1>4, ResendTells
<1>6. /\ new \in Accs /\ new.personal = acc.personal /\ new.assigned = acc.assigned
      /\ new.bound = TRUE /\ new.unlisted = acc.unlisted /\ new.playing = acc.playing
      /\ new.started = acc.started
      /\ new.lastSent = IF acc.pending # None THEN acc.pending ELSE acc.lastSent
  BY <1>4, <1>5 DEF Alike, SameGame
<1>7. Books(new, personal)
  BY <1>3, <1>5, <1>6 DEF Books
<1>8. Known(new) = Known(acc)
  BY <1>5, <1>6 DEF Known
<1>9. ASSUME NEW occ \in Occupants, NEW f \in Occupants, Pictured(acc, f), Hears(occ, acc.out, f)
      PROVE  Hears(occ, new.out, Seen(new))
  <2>1. PICK h \in Occupants : Hears(occ, shown.out, h) /\ h.listing = f.listing /\ h.busy = shown.playing
    BY <1>4, <1>9
  <2>2. Pictured(shown, h)
    BY <1>4, <1>9, <2>1 DEF Pictured, SameGame
  <2>. QED  BY <1>5, <2>1, <2>2
<1>. QED  BY <1>6, <1>7, <1>8, <1>9

\* A client that ends takes what it had not sent along, and nothing else.
LEMMA OnStreamEndWorks ==
    ASSUME NEW personal \in BOOLEAN, NEW acc \in Accs, Books(acc, personal),
           NEW new, new = OnStreamEnd(acc)
    PROVE  /\ new \in Accs /\ new.assigned = acc.assigned /\ new.bound = FALSE /\ new.out = <<>>
           /\ Books(new, personal) /\ Known(new) = Known(acc)
<1>1. <<>> \in Seq(Stanzas)
  BY EmptySeq
<1>2. /\ SameGame(acc, new) /\ new.playing = acc.playing
      /\ new \in Accs /\ new.assigned = acc.assigned /\ new.bound = FALSE /\ new.out = <<>>
      /\ new.personal = acc.personal
  BY <1>1 DEF OnStreamEnd, Accs, Alike, SameGame
<1>3. Books(new, personal)
  BY <1>2 DEF Books, SameGame
<1>4. Known(new) = Known(acc)
  BY <1>2 DEF Known, SameGame
<1>. QED  BY <1>2, <1>3, <1>4

-----------------------------------------------------------------------------
(* The session of one task.                                                *)

\* The fields of a task.
LEMMA TaskIs ==
    ASSUME NEW task \in Tasks
    PROVE  /\ task.acc \in Accs /\ task.control \in Seq(Messages) /\ task.news \in Seq({"new", "resumed"})
           /\ task.link \in {"asleep", "connecting", "up", "down", "left"}
           /\ task.live \in {"running", "exited", "dead"}
BY DEF Tasks

\* No news is left of a new session.
Heeded(task) == \A i \in DOMAIN task.news : task.news[i] # "new"

\* Seen from outside, a task has the occupant in its picture.
Pictures(task, occ) ==
    \E f \in Occupants :
        /\ Pictured(task.acc, f) /\ Hears(occ, task.acc.out, f)
        /\ task.link \in {"up", "down"} /\ Heeded(task) => f = Seen(task.acc)

\* A session that has been opened.
LEMMA OpenedIs ==
    ASSUME NEW task, NEW occ, task.link \notin {"asleep", "connecting"}
    PROVE  InSession(task, occ) <=>
             /\ ~task.acc.bound =>
                   task.news # <<>> /\ Head(task.news) = "new" /\ task.acc.out = <<>> /\ occ = Absent
             /\ Pictures(task, occ)
BY DEF InSession, Pictures, Heeded

\* One that has not.
LEMMA UnopenedIs ==
    ASSUME NEW task, NEW occ, task.link \in {"asleep", "connecting"}
    PROVE  InSession(task, occ) <=> ~task.acc.bound /\ task.news = <<>> /\ task.acc.out = <<>>
BY DEF InSession

\* There is a first piece of news to be heeded.
LEMMA FirstNews ==
    ASSUME NEW task \in Tasks, task.news # <<>>
    PROVE  /\ 1 \in DOMAIN task.news /\ Head(task.news) = task.news[1]
           /\ Head(task.news) \in {"new", "resumed"}
           /\ Head(task.news) = "new" => ~Heeded(task)
<1>1. task.news \in Seq({"new", "resumed"})
  BY TaskIs
<1>2. /\ Len(task.news) \in Nat \ {0} /\ Head(task.news) = task.news[1]
      /\ Head(task.news) \in {"new", "resumed"} /\ DOMAIN task.news = 1 .. Len(task.news)
  BY <1>1, TailIs
<1>. QED  BY <1>2 DEF Heeded

\* A handler that works keeps the session.
LEMMA WorksKeeps ==
    ASSUME NEW personal, NEW task \in Tasks, NEW occ \in Occupants, InSession(task, occ),
           NEW next \in Tasks, next.link = task.link, next.news = task.news,
           Works(task.acc, next.acc, personal)
    PROVE  InSession(next, occ)
<1>1. /\ next.acc.bound = task.acc.bound /\ (~task.acc.bound => next.acc.out = task.acc.out)
      /\ (task.acc.bound => Tells(task.acc, next.acc)) /\ next.acc \in Accs
  BY DEF Works
<1>2. CASE task.link \in {"asleep", "connecting"}
  BY <1>1, <1>2, UnopenedIs
<1>3. CASE task.link \notin {"asleep", "connecting"} /\ ~task.acc.bound
  <2>1. task.news # <<>> /\ Head(task.news) = "new" /\ task.acc.out = <<>> /\ occ = Absent
    BY <1>3, OpenedIs
  <2>2. ~Heeded(task)
    BY <2>1, FirstNews
  <2>3. ~Heeded(next)
    BY <2>2 DEF Heeded
  <2>4. Hears(occ, next.acc.out, Absent) /\ Absent \in Occupants /\ Pictured(next.acc, Absent)
    BY <1>1, <1>3, <2>1, HearsNothing, ViewIs DEF Pictured
  <2>5. Pictures(next, occ)
    BY <2>3, <2>4 DEF Pictures
  <2>. QED  BY <1>1, <1>3, <2>1, <2>5, OpenedIs
<1>4. CASE task.link \notin {"asleep", "connecting"} /\ task.acc.bound
  <2>1. PICK f \in Occupants :
           /\ Pictured(task.acc, f) /\ Hears(occ, task.acc.out, f)
           /\ task.link \in {"up", "down"} /\ Heeded(task) => f = Seen(task.acc)
    BY <1>4, OpenedIs DEF Pictures
  <2>2. PICK h \in Occupants : /\ Pictured(next.acc, h) /\ Hears(occ, next.acc.out, h)
                               /\ f = Seen(task.acc) => h = Seen(next.acc)
    BY <1>1, <1>4, <2>1 DEF Tells
  <2>3. Heeded(next) <=> Heeded(task)
    BY DEF Heeded
  <2>4. Pictures(next, occ)
    BY <2>1, <2>2, <2>3 DEF Pictures
  <2>. QED  BY <1>1, <1>4, <2>4, OpenedIs
<1>. QED  BY <1>2, <1>3, <1>4

\* A resumed session is heard of.
LEMMA ResumedKeeps ==
    ASSUME NEW personal, NEW task \in Tasks, NEW occ \in Occupants, InSession(task, occ),
           task.news # <<>>, Head(task.news) = "resumed",
           NEW next \in Tasks, next.link = task.link, next.news = Tail(task.news),
           Works(task.acc, next.acc, personal)
    PROVE  InSession(next, occ)
<1>1. /\ next.acc.bound = task.acc.bound
      /\ (task.acc.bound => Tells(task.acc, next.acc)) /\ next.acc \in Accs
  BY DEF Works
<1>2. task.link \notin {"asleep", "connecting"}
  BY UnopenedIs
<1>3. task.acc.bound
  BY <1>2, OpenedIs
<1>4. PICK f \in Occupants :
         /\ Pictured(task.acc, f) /\ Hears(occ, task.acc.out, f)
         /\ task.link \in {"up", "down"} /\ Heeded(task) => f = Seen(task.acc)
  BY <1>2, OpenedIs DEF Pictures
<1>5. PICK h \in Occupants : /\ Pictured(next.acc, h) /\ Hears(occ, next.acc.out, h)
                             /\ f = Seen(task.acc) => h = Seen(next.acc)
  BY <1>1, <1>3, <1>4 DEF Tells
<1>6. Heeded(next) => Heeded(task)
  <2>1. task.news \in Seq({"new", "resumed"})
    BY TaskIs
  <2>2. /\ Len(task.news) \in Nat \ {0} /\ Head(task.news) = task.news[1]
        /\ DOMAIN task.news = 1 .. Len(task.news) /\ DOMAIN next.news = 1 .. Len(task.news) - 1
        /\ \A i \in 1 .. Len(task.news) - 1 : next.news[i] = task.news[i + 1]
    BY <2>1, TailIs
  <2>3. ASSUME NEW i \in DOMAIN task.news, Heeded(next)
        PROVE  task.news[i] # "new"
    <3>1. CASE i = 1
      BY <2>2, <3>1
    <3>2. CASE i # 1
      <4>1. i - 1 \in DOMAIN next.news /\ next.news[i - 1] = task.news[i]
        BY <2>2, <2>3, <3>2
      <4>. QED  BY <2>3, <4>1 DEF Heeded
    <3>. QED  BY <3>1, <3>2
  <2>. QED  BY <2>3 DEF Heeded
<1>7. Pictures(next, occ)
  BY <1>4, <1>5, <1>6 DEF Pictures
<1>. QED  BY <1>1, <1>2, <1>3, <1>7, OpenedIs

\* A new session is heard of, and what the lobby should show is sent again.
LEMMA RenewedKeeps ==
    ASSUME NEW task \in Tasks, NEW occ \in Occupants, InSession(task, occ), task.news # <<>>,
           NEW next \in Tasks, next.link = task.link, next.acc.bound = TRUE,
           \A o \in Occupants, f \in Occupants :
               Pictured(task.acc, f) /\ Hears(o, task.acc.out, f) => Hears(o, next.acc.out, Seen(next.acc))
    PROVE  InSession(next, occ)
<1>1. task.link \notin {"asleep", "connecting"}
  BY UnopenedIs
<1>2. PICK f \in Occupants : Pictured(task.acc, f) /\ Hears(occ, task.acc.out, f)
  BY <1>1, OpenedIs DEF Pictures
<1>3. Hears(occ, next.acc.out, Seen(next.acc))
  BY <1>2
<1>4. next.acc \in Accs
  BY TaskIs
<1>5. Seen(next.acc) \in Occupants /\ Pictured(next.acc, Seen(next.acc))
  BY <1>4, SeenIs DEF Pictured
<1>6. Pictures(next, occ)
  BY <1>3, <1>5 DEF Pictures
<1>. QED  BY <1>1, <1>6, OpenedIs

\* Two tasks in the same session, as far as their pictures go.
LEMMA SamePictures ==
    ASSUME NEW acc, NEW new, new.lastSent = acc.lastSent, new.started = acc.started,
           new.playing = acc.playing
    PROVE  Seen(new) = Seen(acc) /\ \A f : Pictured(acc, f) <=> Pictured(new, f)
BY DEF Seen, Pictured

\* The session is lost.
LEMMA DroppedKeeps ==
    ASSUME NEW task \in Tasks, NEW occ \in Occupants, InSession(task, occ), task.link = "up",
           NEW next \in Tasks, next.link = "down", next.news = task.news, next.acc = task.acc
    PROVE  InSession(next, occ)
<1>1. /\ ~task.acc.bound =>
            task.news # <<>> /\ Head(task.news) = "new" /\ task.acc.out = <<>> /\ occ = Absent
      /\ Pictures(task, occ)
  BY OpenedIs
<1>2. Heeded(next) <=> Heeded(task)
  BY DEF Heeded
<1>3. Pictures(next, occ)
  BY <1>1, <1>2 DEF Pictures
<1>. QED  BY <1>1, <1>3, OpenedIs

\* One more piece of news.
LEMMA MoreNews ==
    ASSUME NEW task \in Tasks, NEW next \in Tasks, NEW piece \in {"new", "resumed"},
           next.news = Append(task.news, piece)
    PROVE  /\ next.news # <<>> /\ (task.news = <<>> => Head(next.news) = piece)
           /\ task.news # <<>> => Head(next.news) = Head(task.news)
           /\ piece = "new" => ~Heeded(next)
           /\ Heeded(next) => Heeded(task)
<1>1. task.news \in Seq({"new", "resumed"})
  BY TaskIs
<1>2. /\ next.news \in Seq({"new", "resumed"}) /\ Len(task.news) \in Nat
      /\ DOMAIN task.news = 1 .. Len(task.news) /\ DOMAIN next.news = 1 .. Len(task.news) + 1
      /\ Len(next.news) = Len(task.news) + 1 /\ next.news[Len(task.news) + 1] = piece
      /\ \A i \in DOMAIN task.news : next.news[i] = task.news[i]
  BY <1>1, AppendIs
<1>3. next.news # <<>>
  <2>1. next.news = <<>> => Len(next.news) = 0
    OBVIOUS
  <2>. QED  BY <1>2, <2>1
<1>4. Head(next.news) = next.news[1]
  BY <1>2, <1>3, HeadTailProperties
<1>5. task.news = <<>> => Len(task.news) = 0
  OBVIOUS
<1>6. task.news # <<>> => Len(task.news) # 0 /\ Head(task.news) = task.news[1]
  BY <1>1, TailIs
<1>7. task.news # <<>> => Head(next.news) = Head(task.news)
  BY <1>2, <1>4, <1>6
<1>8. Len(task.news) + 1 \in DOMAIN next.news /\ DOMAIN task.news \subseteq DOMAIN next.news
  BY <1>2
<1>9. piece = "new" => ~Heeded(next)
  BY <1>2, <1>8 DEF Heeded
<1>10. Heeded(next) => Heeded(task)
  BY <1>2, <1>8 DEF Heeded
<1>. QED  BY <1>2, <1>3, <1>4, <1>5, <1>7, <1>9, <1>10

\* The session is resumed.
LEMMA ReturnedKeeps ==
    ASSUME NEW task \in Tasks, NEW occ \in Occupants, InSession(task, occ), task.link = "down",
           NEW next \in Tasks, next.link = "up", next.news = Append(task.news, "resumed"),
           next.acc = task.acc
    PROVE  InSession(next, occ)
<1>1. /\ ~task.acc.bound =>
            task.news # <<>> /\ Head(task.news) = "new" /\ task.acc.out = <<>> /\ occ = Absent
      /\ Pictures(task, occ)
  BY OpenedIs
<1>2. /\ next.news # <<>> /\ (task.news # <<>> => Head(next.news) = Head(task.news))
      /\ Heeded(next) => Heeded(task)
  BY MoreNews
<1>3. Pictures(next, occ)
  BY <1>1, <1>2 DEF Pictures
<1>. QED  BY <1>1, <1>2, <1>3, OpenedIs

\* A new occupant is pictured by what is left of the stanzas.
LEMMA RestPictures ==
    ASSUME NEW task \in Tasks, NEW occ \in Occupants, InSession(task, occ),
           NEW k \in 1 .. Len(task.acc.out) + 1, NEW rest, rest = SubSeq(task.acc.out, k, Len(task.acc.out))
    PROVE  /\ \E h \in Occupants : Pictured(task.acc, h) /\ Hears(Absent, rest, h)
           /\ task.acc.out = <<>> => rest = <<>>
<1>1. task.acc \in Accs
  BY TaskIs
<1>2. task.acc.out \in Seq(Stanzas)
  BY <1>1, AccIs
<1>3. task.acc.out = <<>> => rest = <<>>
  <2>1. SUFFICES ASSUME task.acc.out = <<>> PROVE rest = <<>>
    OBVIOUS
  <2>2. Len(<<>>) = 0
    OBVIOUS
  <2>3. k = 1 /\ Len(task.acc.out) = 0
    BY <2>1, <2>2
  <2>4. rest \in Seq(Stanzas) /\ Len(rest) = 0
    BY <1>2, <2>3, SubSeqProperties
  <2>. QED  BY <2>4, EmptySeq
<1>4. CASE task.link \in {"asleep", "connecting"}
  <2>1. rest = <<>>
    BY <1>3, <1>4, UnopenedIs
  <2>2. Hears(Absent, rest, Absent) /\ Absent \in Occupants /\ Pictured(task.acc, Absent)
    BY <2>1, ViewIs, HearsNothing DEF Pictured
  <2>. QED  BY <1>3, <2>2
<1>5. CASE task.link \notin {"asleep", "connecting"}
  <2>1. PICK f \in Occupants : Pictured(task.acc, f) /\ Hears(occ, task.acc.out, f)
    BY <1>5, OpenedIs DEF Pictures
  <2>2. Resembles(rest, f)
    BY <1>2, <2>1, HearsTheRest
  <2>3. PICK h \in Occupants : Hears(Absent, rest, h) /\ (h.listing = None \/ h.listing = f.listing)
    BY <2>2 DEF Resembles
  <2>4. Pictured(task.acc, h)
    BY <2>1, <2>3 DEF Pictured
  <2>. QED  BY <1>3, <2>3, <2>4
<1>. QED  BY <1>4, <1>5

\* A new session is opened, and the lobby has the occupant anew.
LEMMA OpenedKeeps ==
    ASSUME NEW task \in Tasks, NEW occ \in Occupants, InSession(task, occ),
           task.link \in {"connecting", "down", "left"},
           NEW k \in 1 .. Len(task.acc.out) + 1,
           NEW next \in Tasks, next.link = "up", next.news = Append(task.news, "new"),
           next.acc = [task.acc EXCEPT !.out = SubSeq(@, k, Len(@))]
    PROVE  InSession(next, Absent)
<1>. DEFINE rest == SubSeq(task.acc.out, k, Len(task.acc.out))
<1>1. task.acc \in Accs
  BY TaskIs
<1>2. /\ next.acc.out = rest /\ next.acc.bound = task.acc.bound
      /\ next.acc.lastSent = task.acc.lastSent /\ next.acc.started = task.acc.started
      /\ next.acc.playing = task.acc.playing
  BY <1>1 DEF Accs
<1>. HIDE DEF rest
<1>3. PICK h \in Occupants : Pictured(task.acc, h) /\ Hears(Absent, rest, h)
  BY RestPictures DEF rest
<1>4. Pictured(next.acc, h)
  BY <1>2, <1>3, SamePictures
<1>5. /\ next.news # <<>> /\ (task.news = <<>> => Head(next.news) = "new") /\ ~Heeded(next)
      /\ task.news # <<>> => Head(next.news) = Head(task.news)
  BY MoreNews
<1>6. Pictures(next, Absent)
  BY <1>2, <1>3, <1>4, <1>5 DEF Pictures
<1>7. ~next.acc.bound => Head(next.news) = "new" /\ next.acc.out = <<>>
  <2>1. task.acc.out = <<>> => rest = <<>>
    BY RestPictures DEF rest
  <2>2. CASE task.link = "connecting"
    BY <1>2, <1>5, <2>1, <2>2, UnopenedIs
  <2>3. CASE task.link # "connecting"
    BY <1>2, <1>5, <2>1, <2>3, OpenedIs
  <2>. QED  BY <2>2, <2>3
<1>. QED  BY <1>5, <1>6, <1>7, OpenedIs

\* The occupant leaves the room.
LEMMA LeftKeeps ==
    ASSUME NEW task \in Tasks, NEW occ \in Occupants, InSession(task, occ),
           task.link \in {"down", "asleep", "connecting"},
           NEW next \in Tasks, next.news = task.news, next.acc = task.acc,
           next.link = IF task.link = "down" THEN "left" ELSE task.link
    PROVE  InSession(next, Absent)
<1>1. CASE task.link # "down"
  <2>1. next.link \in {"asleep", "connecting"} /\ task.link \in {"asleep", "connecting"}
    BY <1>1
  <2>. QED  BY <2>1, UnopenedIs
<1>2. CASE task.link = "down"
  <2>1. PICK f \in Occupants : Pictured(task.acc, f) /\ Hears(occ, task.acc.out, f)
    BY <1>2, OpenedIs DEF Pictures
  <2>. DEFINE out == task.acc.out
  <2>2. out \in Seq(Stanzas)
    BY TaskIs, AccIs
  <2>3. Hears(occ, out, f)
    BY <2>1
  <2>. HIDE DEF out
  <2>4. out = SubSeq(out, 1, Len(out)) /\ 1 \in 1 .. Len(out) + 1
    BY <2>2, LenProperties, SubSeqProperties
  <2>5. Resembles(out, f)
    BY <2>2, <2>3, <2>4, HearsTheRest
  <2>6. PICK h \in Occupants : Hears(Absent, out, h) /\ (h.listing = None \/ h.listing = f.listing)
    BY <2>5 DEF Resembles
  <2>7. Pictured(task.acc, h)
    BY <2>1, <2>6 DEF Pictured
  <2>8. Pictures(next, Absent)
    BY <1>2, <2>6, <2>7 DEF Pictures, out
  <2>. QED  BY <1>2, <2>8, OpenedIs
<1>. QED  BY <1>1, <1>2

\* A stanza is delivered.
LEMMA DeliveredKeeps ==
    ASSUME NEW task \in Tasks, NEW occ \in Occupants, InSession(task, occ), task.link = "up",
           task.acc.out # <<>>, NEW next \in Tasks, next.news = task.news, next.link = task.link,
           next.acc = [task.acc EXCEPT !.out = Tail(@)]
    PROVE  /\ InSession(next, Heard(occ, Head(task.acc.out)))
           /\ Heard(occ, Head(task.acc.out)) \in Occupants
<1>1. task.acc.bound /\ Pictures(task, occ)
  BY OpenedIs
<1>2. PICK f \in Occupants :
         /\ Pictured(task.acc, f) /\ Hears(occ, task.acc.out, f)
         /\ Heeded(task) => f = Seen(task.acc)
  BY <1>1 DEF Pictures
<1>3. task.acc \in Accs
  BY TaskIs
<1>4. /\ next.acc.out = Tail(task.acc.out) /\ next.acc.bound = task.acc.bound
      /\ next.acc.lastSent = task.acc.lastSent /\ next.acc.started = task.acc.started
      /\ next.acc.playing = task.acc.playing
  BY <1>3 DEF Accs
<1>5. task.acc.out \in Seq(Stanzas)
  BY <1>3, AccIs
<1>6. Head(task.acc.out) \in Stanzas
  BY <1>5, TailIs
<1>7. Hears(Heard(occ, Head(task.acc.out)), next.acc.out, f)
  BY <1>2, <1>4, <1>5, HearsTheFirst
<1>8. Seen(next.acc) = Seen(task.acc) /\ Pictured(next.acc, f)
  BY <1>2, <1>4, SamePictures
<1>9. Heeded(next) <=> Heeded(task)
  BY DEF Heeded
<1>10. Pictures(next, Heard(occ, Head(task.acc.out)))
  BY <1>2, <1>7, <1>8, <1>9 DEF Pictures
<1>11. InSession(next, Heard(occ, Head(task.acc.out)))
  BY <1>1, <1>4, <1>10, OpenedIs
<1>. QED  BY <1>6, <1>11, HeardType

-----------------------------------------------------------------------------
(* The games of an account, and who touches them.                          *)

\* An account is about a game when it hosts it or is on its way to it.
About(task, g) ==
    task.acc.assigned = g \/ \E i \in DOMAIN task.control : task.control[i] = [kind |-> "assign", game |-> g]

\* As long as the pool stands, a running task is only about the game that is the account's.
LEMMA AboutIsOf ==
    ASSUME IInv, main.at # "stopped", NEW a \in Accounts, tasks[a].live = "running",
           NEW g \in GameIds, About(tasks[a], g)
    PROVE  main.gameOf[a] = g /\ Pooled(g) /\ games[g].account = a
<1>1. Told1(main.gameOf[a], tasks[a], events, a) /\ GamesPlaced
  BY DEF IInv, Hosting, EndsTold
<1>2. g # None
  BY NoneApart
<1>3. main.gameOf[a] # None
  BY <1>1, <1>2 DEF Told1, About, Orderless
<1>4. Telling(main.gameOf[a], tasks[a], events, a)
  BY <1>1, <1>3 DEF Told1
<1>5. main.gameOf[a] = g
  <2>1. CASE tasks[a].acc.assigned = g
    BY <1>2, <1>4, <2>1 DEF Telling
  <2>2. ASSUME NEW i \in DOMAIN tasks[a].control, tasks[a].control[i] = [kind |-> "assign", game |-> g]
        PROVE  main.gameOf[a] = g
    <3>1. tasks[a].control[i].kind = "assign" /\ tasks[a].control[i].game = g
      BY <2>2
    <3>2. OrderedLast(tasks[a].control, main.gameOf[a])
      BY <1>4, <3>1 DEF Telling, Orderless
    <3>. QED  BY <3>1, <3>2 DEF OrderedLast
  <2>. QED  BY <2>1, <2>2 DEF About
<1>. QED  BY <1>1, <1>3, <1>5 DEF GamesPlaced

\* An order or a release is read only without a game.
LEMMA OrderedFree ==
    ASSUME IInv, main.at # "stopped", NEW a \in Accounts, tasks[a].live = "running",
           tasks[a].control # <<>>, Head(tasks[a].control).kind \in {"assign", "release"}
    PROVE  tasks[a].acc.assigned = None
<1>1. Told1(main.gameOf[a], tasks[a], events, a)
  BY DEF IInv, Hosting, EndsTold
<1>2. tasks[a].control \in Seq(Messages)
  BY TaskOf DEF Tasks
<1>3. Orderless(tasks[a].control) /\ Unreleased(tasks[a].control) => FALSE
  BY <1>2, QueueTail
<1>. QED  BY <1>1, <1>3 DEF Told1, Telling

\* The games an account is about move on, and it follows them.
LEMMA InGameMoves ==
    ASSUME NEW task \in Tasks, NEW gs, NEW hs, NEW personal, InGame(task, gs, personal),
           \A g \in GameIds : About(task, g) =>
               \A k \in Knowings : Follows(k, g, gs[g], personal) => Follows(k, g, hs[g], personal)
    PROVE  InGame(task, hs, personal)
<1>1. task.acc \in Accs /\ task.control \in Seq(Messages)
  BY TaskIs
<1>2. Known(task.acc) \in Knowings /\ Unknown \in Knowings
  BY <1>1, KnownIs, Zenon
<1>3. task.acc.assigned \in GameIds \cup {None}
  BY <1>1, AccIs
<1>4. ASSUME task.acc.assigned # None
      PROVE  Follows(Known(task.acc), task.acc.assigned, hs[task.acc.assigned], personal)
  <2>1. task.acc.assigned \in GameIds /\ About(task, task.acc.assigned)
    BY <1>3, <1>4 DEF About
  <2>2. Follows(Known(task.acc), task.acc.assigned, gs[task.acc.assigned], personal)
    BY <1>4 DEF InGame
  <2>. QED  BY <1>2, <2>1, <2>2
<1>5. ASSUME NEW i \in DOMAIN task.control, task.control[i].kind = "assign"
      PROVE  Follows(Unknown, task.control[i].game, hs[task.control[i].game], personal)
  <2>1. task.control[i] \in Messages
    BY <1>1, ElementOfSeq, LenProperties
  <2>2. task.control[i].game \in GameIds /\ task.control[i] = [kind |-> "assign", game |-> task.control[i].game]
    BY <1>5, <2>1 DEF Messages
  <2>3. About(task, task.control[i].game)
    BY <2>2 DEF About
  <2>4. Follows(Unknown, task.control[i].game, gs[task.control[i].game], personal)
    BY <1>5 DEF InGame
  <2>. QED  BY <1>2, <2>2, <2>3, <2>4
<1>. QED  BY <1>4, <1>5 DEF InGame

\* A task's game and its knowledge of it are as they were.
LEMMA SameInGame ==
    ASSUME NEW task, NEW next, NEW gs, NEW personal, InGame(task, gs, personal),
           next.control = task.control, next.acc.assigned = task.acc.assigned,
           Known(next.acc) = Known(task.acc)
    PROVE  InGame(next, gs, personal)
BY DEF InGame

\* One task moves on.
LEMMA TouchKeeps ==
    ASSUME IInv, AllInTouch, NEW a \in Accounts, NEW next \in Tasks, NEW occ \in Occupants,
           tasks' = [tasks EXCEPT ![a] = next], room' = [room EXCEPT ![a] = occ],
           plan' = plan, main' = main, games' = games,
           InTouch(next, occ, games, plan.personal),
           next.live = "running" => tasks[a].live = "running"
    PROVE  AllInTouch'
<1>1. Accounts' = Accounts /\ GameIds' = GameIds
  BY DEF Accounts, GameIds
<1>2. room \in [Accounts -> Occupants] /\ tasks \in [Accounts -> Tasks]
  BY DEF AllInTouch, IInv, Typed
<1>3. /\ room' \in [Accounts -> Occupants] /\ room'[a] = occ /\ tasks'[a] = next
      /\ \A b \in Accounts : b # a => room'[b] = room[b] /\ tasks'[b] = tasks[b]
  BY <1>2
<1>4. \A b \in Accounts : InTouch(tasks'[b], room'[b], games, plan.personal)
  BY <1>3 DEF AllInTouch
<1>5. main.at = "stopped" => \A b \in Accounts : tasks'[b].live # "running"
  BY <1>3 DEF AllInTouch
<1>. QED  BY <1>1, <1>3, <1>4, <1>5 DEF AllInTouch

\* It does without the lobby.
LEMMA TaskTouchKeeps ==
    ASSUME IInv, AllInTouch, NEW a \in Accounts, NEW next \in Tasks,
           tasks' = [tasks EXCEPT ![a] = next], room' = room,
           plan' = plan, main' = main, games' = games,
           InTouch(next, room[a], games, plan.personal),
           next.live = "running" => tasks[a].live = "running"
    PROVE  AllInTouch'
<1>1. room \in [Accounts -> Occupants]
  BY DEF AllInTouch
<1>2. room[a] \in Occupants /\ room' = [room EXCEPT ![a] = room[a]]
  BY <1>1
<1>. QED  BY <1>2, TouchKeeps

\* What is known of a task that runs.
LEMMA TouchOf ==
    ASSUME IInv, AllInTouch, NEW a \in Accounts
    PROVE  /\ tasks[a] \in Tasks /\ tasks[a].acc \in Accs /\ room[a] \in Occupants
           /\ plan.personal \in BOOLEAN
           /\ tasks[a].live = "running" =>
                 /\ main.at # "stopped"
                 /\ InSession(tasks[a], room[a]) /\ Books(tasks[a].acc, plan.personal)
                 /\ InGame(tasks[a], games, plan.personal)
<1>1. tasks[a] \in Tasks /\ tasks[a].acc \in Accs
  BY TaskOf
<1>2. plan.personal \in BOOLEAN
  BY PlanIs DEF IInv, Typed
<1>3. room[a] \in Occupants
  BY DEF AllInTouch
<1>. QED  BY <1>1, <1>2, <1>3 DEF AllInTouch, InTouch

\* A handler that works, its game and what it knows of it as they were.
LEMMA QuietTouchKeeps ==
    ASSUME IInv, AllInTouch, NEW a \in Accounts, tasks[a].live = "running",
           NEW new, Works(tasks[a].acc, new, plan.personal), Handled(a, new),
           new.assigned = tasks[a].acc.assigned, Known(new) = Known(tasks[a].acc),
           UNCHANGED <<plan, main, room, games>>
    PROVE  AllInTouch'
<1>. DEFINE next == [tasks[a] EXCEPT !.acc = new]
<1>1. /\ tasks[a] \in Tasks /\ room[a] \in Occupants
      /\ InSession(tasks[a], room[a]) /\ InGame(tasks[a], games, plan.personal)
  BY TouchOf
<1>2. /\ next \in Tasks /\ next.acc = new /\ next.live = "running" /\ next.control = tasks[a].control
      /\ next.link = tasks[a].link /\ next.news = tasks[a].news
  BY <1>1 DEF Works, Tasks
<1>3. tasks' = [tasks EXCEPT ![a] = next]
  BY DEF Handled
<1>. HIDE DEF next
<1>4. InSession(next, room[a])
  BY <1>1, <1>2, WorksKeeps
<1>5. InGame(next, games, plan.personal)
  BY <1>1, <1>2, SameInGame
<1>6. InTouch(next, room[a], games, plan.personal)
  BY <1>2, <1>4, <1>5 DEF InTouch, Works
<1>. QED  BY <1>2, <1>3, <1>6, TaskTouchKeeps

\* Neither the accounts nor the games nor the lobby have a part in a step.
LEMMA SameTouch ==
    ASSUME AllInTouch, UNCHANGED <<plan, tasks, room, games>>,
           main'.at = "stopped" => main.at = "stopped"
    PROVE  AllInTouch'
BY DEF AllInTouch, Accounts, GameIds

-----------------------------------------------------------------------------
(* The steps of the account tasks.                                         *)

\* A window closes.
LEMMA DebounceTouches ==
    ASSUME IInv, AllInTouch, NEW a \in Accounts, DebounceFires(a)
    PROVE  AllInTouch'
<1>1. /\ tasks[a].live = "running" /\ Handled(a, OnDebounce(tasks[a].acc))
      /\ UNCHANGED <<plan, main, room, games>>
  BY DEF DebounceFires, Awake
<1>2. PICK new : new = OnDebounce(tasks[a].acc)
  OBVIOUS
<1>3. tasks[a].acc \in Accs /\ plan.personal \in BOOLEAN /\ Books(tasks[a].acc, plan.personal)
  BY <1>1, TouchOf
<1>4. /\ Works(tasks[a].acc, new, plan.personal) /\ new.assigned = tasks[a].acc.assigned
      /\ Known(new) = Known(tasks[a].acc)
  BY <1>2, <1>3, OnDebounceWorks
<1>. QED  BY <1>1, <1>2, <1>4, QuietTouchKeeps

\* The game is over, and its account has no other.
LEMMA GameEndTouches ==
    ASSUME IInv, AllInTouch, NEW a \in Accounts, TakeGameEnd(a)
    PROVE  AllInTouch'
<1>1. /\ tasks[a].live = "running" /\ tasks[a].acc.assigned # None
      /\ tasks' = [tasks EXCEPT ![a].acc = OnGone(tasks[a].acc)]
      /\ UNCHANGED <<plan, main, room, games>>
  BY DEF TakeGameEnd, Awake, Handled
<1>2. PICK new : new = OnGone(tasks[a].acc)
  OBVIOUS
<1>3. /\ tasks[a] \in Tasks /\ tasks[a].acc \in Accs /\ room[a] \in Occupants /\ plan.personal \in BOOLEAN
      /\ main.at # "stopped" /\ Books(tasks[a].acc, plan.personal) /\ InSession(tasks[a], room[a])
      /\ InGame(tasks[a], games, plan.personal)
  BY <1>1, TouchOf
<1>4. Works(tasks[a].acc, new, plan.personal) /\ new.assigned = None
  BY <1>2, <1>3, OnGoneWorks
<1>. DEFINE next == [tasks[a] EXCEPT !.acc = new]
<1>5. /\ next \in Tasks /\ next.acc = new /\ next.live = "running" /\ next.control = tasks[a].control
      /\ next.link = tasks[a].link /\ next.news = tasks[a].news
  BY <1>1, <1>3, <1>4 DEF Works, Tasks
<1>6. tasks' = [tasks EXCEPT ![a] = next]
  BY <1>1, <1>2
<1>. HIDE DEF next
<1>7. InSession(next, room[a])
  BY <1>3, <1>4, <1>5, WorksKeeps
<1>8. InGame(next, games, plan.personal)
  BY <1>3, <1>4, <1>5 DEF InGame
<1>9. InTouch(next, room[a], games, plan.personal)
  BY <1>4, <1>5, <1>7, <1>8 DEF InTouch, Works
<1>. QED  BY <1>1, <1>5, <1>6, <1>9, TaskTouchKeeps

\* A session is heard of.
LEMMA OnlineTouches ==
    ASSUME IInv, AllInTouch, NEW a \in Accounts, TakeOnline(a)
    PROVE  AllInTouch'
<1>. DEFINE acc == tasks[a].acc
            new == OnOnline(acc, Head(tasks[a].news) = "resumed")
            next == [tasks[a] EXCEPT !.acc = new, !.news = Tail(@)]
<1>1. /\ tasks[a].live = "running" /\ tasks[a].news # <<>> /\ tasks' = [tasks EXCEPT ![a] = next]
      /\ UNCHANGED <<plan, main, room, games>>
  BY DEF TakeOnline, Awake
<1>2. /\ tasks[a] \in Tasks /\ acc \in Accs /\ room[a] \in Occupants /\ plan.personal \in BOOLEAN
      /\ Books(acc, plan.personal) /\ InSession(tasks[a], room[a])
      /\ InGame(tasks[a], games, plan.personal)
  BY <1>1, TouchOf
<1>3. /\ Head(tasks[a].news) \in {"new", "resumed"} /\ Tail(tasks[a].news) \in Seq({"new", "resumed"})
  <2>1. tasks[a].news \in Seq({"new", "resumed"})
    BY <1>2, TaskIs
  <2>. QED  BY <1>1, <2>1, TailIs
<1>4. Keeps(acc, new)
  BY <1>2, OnOnlineKeeps
<1>5. /\ next \in Tasks /\ next.acc = new /\ next.live = "running" /\ next.control = tasks[a].control
      /\ next.link = tasks[a].link /\ next.news = Tail(tasks[a].news)
  <2>. HIDE DEF new
  <2>. QED  BY <1>1, <1>2, <1>3, <1>4 DEF Keeps, Tasks
<1>. HIDE DEF next
<1>6. CASE Head(tasks[a].news) = "resumed"
  <2>1. acc.bound
    <3>1. tasks[a].link \notin {"asleep", "connecting"}
      BY <1>1, <1>2, UnopenedIs
    <3>. QED  BY <1>2, <1>6, <3>1, OpenedIs
  <2>2. new = OnOnline(acc, TRUE)
    BY <1>6 DEF OnOnline
  <2>. HIDE DEF new, acc
  <2>3. /\ Works(acc, new, plan.personal) /\ new.assigned = acc.assigned /\ Known(new) = Known(acc)
    BY <1>2, <2>1, <2>2, OnlineResumedWorks
  <2>4. InSession(next, room[a])
    BY <1>1, <1>2, <1>5, <1>6, <2>3, ResumedKeeps DEF acc
  <2>5. InGame(next, games, plan.personal)
    BY <1>2, <1>5, <2>3, SameInGame DEF acc
  <2>6. InTouch(next, room[a], games, plan.personal)
    BY <1>5, <2>3, <2>4, <2>5 DEF InTouch, Works
  <2>. QED  BY <1>1, <1>5, <2>6, TaskTouchKeeps
<1>7. CASE Head(tasks[a].news) = "new"
  <2>2. new = OnOnline(acc, FALSE)
    BY <1>7 DEF OnOnline
  <2>. HIDE DEF new, acc
  <2>3. /\ new \in Accs /\ new.assigned = acc.assigned /\ new.bound = TRUE
        /\ Books(new, plan.personal) /\ Known(new) = Known(acc)
        /\ \A occ \in Occupants, f \in Occupants :
              Pictured(acc, f) /\ Hears(occ, acc.out, f) => Hears(occ, new.out, Seen(new))
    BY <1>2, <2>2, OnlineNewWorks
  <2>4. InSession(next, room[a])
    BY <1>1, <1>2, <1>5, <2>3, RenewedKeeps DEF acc
  <2>5. InGame(next, games, plan.personal)
    BY <1>2, <1>5, <2>3, SameInGame DEF acc
  <2>6. InTouch(next, room[a], games, plan.personal)
    BY <1>5, <2>3, <2>4, <2>5 DEF InTouch
  <2>. QED  BY <1>1, <1>5, <2>6, TaskTouchKeeps
<1>. QED  BY <1>3, <1>6, <1>7

\* The client's stream ends, all its news heard.
LEMMA StreamEndTouches ==
    ASSUME IInv, AllInTouch, NEW a \in Accounts, StreamEnds(a)
    PROVE  AllInTouch'
<1>. DEFINE new == OnStreamEnd(tasks[a].acc)
            next == [tasks[a] EXCEPT !.acc = new, !.link = "asleep"]
<1>1. /\ tasks[a].live = "running" /\ tasks[a].news = <<>> /\ tasks' = [tasks EXCEPT ![a] = next]
      /\ UNCHANGED <<plan, main, room, games>>
  BY DEF StreamEnds, Awake
<1>2. /\ tasks[a] \in Tasks /\ tasks[a].acc \in Accs /\ room[a] \in Occupants /\ plan.personal \in BOOLEAN
      /\ Books(tasks[a].acc, plan.personal) /\ InGame(tasks[a], games, plan.personal)
  BY <1>1, TouchOf
<1>3. /\ new \in Accs /\ new.assigned = tasks[a].acc.assigned /\ new.bound = FALSE /\ new.out = <<>>
      /\ Books(new, plan.personal) /\ Known(new) = Known(tasks[a].acc)
  BY <1>2, OnStreamEndWorks
<1>. HIDE DEF new
<1>4. /\ next \in Tasks /\ next.acc = new /\ next.live = "running" /\ next.control = tasks[a].control
      /\ next.link = "asleep" /\ next.news = <<>>
  BY <1>1, <1>2, <1>3 DEF Tasks
<1>. HIDE DEF next
<1>5. InSession(next, room[a])
  BY <1>3, <1>4, UnopenedIs
<1>6. InGame(next, games, plan.personal)
  BY <1>2, <1>3, <1>4, SameInGame
<1>7. InTouch(next, room[a], games, plan.personal)
  BY <1>3, <1>4, <1>5, <1>6 DEF InTouch
<1>. QED  BY <1>1, <1>4, <1>7, TaskTouchKeeps

\* A sleeping task wakes.
LEMMA WakeTouches ==
    ASSUME IInv, AllInTouch, NEW a \in Accounts, Wake(a)
    PROVE  AllInTouch'
<1>. DEFINE next == [tasks[a] EXCEPT !.link = "connecting"]
<1>1. /\ tasks[a].live = "running" /\ tasks[a].link = "asleep" /\ tasks' = [tasks EXCEPT ![a] = next]
      /\ UNCHANGED <<plan, main, room, games>>
  BY DEF Wake
<1>2. /\ tasks[a] \in Tasks /\ InSession(tasks[a], room[a])
      /\ Books(tasks[a].acc, plan.personal) /\ InGame(tasks[a], games, plan.personal)
  BY <1>1, TouchOf
<1>3. /\ next \in Tasks /\ next.acc = tasks[a].acc /\ next.live = "running"
      /\ next.control = tasks[a].control /\ next.link = "connecting" /\ next.news = tasks[a].news
  BY <1>1, <1>2 DEF Tasks
<1>. HIDE DEF next
<1>4. InSession(next, room[a])
  BY <1>1, <1>2, <1>3, UnopenedIs
<1>5. InTouch(next, room[a], games, plan.personal)
  BY <1>2, <1>3, <1>4, SameInGame DEF InTouch
<1>. QED  BY <1>1, <1>3, <1>5, TaskTouchKeeps

\* A task that panics is out of touch.
LEMMA DiesTouches ==
    ASSUME IInv, AllInTouch, NEW a \in Accounts, Dies(a)
    PROVE  AllInTouch'
<1>. DEFINE next == [tasks[a] EXCEPT !.live = "dead", !.control = <<>>]
<1>1. tasks' = [tasks EXCEPT ![a] = next] /\ UNCHANGED <<plan, main, room, games>>
  BY DEF Dies
<1>2. <<>> \in Seq(Messages)
  BY EmptySeq
<1>3. next \in Tasks /\ next.live = "dead"
  BY <1>2, TaskOf DEF Tasks
<1>. HIDE DEF next
<1>4. InTouch(next, room[a], games, plan.personal)
  BY <1>3 DEF InTouch
<1>. QED  BY <1>1, <1>3, <1>4, TaskTouchKeeps

\* An order read becomes the assignment, a release changes nothing, and a task that is
\* shut down is out of touch.
LEMMA ControlTouches ==
    ASSUME IInv, AllInTouch, NEW a \in Accounts, TakeControl(a)
    PROVE  AllInTouch'
<1>. DEFINE c == tasks[a].control
            message == Head(c)
            acc == tasks[a].acc
            rest == [tasks EXCEPT ![a].control = Tail(@)]
<1>1. tasks[a].live = "running" /\ c # <<>> /\ UNCHANGED <<plan, main, room, games>>
  BY DEF TakeControl, Awake
<1>2. /\ tasks[a] \in Tasks /\ acc \in Accs /\ room[a] \in Occupants /\ plan.personal \in BOOLEAN
      /\ main.at # "stopped" /\ InSession(tasks[a], room[a])
      /\ Books(acc, plan.personal) /\ InGame(tasks[a], games, plan.personal)
  BY <1>1, TouchOf
<1>3. tasks \in [Accounts -> Tasks] /\ c \in Seq(Messages)
  BY <1>2, TaskIs DEF IInv, Typed
<1>4. /\ Tail(c) \in Seq(Messages) /\ message \in Messages /\ Len(c) \in Nat \ {0}
      /\ message = c[1] /\ DOMAIN c = 1 .. Len(c) /\ DOMAIN Tail(c) = 1 .. Len(c) - 1
      /\ \A i \in 1 .. Len(c) - 1 : Tail(c)[i] = c[i + 1]
  BY <1>1, <1>3, TailIs
<1>5. \A i \in DOMAIN Tail(c) : Tail(c)[i].kind = "assign" =>
          Follows(Unknown, Tail(c)[i].game, games[Tail(c)[i].game], plan.personal)
  <2>1. \A i \in DOMAIN Tail(c) : i + 1 \in DOMAIN c /\ Tail(c)[i] = c[i + 1]
    BY <1>4
  <2>. QED  BY <1>2, <2>1 DEF InGame
<1>6. CASE message.kind = "assign"
  <2>1. message.game \in GameIds
    BY <1>4, <1>6 DEF Messages
  <2>2. acc.assigned = None
    BY <1>1, <1>2, <1>6, OrderedFree
  <2>3. PICK new : new = OnAssign(acc, message.game)
    OBVIOUS
  <2>4. Works(acc, new, plan.personal) /\ new.assigned = message.game /\ Known(new) = Unknown
    BY <1>2, <2>1, <2>2, <2>3, OnAssignWorks
  <2>. DEFINE next == [tasks[a] EXCEPT !.control = Tail(@), !.acc = new]
  <2>5. tasks' = [tasks EXCEPT ![a] = next]
    <3>1. tasks' = [rest EXCEPT ![a].acc = OnAssign(acc, message.game)]
      BY <1>6 DEF TakeControl
    <3>. QED  BY <1>2, <1>3, <2>3, <3>1
  <2>6. /\ next \in Tasks /\ next.acc = new /\ next.live = "running" /\ next.control = Tail(c)
        /\ next.link = tasks[a].link /\ next.news = tasks[a].news
    BY <1>1, <1>2, <1>4, <2>4 DEF Works, Tasks
  <2>. HIDE DEF next
  <2>7. InSession(next, room[a])
    BY <1>2, <2>4, <2>6, WorksKeeps
  <2>8. Follows(Unknown, message.game, games[message.game], plan.personal)
    BY <1>2, <1>4, <1>6 DEF InGame
  <2>9. InGame(next, games, plan.personal)
    BY <1>5, <2>4, <2>6, <2>8 DEF InGame
  <2>10. InTouch(next, room[a], games, plan.personal)
    BY <2>4, <2>6, <2>7, <2>9 DEF InTouch, Works
  <2>. QED  BY <1>1, <2>5, <2>6, <2>10, TaskTouchKeeps
<1>7. CASE message.kind = "release"
  <2>1. acc.assigned = None
    BY <1>1, <1>2, <1>7, OrderedFree
  <2>2. PICK new : new = OnRelease(acc)
    OBVIOUS
  <2>3. Works(acc, new, plan.personal) /\ new.assigned = None
    BY <1>2, <2>1, <2>2, OnReleaseWorks
  <2>. DEFINE next == [tasks[a] EXCEPT !.control = Tail(@), !.acc = new]
  <2>4. tasks' = [tasks EXCEPT ![a] = next]
    <3>1. tasks' = [rest EXCEPT ![a].acc = OnRelease(acc)]
      BY <1>7 DEF TakeControl
    <3>. QED  BY <1>2, <1>3, <2>2, <3>1
  <2>5. /\ next \in Tasks /\ next.acc = new /\ next.live = "running" /\ next.control = Tail(c)
        /\ next.link = tasks[a].link /\ next.news = tasks[a].news
    BY <1>1, <1>2, <1>4, <2>3 DEF Works, Tasks
  <2>. HIDE DEF next
  <2>6. InSession(next, room[a])
    BY <1>2, <2>3, <2>5, WorksKeeps
  <2>7. InGame(next, games, plan.personal)
    BY <1>5, <2>3, <2>5 DEF InGame
  <2>8. InTouch(next, room[a], games, plan.personal)
    BY <2>3, <2>5, <2>6, <2>7 DEF InTouch, Works
  <2>. QED  BY <1>1, <2>4, <2>5, <2>8, TaskTouchKeeps
<1>8. CASE message.kind = "shutdown"
  <2>. DEFINE next == [tasks[a] EXCEPT !.control = Tail(@), !.acc = OnShutdown(acc), !.live = "exited"]
  <2>1. tasks' = [tasks EXCEPT ![a] = next]
    <3>1. tasks' = [rest EXCEPT ![a].acc = OnShutdown(acc), ![a].live = "exited"]
      BY <1>8 DEF TakeControl
    <3>. QED  BY <1>2, <1>3, <3>1
  <2>2. OnShutdown(acc) \in Accs
    BY <1>2, OnShutdownKeeps DEF Keeps
  <2>3. next \in Tasks /\ next.live = "exited"
    BY <1>2, <1>4, <2>2 DEF Tasks
  <2>. HIDE DEF next
  <2>4. InTouch(next, room[a], games, plan.personal)
    BY <2>3 DEF InTouch
  <2>. QED  BY <1>1, <2>1, <2>3, <2>4, TaskTouchKeeps
<1>. QED  BY <1>4, <1>6, <1>7, <1>8 DEF Messages

\* A game's description has nothing to do with its channel.
LEMMA SameAsItIs ==
    ASSUME NEW g, NEW game, NEW moved, NEW personal, moved.phase = game.phase, moved.here = game.here,
           moved.rev = game.rev
    PROVE  AsItIs(g, moved, personal) = AsItIs(g, game, personal)
BY DEF AsItIs, Listed

\* An event of the game is read.
LEMMA GameEventTouches ==
    ASSUME IInv, AllInTouch, NEW a \in Accounts, TakeGameEvent(a)
    PROVE  AllInTouch'
<1>. DEFINE acc == tasks[a].acc
            g == acc.assigned
            e == Head(games[g].chan)
            new == CASE e.kind = "listing" -> OnListing(acc, e.attrs)
                     [] e.kind = "started" -> OnStarted(acc)
                     [] e.kind = "ended" -> OnEnded(acc)
                     [] e.kind = "unlisted" -> OnUnlisted(acc)
            next == [tasks[a] EXCEPT !.acc = new]
            game == [games[g] EXCEPT !.chan = Tail(@)]
            p == plan.personal
<1>1. /\ tasks[a].live = "running" /\ g # None /\ games[g].chan # <<>>
      /\ tasks' = [tasks EXCEPT ![a] = next] /\ games' = [games EXCEPT ![g] = game]
      /\ UNCHANGED <<plan, main, room>>
  BY Zenon DEF TakeGameEvent, Awake, Handled
<1>2. /\ tasks[a] \in Tasks /\ acc \in Accs /\ room[a] \in Occupants /\ p \in BOOLEAN
      /\ main.at # "stopped" /\ InSession(tasks[a], room[a]) /\ Books(acc, p) /\ InGame(tasks[a], games, p)
  BY <1>1, TouchOf
<1>3. g \in GameIds
  BY <1>1, <1>2, AccIs
<1>4. games \in [GameIds -> Games] /\ tasks \in [Accounts -> Tasks] /\ room \in [Accounts -> Occupants]
  BY DEF IInv, Typed, AllInTouch
<1>5. games[g] \in Games /\ games[g].chan \in Seq(GameEvents)
  BY <1>3, <1>4 DEF Games
<1>6. e \in GameEvents /\ Tail(games[g].chan) \in Seq(GameEvents)
  BY <1>1, <1>5, TailIs
<1>7. /\ game.chan = Tail(games[g].chan) /\ game.phase = games[g].phase
      /\ game.here = games[g].here /\ game.rev = games[g].rev
  BY <1>5 DEF Games
<1>8. Known(acc) \in Knowings
  BY <1>2, KnownIs, Zenon
<1>9. PICK f \in Knowings :
         /\ Learns(Known(acc), games[g].chan, f, p)
         /\ games[g].phase \in {"boot", "setup", "match", "over"} => f = AsItIs(g, games[g], p)
  <2>1. Follows(Known(acc), g, games[g], p)
    BY <1>1, <1>2 DEF InGame
  <2>. QED  BY <2>1 DEF Follows
<1>10. /\ e.kind = "listing" => ~Known(acc).started
       /\ Learns(Learned(Known(acc), e, p), Tail(games[g].chan), f, p)
  BY <1>1, <1>2, <1>5, <1>8, <1>9, LearnsTheFirst
<1>11. e.kind \in {"listing", "started", "ended", "unlisted"} /\ (e.kind = "listing" => e.attrs \in Attrs)
  BY <1>6 DEF GameEvents
<1>. HIDE DEF acc, e, p, game
<1>12. Keeps(acc, new) /\ Works(acc, new, p) /\ Known(new) = Learned(Known(acc), e, p)
  <2>. HIDE DEF g
  <2>1. CASE e.kind = "listing"
    <3>1. PICK n : n = OnListing(acc, e.attrs)
      OBVIOUS
    <3>2. Works(acc, n, p) /\ Known(n) = Learned(Known(acc), e, p)
      BY <1>1, <1>2, <1>6, <1>10, <2>1, <3>1, OnListingWorks DEF g
    <3>3. Keeps(acc, n)
      BY <1>2, <1>11, <2>1, <3>1, OnListingKeeps
    <3>. QED  BY <2>1, <3>1, <3>2, <3>3
  <2>2. CASE e.kind = "started"
    <3>1. PICK n : n = OnStarted(acc)
      OBVIOUS
    <3>2. Works(acc, n, p) /\ Known(n) = Learned(Known(acc), e, p)
      BY <1>1, <1>2, <1>6, <2>2, <3>1, OnStartedWorks DEF g
    <3>3. Keeps(acc, n)
      BY <1>2, <3>1, OnStartedKeeps
    <3>. QED  BY <2>2, <3>1, <3>2, <3>3
  <2>3. CASE e.kind = "ended"
    <3>1. PICK n : n = OnEnded(acc)
      OBVIOUS
    <3>2. Works(acc, n, p) /\ Known(n) = Learned(Known(acc), e, p)
      BY <1>1, <1>2, <1>6, <2>3, <3>1, OnEndedWorks DEF g
    <3>3. Keeps(acc, n)
      BY <1>2, <3>1, OnEndedKeeps
    <3>. QED  BY <2>3, <3>1, <3>2, <3>3
  <2>4. CASE e.kind = "unlisted"
    <3>1. PICK n : n = OnUnlisted(acc)
      OBVIOUS
    <3>2. Works(acc, n, p) /\ Known(n) = Learned(Known(acc), e, p)
      BY <1>1, <1>2, <1>6, <2>4, <3>1, OnUnlistedWorks DEF g
    <3>3. Keeps(acc, n)
      BY <1>2, <3>1, OnUnlistedKeeps
    <3>. QED  BY <2>4, <3>1, <3>2, <3>3
  <2>. QED  BY <1>11, <2>1, <2>2, <2>3, <2>4
<1>. HIDE DEF new
<1>13. /\ next \in Tasks /\ next.acc = new /\ next.live = "running" /\ next.control = tasks[a].control
       /\ next.link = tasks[a].link /\ next.news = tasks[a].news
  BY <1>1, <1>2, <1>12 DEF Keeps, Tasks
<1>. HIDE DEF next
<1>14. InSession(next, room[a])
  BY <1>2, <1>12, <1>13, WorksKeeps DEF acc
<1>15. new.assigned = g
  BY <1>12 DEF Keeps
<1>16. Follows(Known(new), g, game, p)
  <2>1. Learns(Known(new), game.chan, f, p)
    BY <1>7, <1>10, <1>12
  <2>2. AsItIs(g, game, p) = AsItIs(g, games[g], p)
    BY <1>7, SameAsItIs
  <2>. QED  BY <1>7, <1>9, <2>1, <2>2 DEF Follows
<1>. HIDE DEF g
<1>18. games'[g] = game /\ \A h \in GameIds : h # g => games'[h] = games[h]
  BY <1>1, <1>3, <1>4
<1>19. About(tasks[a], g)
  BY DEF About, g, acc
<1>20. main.gameOf[a] = g /\ games[g].account = a
  BY <1>1, <1>2, <1>3, <1>19, AboutIsOf
<1>21. InGame(next, games', p)
  <2>1. \A i \in DOMAIN next.control : next.control[i].kind # "assign"
    <3>1. Told1(main.gameOf[a], tasks[a], events, a)
      BY <1>2 DEF IInv, Hosting, EndsTold
    <3>2. tasks[a].acc.assigned = g /\ g # None
      BY <1>1 DEF g, acc
    <3>3. Orderless(tasks[a].control)
      BY <1>1, <1>20, <3>1, <3>2 DEF Told1, Telling
    <3>. QED  BY <1>13, <3>3 DEF Orderless
  <2>. QED  BY <1>13, <1>15, <1>16, <1>18, <2>1 DEF InGame
<1>22. InTouch(next, room[a], games', p)
  BY <1>12, <1>13, <1>14, <1>21 DEF InTouch, Works
<1>23. ASSUME NEW b \in Accounts, b # a
       PROVE  InTouch(tasks[b], room[b], games', p)
  <2>1. CASE tasks[b].live # "running"
    BY <2>1 DEF InTouch
  <2>2. CASE tasks[b].live = "running"
    <3>1. tasks[b] \in Tasks /\ InSession(tasks[b], room[b]) /\ Books(tasks[b].acc, p) /\ InGame(tasks[b], games, p)
      BY <2>2, TouchOf DEF p
    <3>2. \A h \in GameIds : About(tasks[b], h) => h # g
      BY <1>2, <1>20, <1>23, <2>2, AboutIsOf
    <3>3. InGame(tasks[b], games', p)
      BY <1>18, <3>1, <3>2, InGameMoves
    <3>. QED  BY <3>1, <3>3 DEF InTouch
  <2>. QED  BY <2>1, <2>2
<1>24. /\ tasks'[a] = next /\ \A b \in Accounts : b # a => tasks'[b] = tasks[b]
  BY <1>1, <1>4
<1>25. Accounts' = Accounts /\ GameIds' = GameIds /\ plan' = plan /\ main' = main /\ room' = room
  BY <1>1 DEF Accounts, GameIds
<1>26. \A b \in Accounts : InTouch(tasks'[b], room'[b], games', plan'.personal)
  BY <1>22, <1>23, <1>24, <1>25 DEF p
<1>27. \A h \in GameIds : /\ games'[h].here => plan.personal
                          /\ games'[h].phase = "boot" => games'[h].rev = 0
  BY <1>3, <1>7, <1>18 DEF AllInTouch
<1>. QED  BY <1>2, <1>4, <1>25, <1>26, <1>27 DEF AllInTouch

-----------------------------------------------------------------------------
(* The steps of the lobby.                                                 *)

\* A task whose own state keeps what it knows.
LEMMA LinkTouchKeeps ==
    ASSUME IInv, AllInTouch, NEW a \in Accounts, NEW next \in Tasks, NEW occ \in Occupants,
           tasks' = [tasks EXCEPT ![a] = next], room' = [room EXCEPT ![a] = occ],
           UNCHANGED <<plan, main, games>>, next.live = tasks[a].live,
           next.control = tasks[a].control,
           next.acc = [tasks[a].acc EXCEPT !.out = next.acc.out],
           tasks[a].live = "running" => InSession(next, occ)
    PROVE  AllInTouch'
<1>1. CASE tasks[a].live # "running"
  <2>1. InTouch(next, occ, games, plan.personal)
    BY <1>1 DEF InTouch
  <2>. QED  BY <1>1, <2>1, TouchKeeps
<1>2. CASE tasks[a].live = "running"
  <2>1. /\ tasks[a].acc \in Accs /\ Books(tasks[a].acc, plan.personal)
        /\ InGame(tasks[a], games, plan.personal)
    BY <1>2, TouchOf
  <2>2. /\ next.acc.personal = tasks[a].acc.personal /\ next.acc.assigned = tasks[a].acc.assigned
        /\ next.acc.unlisted = tasks[a].acc.unlisted /\ next.acc.lastSent = tasks[a].acc.lastSent
        /\ next.acc.pending = tasks[a].acc.pending /\ next.acc.debounce = tasks[a].acc.debounce
        /\ next.acc.started = tasks[a].acc.started /\ next.acc.playing = tasks[a].acc.playing
        /\ next.acc.bound = tasks[a].acc.bound
    <3>. DEFINE out == next.acc.out
    <3>1. next.acc = [tasks[a].acc EXCEPT !.out = out]
      OBVIOUS
    <3>. HIDE DEF out
    <3>. QED  BY <2>1, <3>1 DEF Accs
  <2>3. Known(next.acc) = Known(tasks[a].acc)
    BY <2>2 DEF Known
  <2>4. Books(next.acc, plan.personal)
    BY <2>1, <2>2 DEF Books
  <2>5. InGame(next, games, plan.personal)
    BY <2>1, <2>2, <2>3, SameInGame
  <2>6. InTouch(next, occ, games, plan.personal)
    BY <1>2, <2>4, <2>5 DEF InTouch
  <2>. QED  BY <1>2, <2>6, TouchKeeps
<1>. QED  BY <1>1, <1>2

\* The connection breaks.
LEMMA DropTouches ==
    ASSUME IInv, AllInTouch, NEW a \in Accounts, Drop(a)
    PROVE  AllInTouch'
<1>. DEFINE next == [tasks[a] EXCEPT !.link = "down"]
<1>1. tasks[a].link = "up" /\ tasks' = [tasks EXCEPT ![a] = next] /\ UNCHANGED <<plan, main, room, games>>
  BY DEF Drop
<1>2. tasks[a] \in Tasks /\ room[a] \in Occupants /\ tasks[a].acc \in Accs
      /\ (tasks[a].live = "running" => InSession(tasks[a], room[a]))
  BY TouchOf
<1>3. /\ next \in Tasks /\ next.acc = tasks[a].acc /\ next.live = tasks[a].live
      /\ next.control = tasks[a].control /\ next.link = "down" /\ next.news = tasks[a].news
  BY <1>2 DEF Tasks
<1>. HIDE DEF next
<1>4. tasks[a].live = "running" => InSession(next, room[a])
  BY <1>1, <1>2, <1>3, DroppedKeeps
<1>5. room' = [room EXCEPT ![a] = room[a]] /\ next.acc = [tasks[a].acc EXCEPT !.out = next.acc.out]
  BY <1>1, <1>2, <1>3 DEF AllInTouch, Accs
<1>. QED  BY <1>1, <1>2, <1>3, <1>4, <1>5, LinkTouchKeeps

\* The session is resumed.
LEMMA ResumeTouches ==
    ASSUME IInv, AllInTouch, NEW a \in Accounts, ResumeSession(a)
    PROVE  AllInTouch'
<1>. DEFINE news == Append(tasks[a].news, "resumed")
            next == [tasks[a] EXCEPT !.link = "up", !.news = news]
<1>1. /\ tasks[a].live = "running" /\ tasks[a].link = "down" /\ tasks' = [tasks EXCEPT ![a] = next]
      /\ UNCHANGED <<plan, main, room, games>>
  BY DEF ResumeSession, Alive
<1>2. tasks[a] \in Tasks /\ room[a] \in Occupants /\ tasks[a].acc \in Accs /\ InSession(tasks[a], room[a])
  BY <1>1, TouchOf
<1>3. news \in Seq({"new", "resumed"})
  <2>1. tasks[a].news \in Seq({"new", "resumed"})
    BY <1>2, TaskIs
  <2>. QED  BY <2>1, AppendIs
<1>4. /\ next \in Tasks /\ next.acc = tasks[a].acc /\ next.live = tasks[a].live
      /\ next.control = tasks[a].control /\ next.link = "up" /\ next.news = Append(tasks[a].news, "resumed")
  <2>. HIDE DEF news
  <2>1. /\ next \in Tasks /\ next.acc = tasks[a].acc /\ next.live = tasks[a].live
        /\ next.control = tasks[a].control /\ next.link = "up" /\ next.news = news
    BY <1>2, <1>3 DEF Tasks
  <2>. QED  BY <2>1 DEF news
<1>. HIDE DEF next
<1>5. InSession(next, room[a])
  BY <1>1, <1>2, <1>4, ReturnedKeeps
<1>6. room' = [room EXCEPT ![a] = room[a]] /\ next.acc = [tasks[a].acc EXCEPT !.out = next.acc.out]
  BY <1>1, <1>2, <1>4 DEF AllInTouch, Accs
<1>. QED  BY <1>1, <1>2, <1>4, <1>5, <1>6, LinkTouchKeeps

\* A session is opened anew.
LEMMA NewTouches ==
    ASSUME IInv, AllInTouch, NEW a \in Accounts, NewSession(a)
    PROVE  AllInTouch'
<1>1. PICK k \in 1 .. Len(tasks[a].acc.out) + 1 :
         tasks' = [tasks EXCEPT ![a].link = "up", ![a].news = Append(@, "new"),
                                ![a].acc.out = SubSeq(@, k, Len(@))]
  BY DEF NewSession
<1>. DEFINE news == Append(tasks[a].news, "new")
            acc == [tasks[a].acc EXCEPT !.out = SubSeq(@, k, Len(@))]
            next == [tasks[a] EXCEPT !.link = "up", !.news = news, !.acc = acc]
<1>2. /\ tasks[a].live = "running" /\ tasks[a].link \in {"connecting", "down", "left"}
      /\ tasks' = [tasks EXCEPT ![a] = next] /\ room' = [room EXCEPT ![a] = Absent]
      /\ UNCHANGED <<plan, main, games>>
  <2>1. tasks' = [tasks EXCEPT ![a] = next]
    BY <1>1
  <2>. HIDE DEF next
  <2>. QED  BY <2>1 DEF NewSession, Alive
<1>3. tasks[a] \in Tasks /\ room[a] \in Occupants /\ tasks[a].acc \in Accs /\ InSession(tasks[a], room[a])
  BY <1>2, TouchOf
<1>4. news \in Seq({"new", "resumed"})
  <2>1. tasks[a].news \in Seq({"new", "resumed"})
    BY <1>3, TaskIs
  <2>. QED  BY <2>1, AppendIs
<1>5. acc \in Accs /\ acc = [tasks[a].acc EXCEPT !.out = acc.out]
  <2>1. tasks[a].acc.out \in Seq(Stanzas)
    BY <1>3, AccIs
  <2>2. SubSeq(tasks[a].acc.out, k, Len(tasks[a].acc.out)) \in Seq(Stanzas)
    BY <2>1, SubSeqProperties, LenProperties
  <2>. QED  BY <1>3, <2>2 DEF Accs
<1>6. /\ next \in Tasks /\ next.acc = acc /\ next.live = tasks[a].live
      /\ next.control = tasks[a].control /\ next.link = "up" /\ next.news = news
  <2>. HIDE DEF news, acc
  <2>. QED  BY <1>3, <1>4, <1>5 DEF Tasks
<1>. HIDE DEF next
<1>7. InSession(next, Absent)
  <2>1. next.acc = [tasks[a].acc EXCEPT !.out = SubSeq(@, k, Len(@))] /\ next.news = Append(tasks[a].news, "new")
    BY <1>6
  <2>. QED  BY <1>1, <1>2, <1>3, <1>6, <2>1, OpenedKeeps
<1>8. Absent \in Occupants /\ next.acc = [tasks[a].acc EXCEPT !.out = next.acc.out]
  BY <1>5, <1>6, ViewIs
<1>. HIDE DEF acc, news
<1>. QED  BY <1>2, <1>6, <1>7, <1>8, LinkTouchKeeps

\* The occupant leaves the room.
LEMMA LeaveTouches ==
    ASSUME IInv, AllInTouch, NEW a \in Accounts, LeaveRoom(a)
    PROVE  AllInTouch'
<1>. DEFINE link == IF tasks[a].link = "down" \/ ~Alive(a) THEN "left" ELSE tasks[a].link
            next == [tasks[a] EXCEPT !.link = link]
<1>1. /\ tasks[a].live = "running" => tasks[a].link \in {"down", "asleep", "connecting"}
      /\ tasks' = [tasks EXCEPT ![a] = next] /\ room' = [room EXCEPT ![a] = Absent]
      /\ UNCHANGED <<plan, main, games>>
  BY DEF LeaveRoom, Alive
<1>2. tasks[a] \in Tasks /\ room[a] \in Occupants /\ tasks[a].acc \in Accs
      /\ (tasks[a].live = "running" => InSession(tasks[a], room[a]))
  BY TouchOf
<1>3. /\ link \in {"asleep", "connecting", "up", "down", "left"}
      /\ tasks[a].live = "running" => link = IF tasks[a].link = "down" THEN "left" ELSE tasks[a].link
  BY <1>2, TaskIs DEF Alive
<1>. HIDE DEF link
<1>4. /\ next \in Tasks /\ next.acc = tasks[a].acc /\ next.live = tasks[a].live
      /\ next.control = tasks[a].control /\ next.link = link /\ next.news = tasks[a].news
  BY <1>2, <1>3 DEF Tasks
<1>. HIDE DEF next
<1>5. tasks[a].live = "running" => InSession(next, Absent)
  BY <1>1, <1>2, <1>3, <1>4, LeftKeeps
<1>6. Absent \in Occupants /\ next.acc = [tasks[a].acc EXCEPT !.out = next.acc.out]
  BY <1>2, <1>4, ViewIs DEF Accs
<1>. QED  BY <1>1, <1>4, <1>5, <1>6, LinkTouchKeeps

\* A stanza is delivered.
LEMMA DeliverTouches ==
    ASSUME IInv, AllInTouch, NEW a \in Accounts, Deliver(a)
    PROVE  AllInTouch'
<1>. DEFINE acc == [tasks[a].acc EXCEPT !.out = Tail(@)]
            next == [tasks[a] EXCEPT !.acc = acc]
            occ == Heard(room[a], Head(tasks[a].acc.out))
<1>2. tasks[a] \in Tasks /\ room[a] \in Occupants /\ tasks[a].acc \in Accs
      /\ (tasks[a].live = "running" => InSession(tasks[a], room[a]))
  BY TouchOf
<1>1. /\ tasks[a].link = "up" /\ tasks[a].acc.out # <<>>
      /\ tasks' = [tasks EXCEPT ![a] = next] /\ room' = [room EXCEPT ![a] = occ]
      /\ UNCHANGED <<plan, main, games>>
  BY DEF Deliver
<1>3. tasks[a].acc.out \in Seq(Stanzas)
  BY <1>2, AccIs
<1>4. Head(tasks[a].acc.out) \in Stanzas /\ Tail(tasks[a].acc.out) \in Seq(Stanzas)
  BY <1>1, <1>3, TailIs
<1>5. acc \in Accs /\ acc = [tasks[a].acc EXCEPT !.out = acc.out]
  BY <1>2, <1>4 DEF Accs
<1>6. /\ next \in Tasks /\ next.acc = acc /\ next.live = tasks[a].live
      /\ next.control = tasks[a].control /\ next.link = tasks[a].link /\ next.news = tasks[a].news
  <2>. HIDE DEF acc
  <2>. QED  BY <1>2, <1>5 DEF Tasks
<1>. HIDE DEF next
<1>7. occ \in Occupants
  BY <1>2, <1>4, HeardType
<1>8. tasks[a].live = "running" => InSession(next, occ)
  BY <1>1, <1>2, <1>6, DeliveredKeeps
<1>9. next.acc = [tasks[a].acc EXCEPT !.out = next.acc.out]
  BY <1>5, <1>6
<1>. HIDE DEF acc, occ
<1>. QED  BY <1>1, <1>6, <1>7, <1>8, <1>9, LinkTouchKeeps

-----------------------------------------------------------------------------
(* The steps of the games.                                                 *)

\* A game as it is, field by field.
Described(g, game, personal, k) ==
    /\ k \in Knowings
    /\ k.newest = IF Listed(game, personal) THEN <<g, game.rev>> ELSE None
    /\ k.started <=> Listed(game, personal) /\ game.phase = "match"
    /\ k.playing <=> personal /\ game.here

LEMMA AsItIsDescribed ==
    ASSUME NEW g \in GameIds, NEW game \in Games, NEW personal \in BOOLEAN
    PROVE  /\ Described(g, game, personal, AsItIs(g, game, personal))
           /\ \A k : Described(g, game, personal, k) => k = AsItIs(g, game, personal)
<1>. DEFINE newest == IF Listed(game, personal) THEN <<g, game.rev>> ELSE None
            started == Listed(game, personal) /\ game.phase = "match"
            playing == personal /\ game.here
            k == AsItIs(g, game, personal)
<1>1. k = [newest |-> newest, started |-> started, playing |-> playing]
  BY DEF AsItIs
<1>2. newest \in Attrs \cup {None}
  BY DEF Games, Attrs, GameIds
<1>3. started \in BOOLEAN /\ playing \in BOOLEAN
  BY DEF Listed
<1>. HIDE DEF newest, started, playing, k
<1>4. k \in Knowings /\ k.newest = newest /\ k.started = started /\ k.playing = playing
  BY <1>1, <1>2, <1>3 DEF Knowings
<1>5. Described(g, game, personal, k)
  BY <1>4 DEF Described, newest, started, playing
<1>6. ASSUME NEW l, Described(g, game, personal, l)
      PROVE  l = k
  <2>1. l \in Knowings /\ l.newest = newest /\ (l.started <=> started) /\ (l.playing <=> playing)
    BY <1>6 DEF Described, newest, started, playing
  <2>2. l.started \in BOOLEAN /\ l.playing \in BOOLEAN
    BY <2>1 DEF Knowings
  <2>3. l.newest = k.newest /\ l.started = k.started /\ l.playing = k.playing
    BY <1>3, <1>4, <2>1, <2>2
  <2>. QED  BY <1>4, <2>1, <2>3, SameKnowing
<1>. QED  BY <1>5, <1>6 DEF k

\* A game that runs.
Runs(game) == game.phase \in {"boot", "setup", "match", "over"}

\* It tells nothing, and nothing about it is new.
LEMMA FollowsSame ==
    ASSUME NEW k \in Knowings, NEW g \in GameIds, NEW game \in Games, NEW moved \in Games,
           NEW personal \in BOOLEAN, Follows(k, g, game, personal), moved.chan = game.chan,
           Runs(moved) => Runs(game) /\ AsItIs(g, moved, personal) = AsItIs(g, game, personal)
    PROVE  Follows(k, g, moved, personal)
BY DEF Follows, Runs

\* It tells of what is new.
LEMMA FollowsOne ==
    ASSUME NEW k \in Knowings, NEW g \in GameIds, NEW game \in Games, NEW moved \in Games,
           NEW personal \in BOOLEAN, Follows(k, g, game, personal), Runs(game),
           NEW e \in GameEvents, moved.chan = Append(game.chan, e),
           e.kind = "listing" => ~AsItIs(g, game, personal).started,
           AsItIs(g, moved, personal) = Learned(AsItIs(g, game, personal), e, personal)
    PROVE  Follows(k, g, moved, personal)
<1>1. PICK f \in Knowings : Learns(k, game.chan, f, personal) /\ f = AsItIs(g, game, personal)
  BY DEF Follows, Runs
<1>. DEFINE l == Learned(f, e, personal)
<1>2. game.chan \in Seq(GameEvents)
  BY DEF Games
<1>3. Learns(k, moved.chan, l, personal)
  BY <1>1, <1>2, LearnsOneMore
<1>4. l \in Knowings
  BY LearnedType
<1>. QED  BY <1>1, <1>3, <1>4 DEF Follows

\* It tells of it in two events.
LEMMA FollowsTwo ==
    ASSUME NEW k \in Knowings, NEW g \in GameIds, NEW game \in Games, NEW moved \in Games,
           NEW personal \in BOOLEAN, Follows(k, g, game, personal), Runs(game),
           NEW e \in GameEvents, NEW d \in GameEvents, moved.chan = Append(Append(game.chan, e), d),
           ~AsItIs(g, game, personal).started, d.kind # "listing",
           AsItIs(g, moved, personal) = Learned(Learned(AsItIs(g, game, personal), e, personal), d, personal)
    PROVE  Follows(k, g, moved, personal)
<1>1. PICK f \in Knowings : Learns(k, game.chan, f, personal) /\ f = AsItIs(g, game, personal)
  BY DEF Follows, Runs
<1>2. PICK l : l = Learned(f, e, personal)
  OBVIOUS
<1>3. PICK m : m = Learned(l, d, personal)
  OBVIOUS
<1>4. PICK mid : mid = Append(game.chan, e)
  OBVIOUS
<1>5. game.chan \in Seq(GameEvents) /\ mid \in Seq(GameEvents)
  BY <1>4, AppendProperties DEF Games
<1>6. Learns(k, mid, l, personal)
  BY <1>1, <1>2, <1>4, <1>5, LearnsOneMore
<1>7. Learns(k, moved.chan, m, personal)
  BY <1>3, <1>4, <1>5, <1>6, LearnsOneMore
<1>8. l \in Knowings
  BY <1>2, LearnedType
<1>9. m \in Knowings
  BY <1>3, <1>8, LearnedType
<1>. QED  BY <1>1, <1>2, <1>3, <1>7, <1>9 DEF Follows

\* Those about a game that moves on follow it.
LEMMA PushTouches ==
    ASSUME IInv, AllInTouch, NEW g \in GameIds, NEW game \in Games, NEW more \in Seq(GameEvents),
           Push(g, game, more), UNCHANGED <<plan, main, tasks, room, events, left>>,
           game.here => plan.personal, game.phase = "boot" => game.rev = 0,
           NEW moved, moved = [game EXCEPT !.chan = @ \o more],
           \A k \in Knowings : Follows(k, g, games[g], plan.personal) => Follows(k, g, moved, plan.personal)
    PROVE  AllInTouch'
<1>1. games \in [GameIds -> Games] /\ games' = [games EXCEPT ![g] = moved]
  BY DEF IInv, Typed, Push
<1>2. games'[g] = moved /\ \A h \in GameIds : h # g => games'[h] = games[h]
  BY <1>1
<1>3. ASSUME NEW a \in Accounts
      PROVE  InTouch(tasks[a], room[a], games', plan.personal)
  <2>1. CASE tasks[a].live # "running"
    BY <2>1 DEF InTouch
  <2>2. CASE tasks[a].live = "running"
    <3>1. /\ tasks[a] \in Tasks /\ InSession(tasks[a], room[a]) /\ Books(tasks[a].acc, plan.personal)
          /\ InGame(tasks[a], games, plan.personal)
      BY <2>2, TouchOf
    <3>2. \A h \in GameIds, k \in Knowings :
             Follows(k, h, games[h], plan.personal) => Follows(k, h, games'[h], plan.personal)
      BY <1>2
    <3>3. InGame(tasks[a], games', plan.personal)
      BY <3>1, <3>2, InGameMoves
    <3>. QED  BY <3>1, <3>3 DEF InTouch
  <2>. QED  BY <2>1, <2>2
<1>4. moved.here = game.here /\ moved.phase = game.phase /\ moved.rev = game.rev
  BY DEF Games
<1>5. Accounts' = Accounts /\ GameIds' = GameIds
  BY DEF Accounts, GameIds
<1>. QED  BY <1>2, <1>3, <1>4, <1>5 DEF AllInTouch

\* A game with more in its channel.
Pushed(game, more, moved) ==
    /\ moved \in Games /\ moved.phase = game.phase /\ moved.here = game.here /\ moved.rev = game.rev
    /\ more = <<>> => moved.chan = game.chan
    /\ \A e \in GameEvents : more = <<e>> => moved.chan = Append(game.chan, e)
    /\ \A e, d \in GameEvents : more = <<e, d>> \/ more = <<e>> \o <<d>> =>
          moved.chan = Append(Append(game.chan, e), d)

LEMMA PushedIs ==
    ASSUME NEW game \in Games, NEW more \in Seq(GameEvents), NEW moved, moved = [game EXCEPT !.chan = @ \o more]
    PROVE  Pushed(game, more, moved)
<1>1. game.chan \in Seq(GameEvents)
  BY DEF Games
<1>2. PICK chan : chan = game.chan \o more
  OBVIOUS
<1>3. chan \in Seq(GameEvents)
  BY <1>1, <1>2, ConcatProperties
<1>4. moved = [game EXCEPT !.chan = chan]
  BY <1>2
<1>5. /\ moved \in Games /\ moved.phase = game.phase /\ moved.here = game.here /\ moved.rev = game.rev
      /\ moved.chan = chan
  BY <1>3, <1>4 DEF Games
<1>6. game.chan \o <<>> = game.chan
  BY <1>1, ConcatEmptySeq
<1>7. \A e \in GameEvents : game.chan \o <<e>> = Append(game.chan, e)
  BY <1>1, AppendIsConcat
<1>8. \A e, d \in GameEvents : game.chan \o (<<e>> \o <<d>>) = Append(Append(game.chan, e), d)
  <2>1. SUFFICES ASSUME NEW e \in GameEvents, NEW d \in GameEvents
                 PROVE  game.chan \o (<<e>> \o <<d>>) = Append(Append(game.chan, e), d)
    OBVIOUS
  <2>2. <<e>> \in Seq(GameEvents) /\ <<d>> \in Seq(GameEvents)
    BY EventsAreSeq
  <2>3. game.chan \o (<<e>> \o <<d>>) = (game.chan \o <<e>>) \o <<d>>
    BY <1>1, <2>2, ConcatAssociative
  <2>4. Append(game.chan, e) \in Seq(GameEvents)
    BY <1>1, AppendProperties
  <2>. QED  BY <1>7, <2>3, <2>4, AppendIsConcat
<1>9. \A e, d \in GameEvents : <<e, d>> = <<e>> \o <<d>>
  <2>1. SUFFICES ASSUME NEW e \in GameEvents, NEW d \in GameEvents
                 PROVE  <<e, d>> = <<e>> \o <<d>>
    OBVIOUS
  <2>2. <<e>> \in Seq(GameEvents)
    BY EventsAreSeq
  <2>3. Append(<<e>>, d) = <<e>> \o <<d>>
    BY <2>2, AppendIsConcat
  <2>4. <<e, d>> = Append(<<e>>, d)
    OBVIOUS
  <2>. QED  BY <2>3, <2>4
<1>10. more = <<>> => moved.chan = game.chan
  BY <1>2, <1>5, <1>6
<1>11. \A e \in GameEvents : more = <<e>> => moved.chan = Append(game.chan, e)
  BY <1>2, <1>5, <1>7
<1>12. ASSUME NEW e \in GameEvents, NEW d \in GameEvents, more = <<e, d>> \/ more = <<e>> \o <<d>>
       PROVE  moved.chan = Append(Append(game.chan, e), d)
  BY <1>2, <1>5, <1>8, <1>9, <1>12
<1>. QED  BY <1>5, <1>10, <1>11, <1>12 DEF Pushed

\* What a game knows of itself before it tells of anything.
LEMMA GameDescribed ==
    ASSUME IInv, AllInTouch, NEW g \in GameIds
    PROVE  /\ games[g] \in Games /\ plan.personal \in BOOLEAN
           /\ AsItIs(g, games[g], plan.personal) \in Knowings
           /\ Described(g, games[g], plan.personal, AsItIs(g, games[g], plan.personal))
           /\ games[g].here \in BOOLEAN /\ (games[g].here => plan.personal)
           /\ games[g].phase = "boot" => games[g].rev = 0
<1>1. games[g] \in Games
  BY GameOf
<1>2. plan.personal \in BOOLEAN
  BY PlanIs DEF IInv, Typed
<1>3. Described(g, games[g], plan.personal, AsItIs(g, games[g], plan.personal))
  BY <1>1, <1>2, AsItIsDescribed
<1>. QED  BY <1>1, <1>2, <1>3 DEF Described, AllInTouch, Games

\* The match is decided.
LEMMA DecideTouches ==
    ASSUME IInv, AllInTouch, NEW g \in GameIds, Decide(g)
    PROVE  AllInTouch'
<1>. DEFINE game == [games[g] EXCEPT !.phase = "over"]
            e == Event("ended")
            more == <<e>>
            moved == [game EXCEPT !.chan = @ \o more]
            p == plan.personal
            f == AsItIs(g, games[g], p)
            l == Learned(f, e, p)
<1>1. /\ games[g].phase = "match" /\ Push(g, game, more)
      /\ UNCHANGED <<plan, main, tasks, room, events, left>>
  BY DEF Decide
<1>2. /\ games[g] \in Games /\ p \in BOOLEAN /\ f \in Knowings /\ Described(g, games[g], p, f)
      /\ games[g].here \in BOOLEAN /\ (games[g].here => p)
  BY GameDescribed
<1>3. e \in GameEvents /\ more \in Seq(GameEvents) /\ e.kind = "ended"
  <2>1. e \in GameEvents
    BY GameOf
  <2>. QED  BY <2>1, EventsAreSeq DEF Event
<1>4. /\ game \in Games /\ game.phase = "over" /\ game.here = games[g].here /\ game.rev = games[g].rev
      /\ game.chan = games[g].chan
  BY <1>2 DEF Games
<1>. HIDE DEF e, game
<1>5. /\ moved \in Games /\ moved.phase = "over" /\ moved.here = games[g].here
      /\ moved.chan = Append(games[g].chan, e)
  <2>1. moved = [game EXCEPT !.chan = @ \o more] /\ more = <<e>>
    OBVIOUS
  <2>. HIDE DEF moved, more
  <2>2. Pushed(game, more, moved)
    BY <1>3, <1>4, <2>1, PushedIs
  <2>. QED  BY <1>3, <1>4, <2>1, <2>2 DEF Pushed
<1>. HIDE DEF more, moved, f, p
<1>6. l \in Knowings /\ Tidings(f, e, p, l)
  BY <1>2, <1>3, LearnedIs
<1>. HIDE DEF l
<1>7. Described(g, moved, p, l)
  BY <1>1, <1>2, <1>3, <1>5, <1>6 DEF Described, Tidings, Listed
<1>8. AsItIs(g, moved, p) = Learned(f, e, p)
  BY <1>2, <1>5, <1>7, AsItIsDescribed DEF l
<1>9. \A k \in Knowings : Follows(k, g, games[g], p) => Follows(k, g, moved, p)
  BY <1>1, <1>2, <1>3, <1>5, <1>8, FollowsOne DEF f, Runs
<1>. QED  BY <1>1, <1>2, <1>3, <1>4, <1>9, PushTouches DEF moved, p

\* The slots change.
LEMMA ChangeSlotsTouches ==
    ASSUME IInv, AllInTouch, NEW g \in GameIds, ChangeSlots(g)
    PROVE  AllInTouch'
<1>. DEFINE rev == games[g].rev + 1
            game == [games[g] EXCEPT !.rev = rev]
            e == Listing(g, rev)
            more == <<e>>
            moved == [game EXCEPT !.chan = @ \o more]
            p == plan.personal
            f == AsItIs(g, games[g], p)
            l == Learned(f, e, p)
<1>1. /\ games[g].phase = "setup" /\ (p => games[g].here) /\ Push(g, game, more)
      /\ UNCHANGED <<plan, main, tasks, room, events, left>>
  BY DEF ChangeSlots, Hidden
<1>2. /\ games[g] \in Games /\ p \in BOOLEAN /\ f \in Knowings /\ Described(g, games[g], p, f)
      /\ games[g].here \in BOOLEAN /\ (games[g].here => p)
  BY GameDescribed
<1>3. e \in GameEvents /\ more \in Seq(GameEvents) /\ e.kind = "listing" /\ e.attrs = <<g, rev>> /\ rev \in Nat
  <2>1. games[g].rev \in Nat
    BY GameOf
  <2>2. rev \in Nat
    BY <2>1
  <2>. HIDE DEF rev
  <2>3. e \in GameEvents
    BY <2>2, GameOf
  <2>. QED  BY <2>2, <2>3, EventsAreSeq DEF Listing
<1>. HIDE DEF rev
<1>4. /\ game \in Games /\ game.phase = "setup" /\ game.here = games[g].here /\ game.rev = rev
      /\ game.chan = games[g].chan
  BY <1>1, <1>2, <1>3 DEF Games
<1>. HIDE DEF e, game
<1>5. /\ moved \in Games /\ moved.phase = "setup" /\ moved.here = games[g].here /\ moved.rev = rev
      /\ moved.chan = Append(games[g].chan, e)
  <2>1. moved = [game EXCEPT !.chan = @ \o more] /\ more = <<e>>
    OBVIOUS
  <2>. HIDE DEF moved, more
  <2>2. Pushed(game, more, moved)
    BY <1>3, <1>4, <2>1, PushedIs
  <2>. QED  BY <1>3, <1>4, <2>1, <2>2 DEF Pushed
<1>. HIDE DEF more, moved, f, p
<1>6. l \in Knowings /\ Tidings(f, e, p, l)
  BY <1>2, <1>3, LearnedIs
<1>. HIDE DEF l
<1>7. Described(g, moved, p, l) /\ f.started = FALSE
  BY <1>1, <1>2, <1>3, <1>5, <1>6 DEF Described, Tidings, Listed, Knowings
<1>8. AsItIs(g, moved, p) = Learned(f, e, p)
  BY <1>2, <1>5, <1>7, AsItIsDescribed DEF l
<1>9. \A k \in Knowings : Follows(k, g, games[g], p) => Follows(k, g, moved, p)
  BY <1>1, <1>2, <1>3, <1>5, <1>7, <1>8, FollowsOne DEF f, Runs
<1>. QED  BY <1>1, <1>2, <1>3, <1>4, <1>9, PushTouches DEF moved, p

\* The player leaves.
LEMMA PlayerLeavesTouches ==
    ASSUME IInv, AllInTouch, NEW g \in GameIds, PlayerLeaves(g)
    PROVE  AllInTouch'
<1>. DEFINE game == [games[g] EXCEPT !.here = FALSE]
            e == Event("unlisted")
            more == <<e>>
            moved == [game EXCEPT !.chan = @ \o more]
            p == plan.personal
            f == AsItIs(g, games[g], p)
            l == Learned(f, e, p)
<1>1. /\ games[g].here /\ Runs(games[g]) /\ Push(g, game, more)
      /\ UNCHANGED <<plan, main, tasks, room, events, left>>
  BY DEF PlayerLeaves, Running, Runs
<1>2. /\ games[g] \in Games /\ p \in BOOLEAN /\ f \in Knowings /\ Described(g, games[g], p, f)
      /\ games[g].here \in BOOLEAN /\ (games[g].here => p)
  BY GameDescribed
<1>3. e \in GameEvents /\ more \in Seq(GameEvents) /\ e.kind = "unlisted"
  <2>1. e \in GameEvents
    BY GameOf
  <2>. QED  BY <2>1, EventsAreSeq DEF Event
<1>4. /\ game \in Games /\ game.phase = games[g].phase /\ game.here = FALSE /\ game.rev = games[g].rev
      /\ game.chan = games[g].chan
  BY <1>2 DEF Games
<1>. HIDE DEF e, game
<1>5. /\ moved \in Games /\ moved.phase = games[g].phase /\ moved.here = FALSE
      /\ moved.chan = Append(games[g].chan, e)
  <2>1. moved = [game EXCEPT !.chan = @ \o more] /\ more = <<e>>
    OBVIOUS
  <2>. HIDE DEF moved, more
  <2>2. Pushed(game, more, moved)
    BY <1>3, <1>4, <2>1, PushedIs
  <2>. QED  BY <1>3, <1>4, <2>1, <2>2 DEF Pushed
<1>. HIDE DEF more, moved, f, p
<1>6. l \in Knowings /\ Tidings(f, e, p, l)
  BY <1>2, <1>3, LearnedIs
<1>. HIDE DEF l
<1>7. Described(g, moved, p, l)
  BY <1>1, <1>2, <1>3, <1>5, <1>6 DEF Described, Tidings, Listed
<1>8. AsItIs(g, moved, p) = Learned(f, e, p)
  BY <1>2, <1>5, <1>7, AsItIsDescribed DEF l
<1>9. \A k \in Knowings : Follows(k, g, games[g], p) => Follows(k, g, moved, p)
  BY <1>1, <1>2, <1>3, <1>5, <1>8, FollowsOne DEF f
<1>10. game.phase = "boot" => game.rev = 0
  BY <1>4 DEF AllInTouch
<1>. QED  BY <1>1, <1>2, <1>3, <1>4, <1>9, <1>10, PushTouches DEF moved, p

\* The game's thread ends.
LEMMA ExitTouches ==
    ASSUME IInv, AllInTouch, NEW g \in GameIds, Exit(g)
    PROVE  AllInTouch'
<1>. DEFINE game == [games[g] EXCEPT !.phase = "gone", !.here = FALSE]
            more == <<>>
            moved == [game EXCEPT !.chan = @ \o more]
            p == plan.personal
<1>1. /\ Runs(games[g]) /\ Push(g, game, more) /\ UNCHANGED <<plan, main, tasks, room, events, left>>
  BY DEF Exit, Running, Runs
<1>2. games[g] \in Games /\ p \in BOOLEAN
  BY GameDescribed
<1>3. more \in Seq(GameEvents)
  BY EmptySeq
<1>4. /\ game \in Games /\ game.phase = "gone" /\ game.here = FALSE /\ game.chan = games[g].chan
  BY <1>2 DEF Games
<1>. HIDE DEF game
<1>5. moved \in Games /\ moved.phase = "gone" /\ moved.chan = games[g].chan
  <2>1. moved = [game EXCEPT !.chan = @ \o more] /\ more = <<>>
    OBVIOUS
  <2>. HIDE DEF moved, more
  <2>2. Pushed(game, more, moved)
    BY <1>3, <1>4, <2>1, PushedIs
  <2>. QED  BY <1>3, <1>4, <2>1, <2>2 DEF Pushed
<1>. HIDE DEF more, moved, p
<1>6. \A k \in Knowings : Follows(k, g, games[g], p) => Follows(k, g, moved, p)
  BY <1>1, <1>2, <1>5, FollowsSame DEF Runs
<1>. QED  BY <1>1, <1>3, <1>4, <1>6, PushTouches DEF moved, p

\* The match starts, which only a game that is listed tells.
LEMMA StartMatchTouches ==
    ASSUME IInv, AllInTouch, NEW g \in GameIds, StartMatch(g)
    PROVE  AllInTouch'
<1>. DEFINE game == [games[g] EXCEPT !.phase = "match"]
            e == Event("started")
            more == IF Hidden(games[g]) THEN <<>> ELSE <<e>>
            moved == [game EXCEPT !.chan = @ \o more]
            p == plan.personal
            f == AsItIs(g, games[g], p)
            l == Learned(f, e, p)
<1>1. /\ games[g].phase = "setup" /\ Push(g, game, more)
      /\ UNCHANGED <<plan, main, tasks, room, events, left>>
  BY DEF StartMatch
<1>2. /\ games[g] \in Games /\ p \in BOOLEAN /\ f \in Knowings /\ Described(g, games[g], p, f)
      /\ games[g].here \in BOOLEAN /\ (games[g].here => p)
  BY GameDescribed
<1>3. e \in GameEvents /\ more \in Seq(GameEvents) /\ e.kind = "started"
  <2>1. e \in GameEvents
    BY GameOf
  <2>. QED  BY <2>1, EventsAreSeq DEF Event
<1>4. /\ game \in Games /\ game.phase = "match" /\ game.here = games[g].here /\ game.rev = games[g].rev
      /\ game.chan = games[g].chan
  BY <1>2 DEF Games
<1>5. more = IF p /\ ~games[g].here THEN <<>> ELSE <<e>>
  BY DEF Hidden
<1>. HIDE DEF e, game
<1>6. /\ moved \in Games /\ moved.phase = "match" /\ moved.here = games[g].here /\ moved.rev = games[g].rev
      /\ p /\ ~games[g].here => moved.chan = games[g].chan
      /\ ~(p /\ ~games[g].here) => moved.chan = Append(games[g].chan, e)
  <2>1. moved = [game EXCEPT !.chan = @ \o more]
    OBVIOUS
  <2>. HIDE DEF moved, more
  <2>2. Pushed(game, more, moved)
    BY <1>3, <1>4, <2>1, PushedIs
  <2>. QED  BY <1>3, <1>4, <1>5, <2>2 DEF Pushed
<1>. HIDE DEF more, moved, f, p
<1>7. \A k \in Knowings : Follows(k, g, games[g], p) => Follows(k, g, moved, p)
  <2>1. CASE p /\ ~games[g].here
    <3>1. Described(g, moved, p, f)
      BY <1>1, <1>2, <1>6, <2>1 DEF Described, Listed
    <3>2. AsItIs(g, moved, p) = AsItIs(g, games[g], p)
      BY <1>2, <1>6, <3>1, AsItIsDescribed DEF f
    <3>. QED  BY <1>1, <1>2, <1>6, <2>1, <3>2, FollowsSame DEF Runs
  <2>2. CASE ~(p /\ ~games[g].here)
    <3>1. l \in Knowings /\ Tidings(f, e, p, l)
      BY <1>2, <1>3, LearnedIs
    <3>. HIDE DEF l
    <3>2. Described(g, moved, p, l)
      BY <1>1, <1>2, <1>3, <1>6, <2>2, <3>1 DEF Described, Tidings, Listed
    <3>3. AsItIs(g, moved, p) = Learned(f, e, p)
      BY <1>2, <1>6, <3>2, AsItIsDescribed DEF l
    <3>. QED  BY <1>1, <1>2, <1>3, <1>6, <2>2, <3>3, FollowsOne DEF f, Runs
  <2>. QED  BY <2>1, <2>2
<1>. QED  BY <1>1, <1>2, <1>3, <1>4, <1>7, PushTouches DEF moved, p

\* The player comes in.
LEMMA PlayerArrivesTouches ==
    ASSUME IInv, AllInTouch, NEW g \in GameIds, PlayerArrives(g)
    PROVE  AllInTouch'
<1>. DEFINE rev == games[g].rev + 1
            game == [games[g] EXCEPT !.here = TRUE, !.rev = rev]
            e == Listing(g, rev)
            d == Event("started")
            more == <<e>> \o IF games[g].phase = "match" THEN <<d>> ELSE <<>>
            moved == [game EXCEPT !.chan = @ \o more]
            p == plan.personal
            f == AsItIs(g, games[g], p)
            l == Learned(f, e, p)
            m == Learned(l, d, p)
<1>1. /\ games[g].phase \in {"setup", "match"} /\ p /\ ~games[g].here /\ Push(g, game, more)
      /\ UNCHANGED <<plan, main, tasks, room, events, left>>
  BY DEF PlayerArrives, Hidden
<1>2. /\ games[g] \in Games /\ p \in BOOLEAN /\ f \in Knowings /\ Described(g, games[g], p, f)
      /\ games[g].here \in BOOLEAN
  BY GameDescribed
<1>3. /\ e \in GameEvents /\ d \in GameEvents /\ rev \in Nat
      /\ e.kind = "listing" /\ e.attrs = <<g, rev>> /\ d.kind = "started"
  <2>1. games[g].rev \in Nat
    BY GameOf
  <2>2. rev \in Nat
    BY <2>1
  <2>. HIDE DEF rev
  <2>3. e \in GameEvents /\ d \in GameEvents
    BY <2>2, GameOf
  <2>. QED  BY <2>2, <2>3 DEF Listing, Event
<1>. HIDE DEF rev, e, d
<1>4. /\ game \in Games /\ game.phase = games[g].phase /\ game.here = TRUE /\ game.rev = rev
      /\ game.chan = games[g].chan
  BY <1>1, <1>2, <1>3 DEF Games
<1>. HIDE DEF game
<1>5. /\ more \in Seq(GameEvents)
      /\ games[g].phase = "match" => more = <<e>> \o <<d>>
      /\ games[g].phase # "match" => more = <<e>>
  <2>1. <<e>> \o <<>> = <<e>>
    BY <1>3, EventsAreSeq, ConcatEmptySeq
  <2>. QED  BY <1>3, <2>1, EventsAreSeq
<1>6. /\ moved \in Games /\ moved.phase = games[g].phase /\ moved.here = TRUE /\ moved.rev = rev
      /\ games[g].phase = "match" => moved.chan = Append(Append(games[g].chan, e), d)
      /\ games[g].phase # "match" => moved.chan = Append(games[g].chan, e)
  <2>1. moved = [game EXCEPT !.chan = @ \o more]
    OBVIOUS
  <2>. HIDE DEF moved, more
  <2>2. Pushed(game, more, moved)
    BY <1>4, <1>5, <2>1, PushedIs
  <2>. QED  BY <1>3, <1>4, <1>5, <2>2 DEF Pushed
<1>. HIDE DEF more, moved, f, p
<1>7. l \in Knowings /\ Tidings(f, e, p, l) /\ f.started = FALSE
  <2>1. l \in Knowings /\ Tidings(f, e, p, l)
    BY <1>2, <1>3, LearnedIs
  <2>. QED  BY <1>1, <1>2, <2>1 DEF Described, Listed, Knowings
<1>8. \A k \in Knowings : Follows(k, g, games[g], p) => Follows(k, g, moved, p)
  <2>1. CASE games[g].phase # "match"
    <3>. HIDE DEF l
    <3>1. Described(g, moved, p, l)
      BY <1>1, <1>2, <1>3, <1>6, <1>7, <2>1 DEF Described, Tidings, Listed
    <3>2. AsItIs(g, moved, p) = Learned(f, e, p)
      BY <1>2, <1>6, <3>1, AsItIsDescribed DEF l
    <3>. QED  BY <1>1, <1>2, <1>3, <1>6, <1>7, <2>1, <3>2, FollowsOne DEF f, Runs
  <2>2. CASE games[g].phase = "match"
    <3>1. m \in Knowings /\ Tidings(l, d, p, m)
      BY <1>2, <1>3, <1>7, LearnedIs
    <3>. HIDE DEF l, m
    <3>2. Described(g, moved, p, m)
      BY <1>1, <1>2, <1>3, <1>6, <1>7, <2>2, <3>1 DEF Described, Tidings, Listed
    <3>3. AsItIs(g, moved, p) = Learned(Learned(f, e, p), d, p)
      BY <1>2, <1>6, <3>2, AsItIsDescribed DEF l, m
    <3>. QED  BY <1>1, <1>2, <1>3, <1>6, <1>7, <2>2, <3>3, FollowsTwo DEF f, Runs
  <2>. QED  BY <2>1, <2>2
<1>. QED  BY <1>1, <1>2, <1>4, <1>5, <1>8, PushTouches DEF moved, p

\* A game opens: one that is hidden tells nothing, and one that is resumed starts at once.
LEMMA OpenTouches ==
    ASSUME IInv, AllInTouch, NEW g \in GameIds, Open(g)
    PROVE  AllInTouch'
<1>. DEFINE game == [games[g] EXCEPT !.phase = IF @ = "boot" /\ games[g].resumed THEN "match" ELSE "setup"]
            e == Listing(g, 0)
            d == Event("started")
            more == IF Hidden(game) THEN <<>> ELSE IF game.resumed THEN <<e, d>> ELSE <<e>>
            moved == [game EXCEPT !.chan = @ \o more]
            p == plan.personal
            f == AsItIs(g, games[g], p)
            l == Learned(f, e, p)
            m == Learned(l, d, p)
            hidden == p /\ ~games[g].here
<1>1. /\ games[g].phase = "boot" /\ Push(g, game, more)
      /\ UNCHANGED <<plan, main, tasks, room, events, left>>
  BY DEF Open
<1>2. /\ games[g] \in Games /\ p \in BOOLEAN /\ f \in Knowings /\ Described(g, games[g], p, f)
      /\ games[g].here \in BOOLEAN /\ games[g].rev = 0 /\ (games[g].here => p)
  BY <1>1, GameDescribed
<1>3. /\ e \in GameEvents /\ d \in GameEvents
      /\ e.kind = "listing" /\ e.attrs = <<g, 0>> /\ d.kind = "started"
  <2>1. e \in GameEvents /\ d \in GameEvents
    BY GameOf
  <2>. QED  BY <2>1 DEF Listing, Event
<1>4. /\ game \in Games /\ game.phase = (IF games[g].resumed THEN "match" ELSE "setup")
      /\ game.here = games[g].here /\ game.rev = 0 /\ game.chan = games[g].chan
      /\ game.resumed = games[g].resumed
  BY <1>1, <1>2 DEF Games
<1>. HIDE DEF game, e, d
<1>5. /\ more \in Seq(GameEvents)
      /\ hidden => more = <<>>
      /\ ~hidden /\ games[g].resumed => more = <<e, d>>
      /\ ~hidden /\ ~games[g].resumed => more = <<e>>
  BY <1>3, <1>4, EventsAreSeq DEF Hidden
<1>6. /\ moved \in Games /\ moved.phase = (IF games[g].resumed THEN "match" ELSE "setup")
      /\ moved.here = games[g].here /\ moved.rev = 0
      /\ hidden => moved.chan = games[g].chan
      /\ ~hidden /\ games[g].resumed => moved.chan = Append(Append(games[g].chan, e), d)
      /\ ~hidden /\ ~games[g].resumed => moved.chan = Append(games[g].chan, e)
  <2>1. moved = [game EXCEPT !.chan = @ \o more]
    OBVIOUS
  <2>. HIDE DEF moved, more
  <2>2. Pushed(game, more, moved)
    BY <1>4, <1>5, <2>1, PushedIs
  <2>. QED  BY <1>3, <1>4, <1>5, <2>2 DEF Pushed
<1>. HIDE DEF more, moved, f, p
<1>7. l \in Knowings /\ Tidings(f, e, p, l) /\ f.started = FALSE
  <2>1. l \in Knowings /\ Tidings(f, e, p, l)
    BY <1>2, <1>3, LearnedIs
  <2>. QED  BY <1>1, <1>2, <2>1 DEF Described, Listed, Knowings
<1>8. \A k \in Knowings : Follows(k, g, games[g], p) => Follows(k, g, moved, p)
  <2>1. CASE hidden
    <3>1. Described(g, moved, p, f)
      BY <1>1, <1>2, <1>6, <2>1 DEF Described, Listed
    <3>2. AsItIs(g, moved, p) = AsItIs(g, games[g], p)
      BY <1>2, <1>6, <3>1, AsItIsDescribed DEF f
    <3>. QED  BY <1>1, <1>2, <1>6, <2>1, <3>2, FollowsSame DEF Runs
  <2>2. CASE ~hidden /\ ~games[g].resumed
    <3>. HIDE DEF l
    <3>1. Described(g, moved, p, l)
      BY <1>1, <1>2, <1>3, <1>6, <1>7, <2>2 DEF Described, Tidings, Listed
    <3>2. AsItIs(g, moved, p) = Learned(f, e, p)
      BY <1>2, <1>6, <3>1, AsItIsDescribed DEF l
    <3>. QED  BY <1>1, <1>2, <1>3, <1>6, <1>7, <2>2, <3>2, FollowsOne DEF f, Runs
  <2>3. CASE ~hidden /\ games[g].resumed
    <3>1. m \in Knowings /\ Tidings(l, d, p, m)
      BY <1>2, <1>3, <1>7, LearnedIs
    <3>. HIDE DEF l, m
    <3>2. Described(g, moved, p, m)
      BY <1>1, <1>2, <1>3, <1>6, <1>7, <2>3, <3>1 DEF Described, Tidings, Listed
    <3>3. AsItIs(g, moved, p) = Learned(Learned(f, e, p), d, p)
      BY <1>2, <1>6, <3>2, AsItIsDescribed DEF l, m
    <3>. QED  BY <1>1, <1>2, <1>3, <1>6, <1>7, <2>3, <3>3, FollowsTwo DEF f, Runs
  <2>. QED  BY <2>1, <2>2, <2>3
<1>. QED  BY <1>1, <1>2, <1>4, <1>5, <1>8, PushTouches DEF moved, p

-----------------------------------------------------------------------------
(* The steps of the main task.                                             *)

\* Every account that runs is told something, or nothing, that is not an order.
LEMMA MessageKeeps ==
    ASSUME NEW task \in Tasks, NEW next, NEW occ, NEW gs, NEW personal, InTouch(task, occ, gs, personal),
           NEW m \in Messages, m.kind # "assign",
           next = task \/ next = [task EXCEPT !.control = Append(@, m)]
    PROVE  InTouch(next, occ, gs, personal) /\ next.live = task.live
<1>1. CASE next = task
  BY <1>1
<1>2. CASE next = [task EXCEPT !.control = Append(@, m)]
  <2>1. PICK c : c = Append(task.control, m)
    OBVIOUS
  <2>2. task.control \in Seq(Messages)
    BY TaskIs
  <2>3. next = [task EXCEPT !.control = c]
    BY <1>2, <2>1
  <2>4. /\ next.acc = task.acc /\ next.live = task.live /\ next.link = task.link
        /\ next.news = task.news /\ next.control = c
    BY <2>3 DEF Tasks
  <2>5. /\ DOMAIN c = 1 .. Len(task.control) + 1 /\ DOMAIN task.control = 1 .. Len(task.control)
        /\ c[Len(task.control) + 1] = m /\ Len(task.control) \in Nat
        /\ \A i \in DOMAIN task.control : c[i] = task.control[i]
    BY <2>1, <2>2, AppendIs
  <2>6. \A i \in DOMAIN c : c[i].kind = "assign" => i \in DOMAIN task.control /\ c[i] = task.control[i]
    BY <2>5
  <2>7. InSession(task, occ) => InSession(next, occ)
    BY <2>4 DEF InSession
  <2>8. InGame(task, gs, personal) => InGame(next, gs, personal)
    BY <2>4, <2>6 DEF InGame
  <2>. QED  BY <2>4, <2>7, <2>8 DEF InTouch
<1>. QED  BY <1>1, <1>2

\* The tasks in touch with the games as they become.
LEMMA GamesTouch ==
    ASSUME IInv, AllInTouch, NEW gs,
           \A a \in Accounts, g \in GameIds : tasks[a].live = "running" /\ About(tasks[a], g) =>
               \A k \in Knowings : Follows(k, g, games[g], plan.personal) => Follows(k, g, gs[g], plan.personal)
    PROVE  \A a \in Accounts : InTouch(tasks[a], room[a], gs, plan.personal)
<1>. SUFFICES ASSUME NEW a \in Accounts
              PROVE  InTouch(tasks[a], room[a], gs, plan.personal)
  OBVIOUS
<1>1. CASE tasks[a].live # "running"
  BY <1>1 DEF InTouch
<1>2. CASE tasks[a].live = "running"
  <2>1. /\ tasks[a] \in Tasks /\ InSession(tasks[a], room[a]) /\ Books(tasks[a].acc, plan.personal)
        /\ InGame(tasks[a], games, plan.personal)
    BY <1>2, TouchOf
  <2>2. InGame(tasks[a], gs, plan.personal)
    BY <1>2, <2>1, InGameMoves
  <2>. QED  BY <2>1, <2>2 DEF InTouch
<1>. QED  BY <1>1, <1>2

\* What the main task is about changes, and nothing else.
LEMMA MainTouches ==
    ASSUME IInv, AllInTouch, HostSaved \/ HostPersonal \/ TakeHostme \/ TakeSignal
    PROVE  AllInTouch'
<1>1. main \in Mains
  BY MainIs
<1>2. CASE HostSaved
  <2>1. main'.at # "stopped"
    BY <1>1, <1>2 DEF HostSaved, Reserved, Mains
  <2>. QED  BY <1>2, <2>1, SameTouch DEF HostSaved
<1>3. CASE HostPersonal
  <2>1. main'.at # "stopped"
    BY <1>1, <1>3 DEF HostPersonal, Reserved, Mains
  <2>. QED  BY <1>3, <2>1, SameTouch DEF HostPersonal
<1>4. CASE TakeHostme
  <2>1. main'.at # "stopped"
    BY <1>1, <1>4 DEF TakeHostme, Reserved, Mains
  <2>. QED  BY <1>4, <2>1, SameTouch DEF TakeHostme
<1>5. CASE TakeSignal
  <2>1. main'.at # "stopped"
    BY <1>1, <1>5 DEF TakeSignal, Mains
  <2>. QED  BY <1>5, <2>1, SameTouch DEF TakeSignal
<1>. QED  BY <1>2, <1>3, <1>4, <1>5

\* What an account is told, as a task.
LEMMA ToldTask ==
    ASSUME IInv, NEW a \in Accounts, NEW m, NEW t, t = Told(a, m)
    PROVE  \A b \in Accounts : t[b] = IF b = a /\ Accepts(a)
                                      THEN [tasks[a] EXCEPT !.control = Append(@, m)] ELSE tasks[b]
<1>1. tasks \in [Accounts -> Tasks]
  BY DEF IInv, Typed
<1>. QED  BY <1>1 DEF Told

\* An account is told something that is not an order, as the games become what they may.
LEMMA TellTouches ==
    ASSUME IInv, AllInTouch, NEW a \in Accounts, NEW m \in Messages, m.kind # "assign",
           tasks' = Told(a, m), plan' = plan, room' = room, main'.at # "stopped",
           \A b \in Accounts, g \in GameIds : tasks[b].live = "running" /\ About(tasks[b], g) =>
               \A k \in Knowings : Follows(k, g, games[g], plan.personal) => Follows(k, g, games'[g], plan.personal),
           \A g \in GameIds : /\ games'[g].here => plan.personal
                              /\ games'[g].phase = "boot" => games'[g].rev = 0
    PROVE  AllInTouch'
<1>1. Accounts' = Accounts /\ GameIds' = GameIds
  BY DEF Accounts, GameIds
<1>2. \A b \in Accounts : InTouch(tasks[b], room[b], games', plan.personal)
  BY GamesTouch
<1>3. ASSUME NEW b \in Accounts
      PROVE  InTouch(tasks'[b], room[b], games', plan.personal)
  <2>1. tasks[b] \in Tasks
    BY TaskOf
  <2>2. tasks'[b] = tasks[b] \/ tasks'[b] = [tasks[b] EXCEPT !.control = Append(@, m)]
    <3>1. PICK t : t = tasks' /\ t = Told(a, m)
      OBVIOUS
    <3>2. t[b] = IF b = a /\ Accepts(a) THEN [tasks[a] EXCEPT !.control = Append(@, m)] ELSE tasks[b]
      BY <3>1, ToldTask, Zenon
    <3>. QED  BY <3>1, <3>2, Zenon
  <2>. QED  BY <1>2, <2>1, <2>2, MessageKeeps
<1>. QED  BY <1>1, <1>3 DEF AllInTouch

\* Games that are destroyed told all they had to tell.
LEMMA DestroyedTells ==
    ASSUME IInv, AllInTouch, NEW dead, NEW gs, gs = Destroyed(dead)
    PROVE  /\ \A g \in GameIds, k \in Knowings :
                 Follows(k, g, games[g], plan.personal) => Follows(k, g, gs[g], plan.personal)
           /\ \A g \in GameIds : /\ gs[g].here => plan.personal
                                 /\ gs[g].phase = "boot" => gs[g].rev = 0
<1>. SUFFICES ASSUME NEW g \in GameIds
              PROVE  /\ \A k \in Knowings :
                           Follows(k, g, games[g], plan.personal) => Follows(k, g, gs[g], plan.personal)
                     /\ gs[g].here => plan.personal
                     /\ gs[g].phase = "boot" => gs[g].rev = 0
  OBVIOUS
<1>1. games[g] \in Games /\ plan.personal \in BOOLEAN
  BY GameDescribed
<1>2. /\ games[g].here => plan.personal
      /\ games[g].phase = "boot" => games[g].rev = 0
  BY DEF AllInTouch
<1>3. CASE gs[g] = games[g]
  BY <1>2, <1>3
<1>4. CASE gs[g] = [games[g] EXCEPT !.phase = "destroyed"]
  <2>1. /\ gs[g] \in Games /\ gs[g].phase = "destroyed" /\ gs[g].here = games[g].here
        /\ gs[g].chan = games[g].chan
    BY <1>1, <1>4 DEF Games
  <2>2. \A k \in Knowings : Follows(k, g, games[g], plan.personal) => Follows(k, g, gs[g], plan.personal)
    BY <1>1, <2>1, FollowsSame DEF Runs
  <2>. QED  BY <1>2, <2>1, <2>2
<1>. QED  BY <1>3, <1>4 DEF Destroyed

\* An account is given back without a game.
LEMMA HostFailsTouches ==
    ASSUME IInv, AllInTouch, HostFails
    PROVE  AllInTouch'
<1>1. main.at = "hosting" /\ main \in Mains /\ main.job \in Jobs
  BY MainIs DEF HostFails, IInv, Typed
<1>2. main.job.account \in Accounts
  BY <1>1 DEF Jobs
<1>3. PICK m : m = Control("release")
  OBVIOUS
<1>4. m \in Messages /\ m.kind # "assign"
  BY <1>3, ControlIs DEF Control
<1>5. main'.at # "stopped"
  BY <1>1 DEF HostFails, Resumes, Released, Mains
<1>6. tasks' = Told(main.job.account, m) /\ UNCHANGED <<plan, room, games>>
  BY <1>3 DEF HostFails
<1>7. \A g \in GameIds : /\ games[g].here => plan.personal
                         /\ games[g].phase = "boot" => games[g].rev = 0
  BY DEF AllInTouch
<1>. QED  BY <1>2, <1>4, <1>5, <1>6, <1>7, TellTouches

\* A game's end is acted on.
LEMMA EndsGameTouches ==
    ASSUME IInv, AllInTouch, NEW then \in {"saving", "next"}, EndsGame(then)
    PROVE  AllInTouch'
<1>. DEFINE event == Head(events)
<1>0. PICK a, g : a = event.account /\ g = main.gameOf[a]
  OBVIOUS
<1>1. /\ games' = Destroyed({g}) /\ tasks' = Told(a, Control("release"))
      /\ main' = [Released(Freed(main, a), a) EXCEPT !.at = then]
      /\ UNCHANGED <<plan, room>> /\ events # <<>> /\ event.kind = "ended"
  BY <1>0, Zenon DEF EndsGame
<1>2. event \in Events
  BY <1>1, MainIs, TailIs
<1>3. a \in Accounts
  <2>. HIDE DEF event
  <2>. QED  BY <1>0, <1>1, <1>2 DEF Events
<1>4. PICK m : m = Control("release")
  OBVIOUS
<1>5. m \in Messages /\ m.kind # "assign"
  BY <1>4, ControlIs DEF Control
<1>6. main'.at # "stopped"
  <2>1. main \in Mains
    BY MainIs
  <2>2. main' = [[main EXCEPT !.active = @ \ {main.senderOf[a]}, !.senderOf[a] = None, !.gameOf[a] = None]
                   EXCEPT !.inUse = @ \ {a}, !.at = then]
    BY <1>1, <2>1 DEF Freed, Released, Mains
  <2>3. main'.at = then
    BY <2>1, <2>2 DEF Mains
  <2>. QED  BY <2>3
<1>7. PICK gs : gs = games'
  OBVIOUS
<1>8. gs = Destroyed({g})
  BY <1>1, <1>7
<1>9. /\ \A h \in GameIds, k \in Knowings :
            Follows(k, h, games[h], plan.personal) => Follows(k, h, gs[h], plan.personal)
      /\ \A h \in GameIds : /\ gs[h].here => plan.personal
                            /\ gs[h].phase = "boot" => gs[h].rev = 0
  BY <1>8, DestroyedTells
<1>. HIDE DEF event
<1>. QED  BY <1>1, <1>3, <1>4, <1>5, <1>6, <1>7, <1>9, TellTouches

\* The accounts are shut down.
LEMMA ShutAccountsTouches ==
    ASSUME IInv, AllInTouch, ShutAccounts
    PROVE  AllInTouch'
<1>1. PICK m : m = Control("shutdown")
  OBVIOUS
<1>2. m \in Messages /\ m.kind # "assign"
  BY <1>1, ControlIs DEF Control
<1>3. tasks' = [a \in Accounts |-> Told(a, m)[a]] /\ main' = [main EXCEPT !.at = "closing"]
      /\ UNCHANGED <<plan, room, games>>
  BY <1>1 DEF ShutAccounts
<1>4. main'.at # "stopped"
  BY <1>3, MainIs DEF Mains
<1>5. ASSUME NEW a \in Accounts
      PROVE  InTouch(tasks'[a], room[a], games, plan.personal)
  <2>1. tasks[a] \in Tasks /\ InTouch(tasks[a], room[a], games, plan.personal)
    BY TaskOf DEF AllInTouch
  <2>2. PICK t : t = Told(a, m)
    OBVIOUS
  <2>3. t[a] = IF a = a /\ Accepts(a) THEN [tasks[a] EXCEPT !.control = Append(@, m)] ELSE tasks[a]
    BY <2>2, ToldTask, Zenon
  <2>4. tasks'[a] = t[a]
    BY <1>3, <2>2
  <2>. QED  BY <1>2, <2>1, <2>3, <2>4, MessageKeeps
<1>6. Accounts' = Accounts /\ GameIds' = GameIds
  BY <1>3 DEF Accounts, GameIds
<1>. QED  BY <1>3, <1>4, <1>5, <1>6 DEF AllInTouch

\* The pool is dropped when no task is left.
LEMMA DropPoolTouches ==
    ASSUME IInv, AllInTouch, DropPool
    PROVE  AllInTouch'
<1>1. /\ \A a \in Accounts : tasks[a].live # "running"
      /\ games' = Destroyed({g \in GameIds : Pooled(g)}) /\ UNCHANGED <<plan, tasks, room>>
  BY DEF DropPool
<1>2. Accounts' = Accounts /\ GameIds' = GameIds
  BY <1>1 DEF Accounts, GameIds
<1>3. PICK gs : gs = games'
  OBVIOUS
<1>4. \A g \in GameIds : /\ gs[g].here => plan.personal
                         /\ gs[g].phase = "boot" => gs[g].rev = 0
  BY <1>1, <1>3, DestroyedTells
<1>5. \A a \in Accounts : InTouch(tasks[a], room[a], games', plan.personal)
  BY <1>1 DEF InTouch
<1>. QED  BY <1>1, <1>2, <1>3, <1>4, <1>5 DEF AllInTouch

\* Of a game just created nothing is to be known.
LEMMA CreatedIs ==
    ASSUME NEW g \in GameIds, NEW job \in Jobs, NEW personal \in BOOLEAN, NEW game, game = Created(job)
    PROVE  /\ game \in Games /\ game.phase = "boot" /\ game.here = FALSE /\ game.rev = 0
           /\ Follows(Unknown, g, game, personal)
<1>1. job.host \in Name /\ job.account \in Accounts /\ job.saved \in BOOLEAN
  BY DEF Jobs
<1>2. <<>> \in Seq(GameEvents)
  BY EmptySeq
<1>3. /\ game \in Games /\ game.phase = "boot" /\ game.here = FALSE /\ game.rev = 0
      /\ game.chan = <<>>
  BY <1>1, <1>2 DEF Created, NoGame, Games
<1>4. Unknown \in Knowings /\ Unknown.newest = None /\ Unknown.started = FALSE /\ Unknown.playing = FALSE
  BY KnownIs, Zenon
<1>5. Described(g, game, personal, Unknown)
  BY <1>3, <1>4 DEF Described, Listed
<1>6. Unknown = AsItIs(g, game, personal)
  BY <1>3, <1>5, AsItIsDescribed
<1>7. Learns(Unknown, game.chan, Unknown, personal)
  BY <1>3, <1>4, LearnsNothing
<1>. QED  BY <1>3, <1>4, <1>6, <1>7 DEF Follows

\* A task that is sent an order to host a game it can follow.
LEMMA OrderKeeps ==
    ASSUME NEW task \in Tasks, NEW next, NEW occ, NEW gs, NEW personal, InTouch(task, occ, gs, personal),
           NEW g \in GameIds, Follows(Unknown, g, gs[g], personal),
           next = [task EXCEPT !.control = Append(@, [kind |-> "assign", game |-> g])]
    PROVE  InTouch(next, occ, gs, personal) /\ next.live = task.live
<1>1. PICK m : m = [kind |-> "assign", game |-> g]
  OBVIOUS
<1>2. m \in Messages /\ m.kind = "assign" /\ m.game = g
  BY <1>1 DEF Messages
<1>3. PICK c : c = Append(task.control, m)
  OBVIOUS
<1>4. task.control \in Seq(Messages)
  BY TaskIs
<1>5. next = [task EXCEPT !.control = c]
  BY <1>1, <1>3
<1>6. /\ next.acc = task.acc /\ next.live = task.live /\ next.link = task.link
      /\ next.news = task.news /\ next.control = c
  BY <1>5 DEF Tasks
<1>7. /\ DOMAIN c = 1 .. Len(task.control) + 1 /\ DOMAIN task.control = 1 .. Len(task.control)
      /\ c[Len(task.control) + 1] = m /\ Len(task.control) \in Nat
      /\ \A i \in DOMAIN task.control : c[i] = task.control[i]
  BY <1>2, <1>3, <1>4, AppendIs
<1>8. \A i \in DOMAIN c : (i \in DOMAIN task.control /\ c[i] = task.control[i]) \/ c[i] = m
  BY <1>7
<1>9. InSession(task, occ) => InSession(next, occ)
  BY <1>6 DEF InSession
<1>10. InGame(task, gs, personal) => InGame(next, gs, personal)
  BY <1>2, <1>6, <1>8 DEF InGame
<1>. QED  BY <1>6, <1>9, <1>10 DEF InTouch

\* The next game is handed to its account, or destroyed; until now nobody was about it.
LEMMA HostGameTouches ==
    ASSUME IInv, AllInTouch, HostGame
    PROVE  AllInTouch'
<1>1. PICK job, g : job = main.job /\ g = main.next
  OBVIOUS
<1>2. PICK a : a = job.account
  OBVIOUS
<1>3. PICK game : game = Created(job)
  OBVIOUS
<1>4. /\ main.at = "hosting" /\ g \in GameIds
      /\ games' = [games EXCEPT ![g] = IF Accepts(a) THEN game ELSE [game EXCEPT !.phase = "destroyed"]]
      /\ tasks' = Told(a, [kind |-> "assign", game |-> g])
      /\ main' = Resumes(IF Accepts(a) THEN Hosted(main, job, g) ELSE Refused(main, job, g),
                         job, Accepts(a))
      /\ UNCHANGED <<plan, room>>
  BY <1>1, <1>2, <1>3, Zenon DEF HostGame
<1>5. main \in Mains /\ games \in [GameIds -> Games] /\ plan.personal \in BOOLEAN
  BY MainIs, PlanIs
<1>6. job \in Jobs /\ a \in Accounts
  BY <1>1, <1>2, <1>4 DEF IInv, Typed, Jobs
<1>7. /\ game \in Games /\ game.phase = "boot" /\ game.here = FALSE /\ game.rev = 0
      /\ Follows(Unknown, g, game, plan.personal)
  BY <1>3, <1>4, <1>5, <1>6, CreatedIs
<1>8. games[g].phase = "none"
  <2>1. GamesPlaced /\ g \in Nat
    BY <1>4 DEF IInv, Hosting, GameIds
  <2>. QED  BY <1>1, <1>4, <2>1 DEF GamesPlaced
<1>9. \A b \in Accounts, h \in GameIds : tasks[b].live = "running" /\ About(tasks[b], h) => h # g
  BY <1>4, <1>8, AboutIsOf DEF Pooled
<1>10. PICK gs : gs = games'
  OBVIOUS
<1>11. \A h \in GameIds : h # g => gs[h] = games[h]
  BY <1>4, <1>5, <1>10
<1>12. /\ Accepts(a) => gs[g] = game
       /\ gs[g].here = FALSE /\ (gs[g].phase = "boot" => gs[g].rev = 0)
  <2>1. gs[g] = IF Accepts(a) THEN game ELSE [game EXCEPT !.phase = "destroyed"]
    BY <1>4, <1>5, <1>10
  <2>. QED  BY <1>7, <2>1 DEF Games
<1>13. \A b \in Accounts : InTouch(tasks[b], room[b], gs, plan.personal)
  <2>1. \A b \in Accounts, h \in GameIds : tasks[b].live = "running" /\ About(tasks[b], h) =>
           \A k \in Knowings : Follows(k, h, games[h], plan.personal) => Follows(k, h, gs[h], plan.personal)
    BY <1>9, <1>11
  <2>. QED  BY <2>1, GamesTouch
<1>14. main'.at # "stopped"
  <2>1. PICK m : m = IF Accepts(a) THEN Hosted(main, job, g) ELSE Refused(main, job, g)
    OBVIOUS
  <2>2. PICK at : at = IF plan.personal THEN (IF Accepts(a) THEN "waiting" ELSE "quitting")
                       ELSE IF job.saved THEN "saving" ELSE "waiting"
    OBVIOUS
  <2>3. main' = [m EXCEPT !.job = None, !.at = at]
    BY <1>4, <2>1, <2>2 DEF Resumes
  <2>4. "at" \in DOMAIN m
    BY <1>5, <2>1 DEF Hosted, Refused, Mains
  <2>5. main'.at = at
    BY <2>3, <2>4
  <2>. QED  BY <2>2, <2>5
<1>15. ASSUME NEW b \in Accounts
       PROVE  InTouch(tasks'[b], room[b], gs, plan.personal)
  <2>1. tasks[b] \in Tasks
    BY TaskOf
  <2>2. PICK order : order = [kind |-> "assign", game |-> g]
    OBVIOUS
  <2>3. PICK t : t = tasks' /\ t = Told(a, order)
    BY <1>4, <2>2
  <2>4. t[b] = IF b = a /\ Accepts(a) THEN [tasks[a] EXCEPT !.control = Append(@, order)] ELSE tasks[b]
    BY <1>6, <2>3, ToldTask, Zenon
  <2>5. CASE b = a /\ Accepts(a)
    <3>1. Follows(Unknown, g, gs[g], plan.personal)
      BY <1>7, <1>12, <2>5
    <3>2. tasks'[b] = [tasks[b] EXCEPT !.control = Append(@, [kind |-> "assign", game |-> g])]
      BY <2>2, <2>3, <2>4, <2>5, Zenon
    <3>. QED  BY <1>4, <1>13, <2>1, <3>1, <3>2, OrderKeeps
  <2>6. CASE ~(b = a /\ Accepts(a))
    <3>1. tasks'[b] = tasks[b]
      BY <2>3, <2>4, <2>6, Zenon
    <3>. QED  BY <1>13, <3>1
  <2>. QED  BY <2>5, <2>6
<1>16. \A h \in GameIds : /\ gs[h].here => plan.personal
                          /\ gs[h].phase = "boot" => gs[h].rev = 0
  BY <1>11, <1>12 DEF AllInTouch
<1>17. Accounts' = Accounts /\ GameIds' = GameIds
  BY <1>4 DEF Accounts, GameIds
<1>. QED  BY <1>4, <1>10, <1>14, <1>15, <1>16, <1>17 DEF AllInTouch

-----------------------------------------------------------------------------
(* The second inductive invariant, and what it implies.                    *)

LEMMA InitInTouch == Init => AllInTouch
<1>. SUFFICES ASSUME Init
              PROVE  AllInTouch
  OBVIOUS
<1>1. plan.personal \in BOOLEAN
  BY PlanIs DEF Init
<1>2. room \in [Accounts -> Occupants]
  BY ViewIs DEF Init
<1>3. \A g \in GameIds : /\ games[g].here => plan.personal
                         /\ games[g].phase = "boot" => games[g].rev = 0
  BY DEF Init, NoGame
<1>4. main.at # "stopped"
  BY <1>1 DEF Init, Begins
<1>5. ASSUME NEW a \in Accounts
      PROVE  InTouch(tasks[a], room[a], games, plan.personal)
  <2>1. PICK link : link = IF a = 1 THEN "connecting" ELSE "asleep"
    OBVIOUS
  <2>2. PICK acc : acc = Started(plan.personal)
    OBVIOUS
  <2>3. tasks[a] = [acc |-> acc, live |-> "running", control |-> <<>>, link |-> link, news |-> <<>>]
    BY <2>1, <2>2 DEF Init
  <2>4. /\ tasks[a].acc = acc /\ tasks[a].control = <<>> /\ tasks[a].news = <<>>
        /\ tasks[a].link \in {"asleep", "connecting"}
    BY <2>1, <2>3
  <2>5. /\ acc.personal = plan.personal /\ acc.assigned = None /\ acc.unlisted = FALSE
        /\ acc.lastSent = None /\ acc.pending = None /\ acc.started = FALSE /\ acc.playing = FALSE
        /\ acc.bound = FALSE /\ acc.out = <<>>
    BY <2>2 DEF Started
  <2>6. InSession(tasks[a], room[a])
    BY <2>4, <2>5, UnopenedIs
  <2>7. Books(acc, plan.personal)
    BY <2>5 DEF Books
  <2>8. InGame(tasks[a], games, plan.personal)
    BY <2>4, <2>5 DEF InGame
  <2>. QED  BY <2>4, <2>6, <2>7, <2>8 DEF InTouch
<1>. QED  BY <1>2, <1>3, <1>4, <1>5 DEF AllInTouch

LEMMA StepInTouch == IInv /\ AllInTouch /\ [Next]_vars => AllInTouch'
<1>. SUFFICES ASSUME IInv, AllInTouch, [Next]_vars
              PROVE  AllInTouch'
  OBVIOUS
<1>1. CASE MainStep
  <2>1. CASE TakeGameEnded
    BY <2>1, EndsGameTouches DEF TakeGameEnded
  <2>2. CASE TakePersonalEnded
    BY <2>2, EndsGameTouches DEF TakePersonalEnded
  <2>. QED  BY <1>1, <2>1, <2>2, MainTouches, HostFailsTouches, HostGameTouches, ShutAccountsTouches,
               DropPoolTouches DEF MainStep
<1>2. CASE TakeSignal
  BY <1>2, MainTouches
<1>3. ASSUME NEW a \in Accounts, TaskStep(a)
      PROVE  AllInTouch'
  <2>1. CASE HearHostme(a)
    BY <2>1, SameTouch DEF HearHostme
  <2>. QED  BY <1>3, <2>1, ControlTouches, GameEventTouches, GameEndTouches, DebounceTouches, OnlineTouches,
               StreamEndTouches, WakeTouches, DiesTouches DEF TaskStep
<1>4. ASSUME NEW a \in Accounts, LobbyStep(a)
      PROVE  AllInTouch'
  BY <1>4, DropTouches, ResumeTouches, NewTouches, LeaveTouches, DeliverTouches DEF LobbyStep
<1>5. ASSUME NEW g \in GameIds, GameStep(g)
      PROVE  AllInTouch'
  BY <1>5, OpenTouches, ChangeSlotsTouches, StartMatchTouches, DecideTouches, PlayerArrivesTouches,
     PlayerLeavesTouches, ExitTouches DEF GameStep
<1>6. CASE UNCHANGED vars
  BY <1>6, SameTouch DEF vars
<1>. QED  BY <1>1, <1>2, <1>3, <1>4, <1>5, <1>6 DEF Next

\* When all is settled, the lobby shows what the account takes itself to be ...
LEMMA SettledSeen ==
    ASSUME IInv, AllInTouch, NEW a \in Accounts, Settled(a)
    PROVE  tasks[a].acc.bound /\ room[a] = Seen(tasks[a].acc)
<1>1. /\ tasks[a].live = "running" /\ tasks[a].link = "up" /\ tasks[a].news = <<>>
      /\ tasks[a].acc.out = <<>>
  BY DEF Settled, Alive
<1>2. InSession(tasks[a], room[a]) /\ room[a] \in Occupants
  BY <1>1, TouchOf
<1>3. tasks[a].acc.bound /\ Pictures(tasks[a], room[a])
  BY <1>1, <1>2, OpenedIs
<1>4. Heeded(tasks[a])
  BY <1>1 DEF Heeded
<1>5. PICK f \in Occupants : Hears(room[a], <<>>, f) /\ f = Seen(tasks[a].acc)
  BY <1>1, <1>3, <1>4 DEF Pictures
<1>6. f = room[a]
  BY <1>2, <1>5, HearsNothing
<1>. QED  BY <1>3, <1>5, <1>6

\* ... and that is the game as it is.
LEMMA SettledKnown ==
    ASSUME IInv, AllInTouch, NEW a \in Accounts, Settled(a), NEW g \in GameIds, tasks[a].acc.assigned = g
    PROVE  /\ games[g].phase \in {"setup", "match", "over"}
           /\ Described(g, games[g], plan.personal, Known(tasks[a].acc))
<1>1. tasks[a].live = "running" /\ g # None /\ About(tasks[a], g)
  BY NoneApart DEF Settled, Alive, About
<1>2. games[g].chan = <<>> /\ games[g].phase \notin {"boot", "gone", "destroyed"}
  BY <1>1 DEF Settled
<1>3. /\ tasks[a].acc \in Accs /\ plan.personal \in BOOLEAN /\ main.at # "stopped"
      /\ InGame(tasks[a], games, plan.personal)
  BY <1>1, TouchOf
<1>4. Pooled(g) /\ games[g] \in Games
  BY <1>1, <1>3, AboutIsOf, GameOf
<1>5. games[g].phase \in {"setup", "match", "over"}
  BY <1>2, <1>4 DEF Pooled, Games
<1>6. Known(tasks[a].acc) \in Knowings
  BY <1>3, KnownIs, Zenon
<1>7. Follows(Known(tasks[a].acc), g, games[g], plan.personal)
  BY <1>1, <1>3 DEF InGame
<1>8. PICK f \in Knowings : /\ Learns(Known(tasks[a].acc), <<>>, f, plan.personal)
                            /\ f = AsItIs(g, games[g], plan.personal)
  BY <1>2, <1>5, <1>7 DEF Follows
<1>9. f = Known(tasks[a].acc)
  BY <1>6, <1>8, LearnsNothing
<1>10. Described(g, games[g], plan.personal, AsItIs(g, games[g], plan.personal))
  BY <1>3, <1>4, AsItIsDescribed
<1>11. Known(tasks[a].acc) = AsItIs(g, games[g], plan.personal)
  BY <1>8, <1>9, Zenon
<1>. QED  BY <1>5, <1>10, <1>11, Zenon

LEMMA ShowsTheGame == IInv /\ AllInTouch => LobbyShowsTheGame
<1>. SUFFICES ASSUME IInv, AllInTouch, NEW a \in Accounts, Settled(a)
              PROVE  LET g == tasks[a].acc.assigned
                     IN  IF g = None THEN room[a] = Absent
                         ELSE /\ room[a].listing = Shown(g)
                              /\ room[a].busy = (plan.personal /\ games[g].here)
  BY DEF LobbyShowsTheGame
<1>. DEFINE acc == tasks[a].acc
            g == acc.assigned
<1>1. /\ acc \in Accs /\ tasks[a].live = "running" /\ ~acc.debounce
      /\ Books(acc, plan.personal) /\ plan.personal \in BOOLEAN
  BY TouchOf DEF Settled, Alive
<1>2. acc.bound /\ room[a] = Seen(acc)
  BY SettledSeen
<1>. HIDE DEF acc
<1>3. Seen(acc) \in Occupants /\ Seen(acc).busy = acc.playing
  BY <1>1, SeenIs
<1>4. /\ acc.lastSent = None => Seen(acc).listing = None
      /\ acc.lastSent # None => Seen(acc).listing = View(acc.lastSent, acc.started)
  BY <1>1, SeenIs
<1>5. acc.playing \in BOOLEAN /\ acc.started \in BOOLEAN /\ g \in GameIds \cup {None}
  BY <1>1, AccIs
<1>6. CASE g = None
  <2>1. acc.lastSent = None /\ ~acc.playing
    BY <1>1, <1>6 DEF Books
  <2>2. Absent \in Occupants /\ Absent.listing = None /\ Absent.busy = FALSE
    BY ViewIs DEF Absent
  <2>3. Seen(acc).listing = Absent.listing /\ Seen(acc).busy = Absent.busy
    BY <1>3, <1>4, <1>5, <2>1, <2>2
  <2>4. Seen(acc) = Absent
    BY <1>3, <2>2, <2>3, SameOccupant
  <2>. QED  BY <1>2, <1>6, <2>4 DEF acc
<1>7. CASE g # None
  <2>1. g \in GameIds
    BY <1>5, <1>7
  <2>2. games[g].phase \in {"setup", "match", "over"} /\ Described(g, games[g], plan.personal, Known(acc))
    BY <2>1, SettledKnown DEF acc
  <2>3. acc.pending = None
    BY <1>1, <1>2 DEF Books
  <2>4. Known(acc).newest = acc.lastSent /\ Known(acc).started = acc.started /\ Known(acc).playing = acc.playing
    BY <1>1, <2>3, KnownIs, Zenon
  <2>5. games[g].here \in BOOLEAN /\ games[g].rev \in Nat /\ g \in Nat
    BY <2>1, GameDescribed, GameOf
  <2>6. <<g, games[g].rev>> \in Attrs /\ <<g, games[g].rev>> # None
    BY <2>5, NoneApart DEF Attrs
  <2>7. acc.playing = (plan.personal /\ games[g].here)
    BY <1>1, <1>5, <2>2, <2>4, <2>5 DEF Described
  <2>. HIDE DEF g
  <2>8. Seen(acc).listing = Shown(g)
    <3>1. CASE Listed(games[g], plan.personal)
      <4>1. acc.lastSent = <<g, games[g].rev>> /\ acc.started = (games[g].phase = "match")
        BY <1>5, <2>2, <2>4, <3>1 DEF Described
      <4>2. Seen(acc).listing = View(<<g, games[g].rev>>, games[g].phase = "match")
        BY <1>4, <2>6, <4>1
      <4>3. Shown(g) = View(<<g, games[g].rev>>, games[g].phase = "match")
        BY <3>1 DEF Shown, Listed, Hidden, View
      <4>. QED  BY <4>2, <4>3
    <3>2. CASE ~Listed(games[g], plan.personal)
      <4>1. acc.lastSent = None
        BY <2>2, <2>4, <3>2 DEF Described
      <4>2. Shown(g) = None
        BY <3>2 DEF Shown, Listed, Hidden
      <4>. QED  BY <1>4, <4>1, <4>2
    <3>. QED  BY <3>1, <3>2
  <2>. QED  BY <1>2, <1>3, <1>7, <2>7, <2>8 DEF acc, g
<1>. QED  BY <1>6, <1>7 DEF acc

\* Through every loss of the session, once nothing is on its way the lobby lists the
\* account's game as it is and none that is decided, over or left by its player, and shows
\* the player of a personal account playing exactly while in it.
THEOREM LobbyShown == Spec => []LobbyShowsTheGame
<1>1. Init => IInv /\ AllInTouch
  BY InitInvariant, InitInTouch
<1>2. IInv /\ AllInTouch /\ [Next]_vars => (IInv /\ AllInTouch)'
  BY StepInvariant, StepInTouch
<1>3. IInv /\ AllInTouch => LobbyShowsTheGame
  BY ShowsTheGame
<1>. QED  BY <1>1, <1>2, <1>3, PTL DEF Spec
=============================================================================
