------------------------------ MODULE EnetLink ------------------------------
(***************************************************************************)
(* The relay's ENet host (enet_task.rs driving enet/c/protocol.rs) and a   *)
(* client's, with the datagrams between them.                              *)
(*                                                                         *)
(* net holds every datagram ever sent: one that is never received is lost, *)
(* one received twice duplicated, and any may overtake any other.  The     *)
(* client is stock ENet, of which the port is a translation, so both hosts *)
(* run the same handlers.                                                  *)
(*                                                                         *)
(* A call of Host::service is Serve, any number of Receive and Finish: it  *)
(* hands over what waits for dispatch first; with nothing to hand over it  *)
(* sends, receives until an event comes up or the socket is empty, sends   *)
(* again and dispatches.  The calls the application makes fall between     *)
(* them: the relay's are those of enet_task's drain of send_rx, with the   *)
(* slot the game thread named, which may have a new tenant by then.        *)
(*                                                                         *)
(* Datagrams are not cut at 32 commands or at the MTU: each data command   *)
(* after the first goes in a datagram of its own.  The order in which      *)
(* several peers wait for dispatch is left open.                           *)
(***************************************************************************)
EXTENDS EnetPeer

CONSTANTS
    Slots,       \* the relay's peers (PEER_LIMIT, 200 in the code)
    Plans        \* what the applications may do in a run: see PlanType

Relay  == "relay"
Client == "client"
Hosts  == {Relay, Client}
Tap    == 0                           \* the client's only peer
Ends   == Slots \cup {Tap}
HostOf(e)  == IF e = Tap THEN Client ELSE Relay
EndsOf(h)  == IF h = Client THEN <<Tap>> ELSE SetToSortSeq(Slots, <)
Other(h)   == IF h = Client THEN Relay ELSE Client

\* Bounds: slots that may be taken, connections the client opens and the
\* relay accepts, messages of a session each way, how far the relay sends
\* ahead of what has been handed over, commands per message, control commands
\* of a peer (which bounds pings), sends of one command before the peer gives
\* up (timeout_limit), datagrams received in one call (256 in the code), how
\* many sequence numbers behind the relay's latest a datagram survives (0: any
\* number; otherwise for one session without up), and the calls made
PlanType == [slots : SUBSET Slots, opens : Nat, accepts : Nat,
             down : Nat, up : Nat, ahead : Nat, sizes : SUBSET (Nat \ {0}), controls : Nat,
             attempts : Nat \ {0}, packets : Nat \ {0}, life : Nat,
             calls : SUBSET {"later", "now", "kick", "quit"}]

ASSUME EnetLinkAssumption ==
    /\ Slots \subseteq Nat \ {0} /\ IsFiniteSet(Slots) /\ Slots # {}
    /\ \A plan \in Plans : plan \in PlanType

VARIABLES
    plan,     \* the run's bounds
    peer,     \* end -> its record
    net,      \* the datagrams sent
    round,    \* host -> 0 between calls of service, else 1 + datagrams received
    opened,   \* connections the client has opened; the last is its session
    accepted, \* connections the relay has accepted
    up, known, sent, got,    \* what the applications know: see FifoLink
    quit      \* the client asked to leave its session

vars == <<plan, peer, net, round, opened, accepted, up, known, sent, got, quit>>
Sessions == 1..(CHOOSE n \in {p.opens : p \in Plans} :
                  \A p \in Plans : p.opens <= n)

Init ==
    /\ plan \in Plans
    /\ peer = [e \in Ends |-> Peer0]
    /\ net = {}
    /\ round = [h \in Hosts |-> 0]
    /\ opened = 0 /\ accepted = 0
    /\ up = [e \in Ends |-> 0]
    /\ known = [h \in Hosts |-> {}]
    /\ sent = [h \in Hosts |-> [s \in Sessions |-> 0]]
    /\ got = [e \in Ends |-> 0]
    /\ quit = FALSE

-----------------------------------------------------------------------------
(* enet_protocol_send_outgoing_commands *)

Datagram(h, p, cmds) ==
    [for |-> Other(h), to |-> p.to,
     sid |-> IF p.to = Unknown THEN 0 ELSE p.outSid, cmds |-> cmds]

\* Every command that may go, in as many datagrams as it takes
Transmit(h, p, acks) ==
    LET controls == [i \in DOMAIN p.out |-> p.out[i].cmd]
        Data(k) == IF k > 0 THEN <<p.send[1].cmd>> ELSE <<>>
        Mail(cmds) == IF cmds = <<>> THEN {} ELSE {Datagram(h, p, cmds)}
    IN  {[p |-> CheckOutgoing(p, k), event |-> "none",
          mail |-> Mail(acks \o controls \o Data(k))
                     \cup {Datagram(h, p, <<p.send[i].cmd>>) : i \in 2..k}] :
         k \in Sendable(p)}

Idle(p) == p.state = "connected" /\ ~HasOutgoing(p) /\ p.seq < plan.controls
Ping(p) == QueueControl(p, [type |-> "ping", seq |-> 0])

\* One peer's share of a pass.  When its next timeout is due the oldest
\* command has expired, perhaps others with it; a peer that gives up sends
\* nothing.  An idle one may have been quiet for ping_interval.
Passes(h, p, late) ==
    LET expired == {E \in SUBSET DOMAIN p.sent :
                      1 \in E /\ ~GivesUp(p, E, plan.attempts)}
        Rest(event) == {[p |-> p, mail |-> {}, event |-> event]}
        Goes(Q) == UNION {Transmit(h, q, AckCommands(p)) : q \in Q}
    IN  IF p.state \in {"disconnected", "zombie"} THEN Rest("none")
        ELSE IF late /\ p.sent # <<>>
        THEN {[p |-> ResetPeer(p), mail |-> {},
               event |-> NotifyDisconnect(SendAcks(p)).event]}
               \cup Goes({Requeue(SendAcks(p), E) : E \in expired})
        ELSE Goes({SendAcks(p)} \cup (IF Idle(p) THEN {Ping(SendAcks(p))} ELSE {}))

\* The pass over a host's peers ends with the first event
HostPass(h, peers, late) ==
    LET Share(r, e) ==
            IF r.event # "none" THEN {r}
            ELSE {[ps |-> [r.ps EXCEPT ![e] = x.p], net |-> r.net \cup x.mail,
                   event |-> x.event, end |-> e] :
                  x \in Passes(h, r.ps[e], e \in late)}
    IN  FoldLeft(LAMBDA R, e : UNION {Share(r, e) : r \in R},
                 {[ps |-> peers, net |-> net, event |-> "none", end |-> Unknown]},
                 EndsOf(h))

-----------------------------------------------------------------------------
(* enet_protocol_handle_incoming_commands *)

\* enet_protocol_handle_connect: a free slot, unless this attempt has one.
\* Both session ids move on, from what the client knew or the slot remembers,
\* and once more if that is where the slot already was.
NextSid(offered, other, mine) ==
    LET n == ((IF offered = NoSid THEN other ELSE offered) + 1) % 4
    IN IF n = mine THEN (n + 1) % 4 ELSE n

Free(ps) == {e \in plan.slots : ps[e].state = "disconnected"}
Refused(ps, c) ==
    \/ Free(ps) = {}
    \/ \E e \in Slots : ps[e].state \notin {"disconnected", "connecting"}
                        /\ ps[e].id = c.id

Accept(ps, c) ==
    LET e == CHOOSE x \in Free(ps) : \A y \in Free(ps) : x <= y
        outSid == NextSid(c.inSid, ps[e].outSid, ps[e].outSid)
        inSid == NextSid(c.outSid, ps[e].inSid, ps[e].inSid)
        p == [ps[e] EXCEPT !.state = "acknowledging_connect", !.id = c.id,
                           !.to = c.from, !.chan = TRUE,
                           !.outSid = outSid, !.inSid = inSid]
    IN  [end |-> e,
         p |-> QueueControl(p, [type |-> "verify", seq |-> 0, from |-> e,
                                inSid |-> outSid, outSid |-> inSid, id |-> c.id])]

HandleCommand(p, c) ==
    CASE c.type = "ack" -> HandleAck(p, c)
      [] c.type = "verify" -> HandleVerify(p, c)
      [] c.type = "disconnect" -> HandleDisconnect(p, c)
      [] c.type = "ping" -> Result(p, p.state \in {"connected", "disconnect_later"})
      [] c.type = "send" -> IF c.n = 1 THEN HandleSend(p, c) ELSE HandleFragment(p, c)

\* One command: a handler that fails ends the datagram, before the
\* acknowledgement of the command it failed on
Command(r, c) ==
    IF ~r.ok THEN r
    ELSE IF c.type = "connect"
    THEN IF r.end # Unknown \/ Refused(r.ps, c) THEN [r EXCEPT !.ok = FALSE]
         ELSE [r EXCEPT !.end = Accept(r.ps, c).end,
                        !.ps[Accept(r.ps, c).end] = Accept(r.ps, c).p,
                        !.accepts = 1]
    ELSE IF r.end = Unknown THEN [r EXCEPT !.ok = FALSE]
    ELSE LET x == HandleCommand(r.ps[r.end], c)
         IN [r EXCEPT !.ok = x.ok,
                      !.ps[r.end] = IF x.ok /\ c.type # "ack"
                                    THEN Acknowledge(x.p, c) ELSE x.p,
                      !.event = IF x.event = "none" THEN @ ELSE x.event]

\* A mutant of Addressed: the session id of the header is not looked at.
AnySession(d) ==
    \/ d.to = Unknown
    \/ /\ d.to \in Ends /\ HostOf(d.to) = d.for
       /\ peer[d.to].state \notin {"disconnected", "zombie"}

\* The header names a peer; a peer that knows its counterpart takes only
\* datagrams of the current session
Addressed(d) ==
    \/ d.to = Unknown
    \/ /\ d.to \in Ends /\ HostOf(d.to) = d.for
       /\ peer[d.to].state \notin {"disconnected", "zombie"}
       /\ peer[d.to].to = Unknown \/ d.sid = peer[d.to].inSid

Handled(d) ==
    FoldLeft(Command, [ps |-> peer, end |-> d.to, ok |-> TRUE,
                       event |-> "none", accepts |-> 0], d.cmds)

-----------------------------------------------------------------------------
(* enet_protocol_dispatch_incoming_commands *)

Yields(p) == /\ p.dispatch
             /\ p.state = "zombie" \/ (p.state = "connected" /\ p.ready # <<>>)

\* Peers in line that have nothing to say leave the line
Unlined(h, ps) ==
    [e \in Ends |-> IF HostOf(e) = h /\ ~Yields(ps[e])
                    THEN [ps[e] EXCEPT !.dispatch = FALSE] ELSE ps[e]]

NoMsg == [of |-> 0, no |-> 0]
Dispatches(h, ps) ==
    LET Of(e) ==
          IF ps[e].state = "zombie"
          THEN [ps |-> [ps EXCEPT ![e] = ResetPeer(@)], end |-> e,
                event |-> "disconnect", msg |-> NoMsg]
          ELSE [ps |-> [ps EXCEPT ![e].ready = Tail(@),
                                  ![e].dispatch = Len(ps[e].ready) > 1],
                end |-> e, event |-> "receive", msg |-> Head(ps[e].ready).msg]
        S == {e \in Ends : HostOf(e) = h /\ Yields(ps[e])}
    IN  IF S # {} THEN {Of(e) : e \in S}
        ELSE {[ps |-> Unlined(h, ps), end |-> Unknown,
               event |-> "none", msg |-> NoMsg]}

-----------------------------------------------------------------------------
(* What the applications are told *)

\* One mark per message: its session and its number in it
Expected(e, msg) == msg = [of |-> up[e], no |-> got[e] + 1]

\* peers become ps; the event, if any, is about end e.  A peer reset without
\* an event is down as well: its application reset it, or never knew it.
Tell(ps, event, e, msg) ==
    /\ peer' = ps
    /\ up' = [x \in Ends |->
                IF ps[x].state = "disconnected" THEN 0
                ELSE IF event = "connect" /\ x = e THEN ps[x].id ELSE up[x]]
    /\ known' = IF event = "connect"
                THEN [known EXCEPT ![HostOf(e)] = @ \cup {ps[e].id}] ELSE known
    /\ got' = [x \in Ends |->
                IF ps[x].state = "disconnected" THEN 0
                ELSE IF event = "receive" /\ x = e
                THEN IF Expected(e, msg) THEN got[x] + 1 ELSE -1
                ELSE got[x]]
    /\ UNCHANGED <<plan, opened>>

\* No datagram outlives the sequence numbers it carries: those of the relay's
\* data that lie more than plan.life behind its latest are gone
Fresh(mail) ==
    LET p == CHOOSE q \in {peer'[e] : e \in plan.slots} : TRUE
        Old(c) == /\ \/ c.type = "ack" /\ c.data
                     \/ c.type = "send"
                  /\ LET n == IF c.type = "ack" THEN c.of ELSE c.seq
                     IN (p.chOut - n + Seqs) % Seqs > plan.life
    IN IF plan.life = 0 \/ ~p.chan THEN mail
       ELSE {d \in mail : \A i \in DOMAIN d.cmds : ~Old(d.cmds[i])}

-----------------------------------------------------------------------------
(* Host::service *)

Serve(h, late) ==
    /\ round[h] = 0
    /\ \A e \in Ends : HostOf(e) = h => ~Yields(peer[e])
    /\ \E r \in HostPass(h, Unlined(h, peer), late) :
         /\ Tell(r.ps, r.event, r.end, NoMsg)
         /\ net' = Fresh(r.net)
         /\ round' = [round EXCEPT ![h] = IF r.event = "none" THEN 1 ELSE 0]
    /\ UNCHANGED <<accepted, sent, quit>>

HandOver(h) ==
    /\ round[h] = 0
    /\ \E e \in Ends : HostOf(e) = h /\ Yields(peer[e])
    /\ \E r \in Dispatches(h, peer) : Tell(r.ps, r.event, r.end, r.msg)
    /\ net' = Fresh(net)
    /\ UNCHANGED <<accepted, round, sent, quit>>

Receive(h, d) ==
    /\ round[h] \in 1..plan.packets
    /\ d.for = h /\ Addressed(d)
    /\ \E r \in {Handled(d)} :
         /\ accepted + r.accepts <= plan.accepts
         /\ Tell(r.ps, r.event, r.end, NoMsg)
         /\ accepted' = accepted + r.accepts
         /\ round' = [round EXCEPT ![h] = IF r.event = "none" THEN @ + 1 ELSE 0]
         /\ net' = Fresh(net)
    /\ UNCHANGED <<sent, quit>>

Finish(h, late) ==
    /\ round[h] > 0
    /\ \E r \in HostPass(h, peer, late) :
         /\ IF r.event # "none" THEN Tell(r.ps, r.event, r.end, NoMsg)
            ELSE \E x \in Dispatches(h, r.ps) : Tell(x.ps, x.event, x.end, x.msg)
         /\ net' = Fresh(r.net)
    /\ round' = [round EXCEPT ![h] = 0]
    /\ UNCHANGED <<accepted, sent, quit>>

-----------------------------------------------------------------------------
(* What the applications do between two calls *)

\* enet_host_connect, while the client's peer is free
Open ==
    /\ round[Client] = 0 /\ peer[Tap].state = "disconnected"
    /\ opened < plan.opens
    /\ opened' = opened + 1
    /\ peer' = [peer EXCEPT ![Tap] =
         QueueControl([@ EXCEPT !.state = "connecting", !.id = opened + 1,
                                !.chan = TRUE],
           [type |-> "connect", seq |-> 0, id |-> opened + 1, from |-> Tap,
            inSid |-> peer[Tap].inSid, outSid |-> peer[Tap].outSid])]
    /\ quit' = FALSE
    /\ UNCHANGED <<plan, net, round, accepted, up, known, sent, got>>

\* Peer::send; where the peer cannot, the packet is dropped and logged
Send(e, n) ==
    LET h == HostOf(e)  s == up[e] IN
    /\ round[h] = 0 /\ CanSend(peer[e])
    /\ sent[h][s] < (IF h = Relay THEN plan.down ELSE plan.up)
    /\ h = Relay /\ up[Tap] = s => sent[h][s] < got[Tap] + plan.ahead
    /\ peer' = [peer EXCEPT ![e] = PeerSend(@, [of |-> s, no |-> sent[h][s] + 1], n)]
    /\ sent' = [sent EXCEPT ![h][s] = @ + 1]
    /\ net' = Fresh(net)
    /\ UNCHANGED <<plan, round, opened, accepted, up, known, got, quit>>

\* The host's peers once end e has become p: when p cannot wait for an
\* acknowledgement the host is flushed and the peer reset on the spot
Leave(e, p, reset) ==
    LET h == HostOf(e)  ps == [peer EXCEPT ![e] = p] IN
    IF reset
    THEN \E r \in HostPass(h, ps, {}) :
           /\ Tell([r.ps EXCEPT ![e] = ResetPeer(@)], "none", e, NoMsg)
           /\ net' = Fresh(r.net)
    ELSE Tell(ps, "none", e, NoMsg) /\ net' = Fresh(net)

Abrupt(p) == ~IgnoresDisconnect(p) /\ ~Established(p)

\* OutboundNetworkMessage::Disconnect
Dismiss(e) ==
    /\ "later" \in plan.calls /\ round[Relay] = 0
    /\ peer[e].state # "disconnected"
    /\ Leave(e, DisconnectLater(peer[e], "later"), Abrupt(peer[e]))
    /\ UNCHANGED <<round, accepted, sent, quit>>

\* OutboundNetworkMessage::DisconnectNow: flush, then leave with one
\* unacknowledged DISCONNECT and no event
DismissNow(e) ==
    /\ "now" \in plan.calls /\ round[Relay] = 0
    /\ peer[e].state # "disconnected"
    /\ \E f \in HostPass(Relay, peer, {}) :
         \E p \in {Farewell(f.ps[e], "now")} :
           \E out \in Transmit(Relay, SendAcks(p), AckCommands(p)) :
              /\ Tell([f.ps EXCEPT ![e] = ResetPeer(@)], "none", e, NoMsg)
              /\ net' = Fresh(f.net \cup (IF p = f.ps[e] THEN {} ELSE out.mail))
    /\ UNCHANGED <<round, accepted, sent, quit>>

\* The slow-peer check of the once-a-second sample
Kick(e) ==
    /\ "kick" \in plan.calls /\ round[Relay] = 0
    /\ peer[e].state = "connected"
    /\ Leave(e, Disconnect(peer[e], "kick"), FALSE)
    /\ UNCHANGED <<round, accepted, sent, quit>>

\* The client's own enet_peer_disconnect
Quit ==
    /\ "quit" \in plan.calls /\ round[Client] = 0 /\ ~quit
    /\ ~IgnoresDisconnect(peer[Tap])
    /\ Leave(Tap, Disconnect(peer[Tap], "quit"), Abrupt(peer[Tap]))
    /\ quit' = TRUE
    /\ UNCHANGED <<round, accepted, sent>>

-----------------------------------------------------------------------------
Late(h) == {{}} \cup {{e} : e \in {x \in Ends : HostOf(x) = h}}

Next ==
    \/ \E h \in Hosts : \/ \E late \in Late(h) : Serve(h, late) \/ Finish(h, late)
                        \/ HandOver(h)
                        \/ \E d \in net : Receive(h, d)
    \/ Open \/ Quit
    \/ \E e \in Ends, n \in plan.sizes : Send(e, n)
    \/ \E e \in Slots : Dismiss(e) \/ DismissNow(e) \/ Kick(e)

\* enet_task calls service every POLL_INTERVAL, so a call is finished, what
\* waits is handed over, and a command nobody acknowledges expires.  It is
\* asked for only while a slot is on its way in or out, which is less than
\* holds.  Nothing is assumed of the network, of the client, or of what the
\* relay is asked to do.
Settling(e) == peer[e].state \notin {"disconnected", "connected"}

RelayRuns ==
    \A e \in Slots :
        /\ WF_vars(/\ Settling(e)
                   /\ HandOver(Relay) \/ Serve(Relay, {}) \/ Finish(Relay, {}))
        /\ SF_vars(Settling(e) /\ peer[e].sent # <<>> /\ Serve(Relay, {e}))

Spec == Init /\ [][Next]_vars /\ RelayRuns

-----------------------------------------------------------------------------
(* Properties *)

TypeOK ==
    /\ plan \in Plans /\ quit \in BOOLEAN
    /\ \A e \in Ends :
         LET p == peer[e] IN
         /\ p.state \in States /\ p.to \in Ends \cup {Unknown}
         /\ {p.inSid, p.outSid} \subseteq 0..3 \cup {NoSid}
         /\ {p.chOut, p.chIn} \subseteq 0..Seqs - 1
         /\ \A w \in DOMAIN p.wins : p.wins[w] \in 0..WindowSize
         /\ \A x \in p.buf : x.got \subseteq 0..x.n - 1
         /\ p.state = "disconnected" => p = ResetPeer(p) /\ up[e] = 0
         /\ got[e] \in Nat /\ up[e] \in 0..opened
    /\ \A h \in Hosts : round[h] \in 0..plan.packets + 1 /\ known[h] \subseteq Sessions

Link == INSTANCE FifoLink

\* Whatever is lost, repeated or overtaken on the way, and whatever is left
\* from earlier sessions, the applications see a FIFO link: enet_task.rs:27,
\* "Every message rides one reliable channel, so ordering is guaranteed".
Fifo == Link!Spec

\* The two ends of one session
Joined(e, f) ==
    /\ HostOf(e) # HostOf(f) /\ up[e] # 0 /\ up[e] = up[f]
    /\ Established(peer[e]) /\ peer[f].state = "connected"

InFlight(p) ==
    {p.sent[i].cmd : i \in {j \in DOMAIN p.sent : IsData(p.sent[j].cmd)}}
      \cup {p.send[i].cmd : i \in {j \in DOMAIN p.send : p.send[j].tries > 0}}

\* The oldest command a sender has in flight is one its receiver can place:
\* behind the window and acknowledged again, or within it and not refused for
\* space once the application has taken what is ready.  Later ones may fall
\* in the gap where a command is neither taken nor acknowledged and wait for
\* it; if the oldest did, or were refused, nothing would ever move and the
\* peer be dropped.  (enet_peer_queue_acknowledgement and
\* enet_peer_queue_incoming_command at one end against the window rule of
\* enet_protocol_check_outgoing_commands at the other.)
OldestFits ==
    \A e \in Ends, f \in Ends : Joined(e, f) =>
        LET p == peer[e]  q == [peer[f] EXCEPT !.ready = <<>>]
            Age(c) == (p.chOut - c.seq + Seqs) % Seqs
        IN  \A c \in InFlight(p) :
              (\A d \in InFlight(p) : Age(d) <= Age(c)) =>
                /\ Offset(q, c.seq) \notin FreeWindows - 1..FreeWindows
                /\ \/ \E x \in q.buf : x.seq = c.start
                   \/ Intake(q, c.start) # "full"

\* The sender's window counters hold exactly what is in flight: one too few
\* would let it overrun the receiver, one too many stop it for ever.
WindowsBooked ==
    \A e \in Ends : \A w \in DOMAIN peer[e].wins :
        peer[e].wins[w] =
          Cardinality({c \in InFlight(peer[e]) : WindowOf(c.seq) = w})

\* A client dismissed with disconnect_later has been handed everything that
\* was sent to it before (enet_task.rs, "disconnect_later() waits for queued
\* commands to flush first"): acknowledged is not yet handed over, and
\* handle_disconnect throws away what still waits.
FarewellLast ==
    /\ peer[Tap].state \in {"acknowledging_disconnect", "zombie"}
    /\ peer[Tap].reason = "later" /\ up[Tap] # 0 /\ ~quit
    => got[Tap] = sent[Relay][up[Tap]]

LinkConsistent == OldestFits /\ WindowsBooked /\ FarewellLast

\* A slot that is on its way in or out is free or connected in the end,
\* whatever the client does: a dismissed client that stops acknowledging
\* cannot keep one of the PEER_LIMIT slots.
SlotsSettle ==
    \A e \in Slots : Settling(e) ~> ~Settling(e)
=============================================================================
