------------------------------ MODULE EnetPeer ------------------------------
(***************************************************************************)
(* One end of an ENet connection, as operators on its record: what         *)
(* enet/c/peer.rs and the handlers of enet/c/protocol.rs do to an ENetPeer.*)
(* EnetLink puts two hosts of such peers on a network.                     *)
(*                                                                         *)
(* Only what the relay uses is here: one channel, every packet reliable    *)
(* (enet_task.rs, CHANNEL_LIMIT and PacketKind::Reliable), no compressor,  *)
(* no checksum.  Sizes are counted in commands, so a packet of n fragments *)
(* weighs n; MTU, bandwidth and throttle negotiation, packet-loss figures  *)
(* and round-trip estimates only tune how fast commands go out, and are    *)
(* left out.  Both callers of notify_connect and notify_disconnect hand    *)
(* them an event to fill, so the states CONNECTION_PENDING and             *)
(* CONNECTION_SUCCEEDED are never entered.                                 *)
(***************************************************************************)
EXTENDS Integers, FiniteSets, SequencesExt

CONSTANTS
    Windows,      \* PEER_RELIABLE_WINDOWS, 16 in the code
    WindowSize,   \* PEER_RELIABLE_WINDOW_SIZE, 4096
    FreeWindows,  \* PEER_FREE_RELIABLE_WINDOWS, 8
    InTransit,    \* what window_size lets be in transit, in commands
    MaxWaiting    \* maximum_waiting_data, in commands

ASSUME EnetPeerAssumption ==
    /\ {Windows, WindowSize, FreeWindows, InTransit, MaxWaiting}
         \subseteq Nat \ {0}
    /\ FreeWindows >= 3 /\ FreeWindows + 2 < Windows
    /\ InTransit < MaxWaiting

Unknown == -1                          \* PROTOCOL_MAXIMUM_PEER_ID
NoSid   == 255                         \* a session id never negotiated
Seqs    == Windows * WindowSize        \* sequence numbers are modulo 2^16
States  == {"disconnected", "connecting", "acknowledging_connect",
            "connected", "disconnect_later", "disconnecting",
            "acknowledging_disconnect", "zombie"}

-----------------------------------------------------------------------------
(* The record and its resets *)

Peer0 ==
    [state |-> "disconnected", id |-> 0, to |-> Unknown,
     inSid |-> NoSid, outSid |-> NoSid, reason |-> "none", seq |-> 0,
     out |-> <<>>, send |-> <<>>, sent |-> <<>>, acks |-> <<>>,
     chan |-> FALSE, chOut |-> 0, chIn |-> 0,
     wins |-> [w \in 0..Windows - 1 |-> 0],
     buf |-> {}, ready |-> <<>>, dispatch |-> FALSE]

\* enet_peer_reset_queues: the queues go, and the channel with its numbers
ResetQueues(p) ==
    [p EXCEPT !.out = <<>>, !.send = <<>>, !.sent = <<>>, !.acks = <<>>,
              !.chan = FALSE, !.chOut = 0, !.chIn = 0, !.wins = Peer0.wins,
              !.buf = {}, !.ready = <<>>, !.dispatch = FALSE]

\* enet_peer_reset: session ids outlive it
ResetPeer(p) == [Peer0 EXCEPT !.inSid = p.inSid, !.outSid = p.outSid]

HasOutgoing(p) == p.out # <<>> \/ p.send # <<>> \/ p.sent # <<>>

ToDispatch(p, state) == [p EXCEPT !.state = state, !.dispatch = TRUE]

-----------------------------------------------------------------------------
(* Queueing commands *)

IsData(c) == c.type = "send"
Acked(c)  == c.type # "disconnect" \/ c.ack
WindowOf(n) == n \div WindowSize

\* enet_peer_setup_outgoing_command: control commands count on the peer,
\* data commands on the channel
QueueControl(p, c) ==
    [p EXCEPT !.seq = @ + 1,
              !.out = Append(@, [tries |-> 0, cmd |-> [c EXCEPT !.seq = p.seq + 1]])]

QueueFragment(p, msg, n, k) ==
    LET at == (p.chOut + 1) % Seqs IN
    [p EXCEPT !.chOut = at,
              !.send = Append(@, [tries |-> 0,
                 cmd |-> [type |-> "send", seq |-> at, n |-> n, k |-> k,
                          start |-> (at - k + Seqs) % Seqs, msg |-> msg]])]

\* enet_peer_send of a packet that takes n commands, fragments when n > 1
CanSend(p) == p.state = "connected" /\ p.chan
PeerSend(p, msg, n) ==
    FoldLeft(LAMBDA q, k : QueueFragment(q, msg, n, k - 1), p,
             [i \in 1..n |-> i])

\* enet_peer_disconnect, but for the flush and the reset that follow it in a
\* state where nothing can be acknowledged: see EnetLink.Leave
IgnoresDisconnect(p) ==
    p.state \in {"disconnecting", "disconnected",
                 "acknowledging_disconnect", "zombie"}
Established(p) == p.state \in {"connected", "disconnect_later"}

Disconnect(p, reason) ==
    IF IgnoresDisconnect(p) THEN p
    ELSE LET q == QueueControl(ResetQueues(p),
                     [type |-> "disconnect", seq |-> 0,
                      ack |-> Established(p), reason |-> reason])
         IN IF Established(p) THEN [q EXCEPT !.state = "disconnecting"] ELSE q

\* A mutant of DisconnectLater: the queued commands are not waited for.
DisconnectAtOnce(p, reason) == Disconnect(p, reason)

\* enet_peer_disconnect_later
DisconnectLater(p, reason) ==
    IF Established(p) /\ HasOutgoing(p)
    THEN [p EXCEPT !.state = "disconnect_later", !.reason = reason]
    ELSE Disconnect(p, reason)

\* enet_peer_disconnect_now up to its flush; the reset follows
Farewell(p, reason) ==
    IF p.state \in {"zombie", "disconnecting"} THEN p
    ELSE QueueControl(ResetQueues(p),
           [type |-> "disconnect", seq |-> 0, ack |-> FALSE, reason |-> reason])

-----------------------------------------------------------------------------
(* The receiving half of the channel *)

\* How far ahead of the channel's window a sequence number lies
Offset(p, n) ==
    (IF n < p.chIn THEN WindowOf(n) + Windows ELSE WindowOf(n)) - WindowOf(p.chIn)
InWindow(p, n) == Offset(p, n) \in 0..FreeWindows - 2

Waiting(p) ==
    LET Weight(s) == FoldSet(LAMBDA x, a : a + x.n, 0, s)
    IN Weight(p.buf) + Weight({[i |-> i, n |-> p.ready[i].n] : i \in DOMAIN p.ready})

\* enet_peer_dispatch_incoming_reliable_commands: what is complete and next in
\* order moves to the queue of packets for the application
DispatchReliable(p) ==
    LET Next(q) == {x \in q.buf : x.seq = (q.chIn + 1) % Seqs
                                  /\ Cardinality(x.got) = x.n}
        One(q, i) == IF Next(q) = {} THEN q
                     ELSE LET x == CHOOSE y \in Next(q) : TRUE IN
                          [q EXCEPT !.chIn = (x.seq + x.n - 1) % Seqs,
                                    !.buf = @ \ {x},
                                    !.ready = Append(@, [msg |-> x.msg, n |-> x.n]),
                                    !.dispatch = TRUE]
    IN FoldLeft(One, p, [i \in 1..Cardinality(p.buf) |-> i])

\* enet_peer_queue_incoming_command: "drop" what is out of reach or known,
\* "full" when too much waits already, else "take"
Intake(p, n) ==
    IF \/ p.state = "disconnect_later"
       \/ ~InWindow(p, n)
       \/ n = p.chIn
       \/ \E x \in p.buf : x.seq = n
    THEN "drop"
    ELSE IF Waiting(p) >= MaxWaiting THEN "full" ELSE "take"

\* A command that is taken waits at its place in the order, and whatever is
\* complete by then is dispatched
Stored(p, x) == DispatchReliable([p EXCEPT !.buf = @ \cup {x}])

Result(p, ok) == [p |-> p, ok |-> ok, event |-> "none"]

\* enet_protocol_handle_send_reliable
HandleSend(p, c) ==
    IF ~p.chan \/ ~Established(p) \/ Intake(p, c.seq) = "full"
    THEN Result(p, FALSE)
    ELSE IF Intake(p, c.seq) = "drop" THEN Result(p, TRUE)
    ELSE Result(Stored(p, [seq |-> c.seq, n |-> 1, got |-> {0}, msg |-> c.msg]), TRUE)

\* enet_protocol_handle_send_fragment
HandleFragment(p, c) ==
    LET known == {x \in p.buf : x.seq = c.start}
        start == IF known # {} THEN CHOOSE x \in known : TRUE
                 ELSE [seq |-> c.start, n |-> c.n, got |-> {}, msg |-> c.msg]
        next  == [start EXCEPT !.got = @ \cup {c.k}]
    IN  IF ~p.chan \/ ~Established(p) THEN Result(p, FALSE)
        ELSE IF ~InWindow(p, c.start) THEN Result(p, TRUE)
        ELSE IF \/ start.n # c.n
                \/ known = {} /\ Intake(p, c.start) # "take"
        THEN Result(p, FALSE)
        ELSE Result(Stored([p EXCEPT !.buf = @ \ {start}], next), TRUE)

-----------------------------------------------------------------------------
(* The sending half: acknowledgements, timeouts, what may go out *)

\* enet_protocol_find_sent_reliable_command looks no further than the first
\* command of the list that was never sent
Found(list, data, n) ==
    {i \in DOMAIN list : /\ IsData(list[i].cmd) = data /\ list[i].cmd.seq = n
                         /\ \A j \in 1..i : list[j].tries > 0}

\* enet_protocol_remove_sent_reliable_command: the command an acknowledgement
\* names leaves the list it is in, and its window
RemoveSent(p, data, n) ==
    LET inSent == {i \in DOMAIN p.sent :
                     IsData(p.sent[i].cmd) = data /\ p.sent[i].cmd.seq = n}
        inOut  == Found(p.out, data, n)
        inSend == Found(p.send, data, n)
        First(S) == CHOOSE i \in S : \A j \in S : i <= j
        q == IF inSent # {} THEN [p EXCEPT !.sent = RemoveAt(@, First(inSent))]
             ELSE IF inOut # {} THEN [p EXCEPT !.out = RemoveAt(@, First(inOut))]
             ELSE IF inSend # {} THEN [p EXCEPT !.send = RemoveAt(@, First(inSend))]
             ELSE p
        type == IF inSent # {} THEN p.sent[First(inSent)].cmd.type
                ELSE IF inOut # {} THEN p.out[First(inOut)].cmd.type
                ELSE IF inSend # {} THEN p.send[First(inSend)].cmd.type
                ELSE "none"
    IN  [type |-> type,
         p |-> IF type # "none" /\ data /\ p.chan /\ p.wins[WindowOf(n)] > 0
               THEN [q EXCEPT !.wins[WindowOf(n)] = @ - 1] ELSE q]

\* enet_protocol_notify_disconnect, with an event to fill: a peer that never
\* got as far as a connection is reset without a word
NotifyDisconnect(p) ==
    [p |-> ResetPeer(p), ok |-> TRUE,
     event |-> IF p.state = "acknowledging_connect" THEN "none" ELSE "disconnect"]

NotifyConnect(p) ==
    [p |-> [p EXCEPT !.state = "connected"], ok |-> TRUE, event |-> "connect"]

\* enet_protocol_handle_acknowledge
HandleAck(p, c) ==
    LET r == RemoveSent(p, c.data, c.of) IN
    IF p.state \in {"disconnected", "zombie"} THEN Result(p, TRUE)
    ELSE IF p.state = "acknowledging_connect"
         THEN IF r.type = "verify" THEN NotifyConnect(r.p) ELSE Result(r.p, FALSE)
    ELSE IF p.state = "disconnecting"
         THEN IF r.type = "disconnect" THEN NotifyDisconnect(r.p)
              ELSE Result(r.p, FALSE)
    ELSE IF p.state = "disconnect_later" /\ ~HasOutgoing(r.p)
         THEN Result(Disconnect(r.p, p.reason), TRUE)
    ELSE Result(r.p, TRUE)

\* enet_protocol_handle_verify_connect
HandleVerify(p, c) ==
    IF p.state # "connecting" THEN Result(p, TRUE)
    ELSE IF c.id # p.id
         THEN Result(ToDispatch([p EXCEPT !.reason = "none"], "zombie"), FALSE)
    ELSE NotifyConnect([RemoveSent(p, FALSE, 1).p EXCEPT
           !.to = c.from, !.inSid = c.inSid, !.outSid = c.outSid])

\* enet_protocol_handle_disconnect: whatever the queues still hold is dropped
HandleDisconnect(p, c) ==
    LET q == ResetQueues(p)
        r == IF p.state \in {"connecting", "disconnecting"}
             THEN ToDispatch(q, "zombie")
             ELSE IF ~Established(p) THEN ResetPeer(q)
             ELSE IF c.ack THEN [q EXCEPT !.state = "acknowledging_disconnect"]
             ELSE ToDispatch(q, "zombie")
    IN  IF p.state \in {"disconnected", "zombie", "acknowledging_disconnect"}
        THEN Result(p, TRUE)
        ELSE Result(IF r.state = "disconnected" THEN r
                    ELSE [r EXCEPT !.reason = c.reason], TRUE)

\* enet_peer_queue_acknowledgement and the choice before it: a command at the
\* far edge of the window is neither taken nor acknowledged
Acknowledge(p, c) ==
    IF \/ ~Acked(c)
       \/ p.state \in {"disconnecting", "acknowledging_connect",
                       "disconnected", "zombie"}
       \/ p.state = "acknowledging_disconnect" /\ c.type # "disconnect"
       \/ IsData(c) /\ p.chan
          /\ Offset(p, c.seq) \in FreeWindows - 1..FreeWindows
    THEN p
    ELSE [p EXCEPT !.acks = Append(@,
            [data |-> IsData(c), seq |-> c.seq, bye |-> c.type = "disconnect"])]

\* A mutant of SendAcks: the peer is left waiting for nothing.
AcknowledgeOnly(p) == [p EXCEPT !.acks = <<>>]

\* enet_protocol_send_acknowledgements: with the acknowledgement of a
\* DISCONNECT the peer is done
SendAcks(p) ==
    LET q == [p EXCEPT !.acks = <<>>] IN
    IF \E i \in DOMAIN p.acks : p.acks[i].bye THEN ToDispatch(q, "zombie") ELSE q

AckCommands(p) ==
    [i \in DOMAIN p.acks |->
       [type |-> "ack", data |-> p.acks[i].data, of |-> p.acks[i].seq]]

\* enet_protocol_check_timeouts, for the positions of the sent list whose
\* time is up: they go back to the head of the queues they came from, unless
\* one has been sent too often
GivesUp(p, expired, attempts) ==
    \E i \in expired : p.sent[i].tries >= attempts

Requeue(p, expired) ==
    LET Pick(data) == SelectSeq(
            [i \in DOMAIN p.sent |-> [late |-> i \in expired, e |-> p.sent[i]]],
            LAMBDA x : x.late /\ IsData(x.e.cmd) = data)
        Back(data) == [i \in DOMAIN Pick(data) |-> Pick(data)[i].e]
        kept == SelectSeq(
            [i \in DOMAIN p.sent |-> [late |-> i \in expired, e |-> p.sent[i]]],
            LAMBDA x : ~x.late)
    IN  [p EXCEPT !.sent = [i \in DOMAIN kept |-> kept[i].e],
                  !.out  = Back(FALSE) \o @,
                  !.send = Back(TRUE) \o @]

\* A mutant of Booked: a command is booked each time it is sent.
BookedEachTime(p, w, k) ==
    p.wins[w] + Cardinality({j \in 1..k : WindowOf(p.send[j].cmd.seq) = w})

\* enet_protocol_check_outgoing_commands, its two reasons to hold a data
\* command back: the first command of a window waits while the window before
\* it is full or one of those ahead is in use, and the bytes in transit are
\* limited
Booked(p, w, k) ==
    p.wins[w] + Cardinality({j \in 1..k : /\ p.send[j].tries = 0
                                          /\ WindowOf(p.send[j].cmd.seq) = w})
WindowWraps(p, i) ==
    LET n == p.send[i].cmd.seq  w == WindowOf(n) IN
    /\ p.send[i].tries = 0 /\ n % WindowSize = 0
    /\ \/ Booked(p, (w + Windows - 1) % Windows, i - 1) >= WindowSize
       \/ \E o \in 0..FreeWindows + 1 : Booked(p, (w + o) % Windows, i - 1) > 0
Transit(p) == Cardinality({i \in DOMAIN p.sent : IsData(p.sent[i].cmd)})

\* The one number of data commands that may go now
Sendable(p) ==
    {k \in 0..Len(p.send) :
        /\ \A i \in 1..k : ~WindowWraps(p, i) /\ Transit(p) + i <= InTransit
        /\ k < Len(p.send) => \/ WindowWraps(p, k + 1)
                              \/ Transit(p) + k + 1 > InTransit}

\* ... and what sending k does to the peer: commands to be acknowledged move
\* to the sent list, their windows are booked on the first send
CheckOutgoing(p, k) ==
    LET Again(s) == [i \in DOMAIN s |-> [s[i] EXCEPT !.tries = @ + 1]]
    IN  [p EXCEPT !.out = <<>>,
                  !.send = SubSeq(@, k + 1, Len(@)),
                  !.sent = @ \o Again(SelectSeq(p.out, LAMBDA e : Acked(e.cmd)))
                             \o Again(SubSeq(p.send, 1, k)),
                  !.wins = [w \in DOMAIN @ |-> Booked(p, w, k)]]
=============================================================================
