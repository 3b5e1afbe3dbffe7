------------------------------ MODULE FifoLink ------------------------------
(***************************************************************************)
(* What the relay counts on from its connections ("Every message rides one *)
(* reliable channel, so ordering is guaranteed", enet_task.rs): a session  *)
(* comes up at most once at a host; while it is up at an end, that end is  *)
(* handed the other side's messages of the same session, in order, each    *)
(* once; and it may go down at any time, losing what was not handed over.  *)
(***************************************************************************)
EXTENDS Integers

CONSTANTS Ends, Hosts, Sessions, HostOf(_)

VARIABLES up,     \* end  -> the session it was told is up, 0 for none
          known,  \* host -> the sessions that ever came up there
          sent,   \* host -> session -> messages taken from the application
          got     \* end  -> messages of its session handed over

lvars == <<up, known, sent, got>>

Init ==
    /\ up = [e \in Ends |-> 0]
    /\ known = [h \in Hosts |-> {}]
    /\ sent = [h \in Hosts |-> [s \in Sessions |-> 0]]
    /\ got = [e \in Ends |-> 0]

ComeUp(e, s) ==
    /\ up[e] = 0 /\ s \notin known[HostOf(e)]
    /\ up' = [up EXCEPT ![e] = s]
    /\ known' = [known EXCEPT ![HostOf(e)] = @ \cup {s}]
    /\ UNCHANGED <<sent, got>>

Send(e) ==
    /\ up[e] # 0
    /\ sent' = [sent EXCEPT ![HostOf(e)][up[e]] = @ + 1]
    /\ UNCHANGED <<up, known, got>>

HandOver(e) ==
    /\ up[e] # 0
    /\ \E h \in Hosts \ {HostOf(e)} : got[e] < sent[h][up[e]]
    /\ got' = [got EXCEPT ![e] = @ + 1]
    /\ UNCHANGED <<up, known, sent>>

GoDown(e) ==
    /\ up[e] # 0
    /\ up' = [up EXCEPT ![e] = 0]
    /\ got' = [got EXCEPT ![e] = 0]
    /\ UNCHANGED <<known, sent>>

Next == \E e \in Ends :
    \/ \E s \in Sessions : ComeUp(e, s)
    \/ Send(e)
    \/ HandOver(e)
    \/ GoDown(e)

Spec == Init /\ [][Next]_lvars
=============================================================================
