--------------------------- MODULE MCMatchStream ---------------------------
(***************************************************************************)
(* MatchStream on a small instance: a player, a live observer and one on   *)
(* the delayed feed, which is two turns behind; a command delay of two     *)
(* turns, and two commands, which may be for the same turn.                *)
(***************************************************************************)
EXTENDS MatchStream

CONSTANTS a, b, o

MCPeer == {a, b, o}
MCPlayer == {a}
MCDelayed == {o}

\* The instance for a match that was restarted from its save.
ResumedSpec == Init /\ phase = "Resuming" /\ [][Next]_vars
=============================================================================
