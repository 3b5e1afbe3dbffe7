--------------------------- MODULE MCTurnRelease ---------------------------
(***************************************************************************)
(* TurnRelease on a small instance: two clients that may each be a player, *)
(* an observer or on the delayed feed, and the AI host; a command delay of *)
(* two turns; with and without a lag limit, with and without the clock.    *)
(***************************************************************************)
EXTENDS TurnRelease

CONSTANTS a, b, ai, noLimit

MCPeer == {a, b, ai}
MCLagLimits == {noLimit, 1}
=============================================================================
