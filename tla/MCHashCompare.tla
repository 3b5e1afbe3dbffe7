--------------------------- MODULE MCHashCompare ---------------------------
(***************************************************************************)
(* HashCompare on a small instance: two clients that may each be a player  *)
(* or an observer, the AI host, two hashes, and turns of which the first   *)
(* and every third need a full hash.                                       *)
(***************************************************************************)
EXTENDS HashCompare, TLC

CONSTANTS a, b, ai, h1, h2

MCPeer == {a, b, ai}
MCHash == {h1, h2}
MCSymmetry == Permutations({a, b}) \cup Permutations(MCHash)
=============================================================================
