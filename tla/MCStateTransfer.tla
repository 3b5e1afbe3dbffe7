--------------------------- MODULE MCStateTransfer ---------------------------
(***************************************************************************)
(* StateTransfer on a small instance: two players and a delayed observer,  *)
(* states of two chunks in a window of one, and a client more than there   *)
(* are peer ids.                                                           *)
(***************************************************************************)
EXTENDS StateTransfer

CONSTANTS a, b, o

MCPeer == {a, b, o}
MCWatcher == {o}
MCStarters == {{a}}
=============================================================================
