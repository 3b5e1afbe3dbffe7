---------------------------- MODULE MCBundleLock ----------------------------
(***************************************************************************)
(* Two servers started on the save directory of a crashed one.             *)
(***************************************************************************)
EXTENDS BundleLock

CONSTANTS a, b

MCProcess == {a, b}
=============================================================================
