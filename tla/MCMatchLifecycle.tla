--------------------------- MODULE MCMatchLifecycle ---------------------------
(***************************************************************************)
(* MatchLifecycle with one person, two attempts at a heal, two turns and   *)
(* two checkpoint runs, under three configurations: a saved match, one on  *)
(* a server without state dumps, and an unsaved scripted one.              *)
(***************************************************************************)
EXTENDS MatchLifecycle

CONSTANTS h

MCConfig ==
    {[saving |-> TRUE, dumps |-> TRUE, scripted |-> FALSE],
     [saving |-> TRUE, dumps |-> FALSE, scripted |-> FALSE],
     [saving |-> FALSE, dumps |-> TRUE, scripted |-> TRUE]}
=============================================================================
