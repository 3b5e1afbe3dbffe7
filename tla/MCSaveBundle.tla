---------------------------- MODULE MCSaveBundle ----------------------------
(***************************************************************************)
(* SaveBundle on a small instance: a match of up to three turns on up to   *)
(* four runs of the server, of which the fourth start exceeds the two      *)
(* resume attempts.                                                        *)
(***************************************************************************)
EXTENDS SaveBundle
=============================================================================
