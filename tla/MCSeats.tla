------------------------------- MODULE MCSeats -------------------------------
(***************************************************************************)
(* Two players and an observer around two slots that may be shared: h may  *)
(* not lead the game, b may, and is kept a second uuid to come back under. *)
(***************************************************************************)
EXTENDS Seats
CONSTANTS h, b, o

MCName == {h, b, o}
MCUuid == {<<h, 1>>, <<b, 1>>, <<b, 2>>, <<o, 1>>}
MCHosts == {b}
MCWatchers == {o}
MCWelcome == {o}
MCSlot == {1, 2}
=============================================================================
