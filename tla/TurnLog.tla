------------------------------- MODULE TurnLog -------------------------------
(***************************************************************************)
(* What the relay promises about the match it carries, however clients     *)
(* come and go: there is one log of turns, each with its commands in one   *)
(* order; it only ever grows; and what any client has of it is a prefix    *)
(* that only ever grows until the client leaves.  So two clients that have *)
(* both simulated a turn have simulated the same commands in it.           *)
(*                                                                         *)
(* MatchStream implements this.                                            *)
(***************************************************************************)
EXTENDS Sequences, SequencesExt

CONSTANTS Client, Command

VARIABLES
    log,   \* the turns of the match, each a sequence of commands
    copy   \* client -> the sequence of turns it has, <<>> when it has none

tlvars == <<log, copy>>

Turns == Seq(Seq(Command))

Init ==
    /\ log \in Turns
    /\ DOMAIN copy = Client
    /\ \A c \in Client : copy[c] \in Turns /\ IsPrefix(copy[c], log)

\* Turns are appended, and each client is sent further turns, joins or leaves.
Next ==
    /\ log' \in Turns /\ IsPrefix(log, log')
    /\ DOMAIN copy' = Client
    /\ \A c \in Client :
         \/ copy'[c] = <<>>
         \/ IsPrefix(copy[c], copy'[c]) /\ IsPrefix(copy'[c], log')

Spec == Init /\ [][Next]_tlvars
=============================================================================
