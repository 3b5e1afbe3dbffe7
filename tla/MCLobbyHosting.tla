--------------------------- MODULE MCLobbyHosting ---------------------------
(***************************************************************************)
(* LobbyHosting on seven small plans: pools with hostmes and with saved    *)
(* matches, one account through sessions that are lost, and personal mode. *)
(***************************************************************************)
EXTENDS LobbyHosting

CONSTANTS x, y

MCName == {x, y}

Basic ==
    [personal |-> FALSE, accounts |-> 1, saved |-> <<>>, senders |-> {x, y}, name |-> None,
     games |-> 2, revs |-> 0,
     left |-> [hostmes |-> 2, drops |-> 0, ends |-> 0, fails |-> 0, deaths |-> 0, signals |-> 0]]

SavedMatch(host, account) == [host |-> host, account |-> account]

MCPlans ==
    {\* Two accounts hear the same sender, and a game may fail to be hosted.
     [Basic EXCEPT !.accounts = 2, !.senders = {x}, !.left.fails = 1],
     \* Two senders want the one account.
     [Basic EXCEPT !.games = 3, !.left.hostmes = 3],
     \* Two saved matches of one host, on two accounts.
     [Basic EXCEPT !.accounts = 2, !.senders = {}, !.left.hostmes = 0,
                   !.saved = <<SavedMatch(x, 2), SavedMatch(x, 1)>>],
     \* Two saved matches for one account, whose task may die, and a signal.
     [Basic EXCEPT !.senders = {y}, !.left.hostmes = 1, !.left.fails = 1,
                   !.left.deaths = 1, !.left.signals = 1,
                   !.saved = <<SavedMatch(x, 2), SavedMatch(x, 1)>>],
     \* One game through lost sessions.
     [Basic EXCEPT !.games = 1, !.senders = {x}, !.left.hostmes = 1, !.revs = 2,
                   !.left.drops = 1, !.left.ends = 1],
     \* A player's own saved match, through a lost session.
     [Basic EXCEPT !.games = 1, !.senders = {}, !.left.hostmes = 0, !.revs = 2,
                   !.left.drops = 1, !.personal = TRUE, !.name = x,
                   !.saved = <<SavedMatch(x, 1)>>],
     \* A player's games one after another.
     [Basic EXCEPT !.senders = {}, !.left.hostmes = 0, !.revs = 1,
                   !.left.ends = 1, !.left.signals = 1, !.personal = TRUE, !.name = x]}
=============================================================================
