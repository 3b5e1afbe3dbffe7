----------------------------- MODULE PauseBudget -----------------------------
(***************************************************************************)
(* The pause quota of a match (src/src/relay/pause_budget.rs): who pauses, *)
(* what is left of each client's quota, and whether the match is held for  *)
(* players who are away.  A budget is a record and every operation maps    *)
(* one to the next, as the methods of PauseBudget do.                      *)
(*                                                                         *)
(* Time comes as the step the clock made since the check before, which may *)
(* be backwards.  A client without an entry in `remaining` has the whole   *)
(* quota, so `left` is a total function.  The countdown lines (Status,     *)
(* AbsentStatus and their anchor last_status) and the announcement of a    *)
(* coordinated pause (the field `coordinated`) are left out, and the first *)
(* check of a match, which has no time to charge for, is a step of 0.      *)
(***************************************************************************)
EXTENDS Integers, FiniteSets

CONSTANTS
    Uuid,      \* what clients are told apart by; a fresh one at each handshake
    Budget,    \* Config::pause_budget
    MinCharge, \* Config::pause_min_charge
    Skews      \* bound on the steps the clock makes backwards

ASSUME BudgetAssumption ==
    /\ {Budget, MinCharge} \subseteq Nat \ {0}
    /\ Skews \in Nat

(***************************************************************************)
(* `age` is last_check - paused_at.  Once it is MinCharge + Skews no more  *)
(* is due whatever the clock still does, so it is counted no further.      *)
(***************************************************************************)
OldPause == MinCharge + Skews

Ages == -Skews .. OldPause

PauseBudgets ==
    [pausing : SUBSET Uuid, left : [Uuid -> 0 .. Budget], age : [Uuid -> Ages],
     held : BOOLEAN]

NewBudget ==
    [pausing |-> {},
     left |-> [u \in Uuid |-> Budget],
     age |-> [u \in Uuid |-> OldPause],
     held |-> FALSE]         \* auto_paused

AtLeastZero(n) == IF n > 0 THEN n ELSE 0

Capped(n, cap) == IF n < cap THEN n ELSE cap

\* A mutant of Elapsed: a clock stepping back hands time back.
ElapsedSigned(b, step) == step

\* A mutant of Elapsed: time in whole units of two, at each check anew.
ElapsedTruncated(b, step) == AtLeastZero(step) \div 2

\* The signed duration since the last check that a check charges for.
Elapsed(b, step) == AtLeastZero(step)

\* What a pause lifted now still owes of the minimum.
Shortfall(b, u) == AtLeastZero(MinCharge - AtLeastZero(b.age[u]))

\* The pauses of us are over, unpaused or left.
UnpausedAll(b, us) ==
    [pausing |-> b.pausing \ us,
     left |-> [u \in Uuid |-> IF u \in us \cap b.pausing
                              THEN AtLeastZero(b.left[u] - Shortfall(b, u)) ELSE b.left[u]],
     age |-> [u \in Uuid |-> IF u \in us THEN OldPause ELSE b.age[u]],
     held |-> b.held]

Unpaused(b, u) == UnpausedAll(b, {u})

Paused(b, u) ==
    IF u \in b.pausing THEN b
    ELSE [pausing |-> b.pausing \cup {u}, left |-> b.left,
          age |-> [b.age EXCEPT ![u] = 0], held |-> b.held]

\* The quota follows the slot from the client that left it to the one back.
Inherit(b, old, new) ==
    [pausing |-> b.pausing,
     left |-> [u \in Uuid |-> IF u = old THEN Budget
                              ELSE IF u = new THEN b.left[old] ELSE b.left[u]],
     age |-> b.age, held |-> b.held]

(***************************************************************************)
(* One check, `players` clients holding slots and `absent` being waited    *)
(* for.  The absent are charged after the pausing, and during a            *)
(* coordinated pause too; a quota that ends while its owner pauses ends    *)
(* the pause.                                                              *)
(***************************************************************************)
Check(b, step, players, absent) ==
    LET elapsed == Elapsed(b, step)
        coordinated == players >= 2 /\ Cardinality(b.pausing) = players
        Charged(left, us) ==
            [u \in Uuid |-> IF u \in us THEN AtLeastZero(left[u] - elapsed) ELSE left[u]]
        drained == IF coordinated THEN b.left ELSE Charged(b.left, b.pausing)
        spent == {u \in b.pausing : drained[u] = 0}
        left == Charged(drained, absent)
    IN  [pausing |-> b.pausing \ spent,
         left |-> left,
         age |-> [u \in Uuid |-> IF u \in b.pausing \ spent
                                 THEN Capped(b.age[u] + step, OldPause) ELSE OldPause],
         held |-> \E u \in absent : left[u] > 0]
=============================================================================
