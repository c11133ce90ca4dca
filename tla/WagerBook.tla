------------------------------ MODULE WagerBook -----------------------------
(***************************************************************************)
(* What the vault promises its players, with the game left out.  A bank    *)
(* holds at most one open wager per player, each with a cap on what it may *)
(* pay.  A wager is accepted only if the bank covers its cap on top of all *)
(* open ones, and a wager that closes leaves the others covered.           *)
(***************************************************************************)
EXTENDS Integers, Totals

CONSTANTS N,           \* number of players
          InitAssets   \* what the bank starts with

VARIABLES bank, wager

vars == <<bank, wager>>

Players == 1..N
NoWager == [open |-> FALSE, bet |-> 0, cap |-> 0]

\* The sum of the caps of the open wagers.
Liability == Total([p \in Players |-> wager[p].cap], N)

Init ==
    /\ bank = InitAssets
    /\ wager = [p \in Players |-> NoWager]

\* The new wager is read off the next state.
Accept(p) ==
    LET w == wager'[p]
    IN  /\ ~wager[p].open
        /\ w.open /\ w.bet <= w.cap
        /\ w.cap <= bank - Liability
        /\ wager' = [wager EXCEPT ![p] = w]
        /\ bank' = bank + w.bet

\* The player receives at most the cap and the fees stay below the bet.
Close(p) ==
    /\ wager[p].open
    /\ wager' = [wager EXCEPT ![p] = NoWager]
    /\ bank' \in (bank - wager[p].cap - wager[p].bet)..bank
    /\ Liability' <= bank'

Next == \E p \in Players : Accept(p) \/ Close(p)

Spec == Init /\ [][Next]_vars

=============================================================================
