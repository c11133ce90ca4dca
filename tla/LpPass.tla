------------------------------- MODULE LpPass -------------------------------
(***************************************************************************)
(* The cron pass that completes matured LP withdrawals                     *)
(* (apps/web/src/server/cron/lp-pass.ts).                                  *)
(*                                                                         *)
(* A withdrawal can be completed from its unlock slot for a claim window.  *)
(* Each pass lists the positions that are due, in the order of the         *)
(* accounts, and sends at most MAX_PER_PASS completions, one transaction   *)
(* each.  Where the next pass starts in its own list rotates, "so          *)
(* positions that keep failing at the head of the (stable) order cannot    *)
(* starve the rest".                                                       *)
(***************************************************************************)
EXTENDS Integers, Sequences, FiniteSets, SequencesExt

CONSTANTS
    Positions,       \* LP positions, numbered in the order of getProgramAccounts
    Dust,            \* positions that would pay an empty wallet less than its rent
    Failing,         \* positions whose completion fails
    MAX_PER_PASS,
    CLAIM_WINDOW,    \* WITHDRAW_CLAIM_WINDOW_SLOTS, in passes
    COOLDOWN,        \* from a request to its unlock, in passes
    MaxPasses,       \* bound: passes
    MaxRequests      \* bound: withdrawals requested

NoUnlock == 0

ASSUME PassAssumption ==
    /\ Positions \subseteq Int /\ IsFiniteSet(Positions)
    /\ MAX_PER_PASS \in Nat \ {0} /\ CLAIM_WINDOW \in Nat /\ COOLDOWN \in Nat \ {0}

VARIABLES
    slot,            \* passes that have become due so far
    unlock,          \* pending_unlock_slot of each position; NoUnlock without a withdrawal
    rotate,          \* where the next pass starts
    lpass,           \* the running pass
    requested,        \* requests so far
    turn,            \* the pass of this slot is still to come
    waited           \* history: passes of this process each position was due in and not
                     \* tried, since one last joined the list

lpPassVars == <<slot, unlock, rotate, lpass, requested, turn, waited>>

no_pass == [due |-> <<>>, start |-> 0, i |-> 0, sent |-> 0, dust |-> 0]

PassInit ==
    /\ slot = 1 /\ requested = 0 /\ turn = TRUE
    /\ unlock = [p \in Positions |-> NoUnlock]
    /\ rotate = 0
    /\ lpass = no_pass
    /\ waited = [p \in Positions |-> 0]

-----------------------------------------------------------------------------
(* The LPs *)

matured(p) == unlock[p] # NoUnlock /\ slot >= unlock[p]
lapsed(p) == unlock[p] # NoUnlock /\ slot > unlock[p] + CLAIM_WINDOW

request_withdraw(p) ==
    /\ unlock[p] = NoUnlock
    /\ requested < MaxRequests
    /\ requested' = requested + 1
    /\ unlock' = [unlock EXCEPT ![p] = slot + COOLDOWN]
    /\ UNCHANGED <<slot, rotate, lpass, turn, waited>>

\* cancel_withdraw, or complete_withdraw signed by the LP.
ends_it_himself(p) ==
    /\ unlock[p] # NoUnlock
    /\ unlock' = [unlock EXCEPT ![p] = NoUnlock]
    /\ UNCHANGED <<slot, rotate, lpass, requested, turn, waited>>

-----------------------------------------------------------------------------
(* runLpAutoComplete *)

\* A minute later the cron is called again.
next_slot ==
    /\ ~turn /\ lpass = no_pass
    /\ slot < MaxPasses
    /\ slot' = slot + 1 /\ turn' = TRUE
    /\ waited' = IF \E p \in Positions : unlock[p] = slot' THEN [p \in Positions |-> 0] ELSE waited
    /\ UNCHANGED <<unlock, rotate, lpass, requested>>

\* The process starts again; its rotation starts over.
restart ==
    /\ lpass # no_pass \/ rotate # 0
    /\ rotate' = 0 /\ lpass' = no_pass
    /\ waited' = [p \in Positions |-> 0]
    /\ UNCHANGED <<slot, unlock, requested, turn>>

due_now == {p \in Positions : matured(p) /\ ~lapsed(p)}

\* The lists of a set of positions in the order of the accounts; there is one.
ascending(S) == {list \in [1..Cardinality(S) -> S] : \A j, k \in DOMAIN list : j < k => list[j] < list[k]}

\* Mutant: every pass starts at the head.
start_at_head(n) == 0

start_of(n) == rotate % n

\* With nothing due there is nothing to send, and the rotation starts over.
begin_lp_pass ==
    /\ turn /\ turn' = FALSE
    /\ IF due_now = {}
       THEN lpass' = no_pass /\ rotate' = 0
       ELSE /\ \E due \in ascending(due_now) :
                 lpass' = [no_pass EXCEPT !.due = due, !.start = start_of(Len(due))]
            /\ UNCHANGED rotate
    /\ UNCHANGED <<slot, unlock, requested, waited>>

sending == lpass.i < Len(lpass.due) /\ lpass.sent < MAX_PER_PASS
current == lpass.due[((lpass.start + lpass.i) % Len(lpass.due)) + 1]

\* Not counted against the cap.
skip_dust ==
    /\ sending /\ current \in Dust
    /\ lpass' = [lpass EXCEPT !.i = @ + 1, !.dust = @ + 1]
    /\ UNCHANGED <<slot, unlock, rotate, requested, turn, waited>>

\* complete_withdraw, without the LP's signature; it fails when the LP was first,
\* and a failure goes on to the next position.
complete ==
    /\ sending /\ current \notin Dust
    /\ lpass' = [lpass EXCEPT !.i = @ + 1, !.sent = @ + 1]
    /\ unlock' = [unlock EXCEPT ![current] =
                    IF current \notin Failing /\ matured(current) /\ ~lapsed(current) THEN NoUnlock ELSE @]
    /\ UNCHANGED <<slot, rotate, requested, turn, waited>>

tried == {lpass.due[((lpass.start + k) % Len(lpass.due)) + 1] : k \in 0..(lpass.i - 1)}

end_lp_pass ==
    /\ lpass # no_pass /\ ~sending
    /\ rotate' = lpass.start + lpass.sent + lpass.dust
    /\ lpass' = no_pass
    /\ waited' = [p \in Positions |-> IF p \in tried \/ unlock[p] = NoUnlock THEN 0
                                      ELSE IF p \in ToSet(lpass.due) THEN waited[p] + 1
                                      ELSE waited[p]]
    /\ UNCHANGED <<slot, unlock, requested, turn>>

PassNext ==
    \/ next_slot \/ restart \/ begin_lp_pass \/ skip_dust \/ complete \/ end_lp_pass
    \/ \E p \in Positions : request_withdraw(p) \/ ends_it_himself(p)

PassSpec == PassInit /\ [][PassNext]_lpPassVars

-----------------------------------------------------------------------------
(* Properties *)

\* "Positions that keep failing at the head cannot starve the rest": as long as none joins the
\* list, a position that is due gets its turn.  A pass gets at least one position further, and
\* each position that leaves shifts the list under the rotation and may cost the others one
\* more round of what is left, so the turn comes after (n - 1) + ... + 1 passes at most.
DueGetsItsTurn ==
    LET n == Cardinality(Positions)
    IN  \A p \in Positions : waited[p] <= (n * (n - 1)) \div 2

=============================================================================
