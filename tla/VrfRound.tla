------------------------------ MODULE VrfRound ------------------------------
(***************************************************************************)
(* The life of a VRF round (pinocchio/kaboom-p/src/ix/vrf.rs).             *)
(*                                                                         *)
(* A player opens a round on L1: the bet moves into the vault, the worst   *)
(* case payout is added to the vault's outstanding reservations, and two   *)
(* accounts are created: the claim, which stays on L1, and the game, which *)
(* is delegated to the ephemeral rollup (ER).  On the ER every click asks  *)
(* the VRF oracle for randomness, which arrives in a later callback.  A    *)
(* finished or idle game is committed and undelegated back to L1, where    *)
(* anyone may settle it; stalled and abandoned rounds are refunded or      *)
(* released.  The claim and the game are two accounts on two chains, kept  *)
(* together only by the order in which instructions are possible: that is  *)
(* what this module is about.                                              *)
(*                                                                         *)
(* Players are numbered 1..N (the program keys accounts by wallet).  Time  *)
(* is kept as the age of each claim in slots since start_slot.             *)
(***************************************************************************)
EXTENDS KaboomMath, Totals

CONSTANTS
    N,                  \* number of players
    Bets, MineCounts,   \* start arguments a player may send
    Tiles,              \* tile indices a player may click
    Words,              \* random words the oracle may return
    Edges,              \* house edges (bps) the owner may configure
    MIN_BET_LAMPORTS,   \* consts.rs
    STALL_SLOTS,        \* consts.rs: a round may be refunded after this age
    ABANDON_SLOTS,      \* consts.rs: the owner may release a claim after this age
    MaxBetBps, MaxPayoutBps, VrfMaxPayoutBps, MinHealthBps, TreasurySplitBps, \* vault config
    Referred,           \* players with a referrer
    ReferralCuts,       \* referral cuts (bps) of the tiers
    InitAssets, InitUnits, InitPendingUnits, \* the vault when observation starts
    MaxRounds           \* bound: rounds a player starts

Players == 1..N
NO_TILE == 255

ASSUME RoundAssumption ==
    /\ N \in Nat \ {0}
    /\ Bets \subseteq Nat /\ MineCounts \subseteq Nat
    /\ Tiles \subseteq 0..(GRID_SIZE - 1) /\ NO_TILE \notin Tiles
    /\ Words \subseteq Nat
    /\ Edges \subseteq 0..BPS
    /\ Referred \subseteq Players
    /\ ReferralCuts \subseteq Nat
    /\ {MIN_BET_LAMPORTS, STALL_SLOTS, ABANDON_SLOTS, MaxBetBps, MaxPayoutBps, VrfMaxPayoutBps,
        MinHealthBps, TreasurySplitBps, InitAssets, InitUnits, InitPendingUnits, MaxRounds} \subseteq Nat

\* The ranges the configuration instructions and consts.rs leave: shares of at
\* most one, an edge (at most 10%) that leaves a cleared board worth the bet,
\* fees below the bet, and a health floor (at least 1%) that covers the fees of
\* a round by its worst case: cut + later <= 10.7% against 1% of 14 bets.
ASSUME FeeAssumption ==
    /\ {MaxPayoutBps, VrfMaxPayoutBps, TreasurySplitBps} \subseteq 0..BPS
    /\ \A edge \in Edges, later \in Edges, cut \in ReferralCuts :
        /\ cut + later <= BPS
        /\ cut + later <= MinHealthBps * ((GRID_SIZE * (BPS - edge)) \div BPS)
    /\ \A edge \in Edges : GRID_SIZE * (BPS - edge) >= BPS

VARIABLES
    assets,               \* vault lamports above its rent (helpers::vault_assets)
    outstanding,          \* v2_state.total_outstanding_max_payout
    total_units,          \* v2_state.total_units
    total_pending_units,  \* v2_state.total_pending_units
    mode,                 \* admission: "open", "closed" (paused or VRF mode off), "unpinned" (no validator)
    house_edge,           \* vault.house_edge_bps
    claim,                \* VrfClaim account of each player
    game,                 \* VrfGame account of each player, wherever it lives
    requests,             \* VRF requests in flight for each player's game
    rounds                \* rounds each player has started (numbers the rounds)

vars == <<assets, outstanding, total_units, total_pending_units, mode, house_edge,
          claim, game, requests, rounds>>
units == <<total_units, total_pending_units>>
config == <<mode, house_edge>>

\* A closed claim account, and a player without a game account.
NoClaim == [live |-> FALSE, bet |-> 0, reserved |-> 0, mines |-> 0, edge |-> 0,
            age |-> 0, round |-> 0]
NoGame == [at |-> "none", status |-> "PLAYING", pending |-> FALSE, tile |-> NO_TILE,
           mines |-> 0, edge |-> 0, revealed |-> {}, safe |-> 0, reveals |-> <<>>, mult |-> 0]

\* "L1": owned by the program.  "ER": owned by the delegation program on L1
\* and playable on the rollup.  "returning": commit and undelegate scheduled,
\* frozen on the rollup and not yet handed back to the program on L1.
Places == {"none", "L1", "ER", "returning"}
Statuses == {"PLAYING", "WON", "LOST", "VOID"}

ClaimType == [live: BOOLEAN, bet: Nat, reserved: Nat, mines: Nat, edge: 0..BPS,
              age: Nat, round: Nat]
RevealType == [tile: Tiles, rand: Words, round: Nat]
GameType == [at: Places, status: Statuses, pending: BOOLEAN, tile: Tiles \cup {NO_TILE},
             mines: Nat, edge: 0..BPS, revealed: SUBSET Tiles, safe: Nat,
             reveals: Seq(RevealType), mult: Nat]
RequestType == [round: Nat, tile: Tiles]

Init ==
    /\ assets = InitAssets
    /\ outstanding = 0
    /\ total_units = InitUnits
    /\ total_pending_units = InitPendingUnits
    /\ mode = "open"
    /\ house_edge \in Edges
    /\ claim = [p \in Players |-> NoClaim]
    /\ game = [p \in Players |-> NoGame]
    /\ requests = [p \in Players |-> {}]
    /\ rounds = [p \in Players |-> 0]

-----------------------------------------------------------------------------
(* Opening a round *)

\* Mutant: a close that forgets the reservation.
release_outstanding_leaks(amount) == outstanding

release_outstanding(amount) == saturating_sub(outstanding, amount)

\* The admission checks of start_game_vrf: both caps shrink with the health
\* of the vault before the bet arrives.
admissible(bet, mines) ==
    LET health     == calc_health_bps(assets, outstanding, total_pending_units, total_units)
        payout_bps == min2(MaxPayoutBps, VrfMaxPayoutBps)
    IN  /\ mines \in 1..(GRID_SIZE - 1)
        /\ bet >= MIN_BET_LAMPORTS
        /\ bet <= mul_div_floor(assets, (MaxBetBps * health) \div BPS, BPS)
        /\ worst_case_payout(bet, mines, house_edge)
               <= mul_div_floor(assets, (payout_bps * health) \div BPS, BPS)

\* The account a start finds at the game's address: a new one, or an orphan
\* left by admin_release_vrf_claim.  Either way it is all zeroes.
reuse_orphan_game(g) == NoGame

start_game_vrf(p, mines, bet) ==
    LET worst == worst_case_payout(bet, mines, house_edge)
    IN  /\ rounds[p] < MaxRounds
        /\ ~claim[p].live              \* init of the claim fails on a live one
        /\ game[p].at \in {"none", "L1"} \* L1: an orphan; elsewhere init fails
        /\ mode = "open"
        /\ VrfMaxPayoutBps > 0
        /\ admissible(bet, mines)
        /\ enforce_min_health(MinHealthBps, assets + bet, outstanding + worst,
                              total_pending_units, total_units)
        /\ rounds' = [rounds EXCEPT ![p] = @ + 1]
        /\ claim' = [claim EXCEPT ![p] = [live |-> TRUE, bet |-> bet, reserved |-> worst,
                        mines |-> mines, edge |-> house_edge, age |-> 0, round |-> rounds[p] + 1]]
        /\ game' = [game EXCEPT ![p] = [reuse_orphan_game(@) EXCEPT !.at = "L1", !.status = "PLAYING",
                        !.mines = mines, !.edge = house_edge, !.tile = NO_TILE, !.mult = BPS]]
        /\ assets' = assets + bet
        /\ outstanding' = outstanding + worst
        /\ UNCHANGED <<units, config, requests>>

\* check_vrf_game_delegable: the claim is not looked at.
check_vrf_game_delegable(g) == g.at = "L1" /\ g.status = "PLAYING" /\ ~g.pending

delegate_vrf(p) ==
    /\ mode # "unpinned"
    /\ check_vrf_game_delegable(game[p])
    /\ game' = [game EXCEPT ![p].at = "ER"]
    /\ UNCHANGED <<assets, outstanding, units, config, claim, requests, rounds>>

-----------------------------------------------------------------------------
(* Playing on the rollup *)

\* A click, signed by the round's session key.  The pinned oracle queue only
\* exists on the rollup, so a request succeeds only there.
reveal_request_ok(g, tile) ==
    g.status = "PLAYING" /\ ~g.pending /\ tile \notin g.revealed

reveal_request_vrf(p, tile) ==
    /\ game[p].at = "ER"
    /\ reveal_request_ok(game[p], tile)
    /\ game' = [game EXCEPT ![p].pending = TRUE, ![p].tile = tile]
    /\ requests' = [requests EXCEPT ![p] = @ \cup {[round |-> rounds[p], tile |-> tile]}]
    /\ UNCHANGED <<assets, outstanding, units, config, claim, rounds>>

\* What the callback writes: the reveal is recorded, the verdict follows from
\* the random word, and the last safe tile wins the round.
apply_reveal(g, rand, round) ==
    LET mine == decide_mine(rand, g.safe, g.mines)
        safe == IF mine THEN g.safe ELSE g.safe + 1
    IN  [g EXCEPT
            !.reveals  = Append(@, [tile |-> g.tile, rand |-> rand, round |-> round]),
            !.revealed = @ \cup {g.tile},
            !.pending  = FALSE,
            !.tile     = NO_TILE,
            !.safe     = safe,
            !.mult     = IF mine THEN @ ELSE calc_multiplier(safe, g.mines, g.edge),
            !.status   = IF mine THEN "LOST"
                         ELSE IF safe >= GRID_SIZE - g.mines THEN "WON" ELSE @]

\* The oracle answers one request in flight.  The callback is addressed to
\* the game account alone: it checks that some reveal is pending, not which.
reveal_callback_vrf(p, rand) ==
    \E q \in requests[p] :
        /\ game[p].at = "ER"
        /\ game[p].pending
        /\ Len(game[p].reveals) < GRID_SIZE
        /\ \/ decide_mine(rand, game[p].safe, game[p].mines)
           \/ multiplier_defined(game[p].safe + 1, game[p].mines)
        /\ game' = [game EXCEPT ![p] = apply_reveal(@, rand, q.round)]
        /\ requests' = [requests EXCEPT ![p] = @ \ {q}]
        /\ UNCHANGED <<assets, outstanding, units, config, claim, rounds>>

\* Mutant: a reveal in flight does not block the cash-out.
cash_out_ok_while_pending(g) == g.status = "PLAYING" /\ g.safe > 0

cash_out_ok(g) == g.status = "PLAYING" /\ ~g.pending /\ g.safe > 0

cash_out_vrf(p) ==
    /\ game[p].at \in {"L1", "ER"}
    /\ cash_out_ok(game[p])
    /\ game' = [game EXCEPT ![p].status = "WON"]
    /\ UNCHANGED <<assets, outstanding, units, config, claim, requests, rounds>>

-----------------------------------------------------------------------------
(* Leaving the rollup *)

\* A reveal in flight keeps an unfinished game on the rollup.
may_end_playing(g) == g.status = "PLAYING" => ~g.pending

\* Mutant: a game without progress is closed as won.
end_playing_won(g) == IF g.status = "PLAYING" THEN [g EXCEPT !.status = "WON"] ELSE g

end_playing(g) ==
    IF g.status = "PLAYING"
    THEN [g EXCEPT !.status = IF g.safe > 0 THEN "WON" ELSE "VOID"]
    ELSE g

\* Commit and undelegate: from here the rollup no longer writes the account.
schedule_undelegate(p) ==
    /\ game[p].at = "ER"
    /\ may_end_playing(game[p])
    /\ game' = [game EXCEPT ![p] = [end_playing(@) EXCEPT !.at = "returning"]]
    /\ UNCHANGED <<assets, outstanding, units, config, claim, requests, rounds>>

\* The same step signed by the player or session key, and by the house.
settle_and_undelegate_vrf(p) == schedule_undelegate(p)
force_undelegate_vrf(p) == schedule_undelegate(p)

\* The delegation program hands the committed account back on L1.
process_undelegation(p) ==
    /\ game[p].at = "returning"
    /\ game' = [game EXCEPT ![p].at = "L1"]
    /\ UNCHANGED <<assets, outstanding, units, config, claim, requests, rounds>>

-----------------------------------------------------------------------------
(* Closing a round on L1 *)

\* Recomputes the verdict of a committed game from its random words, stopping
\* at the first mine.
replayed(g) ==
    LET run[i \in 0..Len(g.reveals)] ==
            IF i = 0 THEN [safe |-> 0, lost |-> FALSE]
            ELSE LET before == run[i-1]
                 IN  IF before.lost THEN before
                     ELSE IF decide_mine(g.reveals[i].rand, before.safe, g.mines)
                          THEN [before EXCEPT !.lost = TRUE]
                          ELSE [before EXCEPT !.safe = @ + 1]
    IN  run[Len(g.reveals)]

replay(g, c) ==
    LET r == replayed(g)
    IN  /\ g.status \in {"WON", "LOST"}
        /\ g.mines = c.mines
        /\ g.edge = c.edge
        /\ Len(g.reveals) <= GRID_SIZE
        /\ r.safe = g.safe
        /\ g.status = IF r.lost THEN "LOST" ELSE "WON"
        /\ r.lost \/ r.safe > 0
        /\ multiplier_defined(r.safe, g.mines)
        /\ g.mult = calc_multiplier(r.safe, g.mines, g.edge)

payout(c, g) == IF g.status = "LOST" THEN 0 ELSE mul_div_floor(c.bet, g.mult, BPS)

\* Lamports the referrer and then the treasury take out of a vault holding
\* `held` once the player is paid and `out` is still reserved: the referral
\* cut is bounded by the vault alone, the treasury's by its free liquidity.
referral_cut(p, held, bps) == IF p \in Referred
                              THEN min2(mul_div_floor(claim[p].bet, bps, BPS), held) ELSE 0
treasury_cut(p, held, out) ==
    treasury_fee(claim[p].bet, house_edge, TreasurySplitBps, held, out,
                 total_pending_units, total_units)

\* Mutant: the claim outlives the payment.
close_claim_left_open(p) == UNCHANGED claim

\* Closing the claim returns its rent; the round is over.
close_claim(p) == claim' = [claim EXCEPT ![p] = NoClaim]

settle_vrf(p) ==
    LET pay == payout(claim[p], game[p])
        out == release_outstanding(claim[p].reserved)
    IN  /\ claim[p].live
        /\ game[p].at = "L1"
        /\ replay(game[p], claim[p])
        /\ pay <= claim[p].reserved
        /\ pay <= assets
        /\ outstanding' = out
        /\ \E bps \in ReferralCuts :
             LET ref == referral_cut(p, assets - pay, bps)
             IN  assets' = assets - pay - ref - treasury_cut(p, assets - pay - ref, out)
        /\ close_claim(p)
        /\ game' = [game EXCEPT ![p] = NoGame]
        /\ UNCHANGED <<units, config, requests, rounds>>

\* Mutant: a decided game is taken for a stalled one.
refundable_won(g, by) == g.at = "L1" /\ g.status # "LOST" /\ (by = "house" => g.safe = 0 /\ ~g.pending)

\* The house may refund only a game without progress; the player any stalled one.
refundable(g, by) ==
    /\ g.at = "L1"
    /\ g.status \in {"PLAYING", "VOID"}
    /\ by = "house" => g.safe = 0 /\ ~g.pending

refund_stalled_vrf(p, by) ==
    /\ claim[p].live
    /\ claim[p].age > STALL_SLOTS
    /\ refundable(game[p], by)
    /\ claim[p].bet <= assets
    /\ outstanding' = release_outstanding(claim[p].reserved)
    /\ assets' = assets - claim[p].bet
    /\ game' = [game EXCEPT ![p] = NoGame]
    /\ close_claim(p)
    /\ UNCHANGED <<units, config, requests, rounds>>

\* The owner gives up on a round: the game is left wherever it is.
admin_release_vrf_claim(p) ==
    /\ claim[p].live
    /\ claim[p].age > ABANDON_SLOTS
    /\ outstanding' = release_outstanding(claim[p].reserved)
    /\ assets' = assets - min2(claim[p].bet, admin_spendable(assets, total_units))
    /\ close_claim(p)
    /\ UNCHANGED <<units, config, game, requests, rounds>>

-----------------------------------------------------------------------------
(* The owner's configuration and the clock *)

update_vault(edge) ==
    /\ edge # house_edge
    /\ house_edge' = edge
    /\ UNCHANGED <<assets, outstanding, units, mode, claim, game, requests, rounds>>

\* update_vault pauses; update_v2_config switches VRF mode and the validator.
set_mode(m) ==
    /\ m # mode
    /\ mode' = m
    /\ UNCHANGED <<assets, outstanding, units, house_edge, claim, game, requests, rounds>>

\* A slot passes.  Ages beyond every threshold need not be told apart.
tick ==
    /\ \E p \in Players : claim[p].live /\ claim[p].age <= ABANDON_SLOTS
    /\ claim' = [p \in Players |->
                   IF claim[p].live
                   THEN [claim[p] EXCEPT !.age = min2(@ + 1, ABANDON_SLOTS + 1)]
                   ELSE claim[p]]
    /\ UNCHANGED <<assets, outstanding, units, config, game, requests, rounds>>

PlayerStep(p) ==
    \/ \E mines \in MineCounts, bet \in Bets : start_game_vrf(p, mines, bet)
    \/ delegate_vrf(p)
    \/ \E tile \in Tiles : reveal_request_vrf(p, tile)
    \/ cash_out_vrf(p)
    \/ settle_and_undelegate_vrf(p)
    \/ refund_stalled_vrf(p, "player")

CrankStep(p) ==
    \/ \E rand \in Words : reveal_callback_vrf(p, rand)
    \/ force_undelegate_vrf(p)
    \/ process_undelegation(p)
    \/ settle_vrf(p)
    \/ refund_stalled_vrf(p, "house")

OwnerStep ==
    \/ \E p \in Players : admin_release_vrf_claim(p)
    \/ \E edge \in Edges : update_vault(edge)
    \/ \E m \in {"open", "closed", "unpinned"} : set_mode(m)

Next == tick \/ OwnerStep \/ \E p \in Players : PlayerStep(p) \/ CrankStep(p)

Spec == Init /\ [][Next]_vars

-----------------------------------------------------------------------------
(* Properties *)

\* Type correctness; a tile is stored exactly while a reveal is pending
\* (PENDING and PENDING_TILE are written together everywhere).
TypeOK ==
    /\ assets \in Nat
    /\ outstanding \in Nat
    /\ total_units \in Nat
    /\ total_pending_units \in Nat
    /\ mode \in {"open", "closed", "unpinned"}
    /\ house_edge \in Edges
    /\ claim \in [Players -> ClaimType]
    /\ game \in [Players -> GameType]
    /\ requests \in [Players -> SUBSET RequestType]
    /\ rounds \in [Players -> Nat]
    /\ \A p \in Players : game[p].pending <=> game[p].tile # NO_TILE

\* The counter start_game_vrf adds to and settle_vrf, refund_stalled_vrf and
\* admin_release_vrf_claim subtract from (saturating) is exactly the sum of
\* the reservations of the live claims: no round leaks its reservation and
\* none is released twice, whatever the order in which rounds of several
\* players open and close.
OutstandingExact ==
    outstanding = Total([p \in Players |-> claim[p].reserved], N)

\* A game in the program's hands on L1 that is still PLAYING was never
\* delegated: no progress, no reveal in flight (spec/vrf.md, F3 round 2).
\* The cron's refund pass relies on it never to refund away winnings.
L1PlayingIsFresh ==
    \A p \in Players :
        game[p].at \in {"L1", "returning"} =>
            /\ ~game[p].pending
            /\ game[p].status = "PLAYING" => game[p].safe = 0 /\ game[p].reveals = <<>>

\* A live claim always has its own round's game: the same mines and edge as
\* the claim, and reveals of this round only, although releasing a claim
\* leaves its game behind and a later start takes that account over.
ClaimOwnsGame ==
    \A p \in Players : claim[p].live =>
        /\ game[p].at # "none"
        /\ claim[p].round = rounds[p]
        /\ game[p].mines = claim[p].mines /\ game[p].edge = claim[p].edge
        /\ \A i \in DOMAIN game[p].reveals : game[p].reveals[i].round = claim[p].round

\* Every request in flight is the one its game is waiting for, in the same
\* round and for the same tile, and a waiting game has its request in flight.
\* The callback carries no request id, so nothing else keeps an old answer
\* from deciding a later click.
OracleInStep ==
    \A p \in Players :
        requests[p] = IF game[p].pending THEN {[round |-> rounds[p], tile |-> game[p].tile]} ELSE {}

\* The settlement of a decided game cannot be refused: the replay agrees with
\* what the callbacks committed and the payout fits the reservation, also when
\* the owner has changed the edge since the round began.
DecidedSettles ==
    \A p \in Players :
        claim[p].live /\ game[p].status \in {"WON", "LOST"} =>
            /\ replay(game[p], claim[p])
            /\ payout(claim[p], game[p]) <= claim[p].reserved

\* The vault covers every reservation it has made, so that a winner is never
\* turned away with VaultInsufficientFunds, although referral and treasury
\* cuts leave the vault as well.
Covered == outstanding <= assets

\* A verdict is final: once WON, LOST or VOID a game only changes place or is
\* closed (a late callback, a second cash-out or a forced close cannot revise it).
VerdictIsFinal ==
    [][\A p \in Players :
        (game[p].status # "PLAYING" /\ claim[p].live /\ claim'[p].live) =>
            /\ game'[p].status = game[p].status
            /\ game'[p].safe = game[p].safe
            /\ game'[p].reveals = game[p].reveals]_vars

\* Earned winnings are paid: a round that closes while its game has progress
\* and no mine pays the player at least the multiplier reached, unless the
\* owner writes it off after ABANDON_SLOTS.
ProgressIsPaid ==
    [][\A p \in Players :
        (/\ claim[p].live /\ ~claim'[p].live
         /\ claim[p].age <= ABANDON_SLOTS
         /\ game[p].safe > 0 /\ game[p].status # "LOST") =>
            assets' <= assets - mul_div_floor(claim[p].bet, game[p].mult, BPS)]_vars

\* Every round is closed in the end, whatever its player does or leaves
\* undone and however the owner pauses the vault: F3 made an idle or finished
\* game closable by the house and by anyone.
EveryRoundCloses == \A p \in Players : claim[p].live ~> ~claim[p].live

-----------------------------------------------------------------------------
(* The strengthening that makes the safety invariants inductive *)

\* A closed claim reserves nothing; a reveal is in flight only for a playing
\* game on the rollup; a VOID game has no progress to lose.
Strengthening ==
    \A p \in Players :
        /\ ~claim[p].live => claim[p] = NoClaim
        /\ game[p].pending => game[p].at = "ER" /\ game[p].status = "PLAYING"
        /\ game[p].status = "VOID" => game[p].safe = 0

\* The inductive invariant: what each account may look like given the others.
RoundInv ==
    /\ TypeOK
    /\ OutstandingExact
    /\ Strengthening
    /\ L1PlayingIsFresh
    /\ ClaimOwnsGame
    /\ OracleInStep

-----------------------------------------------------------------------------
(* What the vault promises, without games, rollup or oracle *)

Book == INSTANCE WagerBook WITH
    bank <- assets,
    wager <- [p \in Players |-> [open |-> claim[p].live, bet |-> claim[p].bet,
                                 cap |-> claim[p].reserved]]

\* The round protocol implements the wager book: the vault changes only when
\* a wager is accepted or closed, each wager closes once, for no more than its
\* cap plus fees below the bet, and the bank always covers the open caps.
ImplementsBook == Book!Spec

=============================================================================
