----------------------------- MODULE LegacyGame -----------------------------
(***************************************************************************)
(* The wind-down of the commit-reveal games                                *)
(* (pinocchio/kaboom-p/src/ix/legacy_game.rs).                             *)
(*                                                                         *)
(* start_game is disabled, so the sessions are those that exist: fresh     *)
(* ones, each with its reservation in the vault's outstanding counter and  *)
(* a commitment to a mine layout.  The player supplied the commitment, so  *)
(* the house may not know its preimage.  The house reveals tiles and has   *)
(* to disclose the layout to settle; the player cashes out, takes a        *)
(* refund, or walks away, after which expire_game is open to anyone.       *)
(* Payment, release of the reservation and closing of the account are      *)
(* separate instructions of different signers.                             *)
(***************************************************************************)
EXTENDS KaboomMath, Totals, FiniteSets

CONSTANTS
    N,                             \* number of sessions, one per player
    Tiles,                         \* tiles the house may reveal
    Bets, Layouts,                 \* of the sessions found
    Edges,                         \* house edges (bps) the owner may configure
    GAME_EXPIRY_SLOTS, CLOSE_UNSETTLED_EXPIRY_SLOTS,   \* consts.rs
    ReferralCut, TreasurySplitBps, \* fees at settlement
    InitAssets,                    \* vault lamports found
    OtherReserved,                 \* reservations of the VRF rounds
    TotalUnits, PendingUnits       \* LP units found

Players == 1..N

ASSUME LegacyAssumption ==
    /\ N \in Nat
    /\ Tiles \subseteq 0..(GRID_SIZE - 1)
    /\ Bets \subseteq Nat
    /\ \A l \in Layouts : l \subseteq 0..(GRID_SIZE - 1) /\ Cardinality(l) \in 1..(GRID_SIZE - 1)
    /\ Edges \subseteq 0..BPS
    /\ {GAME_EXPIRY_SLOTS, CLOSE_UNSETTLED_EXPIRY_SLOTS, ReferralCut, TreasurySplitBps,
        InitAssets, OtherReserved, TotalUnits, PendingUnits} \subseteq Nat

VARIABLES
    assets,        \* vault lamports above its rent
    outstanding,   \* v2_state.total_outstanding_max_payout
    house_edge,    \* vault.house_edge_bps
    game,          \* GameSession of each player
    received       \* history: payments a session made, as a sequence of lamports

vars == <<assets, outstanding, house_edge, game, received>>

\* Slots since start_slot need not be told apart beyond both expiries.
MaxAge == 1 + IF GAME_EXPIRY_SLOTS > CLOSE_UNSETTLED_EXPIRY_SLOTS
              THEN GAME_EXPIRY_SLOTS ELSE CLOSE_UNSETTLED_EXPIRY_SLOTS

\* `layout` is the preimage of the commitment; `known` says whether the house has it.
fresh(bet, layout, known, edge) ==
    [status |-> "PLAYING", settled |-> FALSE, bet |-> bet, mines |-> Cardinality(layout),
     max_payout |-> worst_case_payout(bet, Cardinality(layout), edge),
     layout |-> layout, known |-> known, revealed |-> {}, safe |-> {}, mult |-> BPS, age |-> 0]

closed == [status |-> "CLOSED", settled |-> FALSE, bet |-> 0, mines |-> 0, max_payout |-> 0,
           layout |-> {}, known |-> FALSE, revealed |-> {}, safe |-> {}, mult |-> BPS, age |-> 0]

\* The reservation a session still holds.
reserved(g) == IF g.status = "PLAYING" \/ (g.status \in {"WON", "LOST"} /\ ~g.settled)
               THEN g.max_payout ELSE 0

Reserved == Total([p \in Players |-> reserved(game[p])], N)

Init ==
    /\ assets = InitAssets
    /\ house_edge \in Edges
    /\ game \in [Players -> {fresh(bet, layout, known, house_edge) :
                                bet \in Bets, layout \in Layouts, known \in BOOLEAN}]
    /\ outstanding = OtherReserved + Reserved
    /\ received = [p \in Players |-> <<>>]

-----------------------------------------------------------------------------
(* Playing *)

expired(g) == g.age > GAME_EXPIRY_SLOTS

\* The house says what is under a tile; nothing checks it before settle_game.
\* Clearing the board sets WON and pays nothing (spec/legacy-game.md, section 2).
reveal_tile(p, tile, is_mine) ==
    LET g    == game[p]
        safe == Cardinality(g.safe) + 1
    IN  /\ g.status = "PLAYING"
        /\ ~expired(g)
        /\ tile \notin g.revealed
        /\ \/ /\ is_mine
              /\ game' = [game EXCEPT ![p].status = "LOST", ![p].revealed = @ \cup {tile}]
           \/ /\ ~is_mine
              /\ multiplier_defined(safe, g.mines)
              /\ game' = [game EXCEPT
                    ![p].revealed = @ \cup {tile},
                    ![p].safe = @ \cup {tile},
                    ![p].mult = calc_multiplier(safe, g.mines, house_edge),
                    ![p].status = IF safe >= GRID_SIZE - g.mines THEN "WON" ELSE @]
        /\ UNCHANGED <<assets, outstanding, house_edge, received>>

\* The vault pays a session's player.
pay(p, lamports) ==
    /\ lamports <= assets
    /\ assets' = assets - lamports
    /\ received' = [received EXCEPT ![p] = Append(@, lamports)]

winnings(g) == mul_div_floor(g.bet, g.mult, BPS)

may_cash_out(g) == g.status = "PLAYING" /\ g.safe # {}

\* No expiry: an expired session may still be cashed out.
cash_out(p) ==
    /\ may_cash_out(game[p])
    /\ pay(p, winnings(game[p]))
    /\ game' = [game EXCEPT ![p].status = "WON"]
    /\ UNCHANGED <<outstanding, house_edge>>

-----------------------------------------------------------------------------
(* Releasing the reservation *)

release_outstanding(p) == outstanding' = saturating_sub(outstanding, game[p].max_payout)

\* The disclosed layout opens the commitment and agrees with every reveal.
proves(g) ==
    /\ g.known
    /\ g.safe \cap g.layout = {}
    /\ (g.revealed \ g.safe) \subseteq g.layout
    /\ g.status = "LOST" => g.revealed # g.safe

\* The referral is paid only if the house passes the referrer's account.
settle_game(p, referral) ==
    LET ref  == IF referral THEN min2(mul_div_floor(game[p].bet, ReferralCut, BPS), assets) ELSE 0
        held == assets - ref
    IN  /\ game[p].status \in {"WON", "LOST"}
        /\ ~game[p].settled
        /\ proves(game[p])
        /\ game' = [game EXCEPT ![p].settled = TRUE]
        /\ release_outstanding(p)
        /\ assets' = held - treasury_fee(game[p].bet, house_edge, TreasurySplitBps, held,
                                         outstanding', PendingUnits, TotalUnits)
        /\ UNCHANGED <<house_edge, received>>

\* The player's own refund may be partial.
refund_expired(p) ==
    /\ game[p].status = "PLAYING"
    /\ expired(game[p])
    /\ pay(p, min2(game[p].bet, assets))
    /\ game' = [game EXCEPT ![p].status = "EXPIRED"]
    /\ release_outstanding(p)
    /\ UNCHANGED house_edge

\* Mutant: the crank always refunds the bet.
refunds_always(g) == TRUE

\* Anyone's exit for an expired session takes the better of the player's two.
refunds(g) == g.safe = {} \/ g.mult < BPS

expire_game(p) ==
    /\ game[p].status = "PLAYING"
    /\ expired(game[p])
    /\ \/ /\ refunds(game[p])
          /\ pay(p, game[p].bet)
          /\ game' = [game EXCEPT ![p].status = "EXPIRED"]
          /\ release_outstanding(p)
       \/ /\ ~refunds(game[p])
          /\ pay(p, winnings(game[p]))
          /\ game' = [game EXCEPT ![p].status = "WON"]
          /\ UNCHANGED outstanding
    /\ UNCHANGED house_edge

-----------------------------------------------------------------------------
(* Closing the account *)

\* Mutant: a decided session may be closed before it is settled.
closable_unsettled(g) == g.status \in {"EXPIRED", "WON", "LOST"}

closable(g) == g.status = "EXPIRED" \/ (g.settled /\ g.status \in {"WON", "LOST"})

close_game(p) ==
    /\ closable(game[p])
    /\ game' = [game EXCEPT ![p] = closed]
    /\ UNCHANGED <<assets, outstanding, house_edge, received>>

close_unsettled_game(p) ==
    /\ game[p].status \in {"WON", "LOST"}
    /\ ~game[p].settled
    /\ game[p].age > CLOSE_UNSETTLED_EXPIRY_SLOTS
    /\ release_outstanding(p)
    /\ game' = [game EXCEPT ![p] = closed]
    /\ UNCHANGED <<assets, house_edge, received>>

update_vault(edge) ==
    /\ edge # house_edge
    /\ house_edge' = edge
    /\ UNCHANGED <<assets, outstanding, game, received>>

tick ==
    /\ \E p \in Players : game[p].status # "CLOSED" /\ game[p].age < MaxAge
    /\ game' = [p \in Players |->
                  IF game[p].status = "CLOSED" THEN game[p]
                  ELSE [game[p] EXCEPT !.age = min2(@ + 1, MaxAge)]]
    /\ UNCHANGED <<assets, outstanding, house_edge, received>>

-----------------------------------------------------------------------------

PlayerStep(p) == cash_out(p) \/ refund_expired(p) \/ close_game(p) \/ close_unsettled_game(p)

CrankStep(p) == expire_game(p) \/ \E referral \in BOOLEAN : settle_game(p, referral)

\* An honest house reveals only boards it knows, and truthfully.
HonestReveal(p) ==
    \E tile \in Tiles : game[p].known /\ reveal_tile(p, tile, tile \in game[p].layout)

Others == tick \/ (\E edge \in Edges : update_vault(edge))
               \/ \E p \in Players : PlayerStep(p) \/ CrankStep(p)

Next == Others \/ \E p \in Players, tile \in Tiles, is_mine \in BOOLEAN : reveal_tile(p, tile, is_mine)

Spec == Init /\ [][Next]_vars

-----------------------------------------------------------------------------
(* Properties *)

Statuses == {"PLAYING", "WON", "LOST", "EXPIRED", "CLOSED"}
GameType == [status: Statuses, settled: BOOLEAN, bet: Nat, mines: Nat, max_payout: Nat,
             layout: SUBSET (0..(GRID_SIZE - 1)), known: BOOLEAN,
             revealed: SUBSET Tiles, safe: SUBSET Tiles, mult: Nat, age: 0..MaxAge]

TypeOK ==
    /\ assets \in Nat /\ outstanding \in Nat
    /\ house_edge \in Edges
    /\ game \in [Players -> GameType]
    /\ received \in [Players -> Seq(Nat)]

\* The reservation made by start_game is released exactly once, in exactly one
\* of settle_game, refund_expired, close_unsettled_game and expire_game, in
\* whatever order the player, the house and the crank get there
\* (spec/legacy-game.md, section 8).
LegacyExact == outstanding = OtherReserved + Reserved

\* A session pays its player at most once, although four instructions of three
\* signers can, and never once it is lost.
PaidOnce ==
    \A p \in Players :
        /\ Len(received[p]) <= 1
        /\ game[p].status \in {"PLAYING", "LOST"} => received[p] = <<>>

\* expire_game pays the better of the player's own two exits: no session ends
\* EXPIRED for the bet alone although cashing out was possible and worth more,
\* unless its own player asked for the refund.
ExpiryIsBest ==
    [][\A p \in Players :
        (game[p].status = "PLAYING" /\ game'[p].status \in {"EXPIRED", "WON"} /\ expire_game(p)) =>
            /\ received'[p][1] >= game[p].bet
            /\ game[p].safe # {} => received'[p][1] >= winnings(game[p])]_vars

=============================================================================
