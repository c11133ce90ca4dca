--------------------------- MODULE VrfRoundProofs ---------------------------
(***************************************************************************)
(* Theorems about the life of a VRF round, for any number of players, any  *)
(* board, any vault configuration and any number of rounds.                *)
(***************************************************************************)
EXTENDS VrfRound, KaboomMathTheorems

\* Every action of the specification, flattened.
LEMMA NextCases ==
  ASSUME Next
  PROVE  \/ tick
         \/ \E edge \in Edges : update_vault(edge)
         \/ \E m \in {"open", "closed", "unpinned"} : set_mode(m)
         \/ \E p \in Players :
              \/ \E mines \in MineCounts, bet \in Bets : start_game_vrf(p, mines, bet)
              \/ delegate_vrf(p)
              \/ \E tile \in Tiles : reveal_request_vrf(p, tile)
              \/ \E rand \in Words : reveal_callback_vrf(p, rand)
              \/ cash_out_vrf(p)
              \/ schedule_undelegate(p)
              \/ process_undelegation(p)
              \/ settle_vrf(p)
              \/ \E by \in {"player", "house"} : refund_stalled_vrf(p, by)
              \/ admin_release_vrf_claim(p)
BY DEF Next, OwnerStep, PlayerStep, CrankStep, settle_and_undelegate_vrf, force_undelegate_vrf

-----------------------------------------------------------------------------
(* Type correctness *)

\* The values of closed accounts.
LEMMA NoClaimType == NoClaim \in ClaimType
BY BpsAssumption DEF NoClaim, ClaimType

LEMMA NoGameType == NoGame \in GameType
BY BpsAssumption DEF NoGame, GameType, Places, Statuses

LEMMA InitTypeOK == Init => TypeOK
<1> USE RoundAssumption, BpsAssumption DEF NO_TILE
<1> SUFFICES ASSUME Init PROVE TypeOK OBVIOUS
<1>1. NoClaim \in ClaimType BY NoClaimType
<1>2. NoGame \in GameType BY NoGameType
<1>3. /\ assets \in Nat /\ outstanding \in Nat
      /\ total_units \in Nat /\ total_pending_units \in Nat
      /\ mode \in {"open", "closed", "unpinned"} /\ house_edge \in Edges
  BY DEF Init
<1>4. claim \in [Players -> ClaimType] /\ game \in [Players -> GameType] BY <1>1, <1>2 DEF Init
<1>5. requests \in [Players -> SUBSET RequestType] /\ rounds \in [Players -> Nat] BY DEF Init
<1>6. \A p \in Players : game[p].pending <=> game[p].tile # NO_TILE BY DEF Init, NoGame
<1>7. QED BY <1>3, <1>4, <1>5, <1>6 DEF TypeOK

\* Opening a round keeps the types: the reservation is a natural.
LEMMA StartTypeOK ==
  ASSUME TypeOK, NEW p \in Players, NEW mines \in MineCounts, NEW bet \in Bets,
         start_game_vrf(p, mines, bet)
  PROVE  TypeOK'
<1> USE RoundAssumption, BpsAssumption, GridAssumption
<1> DEFINE worst == worst_case_payout(bet, mines, house_edge)
           c == [live |-> TRUE, bet |-> bet, reserved |-> worst,
                 mines |-> mines, edge |-> house_edge, age |-> 0, round |-> rounds[p] + 1]
           g == [NoGame EXCEPT !.at = "L1", !.status = "PLAYING",
                    !.mines = mines, !.edge = house_edge, !.tile = NO_TILE, !.mult = BPS]
<1>1. house_edge \in 0..BPS /\ bet \in Nat /\ mines \in Nat /\ mines \in 1..(GRID_SIZE - 1)
  BY DEF TypeOK, start_game_vrf, admissible
<1>2. worst \in Nat BY <1>1, WorstCasePayoutNat
<1>3. /\ claim' = [claim EXCEPT ![p] = c]
      /\ game' = [game EXCEPT ![p] = g]
      /\ assets' = assets + bet /\ outstanding' = outstanding + worst
      /\ rounds' = [rounds EXCEPT ![p] = @ + 1]
      /\ UNCHANGED <<units, config, requests>>
  BY DEF start_game_vrf, reuse_orphan_game
<1>4. c \in ClaimType BY <1>1, <1>2 DEF ClaimType, TypeOK
<1>5. g \in GameType /\ ~g.pending /\ g.tile = NO_TILE
  <2>1. NoGame \in GameType BY NoGameType
  <2>2. "L1" \in Places /\ "PLAYING" \in Statuses /\ NO_TILE \in Tiles \cup {NO_TILE}
    BY DEF Places, Statuses
  <2>3. g \in GameType BY <1>1, <2>1, <2>2 DEF GameType
  <2>4. QED BY <2>3 DEF NoGame
<1> HIDE DEF worst, c, g
<1>6. claim' \in [Players -> ClaimType] BY <1>3, <1>4 DEF TypeOK
<1>7. game' \in [Players -> GameType] BY <1>3, <1>5 DEF TypeOK
<1>8. \A q \in Players : game'[q].pending <=> game'[q].tile # NO_TILE BY <1>3, <1>5 DEF TypeOK
<1>9. assets' \in Nat /\ outstanding' \in Nat /\ rounds' \in [Players -> Nat]
  BY <1>1, <1>2, <1>3 DEF TypeOK
<1>10. QED BY <1>3, <1>6, <1>7, <1>8, <1>9 DEF TypeOK, units, config

\* A step that rewrites one game keeps the types when the new record has its type.
LEMMA GameStepTypeOK ==
  ASSUME TypeOK, NEW p \in Players, NEW g \in GameType, g.pending <=> g.tile # NO_TILE,
         game' = [game EXCEPT ![p] = g],
         UNCHANGED <<assets, outstanding, units, config, claim, rounds>>,
         requests' \in [Players -> SUBSET RequestType]
  PROVE  TypeOK'
<1>1. game' \in [Players -> GameType] BY DEF TypeOK
<1>2. \A q \in Players : game'[q].pending <=> game'[q].tile # NO_TILE BY DEF TypeOK
<1>3. QED BY <1>1, <1>2 DEF TypeOK, units, config

\* The steps of a game that is not closed keep the types.
LEMMA PlayTypeOK ==
  ASSUME TypeOK, NEW p \in Players,
         \/ delegate_vrf(p)
         \/ \E tile \in Tiles : reveal_request_vrf(p, tile)
         \/ cash_out_vrf(p)
         \/ schedule_undelegate(p)
         \/ process_undelegation(p)
  PROVE  TypeOK'
<1> USE RoundAssumption
<1>1. game[p] \in GameType /\ (game[p].pending <=> game[p].tile # NO_TILE) BY DEF TypeOK
<1>2. CASE delegate_vrf(p)
  <2> DEFINE g == [game[p] EXCEPT !.at = "ER"]
  <2>1. g \in GameType /\ (g.pending <=> g.tile # NO_TILE) BY <1>1 DEF GameType, Places
  <2>2. game' = [game EXCEPT ![p] = g] BY <1>2 DEF delegate_vrf, TypeOK
  <2> HIDE DEF g
  <2>3. QED BY <1>2, <2>1, <2>2, GameStepTypeOK DEF delegate_vrf, TypeOK
<1>3. ASSUME NEW tile \in Tiles, reveal_request_vrf(p, tile) PROVE TypeOK'
  <2> DEFINE g == [game[p] EXCEPT !.pending = TRUE, !.tile = tile]
  <2>1. g \in GameType BY <1>1 DEF GameType
  <2>2. g.pending <=> g.tile # NO_TILE BY <1>1 DEF GameType
  <2>3. game' = [game EXCEPT ![p] = g] BY <1>3 DEF reveal_request_vrf, TypeOK
  <2>4. [round |-> rounds[p], tile |-> tile] \in RequestType BY DEF TypeOK, RequestType
  <2>5. requests' \in [Players -> SUBSET RequestType]
    BY <1>3, <2>4 DEF reveal_request_vrf, TypeOK
  <2> HIDE DEF g
  <2>6. QED BY <1>3, <2>1, <2>2, <2>3, <2>5, GameStepTypeOK DEF reveal_request_vrf
<1>4. CASE cash_out_vrf(p)
  <2> DEFINE g == [game[p] EXCEPT !.status = "WON"]
  <2>1. g \in GameType /\ (g.pending <=> g.tile # NO_TILE) BY <1>1 DEF GameType, Statuses
  <2>2. game' = [game EXCEPT ![p] = g] BY <1>4 DEF cash_out_vrf, TypeOK
  <2> HIDE DEF g
  <2>3. QED BY <1>4, <2>1, <2>2, GameStepTypeOK DEF cash_out_vrf, TypeOK
<1>5. CASE schedule_undelegate(p)
  <2> DEFINE e == end_playing(game[p])
             g == [e EXCEPT !.at = "returning"]
  <2>1. e \in GameType /\ (e.pending <=> e.tile # NO_TILE)
    BY <1>1 DEF GameType, Statuses, end_playing
  <2>2. game' = [game EXCEPT ![p] = g] BY <1>5 DEF schedule_undelegate, TypeOK
  <2> HIDE DEF e
  <2>3. g \in GameType /\ (g.pending <=> g.tile # NO_TILE) BY <2>1 DEF GameType, Places
  <2> HIDE DEF g
  <2>4. QED BY <1>5, <2>2, <2>3, GameStepTypeOK DEF schedule_undelegate, TypeOK
<1>6. CASE process_undelegation(p)
  <2> DEFINE g == [game[p] EXCEPT !.at = "L1"]
  <2>1. g \in GameType /\ (g.pending <=> g.tile # NO_TILE) BY <1>1 DEF GameType, Places
  <2>2. game' = [game EXCEPT ![p] = g] BY <1>6 DEF process_undelegation, TypeOK
  <2> HIDE DEF g
  <2>3. QED BY <1>6, <2>1, <2>2, GameStepTypeOK DEF process_undelegation, TypeOK
<1>7. QED BY <1>2, <1>3, <1>4, <1>5, <1>6

\* The record a callback writes has its type: the multiplier is a natural
\* because the ladder is defined for the new count of safe tiles.
LEMMA ApplyRevealType ==
  ASSUME NEW g \in GameType, g.pending, g.pending <=> g.tile # NO_TILE,
         NEW rand \in Words, NEW round \in Nat,
         \/ decide_mine(rand, g.safe, g.mines)
         \/ multiplier_defined(g.safe + 1, g.mines)
  PROVE  LET h == apply_reveal(g, rand, round)
         IN  h \in GameType /\ ~h.pending /\ h.tile = NO_TILE
<1> DEFINE mine == decide_mine(rand, g.safe, g.mines)
           safe == IF mine THEN g.safe ELSE g.safe + 1
           mult == IF mine THEN g.mult ELSE calc_multiplier(safe, g.mines, g.edge)
           status == IF mine THEN "LOST"
                     ELSE IF safe >= GRID_SIZE - g.mines THEN "WON" ELSE g.status
           reveals == Append(g.reveals, [tile |-> g.tile, rand |-> rand, round |-> round])
           h == [g EXCEPT !.reveals = reveals, !.revealed = @ \cup {g.tile},
                          !.pending = FALSE, !.tile = NO_TILE, !.safe = safe,
                          !.mult = mult, !.status = status]
<1>1. g.safe \in Nat /\ g.mines \in Nat /\ g.edge \in 0..BPS /\ g.mult \in Nat
      /\ g.status \in Statuses /\ g.tile \in Tiles /\ g.revealed \in SUBSET Tiles
      /\ g.reveals \in Seq(RevealType)
  BY DEF GameType
<1>2. safe \in Nat BY <1>1
<1>3. mult \in Nat
  <2>1. CASE mine BY <2>1, <1>1
  <2>2. CASE ~mine
    <3>1. g.safe + 1 \in Nat /\ multiplier_defined(g.safe + 1, g.mines) BY <1>1, <2>2
    <3>2. calc_multiplier(g.safe + 1, g.mines, g.edge) \in Nat BY <1>1, <3>1, CalcMultiplierNat
    <3>3. QED BY <2>2, <3>2
  <2>3. QED BY <2>1, <2>2
<1>4. status \in Statuses BY <1>1 DEF Statuses
<1>5. reveals \in Seq(RevealType)
  <2>1. [tile |-> g.tile, rand |-> rand, round |-> round] \in RevealType BY <1>1 DEF RevealType
  <2>2. QED BY <1>1, <2>1
<1>6. apply_reveal(g, rand, round) = h BY DEF apply_reveal
<1>7. g.revealed \cup {g.tile} \in SUBSET Tiles BY <1>1
<1> HIDE DEF mine, safe, mult, status, reveals
<1>8. h \in GameType /\ ~h.pending /\ h.tile = NO_TILE
  BY <1>1, <1>2, <1>3, <1>4, <1>5, <1>7 DEF GameType
<1>9. QED BY <1>6, <1>8

\* The oracle's answer keeps the types.
LEMMA CallbackTypeOK ==
  ASSUME TypeOK, NEW p \in Players, NEW rand \in Words, reveal_callback_vrf(p, rand)
  PROVE  TypeOK'
<1>1. PICK q \in requests[p] :
        /\ game[p].pending
        /\ \/ decide_mine(rand, game[p].safe, game[p].mines)
           \/ multiplier_defined(game[p].safe + 1, game[p].mines)
        /\ game' = [game EXCEPT ![p] = apply_reveal(@, rand, q.round)]
        /\ requests' = [requests EXCEPT ![p] = @ \ {q}]
        /\ UNCHANGED <<assets, outstanding, units, config, claim, rounds>>
  BY DEF reveal_callback_vrf
<1>2. game[p] \in GameType /\ (game[p].pending <=> game[p].tile # NO_TILE) BY DEF TypeOK
<1>3. q.round \in Nat BY DEF TypeOK, RequestType
<1> DEFINE h == apply_reveal(game[p], rand, q.round)
<1>4. h \in GameType /\ ~h.pending /\ h.tile = NO_TILE
  BY <1>1, <1>2, <1>3, ApplyRevealType
<1>5. game' = [game EXCEPT ![p] = h] BY <1>1 DEF TypeOK
<1>6. requests' \in [Players -> SUBSET RequestType] BY <1>1 DEF TypeOK
<1> HIDE DEF h
<1>7. QED BY <1>1, <1>4, <1>5, <1>6, GameStepTypeOK

\* What a settlement leaves in the vault: the payout, the referral cut and the
\* treasury cut are each bounded by what is left.
LEMMA SettleAssets ==
  ASSUME TypeOK, NEW p \in Players, settle_vrf(p)
  PROVE  /\ assets' \in Nat
         /\ payout(claim[p], game[p]) \in Nat
         /\ assets' <= assets - payout(claim[p], game[p])
<1> USE RoundAssumption, BpsAssumption
<1> DEFINE c == claim[p]
           pay == payout(c, game[p])
           out == release_outstanding(c.reserved)
<1>1. c.bet \in Nat /\ c.reserved \in Nat /\ game[p].mult \in Nat BY DEF TypeOK, ClaimType, GameType
<1>2. pay \in Nat BY <1>1, MulDivNat DEF payout
<1>3. pay <= assets /\ \E bps \in ReferralCuts :
         LET ref == referral_cut(p, assets - pay, bps)
         IN  assets' = assets - pay - ref - treasury_cut(p, assets - pay - ref, out)
  BY DEF settle_vrf
<1>4. out \in Nat BY <1>1, SaturatingSub DEF TypeOK, release_outstanding
<1> HIDE DEF pay, out
<1>5. PICK bps \in ReferralCuts :
         assets' = assets - pay - referral_cut(p, assets - pay, bps)
                     - treasury_cut(p, assets - pay - referral_cut(p, assets - pay, bps), out)
  BY <1>3
<1> DEFINE held == assets - pay
           ref == referral_cut(p, held, bps)
           left == held - ref
           cut == treasury_cut(p, left, out)
<1>6. held \in Nat BY <1>2, <1>3 DEF TypeOK
<1>7. ref \in Nat /\ ref <= held
  <2> DEFINE amount == mul_div_floor(c.bet, bps, BPS)
  <2>1. amount \in Nat BY <1>1, MulDivNat
  <2>2. ref = IF p \in Referred THEN min2(amount, held) ELSE 0 BY DEF referral_cut
  <2> HIDE DEF held, amount, ref
  <2>3. min2(amount, held) \in Nat /\ min2(amount, held) <= held BY <1>6, <2>1, Min2
  <2>4. QED BY <1>6, <2>2, <2>3
<1> HIDE DEF ref
<1>8. left \in Nat BY <1>6, <1>7
<1>9. cut \in Nat /\ cut <= left
  <2> HIDE DEF held, left
  <2>1. house_edge \in Nat /\ total_units \in Nat /\ total_pending_units \in Nat BY DEF TypeOK
  <2>2. TreasurySplitBps \in Nat BY RoundAssumption
  <2>3. QED BY <1>1, <1>4, <1>8, <2>1, <2>2, TreasuryFee DEF treasury_cut
<1>10. assets' = left - cut BY <1>5 DEF ref
<1> HIDE DEF cut
<1>11. QED BY <1>2, <1>6, <1>7, <1>8, <1>9, <1>10 DEF pay

\* A step that closes a round keeps the types.
LEMMA CloseTypeOK ==
  ASSUME TypeOK, NEW p \in Players, claim' = [claim EXCEPT ![p] = NoClaim],
         game' = game \/ game' = [game EXCEPT ![p] = NoGame],
         outstanding' = release_outstanding(claim[p].reserved),
         assets' \in Nat, UNCHANGED <<units, config, requests, rounds>>
  PROVE  TypeOK'
<1>1. claim' \in [Players -> ClaimType] BY NoClaimType DEF TypeOK
<1>2. game' \in [Players -> GameType] BY NoGameType DEF TypeOK
<1>3. \A q \in Players : game'[q].pending <=> game'[q].tile # NO_TILE
  <2>1. NoGame.pending <=> NoGame.tile # NO_TILE BY Zenon DEF NoGame
  <2>2. \A q \in Players : game[q].pending <=> game[q].tile # NO_TILE BY DEF TypeOK
  <2>3. \A q \in Players : game'[q] \in {game[q], NoGame} BY DEF TypeOK
  <2>4. QED BY <2>1, <2>2, <2>3, Zenon
<1>4. outstanding' \in Nat
  <2>1. claim[p].reserved \in Nat BY DEF TypeOK, ClaimType
  <2>2. QED BY <2>1, SaturatingSub DEF TypeOK, release_outstanding
<1>5. QED BY <1>1, <1>2, <1>3, <1>4 DEF TypeOK, units, config

\* The three ways a round ends.
RoundEnds(p) ==
    \/ settle_vrf(p)
    \/ \E by \in {"player", "house"} : refund_stalled_vrf(p, by)
    \/ admin_release_vrf_claim(p)

\* What they have in common.
LEMMA RoundEndsShape ==
  ASSUME TypeOK, NEW p \in Players, RoundEnds(p)
  PROVE  /\ claim[p].live
         /\ claim' = [claim EXCEPT ![p] = NoClaim]
         /\ game' = game \/ (game' = [game EXCEPT ![p] = NoGame] /\ game[p].at = "L1")
         /\ outstanding' = release_outstanding(claim[p].reserved)
         /\ assets' \in Nat
         /\ UNCHANGED <<units, config, requests, rounds>>
<1>1. claim[p].bet \in Nat BY DEF TypeOK, ClaimType
<1>2. CASE settle_vrf(p) BY <1>2, SettleAssets DEF settle_vrf, close_claim
<1>3. ASSUME NEW by \in {"player", "house"}, refund_stalled_vrf(p, by)
      PROVE  assets' \in Nat
  BY <1>1, <1>3 DEF refund_stalled_vrf, TypeOK
<1>4. CASE admin_release_vrf_claim(p)
  <2> DEFINE spendable == admin_spendable(assets, total_units)
  <2>1. spendable \in Nat /\ spendable <= assets
    BY SaturatingSub DEF TypeOK, admin_spendable
  <2> HIDE DEF spendable
  <2>2. min2(claim[p].bet, spendable) \in Nat /\ min2(claim[p].bet, spendable) <= spendable
    BY <1>1, <2>1, Min2
  <2>3. assets' \in Nat BY <1>4, <2>1, <2>2 DEF admin_release_vrf_claim, TypeOK, spendable
  <2>4. /\ claim[p].live /\ claim' = [claim EXCEPT ![p] = NoClaim]
        /\ outstanding' = release_outstanding(claim[p].reserved)
        /\ game' = game /\ UNCHANGED <<units, config, requests, rounds>>
    BY <1>4 DEF admin_release_vrf_claim, close_claim
  <2>5. QED BY <2>3, <2>4
<1>5. ASSUME NEW by \in {"player", "house"}, refund_stalled_vrf(p, by)
      PROVE  /\ claim[p].live /\ game[p].at = "L1"
             /\ claim' = [claim EXCEPT ![p] = NoClaim]
             /\ game' = [game EXCEPT ![p] = NoGame]
             /\ outstanding' = release_outstanding(claim[p].reserved)
             /\ UNCHANGED <<units, config, requests, rounds>>
  BY <1>5 DEF refund_stalled_vrf, refundable, close_claim
<1>6. QED BY <1>2, <1>3, <1>4, <1>5 DEF RoundEnds

\* The clock and the owner's configuration keep the types.
LEMMA QuietTypeOK ==
  ASSUME TypeOK,
         \/ tick
         \/ \E edge \in Edges : update_vault(edge)
         \/ \E m \in {"open", "closed", "unpinned"} : set_mode(m)
         \/ UNCHANGED vars
  PROVE  TypeOK'
<1> USE RoundAssumption
<1>1. CASE tick
  <2>1. claim' \in [Players -> ClaimType]
    <3>1. ASSUME NEW p \in Players
          PROVE  [claim[p] EXCEPT !.age = min2(@ + 1, ABANDON_SLOTS + 1)] \in ClaimType
      <4>1. claim[p] \in ClaimType /\ claim[p].age \in Nat BY DEF TypeOK, ClaimType
      <4>2. min2(claim[p].age + 1, ABANDON_SLOTS + 1) \in Nat BY <4>1 DEF min2
      <4>3. QED BY <4>1, <4>2 DEF ClaimType
    <3>2. QED BY <1>1, <3>1 DEF tick, TypeOK
  <2>2. QED BY <1>1, <2>1 DEF tick, TypeOK, units, config
<1>2. CASE \E edge \in Edges : update_vault(edge) BY <1>2 DEF update_vault, TypeOK, units
<1>3. CASE \E m \in {"open", "closed", "unpinned"} : set_mode(m) BY <1>3 DEF set_mode, TypeOK, units
<1>4. CASE UNCHANGED vars BY <1>4 DEF vars, TypeOK
<1>5. QED BY <1>1, <1>2, <1>3, <1>4

\* Every step keeps the types.
LEMMA NextTypeOK == TypeOK /\ [Next]_vars => TypeOK'
<1> SUFFICES ASSUME TypeOK, [Next]_vars PROVE TypeOK' OBVIOUS
<1>1. ASSUME NEW p \in Players, RoundEnds(p) PROVE TypeOK'
  BY <1>1, RoundEndsShape, CloseTypeOK
<1>2. CASE Next
  <2>1. ASSUME NEW p \in Players, NEW mines \in MineCounts, NEW bet \in Bets,
               start_game_vrf(p, mines, bet)
        PROVE  TypeOK'
    BY <2>1, StartTypeOK
  <2>2. ASSUME NEW p \in Players, NEW rand \in Words, reveal_callback_vrf(p, rand) PROVE TypeOK'
    BY <2>2, CallbackTypeOK
  <2>3. QED BY <1>1, <1>2, <2>1, <2>2, NextCases, PlayTypeOK, QuietTypeOK DEF RoundEnds
<1>3. CASE UNCHANGED vars BY <1>3, QuietTypeOK
<1>4. QED BY <1>2, <1>3

\* Type correctness: the fields of the vault, of every claim and of every game
\* stay in range whatever instructions are sent; in particular no payout,
\* refund or fee takes the vault below zero.
THEOREM TypeCorrect == Spec => []TypeOK
<1>1. Init => TypeOK BY InitTypeOK
<1>2. TypeOK /\ [Next]_vars => TypeOK' BY NextTypeOK
<1>3. QED BY <1>1, <1>2, PTL DEF Spec

-----------------------------------------------------------------------------
(* Reservations *)

\* A step that leaves every reservation and the counter alone keeps them equal.
LEMMA ReservedKept ==
  ASSUME OutstandingExact, outstanding' = outstanding,
         \A p \in Players : claim'[p].reserved = claim[p].reserved
  PROVE  OutstandingExact'
<1>1. [p \in Players |-> claim'[p].reserved] = [p \in Players |-> claim[p].reserved] OBVIOUS
<1>2. QED BY <1>1 DEF OutstandingExact

\* A step that changes one reservation moves the total by the difference.
LEMMA ReservedMoves ==
  ASSUME TypeOK, TypeOK', OutstandingExact, NEW p \in Players,
         \A q \in Players \ {p} : claim'[q] = claim[q],
         outstanding' = outstanding - claim[p].reserved + claim'[p].reserved
  PROVE  OutstandingExact'
<1> DEFINE f == [q \in Players |-> claim[q].reserved]
           h == [q \in Players |-> claim'[q].reserved]
<1>1. N \in Nat /\ p \in 1..N BY RoundAssumption DEF Players
<1>2. f \in [1..N -> Nat] BY DEF TypeOK, ClaimType, Players
<1>3. h \in [1..N -> Nat] BY DEF TypeOK, ClaimType, Players
<1>4. f[p] = claim[p].reserved /\ h[p] = claim'[p].reserved OBVIOUS
<1>5. \A q \in 1..N \ {p} : h[q] = f[q] BY DEF Players
<1>6. outstanding = Total(f, N) BY DEF OutstandingExact
<1>7. OutstandingExact' <=> outstanding' = Total(h, N) BY DEF OutstandingExact
<1> HIDE DEF f, h
<1>8. Total(h, N) = Total(f, N) - f[p] + h[p] BY <1>1, <1>2, <1>3, <1>5, TotalUpdate
<1>9. QED BY <1>4, <1>6, <1>7, <1>8

\* Opening a round adds its reservation to the counter and to the total.
LEMMA StartExact ==
  ASSUME TypeOK, TypeOK', OutstandingExact, Strengthening, NEW p \in Players,
         NEW mines \in MineCounts, NEW bet \in Bets, start_game_vrf(p, mines, bet)
  PROVE  OutstandingExact'
<1> DEFINE worst == worst_case_payout(bet, mines, house_edge)
<1>1. claim[p].reserved = 0 BY DEF Strengthening, start_game_vrf, NoClaim
<1>2. claim'[p].reserved = worst /\ \A q \in Players \ {p} : claim'[q] = claim[q]
  BY DEF start_game_vrf, TypeOK
<1>3. outstanding' = outstanding + worst BY DEF start_game_vrf
<1> HIDE DEF worst
<1>4. outstanding \in Nat /\ claim'[p].reserved \in Nat BY DEF TypeOK, ClaimType
<1>5. outstanding' = outstanding - claim[p].reserved + claim'[p].reserved
  BY <1>1, <1>2, <1>3, <1>4
<1>6. QED BY <1>2, <1>5, ReservedMoves

\* Closing a round takes its reservation off both; the subtraction does not
\* saturate, because the counter is at least the reservation it contains.
LEMMA EndExact ==
  ASSUME TypeOK, TypeOK', OutstandingExact, NEW p \in Players, RoundEnds(p)
  PROVE  OutstandingExact'
<1> DEFINE amount == claim[p].reserved
           f == [q \in Players |-> claim[q].reserved]
<1>1. claim' = [claim EXCEPT ![p] = NoClaim] /\ outstanding' = release_outstanding(amount)
  BY RoundEndsShape
<1>2. claim'[p].reserved = 0 /\ \A q \in Players \ {p} : claim'[q] = claim[q]
  BY <1>1 DEF TypeOK, NoClaim
<1>3. amount \in Nat /\ outstanding \in Nat BY DEF TypeOK, ClaimType
<1>4. amount <= outstanding
  <2>1. N \in Nat /\ p \in 1..N BY RoundAssumption DEF Players
  <2>2. f \in [1..N -> Nat] BY DEF TypeOK, ClaimType, Players
  <2>3. f[p] = amount OBVIOUS
  <2>4. outstanding = Total(f, N) BY DEF OutstandingExact
  <2> HIDE DEF f
  <2>5. f[p] <= Total(f, N) BY <2>1, <2>2, TotalBounds
  <2>6. QED BY <2>3, <2>4, <2>5
<1> HIDE DEF amount
<1>5. outstanding' = outstanding - amount
  BY <1>1, <1>3, <1>4 DEF release_outstanding, saturating_sub
<1>6. outstanding' = outstanding - claim[p].reserved + claim'[p].reserved
  BY <1>2, <1>3, <1>5 DEF amount
<1>7. QED BY <1>2, <1>6, ReservedMoves

-----------------------------------------------------------------------------
(* The claim, the game and the requests of one player *)

\* The parts of RoundInv that speak of one player's accounts, as a predicate
\* of their values: claim c, game g, requests rq and round number n.
Good(c, g, rq, n) ==
    /\ ~c.live => c = NoClaim
    /\ g.pending => g.at = "ER" /\ g.status = "PLAYING"
    /\ g.status = "VOID" => g.safe = 0
    /\ g.at \in {"L1", "returning"} =>
          /\ ~g.pending
          /\ g.status = "PLAYING" => g.safe = 0 /\ g.reveals = <<>>
    /\ c.live =>
          /\ g.at # "none"
          /\ c.round = n
          /\ g.mines = c.mines /\ g.edge = c.edge
          /\ \A i \in DOMAIN g.reveals : g.reveals[i].round = c.round
    /\ rq = IF g.pending THEN {[round |-> n, tile |-> g.tile]} ELSE {}

AllGood == \A p \in Players : Good(claim[p], game[p], requests[p], rounds[p])

LEMMA RoundInvParts == RoundInv <=> TypeOK /\ OutstandingExact /\ AllGood
BY DEF RoundInv, AllGood, Good, Strengthening, L1PlayingIsFresh, ClaimOwnsGame, OracleInStep

\* A step of one player keeps AllGood when it keeps that player's accounts good.
LEMMA LocalStep ==
  ASSUME TypeOK, AllGood, NEW p \in Players,
         \A q \in Players \ {p} : /\ claim'[q] = claim[q] /\ game'[q] = game[q]
                                  /\ requests'[q] = requests[q] /\ rounds'[q] = rounds[q],
         Good(claim'[p], game'[p], requests'[p], rounds'[p])
  PROVE  AllGood'
<1>1. ASSUME NEW q \in Players
      PROVE  Good(claim'[q], game'[q], requests'[q], rounds'[q])
  <2>1. CASE q = p BY <2>1
  <2>2. CASE q # p
    <3>1. Good(claim[q], game[q], requests[q], rounds[q]) BY DEF AllGood
    <3>2. QED BY <2>2, <3>1
  <2>3. QED BY <2>1, <2>2
<1>2. QED BY <1>1 DEF AllGood

LEMMA InitGood == Init => AllGood
BY DEF Init, AllGood, Good, NoClaim, NoGame

\* Opening a round: the account taken over held no reveal in flight, so no old
\* answer can reach the new game.
LEMMA StartGood ==
  ASSUME TypeOK, AllGood, NEW p \in Players,
         NEW mines \in MineCounts, NEW bet \in Bets, start_game_vrf(p, mines, bet)
  PROVE  AllGood'
<1>1. Good(claim[p], game[p], requests[p], rounds[p]) BY DEF AllGood
<1>2. requests[p] = {}
  <2>1. game[p].at \in {"none", "L1"} BY DEF start_game_vrf
  <2>2. ~game[p].pending BY <1>1, <2>1 DEF Good
  <2>3. QED BY <1>1, <2>2 DEF Good
<1> DEFINE g == [NoGame EXCEPT !.at = "L1", !.status = "PLAYING",
                    !.mines = mines, !.edge = house_edge, !.tile = NO_TILE, !.mult = BPS]
<1>3. /\ claim'[p].live /\ claim'[p].mines = mines /\ claim'[p].edge = house_edge
      /\ claim'[p].round = rounds[p] + 1
      /\ game'[p] = g /\ requests'[p] = requests[p] /\ rounds'[p] = rounds[p] + 1
      /\ \A q \in Players \ {p} : /\ claim'[q] = claim[q] /\ game'[q] = game[q]
                                  /\ requests'[q] = requests[q] /\ rounds'[q] = rounds[q]
  BY DEF start_game_vrf, TypeOK, reuse_orphan_game
<1>4. /\ g.at = "L1" /\ g.status = "PLAYING" /\ ~g.pending /\ g.safe = 0 /\ g.reveals = <<>>
      /\ g.mines = mines /\ g.edge = house_edge
  BY DEF NoGame
<1> HIDE DEF g
<1>5. Good(claim'[p], game'[p], requests'[p], rounds'[p]) BY <1>2, <1>3, <1>4 DEF Good
<1>6. QED BY <1>3, <1>5, LocalStep

\* A step that rewrites one game in place.
LEMMA GameGood ==
  ASSUME TypeOK, AllGood, NEW p \in Players, NEW g, game' = [game EXCEPT ![p] = g],
         UNCHANGED <<claim, requests, rounds>>,
         Good(claim[p], g, requests[p], rounds[p])
  PROVE  AllGood'
<1>1. game'[p] = g /\ \A q \in Players \ {p} : game'[q] = game[q] BY DEF TypeOK
<1>2. QED BY <1>1, LocalStep

\* The steps between the start and the end of a round that ask nothing of the oracle.
LEMMA PlayGood ==
  ASSUME TypeOK, AllGood, NEW p \in Players,
         \/ delegate_vrf(p)
         \/ cash_out_vrf(p)
         \/ schedule_undelegate(p)
         \/ process_undelegation(p)
  PROVE  AllGood'
<1>1. Good(claim[p], game[p], requests[p], rounds[p]) BY DEF AllGood
<1>2. game[p] \in GameType BY DEF TypeOK
<1>3. CASE delegate_vrf(p)
  <2> DEFINE g == [game[p] EXCEPT !.at = "ER"]
  <2>1. game' = [game EXCEPT ![p] = g] BY <1>3 DEF delegate_vrf, TypeOK
  <2>2. Good(claim[p], g, requests[p], rounds[p])
    BY <1>1, <1>2, <1>3 DEF Good, GameType, delegate_vrf, check_vrf_game_delegable
  <2> HIDE DEF g
  <2>3. QED BY <1>3, <2>1, <2>2, GameGood DEF delegate_vrf
<1>4. CASE cash_out_vrf(p)
  <2> DEFINE g == [game[p] EXCEPT !.status = "WON"]
  <2>1. game' = [game EXCEPT ![p] = g] BY <1>4 DEF cash_out_vrf, TypeOK
  <2>2. Good(claim[p], g, requests[p], rounds[p])
    BY <1>1, <1>2, <1>4 DEF Good, GameType, cash_out_vrf, cash_out_ok
  <2> HIDE DEF g
  <2>3. QED BY <1>4, <2>1, <2>2, GameGood DEF cash_out_vrf
<1>5. CASE schedule_undelegate(p)
  <2> DEFINE e == end_playing(game[p])
             g == [e EXCEPT !.at = "returning"]
  <2>1. game' = [game EXCEPT ![p] = g] BY <1>5 DEF schedule_undelegate, TypeOK
  <2>2. ~game[p].pending BY <1>1, <1>5 DEF schedule_undelegate, may_end_playing, Good
  <2>3. /\ g.at = "returning" /\ g.pending = game[p].pending /\ g.tile = game[p].tile
        /\ g.safe = game[p].safe /\ g.reveals = game[p].reveals
        /\ g.mines = game[p].mines /\ g.edge = game[p].edge
        /\ g.status # "PLAYING" /\ (g.status = "VOID" => g.safe = 0)
    BY <1>1, <1>2 DEF end_playing, GameType, Good
  <2> HIDE DEF g
  <2>4. game[p].at = "ER" BY <1>5 DEF schedule_undelegate
  <2>5. Good(claim[p], g, requests[p], rounds[p]) BY <1>1, <2>2, <2>3, <2>4 DEF Good
  <2>6. QED BY <1>5, <2>1, <2>5, GameGood DEF schedule_undelegate
<1>6. CASE process_undelegation(p)
  <2> DEFINE g == [game[p] EXCEPT !.at = "L1"]
  <2>1. game' = [game EXCEPT ![p] = g] BY <1>6 DEF process_undelegation, TypeOK
  <2>2. Good(claim[p], g, requests[p], rounds[p])
    BY <1>1, <1>2, <1>6 DEF Good, GameType, process_undelegation
  <2> HIDE DEF g
  <2>3. QED BY <1>6, <2>1, <2>2, GameGood DEF process_undelegation
<1>7. QED BY <1>3, <1>4, <1>5, <1>6

\* A click puts the one request in flight that the game is waiting for.
LEMMA RequestGood ==
  ASSUME TypeOK, AllGood, NEW p \in Players, NEW tile \in Tiles, reveal_request_vrf(p, tile)
  PROVE  AllGood'
<1>1. Good(claim[p], game[p], requests[p], rounds[p]) /\ game[p] \in GameType BY DEF AllGood, TypeOK
<1>2. requests[p] = {} BY <1>1 DEF reveal_request_vrf, reveal_request_ok, Good
<1> DEFINE g == [game[p] EXCEPT !.pending = TRUE, !.tile = tile]
<1>3. /\ game'[p] = g /\ claim'[p] = claim[p] /\ rounds'[p] = rounds[p]
      /\ requests'[p] = requests[p] \cup {[round |-> rounds[p], tile |-> tile]}
      /\ \A q \in Players \ {p} : /\ claim'[q] = claim[q] /\ game'[q] = game[q]
                                  /\ requests'[q] = requests[q] /\ rounds'[q] = rounds[q]
  BY DEF reveal_request_vrf, TypeOK
<1>4. /\ g.pending /\ g.tile = tile /\ g.at = game[p].at /\ g.status = game[p].status
      /\ g.safe = game[p].safe /\ g.reveals = game[p].reveals
      /\ g.mines = game[p].mines /\ g.edge = game[p].edge
  BY <1>1 DEF GameType
<1>5. game[p].at = "ER" /\ game[p].status = "PLAYING" BY DEF reveal_request_vrf, reveal_request_ok
<1> HIDE DEF g
<1>6. requests'[p] = {[round |-> rounds[p], tile |-> g.tile]} BY <1>2, <1>3, <1>4
<1>7. Good(claim'[p], game'[p], requests'[p], rounds'[p])
  BY <1>1, <1>3, <1>4, <1>5, <1>6 DEF Good
<1>8. QED BY <1>3, <1>7, LocalStep

\* An answer is recorded for the round that asked.
LEMMA CallbackGood ==
  ASSUME TypeOK, AllGood, NEW p \in Players, NEW rand \in Words, reveal_callback_vrf(p, rand)
  PROVE  AllGood'
<1>1. Good(claim[p], game[p], requests[p], rounds[p]) /\ game[p] \in GameType BY DEF AllGood, TypeOK
<1>2. PICK q \in requests[p] :
        /\ game[p].at = "ER"
        /\ game[p].pending
        /\ game' = [game EXCEPT ![p] = apply_reveal(@, rand, q.round)]
        /\ requests' = [requests EXCEPT ![p] = @ \ {q}]
        /\ UNCHANGED <<claim, rounds>>
  BY DEF reveal_callback_vrf
<1>3. requests[p] = {[round |-> rounds[p], tile |-> game[p].tile]} BY <1>1, <1>2 DEF Good
<1>4. q.round = rounds[p] BY <1>2, <1>3
<1> DEFINE r == [tile |-> game[p].tile, rand |-> rand, round |-> q.round]
           h == apply_reveal(game[p], rand, q.round)
<1>5. /\ game'[p] = h /\ requests'[p] = {} /\ claim'[p] = claim[p] /\ rounds'[p] = rounds[p]
      /\ \A k \in Players \ {p} : /\ claim'[k] = claim[k] /\ game'[k] = game[k]
                                  /\ requests'[k] = requests[k] /\ rounds'[k] = rounds[k]
  BY <1>2, <1>3 DEF TypeOK
<1>6. /\ ~h.pending /\ h.at = "ER" /\ h.mines = game[p].mines /\ h.edge = game[p].edge
      /\ h.reveals = Append(game[p].reveals, r)
      /\ h.status \in {"LOST", "WON", game[p].status}
  BY <1>1, <1>2 DEF apply_reveal, GameType
<1>7. game[p].status = "PLAYING" BY <1>1, <1>2 DEF Good
<1>8. r.round = rounds[p] BY <1>4
<1> HIDE DEF h, r
<1>9. ASSUME claim[p].live, NEW i \in DOMAIN h.reveals PROVE h.reveals[i].round = claim[p].round
  <2>1. game[p].reveals \in Seq(RevealType) BY <1>1 DEF GameType
  <2>2. i \in 1..(Len(game[p].reveals) + 1) BY <1>6, <1>9, <2>1
  <2>3. CASE i = Len(game[p].reveals) + 1
    <3>1. h.reveals[i] = r BY <1>6, <2>1, <2>3
    <3>2. QED BY <1>1, <1>8, <1>9, <3>1 DEF Good
  <2>4. CASE i # Len(game[p].reveals) + 1
    <3>1. i \in DOMAIN game[p].reveals /\ h.reveals[i] = game[p].reveals[i]
      BY <1>6, <2>1, <2>2, <2>4
    <3>2. QED BY <1>1, <1>9, <3>1 DEF Good
  <2>5. QED BY <2>3, <2>4
<1>10. Good(claim'[p], game'[p], requests'[p], rounds'[p])
  BY <1>1, <1>2, <1>5, <1>6, <1>7, <1>9 DEF Good
<1>11. QED BY <1>5, <1>10, LocalStep

\* The end of a round leaves no claim, and no request for a game that is gone.
LEMMA EndGood ==
  ASSUME TypeOK, AllGood, NEW p \in Players, RoundEnds(p)
  PROVE  AllGood'
<1>1. Good(claim[p], game[p], requests[p], rounds[p]) BY DEF AllGood
<1>2. /\ claim' = [claim EXCEPT ![p] = NoClaim]
      /\ game' = game \/ (game' = [game EXCEPT ![p] = NoGame] /\ game[p].at = "L1")
      /\ UNCHANGED <<requests, rounds>>
  BY RoundEndsShape
<1>3. claim'[p] = NoClaim /\ ~NoClaim.live BY <1>2 DEF TypeOK, NoClaim
<1>4. \A q \in Players \ {p} : /\ claim'[q] = claim[q] /\ game'[q] = game[q]
                               /\ requests'[q] = requests[q] /\ rounds'[q] = rounds[q]
  BY <1>2 DEF TypeOK
<1>5. Good(claim'[p], game'[p], requests'[p], rounds'[p])
  <2>1. CASE game' = game BY <1>1, <1>2, <1>3, <2>1 DEF Good
  <2>2. CASE game' = [game EXCEPT ![p] = NoGame] /\ game[p].at = "L1"
    <3>1. requests[p] = {} BY <1>1, <2>2 DEF Good
    <3>2. game'[p] = NoGame BY <2>2 DEF TypeOK
    <3>3. ~NoGame.pending /\ NoGame.at = "none" /\ NoGame.status = "PLAYING" BY DEF NoGame
    <3>4. QED BY <1>2, <1>3, <3>1, <3>2, <3>3 DEF Good
  <2>3. QED BY <1>2, <2>1, <2>2
<1>6. QED BY <1>4, <1>5, LocalStep

\* The clock ages live claims and changes nothing else of them.
LEMMA TickClaims ==
  ASSUME TypeOK, tick, NEW p \in Players
  PROVE  /\ claim'[p].live = claim[p].live /\ claim'[p].reserved = claim[p].reserved
         /\ claim'[p].round = claim[p].round /\ claim'[p].mines = claim[p].mines
         /\ claim'[p].edge = claim[p].edge
         /\ ~claim[p].live => claim'[p] = claim[p]
<1>1. claim[p] \in ClaimType BY DEF TypeOK
<1>2. claim'[p] = IF claim[p].live
                  THEN [claim[p] EXCEPT !.age = min2(@ + 1, ABANDON_SLOTS + 1)] ELSE claim[p]
  BY DEF tick
<1>3. QED BY <1>1, <1>2 DEF ClaimType

LEMMA TickGood ==
  ASSUME TypeOK, AllGood, tick
  PROVE  AllGood'
<1>1. ASSUME NEW p \in Players
      PROVE  Good(claim'[p], game'[p], requests'[p], rounds'[p])
  <2>1. Good(claim[p], game[p], requests[p], rounds[p]) BY DEF AllGood
  <2>2. game'[p] = game[p] /\ requests'[p] = requests[p] /\ rounds'[p] = rounds[p] BY DEF tick
  <2>3. QED BY <2>1, <2>2, TickClaims DEF Good
<1>2. QED BY <1>1 DEF AllGood

-----------------------------------------------------------------------------
(* The inductive invariant *)

LEMMA InitRoundInv == Init => RoundInv
<1> SUFFICES ASSUME Init PROVE RoundInv OBVIOUS
<1>1. TypeOK /\ AllGood BY InitTypeOK, InitGood
<1>2. OutstandingExact
  <2> DEFINE f == [p \in Players |-> claim[p].reserved]
  <2>1. f \in [1..N -> Nat] /\ \A i \in 1..N : f[i] = 0 BY DEF Init, NoClaim, Players
  <2> HIDE DEF f
  <2>2. Total(f, N) = 0 BY <2>1, RoundAssumption, TotalZero
  <2>3. QED BY <2>2 DEF Init, OutstandingExact, f
<1>3. QED BY <1>1, <1>2, RoundInvParts

LEMMA NextRoundInv == RoundInv /\ [Next]_vars => RoundInv'
<1> SUFFICES ASSUME RoundInv, [Next]_vars PROVE RoundInv' OBVIOUS
<1>1. TypeOK /\ OutstandingExact /\ AllGood /\ Strengthening BY RoundInvParts DEF RoundInv
<1>2. TypeOK' BY <1>1, NextTypeOK
<1>3. OutstandingExact' /\ AllGood'
  <2>1. ASSUME NEW p \in Players, NEW mines \in MineCounts, NEW bet \in Bets,
               start_game_vrf(p, mines, bet)
        PROVE  OutstandingExact' /\ AllGood'
    BY <1>1, <1>2, <2>1, StartExact, StartGood
  <2>2. ASSUME NEW p \in Players,
               \/ delegate_vrf(p) \/ cash_out_vrf(p)
               \/ schedule_undelegate(p) \/ process_undelegation(p)
        PROVE  OutstandingExact' /\ AllGood'
    <3>1. outstanding' = outstanding /\ claim' = claim
      BY <2>2 DEF delegate_vrf, cash_out_vrf, schedule_undelegate, process_undelegation
    <3>2. QED BY <1>1, <2>2, <3>1, ReservedKept, PlayGood
  <2>3. ASSUME NEW p \in Players, NEW tile \in Tiles, reveal_request_vrf(p, tile)
        PROVE  OutstandingExact' /\ AllGood'
    <3>1. outstanding' = outstanding /\ claim' = claim BY <2>3 DEF reveal_request_vrf
    <3>2. QED BY <1>1, <2>3, <3>1, ReservedKept, RequestGood
  <2>4. ASSUME NEW p \in Players, NEW rand \in Words, reveal_callback_vrf(p, rand)
        PROVE  OutstandingExact' /\ AllGood'
    <3>1. outstanding' = outstanding /\ claim' = claim BY <2>4 DEF reveal_callback_vrf
    <3>2. QED BY <1>1, <2>4, <3>1, ReservedKept, CallbackGood
  <2>5. ASSUME NEW p \in Players, RoundEnds(p) PROVE OutstandingExact' /\ AllGood'
    BY <1>1, <1>2, <2>5, EndExact, EndGood
  <2>6. CASE tick
    <3>1. outstanding' = outstanding BY <2>6 DEF tick
    <3>2. QED BY <1>1, <2>6, <3>1, ReservedKept, TickClaims, TickGood
  <2>7. CASE \/ \E edge \in Edges : update_vault(edge)
             \/ \E m \in {"open", "closed", "unpinned"} : set_mode(m)
             \/ UNCHANGED vars
    <3>1. UNCHANGED <<outstanding, claim, game, requests, rounds>>
      BY <2>7 DEF update_vault, set_mode, vars
    <3>2. QED BY <1>1, <3>1, ReservedKept DEF AllGood
  <2>8. CASE Next
    BY <2>1, <2>2, <2>3, <2>4, <2>5, <2>6, <2>7, <2>8, NextCases DEF RoundEnds
  <2>9. QED BY <2>7, <2>8
<1>4. TypeOK' /\ OutstandingExact' /\ AllGood' => RoundInv'
  BY RoundInvParts DEF RoundInv, AllGood, Good, Strengthening, L1PlayingIsFresh, ClaimOwnsGame, OracleInStep
<1>5. QED BY <1>2, <1>3, <1>4

\* RoundInv is an invariant of the round protocol.
THEOREM RoundInvariant == Spec => []RoundInv
<1>1. QED BY InitRoundInv, NextRoundInv, PTL DEF Spec

\* The counter of outstanding payouts is exactly the sum of the reservations of
\* the live claims, for any number of players and rounds.
THEOREM OutstandingIsExact == Spec => []OutstandingExact
<1>1. RoundInv => OutstandingExact BY DEF RoundInv
<1>2. QED BY <1>1, RoundInvariant, PTL

\* No game comes back to L1 still playing with progress or a reveal in flight.
THEOREM L1PlayingStaysFresh == Spec => []L1PlayingIsFresh
<1>1. RoundInv => L1PlayingIsFresh BY DEF RoundInv
<1>2. QED BY <1>1, RoundInvariant, PTL

\* A live claim is matched by its own round's game, never by an older one.
THEOREM ClaimKeepsGame == Spec => []ClaimOwnsGame
<1>1. RoundInv => ClaimOwnsGame BY DEF RoundInv
<1>2. QED BY <1>1, RoundInvariant, PTL

\* The oracle's answers in flight are those the games wait for.
THEOREM OracleStaysInStep == Spec => []OracleInStep
<1>1. RoundInv => OracleInStep BY DEF RoundInv
<1>2. QED BY <1>1, RoundInvariant, PTL

-----------------------------------------------------------------------------
(* Action properties *)

\* In a decided game no step but the end of its round changes the verdict: the
\* callback needs a reveal in flight, which a decided game does not have.
LEMMA VerdictStep ==
  ASSUME RoundInv, [Next]_vars, NEW p \in Players,
         game[p].status # "PLAYING", claim[p].live, claim'[p].live
  PROVE  /\ game'[p].status = game[p].status
         /\ game'[p].safe = game[p].safe
         /\ game'[p].reveals = game[p].reveals
<1> DEFINE Same == /\ game'[p].status = game[p].status
                   /\ game'[p].safe = game[p].safe
                   /\ game'[p].reveals = game[p].reveals
<1> SUFFICES Same OBVIOUS
<1>1. TypeOK /\ game[p] \in GameType /\ ~game[p].pending
  BY DEF RoundInv, TypeOK, Strengthening
<1>2. ASSUME NEW q \in Players, NEW mines \in MineCounts, NEW bet \in Bets,
             start_game_vrf(q, mines, bet)
      PROVE  Same
  <2>1. q # p BY <1>2 DEF start_game_vrf
  <2>2. game'[p] = game[p] BY <1>1, <1>2, <2>1 DEF start_game_vrf, TypeOK
  <2>3. QED BY <2>2
<1>3. ASSUME NEW q \in Players,
             \/ delegate_vrf(q) \/ schedule_undelegate(q) \/ process_undelegation(q)
      PROVE  Same
  <2>1. CASE q # p
    <3>1. game'[p] = game[p]
      BY <1>1, <1>3, <2>1 DEF delegate_vrf, schedule_undelegate, process_undelegation, TypeOK
    <3>2. QED BY <3>1
  <2>2. CASE q = p
    <3>1. PICK place \in Places : game'[p] = [game[p] EXCEPT !.at = place]
      BY <1>1, <1>3, <2>2 DEF delegate_vrf, schedule_undelegate, end_playing,
                              process_undelegation, TypeOK, Places
    <3>2. QED BY <1>1, <3>1 DEF GameType
  <2>3. QED BY <2>1, <2>2
<1>4. ASSUME NEW q \in Players, cash_out_vrf(q) PROVE Same
  <2>1. q # p BY <1>4 DEF cash_out_vrf, cash_out_ok
  <2>2. QED BY <1>1, <1>4, <2>1 DEF cash_out_vrf, TypeOK
<1>5. ASSUME NEW q \in Players, NEW tile \in Tiles, reveal_request_vrf(q, tile) PROVE Same
  <2>1. q # p BY <1>5 DEF reveal_request_vrf, reveal_request_ok
  <2>2. QED BY <1>1, <1>5, <2>1 DEF reveal_request_vrf, TypeOK
<1>6. ASSUME NEW q \in Players, NEW rand \in Words, reveal_callback_vrf(q, rand) PROVE Same
  <2>1. q # p BY <1>1, <1>6 DEF reveal_callback_vrf
  <2>2. QED BY <1>1, <1>6, <2>1 DEF reveal_callback_vrf, TypeOK
<1>7. ASSUME NEW q \in Players, RoundEnds(q) PROVE Same
  <2>1. /\ claim' = [claim EXCEPT ![q] = NoClaim]
        /\ game' = game \/ game' = [game EXCEPT ![q] = NoGame]
    BY <1>1, <1>7, RoundEndsShape
  <2>2. q # p BY <1>1, <2>1 DEF TypeOK, NoClaim
  <2>3. game'[p] = game[p] BY <1>1, <2>1, <2>2 DEF TypeOK
  <2>4. QED BY <2>3
<1>8. CASE \/ tick
           \/ \E edge \in Edges : update_vault(edge)
           \/ \E m \in {"open", "closed", "unpinned"} : set_mode(m)
           \/ UNCHANGED vars
  <2>1. game' = game BY <1>8 DEF tick, update_vault, set_mode, vars
  <2>2. QED BY <2>1
<1>9. CASE Next
  <2> HIDE DEF Same
  <2>1. QED BY <1>2, <1>3, <1>4, <1>5, <1>6, <1>7, <1>8, <1>9, NextCases DEF RoundEnds
<1>10. QED BY <1>8, <1>9

\* A verdict is final, in every execution.
THEOREM VerdictStaysFinal == Spec => VerdictIsFinal
<1> DEFINE A == \A p \in Players :
        (game[p].status # "PLAYING" /\ claim[p].live /\ claim'[p].live) =>
            /\ game'[p].status = game[p].status
            /\ game'[p].safe = game[p].safe
            /\ game'[p].reveals = game[p].reveals
<1>1. RoundInv /\ [Next]_vars => [A]_vars BY VerdictStep
<1>2. QED BY <1>1, RoundInvariant, PTL DEF Spec, VerdictIsFinal

\* A round that closes before its owner may write it off, with progress and no
\* mine, closes by settlement.
LEMMA PaidStep ==
  ASSUME RoundInv, [Next]_vars, NEW p \in Players,
         claim[p].live, ~claim'[p].live, claim[p].age <= ABANDON_SLOTS,
         game[p].safe > 0, game[p].status # "LOST"
  PROVE  assets' <= assets - mul_div_floor(claim[p].bet, game[p].mult, BPS)
<1>1. TypeOK /\ game[p] \in GameType /\ claim[p] \in ClaimType BY DEF RoundInv, TypeOK
<1>2. ASSUME claim' = claim PROVE FALSE BY <1>2
<1>3. ASSUME NEW q \in Players, NEW mines \in MineCounts, NEW bet \in Bets,
             start_game_vrf(q, mines, bet)
      PROVE  FALSE
  BY <1>1, <1>3 DEF start_game_vrf, TypeOK
<1>4. ~tick BY <1>1, TickClaims
<1>5. PICK q \in Players : RoundEnds(q)
  <2>1. ~ UNCHANGED vars BY <1>2 DEF vars
  <2>2. Next BY <2>1
  <2>3. ASSUME NEW k \in Players,
               \/ delegate_vrf(k) \/ cash_out_vrf(k) \/ schedule_undelegate(k) \/ process_undelegation(k)
               \/ \E tile \in Tiles : reveal_request_vrf(k, tile)
               \/ \E rand \in Words : reveal_callback_vrf(k, rand)
        PROVE  FALSE
    BY <1>2, <2>3 DEF delegate_vrf, cash_out_vrf, schedule_undelegate, process_undelegation,
                      reveal_request_vrf, reveal_callback_vrf
  <2>4. ASSUME \/ \E edge \in Edges : update_vault(edge)
               \/ \E m \in {"open", "closed", "unpinned"} : set_mode(m)
        PROVE  FALSE
    BY <1>2, <2>4 DEF update_vault, set_mode
  <2>5. QED BY <1>3, <1>4, <2>2, <2>3, <2>4, NextCases DEF RoundEnds
<1>6. q = p
  <2>1. claim' = [claim EXCEPT ![q] = NoClaim] BY <1>1, <1>5, RoundEndsShape
  <2>2. QED BY <1>1, <2>1 DEF TypeOK
<1>7. ASSUME NEW by \in {"player", "house"}, refund_stalled_vrf(p, by) PROVE FALSE
  <2>1. game[p].at = "L1" /\ game[p].status \in {"PLAYING", "VOID"}
    BY <1>7 DEF refund_stalled_vrf, refundable
  <2>2. game[p].safe = 0 BY <2>1 DEF RoundInv, Strengthening, L1PlayingIsFresh
  <2>3. QED BY <2>2
<1>8. ~admin_release_vrf_claim(p)
  <2>1. claim[p].age \in Nat /\ ABANDON_SLOTS \in Nat BY <1>1, RoundAssumption DEF ClaimType
  <2>2. QED BY <2>1 DEF admin_release_vrf_claim
<1>9. settle_vrf(p) BY <1>5, <1>6, <1>7, <1>8 DEF RoundEnds
<1>10. payout(claim[p], game[p]) = mul_div_floor(claim[p].bet, game[p].mult, BPS) BY DEF payout
<1>11. QED BY <1>1, <1>9, <1>10, SettleAssets

\* Earned winnings are paid, in every execution.
THEOREM ProgressStaysPaid == Spec => ProgressIsPaid
<1> DEFINE A == \A p \in Players :
        (/\ claim[p].live /\ ~claim'[p].live
         /\ claim[p].age <= ABANDON_SLOTS
         /\ game[p].safe > 0 /\ game[p].status # "LOST") =>
            assets' <= assets - mul_div_floor(claim[p].bet, game[p].mult, BPS)
<1>1. RoundInv /\ [Next]_vars => [A]_vars BY PaidStep
<1>2. QED BY <1>1, RoundInvariant, PTL DEF Spec, ProgressIsPaid

=============================================================================
