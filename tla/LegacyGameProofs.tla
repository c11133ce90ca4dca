-------------------------- MODULE LegacyGameProofs --------------------------
(***************************************************************************)
(* Theorems about the wind-down of the commit-reveal games, for any number *)
(* of sessions, any bets and layouts, and a house that may say anything.   *)
(***************************************************************************)
EXTENDS LegacyGame, KaboomMathTheorems, FiniteSetTheorems

\* Settling is for decided sessions: without this, cashing out could drop a
\* reservation that is still counted.
PlayingUnsettled == \A p \in Players : game[p].status = "PLAYING" => game[p].settled = FALSE

LegacyInv == TypeOK /\ PlayingUnsettled /\ LegacyExact /\ PaidOnce

\* What a session holds back is an amount, and all of its worst case while it
\* is undecided or unsettled.
LEMMA ReservedNat ==
  ASSUME NEW g \in GameType
  PROVE  reserved(g) \in Nat
BY DEF reserved, GameType

\* The total follows a change of one session.
LEMMA ReservedMoves ==
  ASSUME TypeOK, LegacyExact, NEW p \in Players, NEW g \in GameType,
         game' = [game EXCEPT ![p] = g],
         outstanding' = outstanding - reserved(game[p]) + reserved(g)
  PROVE  LegacyExact'
<1> DEFINE f == [q \in Players |-> reserved(game[q])]
           h == [q \in Players |-> reserved(game'[q])]
<1>1. N \in Nat /\ p \in 1..N /\ OtherReserved \in Nat BY LegacyAssumption DEF Players
<1>2. \A q \in Players : game[q] \in GameType /\ game'[q] = IF q = p THEN g ELSE game[q] BY DEF TypeOK
<1>3. f \in [1..N -> Nat] /\ h \in [1..N -> Nat] BY <1>2, ReservedNat DEF Players
<1>4. f[p] = reserved(game[p]) /\ h[p] = reserved(g) /\ \A q \in 1..N \ {p} : h[q] = f[q]
  BY <1>2 DEF Players
<1>5. outstanding = OtherReserved + Total(f, N) BY DEF LegacyExact, Reserved
<1>6. LegacyExact' <=> outstanding' = OtherReserved + Total(h, N) BY DEF LegacyExact, Reserved
<1>7. f[p] \in Nat /\ h[p] \in Nat BY <1>1, <1>3
<1> HIDE DEF f, h
<1>8. Total(h, N) = Total(f, N) - f[p] + h[p] BY <1>1, <1>3, <1>4, TotalUpdate
<1>9. Total(f, N) \in Nat BY <1>1, <1>3, TotalNat
<1>10. QED BY <1>1, <1>4, <1>5, <1>6, <1>7, <1>8, <1>9

\* A release does not saturate: the session's reservation is part of the sum.
LEMMA ReleaseExact ==
  ASSUME TypeOK, LegacyExact, NEW p \in Players, reserved(game[p]) = game[p].max_payout,
         release_outstanding(p)
  PROVE  outstanding' = outstanding - reserved(game[p]) /\ outstanding' \in Nat
<1> DEFINE f == [q \in Players |-> reserved(game[q])]
<1>1. N \in Nat /\ p \in 1..N /\ OtherReserved \in Nat BY LegacyAssumption DEF Players
<1>2. f \in [1..N -> Nat] BY ReservedNat DEF TypeOK, Players
<1>3. f[p] = reserved(game[p]) /\ f[p] \in Nat BY <1>1, <1>2 DEF Players
<1>4. outstanding = OtherReserved + Total(f, N) BY DEF LegacyExact, Reserved
<1> HIDE DEF f
<1>5. f[p] <= Total(f, N) /\ Total(f, N) \in Nat BY <1>1, <1>2, TotalBounds, TotalNat
<1>6. outstanding \in Nat /\ f[p] <= outstanding BY <1>1, <1>3, <1>4, <1>5
<1>7. outstanding' = saturating_sub(outstanding, f[p]) BY <1>3 DEF release_outstanding
<1>8. QED BY <1>3, <1>6, <1>7 DEF saturating_sub

\* What every instruction has in common: it changes one session, moves the
\* counter with the session's reservation, and pays only a session that was
\* PLAYING and ends neither PLAYING nor LOST.
LEMMA LocalStep ==
  ASSUME LegacyInv, NEW p \in Players, NEW g \in GameType,
         game' = [game EXCEPT ![p] = g],
         g.status = "PLAYING" => g.settled = FALSE,
         outstanding' = outstanding - reserved(game[p]) + reserved(g), outstanding' \in Nat,
         assets' \in Nat, house_edge' = house_edge,
         \/ /\ received' = received
            /\ g.status \in {"PLAYING", "LOST"} => game[p].status \in {"PLAYING", "LOST"}
         \/ /\ \E x \in Nat : received' = [received EXCEPT ![p] = Append(@, x)]
            /\ game[p].status = "PLAYING"
            /\ g.status \notin {"PLAYING", "LOST"}
  PROVE  LegacyInv'
<1> USE DEF LegacyInv
<1>1. \A q \in Players : game'[q] = IF q = p THEN g ELSE game[q] BY DEF TypeOK
<1>2. received' \in [Players -> Seq(Nat)]
  <2>1. received[p] \in Seq(Nat) BY DEF TypeOK
  <2>2. \A x \in Nat : Append(received[p], x) \in Seq(Nat) BY <2>1
  <2>3. QED BY <2>2 DEF TypeOK
<1>3. TypeOK'
  <2>1. game' \in [Players -> GameType] BY DEF TypeOK
  <2>2. QED BY <1>2, <2>1 DEF TypeOK
<1>4. PlayingUnsettled' BY <1>1 DEF PlayingUnsettled
<1>5. LegacyExact' BY ReservedMoves
<1>6. PaidOnce'
  <2>1. CASE /\ received' = received
             /\ g.status \in {"PLAYING", "LOST"} => game[p].status \in {"PLAYING", "LOST"}
    BY <1>1, <2>1 DEF PaidOnce
  <2>2. CASE /\ \E x \in Nat : received' = [received EXCEPT ![p] = Append(@, x)]
             /\ game[p].status = "PLAYING"
             /\ g.status \notin {"PLAYING", "LOST"}
    <3>1. PICK x \in Nat : received' = [received EXCEPT ![p] = Append(@, x)] BY <2>2
    <3>2. received[p] = <<>> BY <2>2 DEF PaidOnce
    <3>3. Len(Append(<<>>, x)) = 1 OBVIOUS
    <3>4. \A q \in Players : received'[q] = IF q = p THEN Append(<<>>, x) ELSE received[q]
      BY <3>1, <3>2 DEF TypeOK
    <3>5. QED BY <1>1, <2>2, <3>3, <3>4 DEF PaidOnce
  <2>3. QED BY <2>1, <2>2
<1>7. QED BY <1>3, <1>4, <1>5, <1>6

-----------------------------------------------------------------------------
(* One lemma per instruction *)

\* The fields of a session.
LEMMA GameFields ==
  ASSUME TypeOK, NEW p \in Players
  PROVE  /\ game[p] \in GameType
         /\ game[p].bet \in Nat /\ game[p].mult \in Nat /\ game[p].max_payout \in Nat
         /\ game[p].mines \in Nat /\ winnings(game[p]) \in Nat
<1>1. game[p] \in GameType BY DEF TypeOK
<1>2. game[p].bet \in Nat /\ game[p].mult \in Nat /\ game[p].max_payout \in Nat /\ game[p].mines \in Nat
  BY <1>1 DEF GameType
<1>3. winnings(game[p]) \in Nat BY <1>2, BpsAssumption, MulDivNat DEF winnings
<1>4. QED BY <1>1, <1>2, <1>3

\* A decided or closed session in place of another is still a session.
LEMMA StatusType ==
  ASSUME NEW g \in GameType, NEW s \in Statuses
  PROVE  [g EXCEPT !.status = s] \in GameType /\ [g EXCEPT !.settled = TRUE] \in GameType
         /\ closed \in GameType
<1>1. [g EXCEPT !.status = s] \in GameType /\ [g EXCEPT !.settled = TRUE] \in GameType
  BY Zenon DEF GameType
<1>2. 0 \in 0..MaxAge /\ BPS \in Nat BY LegacyAssumption, BpsAssumption DEF MaxAge
<1>3. closed \in GameType BY <1>2, LegacyAssumption DEF closed, GameType, Statuses
<1>4. QED BY <1>1, <1>3

\* reveal_tile: the reservation stays, a lie of the house included.
LEMMA RevealPreserves ==
  ASSUME LegacyInv, NEW p \in Players, NEW tile \in Tiles, NEW is_mine \in BOOLEAN,
         reveal_tile(p, tile, is_mine)
  PROVE  LegacyInv'
<1> DEFINE a == game[p]
           safe == Cardinality(a.safe) + 1
           mult == calc_multiplier(safe, a.mines, house_edge)
           end == IF safe >= GRID_SIZE - a.mines THEN "WON" ELSE a.status
           lost == [a EXCEPT !.status = "LOST", !.revealed = @ \cup {tile}]
           next == [a EXCEPT !.revealed = @ \cup {tile}, !.safe = @ \cup {tile},
                             !.mult = mult, !.status = end]
<1> USE DEF LegacyInv
<1>1. a \in GameType /\ a.mines \in Nat /\ a.max_payout \in Nat /\ a.settled \in BOOLEAN
      /\ a.revealed \subseteq Tiles /\ a.safe \subseteq Tiles
  BY GameFields DEF TypeOK, GameType
<1>2. a.status = "PLAYING" /\ a.settled = FALSE BY DEF reveal_tile, PlayingUnsettled
<1>3. UNCHANGED <<assets, outstanding, house_edge, received>> BY DEF reveal_tile
<1>4. assets \in Nat /\ outstanding \in Nat /\ house_edge \in 0..BPS
  BY LegacyAssumption DEF TypeOK
<1>5. reserved(a) = a.max_payout BY <1>2 DEF reserved
<1>6. CASE is_mine /\ game' = [game EXCEPT ![p].status = "LOST", ![p].revealed = @ \cup {tile}]
  <2>1. game' = [game EXCEPT ![p] = lost] BY <1>6 DEF TypeOK
  <2>2. lost \in GameType
    <3>1. ASSUME NEW r \in SUBSET Tiles PROVE [a EXCEPT !.status = "LOST", !.revealed = r] \in GameType
      BY <1>1, Zenon DEF GameType, Statuses
    <3>2. a.revealed \cup {tile} \in SUBSET Tiles BY <1>1
    <3>3. QED BY <3>1, <3>2
  <2>3. lost.status = "LOST" /\ lost.settled = FALSE /\ lost.max_payout = a.max_payout
    BY <1>1, <1>2 DEF GameType
  <2> HIDE DEF lost
  <2>4. reserved(lost) = a.max_payout BY <2>3 DEF reserved
  <2>5. outstanding' = outstanding - reserved(a) + reserved(lost) BY <1>1, <1>3, <1>4, <1>5, <2>4
  <2>6. QED BY <1>2, <1>3, <1>4, <2>1, <2>2, <2>3, <2>5, LocalStep
<1>7. CASE /\ multiplier_defined(safe, a.mines)
           /\ game' = [game EXCEPT ![p].revealed = @ \cup {tile}, ![p].safe = @ \cup {tile},
                                   ![p].mult = mult, ![p].status = end]
  <2>1. game' = [game EXCEPT ![p] = next] BY <1>7 DEF TypeOK
  <2>2. safe \in Nat
    <3>1. IsFiniteSet(Tiles)
      <4>1. IsFiniteSet(0..(GRID_SIZE - 1)) BY GridAssumption, FS_Interval
      <4>2. QED BY <4>1, LegacyAssumption, FS_Subset
    <3>2. IsFiniteSet(a.safe) BY <1>1, <3>1, FS_Subset
    <3>3. QED BY <3>2, FS_CardinalityType
  <2>3. mult \in Nat
    <3> HIDE DEF safe
    <3>1. QED BY <1>1, <1>4, <1>7, <2>2, CalcMultiplierNat
  <2>4. end \in {"WON", "PLAYING"} BY <1>2
  <2> HIDE DEF mult, end
  <2>5. next \in GameType
    <3>1. ASSUME NEW r \in SUBSET Tiles, NEW f \in SUBSET Tiles, NEW m \in Nat, NEW e \in Statuses
          PROVE  [a EXCEPT !.revealed = r, !.safe = f, !.mult = m, !.status = e] \in GameType
      BY <1>1, Zenon DEF GameType
    <3>2. a.revealed \cup {tile} \in SUBSET Tiles /\ a.safe \cup {tile} \in SUBSET Tiles /\ end \in Statuses
      BY <1>1, <2>4 DEF Statuses
    <3>3. QED BY <2>3, <3>1, <3>2
  <2>6. next.status = end /\ next.settled = FALSE /\ next.max_payout = a.max_payout
    BY <1>1, <1>2 DEF GameType
  <2> HIDE DEF next
  <2>7. reserved(next) = a.max_payout BY <2>4, <2>6 DEF reserved
  <2>8. outstanding' = outstanding - reserved(a) + reserved(next) BY <1>1, <1>3, <1>4, <1>5, <2>7
  <2>9. QED BY <1>2, <1>3, <1>4, <2>1, <2>5, <2>6, <2>8, LocalStep
<1>8. QED BY <1>6, <1>7 DEF reveal_tile

\* A payment out of the vault.
LEMMA PayFacts ==
  ASSUME TypeOK, NEW p \in Players, NEW x \in Nat, pay(p, x)
  PROVE  assets' \in Nat /\ \E y \in Nat : received' = [received EXCEPT ![p] = Append(@, y)]
<1>1. assets' \in Nat BY DEF pay, TypeOK
<1>2. received' = [received EXCEPT ![p] = Append(@, x)] BY DEF pay
<1>3. QED BY <1>1, <1>2

\* Won for a payment: the reservation is kept for settle_game to release
\* (cash_out, and the second branch of expire_game).
LEMMA WinPreserves ==
  ASSUME LegacyInv, NEW p \in Players, game[p].status = "PLAYING", pay(p, winnings(game[p])),
         game' = [game EXCEPT ![p].status = "WON"], UNCHANGED <<outstanding, house_edge>>
  PROVE  LegacyInv'
<1> DEFINE g == [game[p] EXCEPT !.status = "WON"]
<1> USE DEF LegacyInv
<1>1. game[p] \in GameType /\ game[p].max_payout \in Nat /\ winnings(game[p]) \in Nat
      /\ outstanding \in Nat /\ game[p].settled = FALSE
  BY GameFields DEF TypeOK, PlayingUnsettled
<1>2. g \in GameType BY <1>1, StatusType DEF Statuses
<1>3. game' = [game EXCEPT ![p] = g] BY DEF TypeOK
<1>4. g.status = "WON" /\ g.settled = FALSE /\ g.max_payout = game[p].max_payout BY <1>1 DEF GameType
<1> HIDE DEF g
<1>5. reserved(game[p]) = game[p].max_payout /\ reserved(g) = game[p].max_payout BY <1>4 DEF reserved
<1>6. outstanding' = outstanding - reserved(game[p]) + reserved(g) /\ outstanding' \in Nat BY <1>1, <1>5
<1>7. assets' \in Nat /\ \E y \in Nat : received' = [received EXCEPT ![p] = Append(@, y)] BY <1>1, PayFacts
<1>8. QED BY <1>2, <1>3, <1>4, <1>6, <1>7, LocalStep

\* Expired for a refund, which releases at once (refund_expired, and the first
\* branch of expire_game).
LEMMA RefundPreserves ==
  ASSUME LegacyInv, NEW p \in Players, NEW x \in Nat, game[p].status = "PLAYING", pay(p, x),
         game' = [game EXCEPT ![p].status = "EXPIRED"], release_outstanding(p), UNCHANGED house_edge
  PROVE  LegacyInv'
<1> DEFINE g == [game[p] EXCEPT !.status = "EXPIRED"]
<1> USE DEF LegacyInv
<1>1. game[p] \in GameType /\ game[p].max_payout \in Nat /\ outstanding \in Nat
  BY GameFields DEF TypeOK
<1>2. g \in GameType BY <1>1, StatusType DEF Statuses
<1>3. game' = [game EXCEPT ![p] = g] BY DEF TypeOK
<1>4. g.status = "EXPIRED" BY <1>1 DEF GameType
<1> HIDE DEF g
<1>5. reserved(game[p]) = game[p].max_payout /\ reserved(g) = 0 BY <1>4 DEF reserved
<1>6. outstanding' = outstanding - reserved(game[p]) /\ outstanding' \in Nat BY <1>5, ReleaseExact
<1>7. outstanding' = outstanding - reserved(game[p]) + reserved(g) BY <1>1, <1>5, <1>6
<1>8. assets' \in Nat /\ \E y \in Nat : received' = [received EXCEPT ![p] = Append(@, y)] BY PayFacts
<1>9. QED BY <1>2, <1>3, <1>4, <1>6, <1>7, <1>8, LocalStep

\* settle_game releases and marks the session; its fees leave the vault solvent.
LEMMA SettlePreserves ==
  ASSUME LegacyInv, NEW p \in Players, NEW referral \in BOOLEAN, settle_game(p, referral)
  PROVE  LegacyInv'
<1> DEFINE g == [game[p] EXCEPT !.settled = TRUE]
           ref == IF referral THEN min2(mul_div_floor(game[p].bet, ReferralCut, BPS), assets) ELSE 0
           held == assets - ref
           fee == treasury_fee(game[p].bet, house_edge, TreasurySplitBps, held, outstanding',
                               PendingUnits, TotalUnits)
<1> USE DEF LegacyInv
<1>1. game[p] \in GameType /\ game[p].max_payout \in Nat /\ game[p].bet \in Nat
      /\ outstanding \in Nat /\ assets \in Nat /\ house_edge \in Nat
  BY GameFields, LegacyAssumption, BpsAssumption DEF TypeOK
<1>2. /\ game[p].status \in {"WON", "LOST"} /\ ~game[p].settled /\ release_outstanding(p)
      /\ assets' = held - fee /\ UNCHANGED <<house_edge, received>>
  BY DEF settle_game
<1>3. game' = [game EXCEPT ![p] = g] BY DEF settle_game, TypeOK
<1>4. g \in GameType BY <1>1, StatusType DEF Statuses
<1>5. g.status = game[p].status /\ g.settled = TRUE BY <1>1 DEF GameType
<1>6. reserved(game[p]) = game[p].max_payout BY <1>2 DEF reserved
<1>7. reserved(g) = 0
  <2> HIDE DEF g
  <2>1. QED BY <1>2, <1>5 DEF reserved
<1>8. outstanding' = outstanding - reserved(game[p]) /\ outstanding' \in Nat BY <1>2, <1>6, ReleaseExact
<1>9. outstanding' = outstanding - reserved(game[p]) + reserved(g)
  <2> HIDE DEF g
  <2>1. QED BY <1>1, <1>6, <1>7, <1>8
<1>10. ref \in Nat /\ ref <= assets
  <2> DEFINE amount == mul_div_floor(game[p].bet, ReferralCut, BPS)
  <2>1. ReferralCut \in Nat BY LegacyAssumption
  <2>2. amount \in Nat BY <1>1, <2>1, BpsAssumption, MulDivNat
  <2>3. ref = IF referral THEN min2(amount, assets) ELSE 0 OBVIOUS
  <2> HIDE DEF amount, ref
  <2>4. min2(amount, assets) \in Nat /\ min2(amount, assets) <= assets BY <1>1, <2>2, Min2
  <2>5. QED BY <1>1, <2>3, <2>4
<1>11. held \in Nat
  <2> HIDE DEF ref
  <2>1. QED BY <1>1, <1>10
<1>12. fee \in Nat /\ fee <= held
  <2> HIDE DEF held
  <2>1. TreasurySplitBps \in Nat /\ PendingUnits \in Nat /\ TotalUnits \in Nat BY LegacyAssumption
  <2>2. QED BY <1>1, <1>8, <1>11, <2>1, TreasuryFee
<1>13. assets' \in Nat
  <2> HIDE DEF held, fee
  <2>1. QED BY <1>2, <1>11, <1>12
<1> HIDE DEF g, ref, held, fee
<1>14. g.status # "PLAYING" /\ (g.status \in {"PLAYING", "LOST"} => game[p].status \in {"PLAYING", "LOST"})
  BY <1>2, <1>5
<1>15. QED BY <1>2, <1>3, <1>4, <1>8, <1>9, <1>13, <1>14, LocalStep

\* An account is closed once its reservation is released, by close_game because
\* it was, by close_unsettled_game because it does so itself.
LEMMA ClosePreserves ==
  ASSUME LegacyInv, NEW p \in Players, close_game(p) \/ close_unsettled_game(p)
  PROVE  LegacyInv'
<1> USE DEF LegacyInv
<1>1. game[p] \in GameType /\ game[p].max_payout \in Nat /\ outstanding \in Nat /\ assets \in Nat
  BY GameFields DEF TypeOK
<1>2. game' = [game EXCEPT ![p] = closed] /\ UNCHANGED <<assets, house_edge, received>>
  BY DEF close_game, close_unsettled_game
<1>3. closed \in GameType BY <1>1, StatusType DEF Statuses
<1>4. closed.status = "CLOSED" /\ reserved(closed) = 0 BY DEF closed, reserved
<1>5. outstanding' = outstanding - reserved(game[p]) + reserved(closed) /\ outstanding' \in Nat
  <2>1. CASE close_game(p)
    <3>1. reserved(game[p]) = 0 /\ outstanding' = outstanding
      BY <2>1 DEF close_game, closable, reserved
    <3>2. QED BY <1>1, <1>4, <3>1
  <2>2. CASE close_unsettled_game(p)
    <3>1. reserved(game[p]) = game[p].max_payout /\ release_outstanding(p)
      BY <2>2 DEF close_unsettled_game, reserved
    <3>2. outstanding' = outstanding - reserved(game[p]) /\ outstanding' \in Nat BY <3>1, ReleaseExact
    <3>3. QED BY <1>1, <1>4, <3>1, <3>2
  <2>3. QED BY <2>1, <2>2
<1>6. QED BY <1>1, <1>2, <1>3, <1>4, <1>5, LocalStep

\* Time and the house edge touch no reservation and no payment.
LEMMA QuietPreserves ==
  ASSUME LegacyInv, tick \/ (\E edge \in Edges : update_vault(edge)) \/ UNCHANGED vars
  PROVE  LegacyInv'
<1> USE DEF LegacyInv
<1>1. UNCHANGED <<assets, outstanding, received>> /\ house_edge' \in Edges
  BY DEF tick, update_vault, vars, TypeOK
<1>2. ASSUME NEW p \in Players
      PROVE  /\ game'[p] \in GameType /\ game'[p].status = game[p].status
             /\ game'[p].settled = game[p].settled /\ game'[p].max_payout = game[p].max_payout
  <2>1. game[p] \in GameType BY DEF TypeOK
  <2>2. CASE game' = game BY <2>1, <2>2
  <2>3. CASE tick
    <3> DEFINE n == min2(game[p].age + 1, MaxAge)
    <3>1. n \in 0..MaxAge
      <4>1. game[p].age \in 0..MaxAge /\ MaxAge \in Nat BY <2>1, LegacyAssumption DEF GameType, MaxAge
      <4>2. QED BY <4>1 DEF min2
    <3>2. game'[p] = IF game[p].status = "CLOSED" THEN game[p] ELSE [game[p] EXCEPT !.age = n]
      BY <2>3 DEF tick
    <3> HIDE DEF n
    <3>3. [game[p] EXCEPT !.age = n] \in GameType BY <2>1, <3>1, Zenon DEF GameType
    <3>4. QED BY <2>1, <3>2, <3>3 DEF GameType
  <2>4. QED BY <2>2, <2>3 DEF update_vault, vars
<1>3. game' \in [Players -> GameType]
  <2>1. game' = [p \in Players |-> game'[p]] BY DEF tick, update_vault, vars, TypeOK
  <2>2. QED BY <1>2, <2>1
<1>4. TypeOK' BY <1>1, <1>3 DEF TypeOK
<1>5. PlayingUnsettled' BY <1>2 DEF PlayingUnsettled
<1>6. LegacyExact'
  <2>1. \A p \in Players : reserved(game'[p]) = reserved(game[p]) BY <1>2 DEF reserved
  <2>2. [p \in Players |-> reserved(game'[p])] = [p \in Players |-> reserved(game[p])] BY <2>1
  <2>3. QED BY <1>1, <2>2 DEF LegacyExact, Reserved
<1>7. PaidOnce' BY <1>1, <1>2 DEF PaidOnce
<1>8. QED BY <1>4, <1>5, <1>6, <1>7

\* The sessions found satisfy the invariant.
LEMMA InitEstablishes == Init => LegacyInv
<1> SUFFICES ASSUME Init PROVE LegacyInv OBVIOUS
<1> USE LegacyAssumption
<1>1. ASSUME NEW bet \in Bets, NEW layout \in Layouts, NEW known \in BOOLEAN
      PROVE  fresh(bet, layout, known, house_edge) \in GameType
  <2> DEFINE worst == worst_case_payout(bet, Cardinality(layout), house_edge)
  <2>1. layout \in SUBSET (0..(GRID_SIZE - 1)) /\ Cardinality(layout) \in 1..(GRID_SIZE - 1)
        /\ bet \in Nat /\ house_edge \in 0..BPS
    BY DEF Init
  <2>2. worst \in Nat BY <2>1, WorstCasePayoutNat
  <2>3. Cardinality(layout) \in Nat /\ 0 \in 0..MaxAge /\ BPS \in Nat
    BY <2>1, GridAssumption, BpsAssumption DEF MaxAge
  <2> HIDE DEF worst
  <2>4. QED BY <2>1, <2>2, <2>3 DEF fresh, GameType, Statuses, worst
<1>2. ASSUME NEW p \in Players
      PROVE  game[p] \in GameType /\ game[p].status = "PLAYING" /\ game[p].settled = FALSE
  <2>1. PICK bet \in Bets, layout \in Layouts, known \in BOOLEAN :
           game[p] = fresh(bet, layout, known, house_edge)
    BY DEF Init
  <2>2. QED BY <1>1, <2>1 DEF fresh
<1>3. \A p \in Players : received[p] = <<>> /\ received[p] \in Seq(Nat) BY DEF Init
<1>4. outstanding \in Nat
  <2> DEFINE f == [q \in Players |-> reserved(game[q])]
  <2>1. f \in [1..N -> Nat] BY <1>2, ReservedNat DEF Players
  <2>2. outstanding = OtherReserved + Total(f, N) BY DEF Init, Reserved
  <2> HIDE DEF f
  <2>3. Total(f, N) \in Nat BY <2>1, TotalNat
  <2>4. QED BY <2>2, <2>3
<1>5. TypeOK
  <2>1. game \in [Players -> GameType]
    <3>1. game = [p \in Players |-> game[p]] BY DEF Init
    <3>2. QED BY <1>2, <3>1
  <2>2. received \in [Players -> Seq(Nat)] BY <1>3 DEF Init
  <2>3. QED BY <1>4, <2>1, <2>2 DEF Init, TypeOK
<1>6. PlayingUnsettled BY <1>2 DEF PlayingUnsettled
<1>7. LegacyExact BY DEF Init, LegacyExact
<1>8. PaidOnce BY <1>3 DEF PaidOnce
<1>9. QED BY <1>5, <1>6, <1>7, <1>8 DEF LegacyInv

-----------------------------------------------------------------------------
(* The theorems *)

\* The invariant of the wind-down: types, exact reservations, single payments,
\* and that a session is not settled before it is decided.
THEOREM LegacyInvariant == Spec => []LegacyInv
<1>1. ASSUME LegacyInv, [Next]_vars PROVE LegacyInv'
  <2>1. ASSUME NEW p \in Players, cash_out(p) PROVE LegacyInv'
    BY <1>1, <2>1, WinPreserves DEF cash_out, may_cash_out
  <2>2. ASSUME NEW p \in Players, refund_expired(p) PROVE LegacyInv'
    <3>1. min2(game[p].bet, assets) \in Nat BY <1>1, GameFields, Min2 DEF LegacyInv, TypeOK
    <3>2. QED BY <1>1, <2>2, <3>1, RefundPreserves DEF refund_expired
  <2>3. ASSUME NEW p \in Players, expire_game(p) PROVE LegacyInv'
    <3>1. game[p].bet \in Nat BY <1>1, GameFields DEF LegacyInv
    <3>2. QED BY <1>1, <2>3, <3>1, WinPreserves, RefundPreserves DEF expire_game
  <2>4. QED
    BY <1>1, <2>1, <2>2, <2>3, RevealPreserves, SettlePreserves, ClosePreserves, QuietPreserves
    DEF Next, Others, PlayerStep, CrankStep
<1>2. QED BY <1>1, InitEstablishes, PTL DEF Spec

\* Each reservation is released exactly once (settle_game, refund_expired,
\* close_unsettled_game, expire_game), so the counter the VRF rounds and the
\* LPs read is exact.
THEOREM LegacyStaysExact == Spec => []LegacyExact
BY LegacyInvariant, PTL DEF LegacyInv

\* Each session pays its player at most once, and a lost one never (cash_out,
\* refund_expired, expire_game).
THEOREM PaidOnceOnly == Spec => []PaidOnce
BY LegacyInvariant, PTL DEF LegacyInv

\* A multiplier of at least one pays at least the bet, one below it less.
LEMMA WinningsAgainstBet ==
  ASSUME NEW g \in GameType
  PROVE  /\ winnings(g) \in Nat
         /\ g.mult < BPS => winnings(g) <= g.bet
         /\ g.mult >= BPS => winnings(g) >= g.bet
<1> DEFINE b == g.bet
           m == g.mult
           w == mul_div_floor(b, m, BPS)
<1>1. b \in Nat /\ m \in Nat /\ BPS \in Nat \ {0} BY BpsAssumption DEF GameType
<1>2. winnings(g) = w BY DEF winnings
<1> HIDE DEF b, m
<1>3. w \in Nat /\ w * BPS <= b * m /\ \A x \in Nat : x * BPS <= b * m => x <= w
  BY <1>1, MulDivNat, MulDivFloor
<1> HIDE DEF w
<1>4. b * m \in Nat /\ b * BPS \in Nat /\ w * BPS \in Nat BY <1>1, <1>3
<1>5. ASSUME m < BPS PROVE w <= b
  <2>1. m * b <= BPS * b BY <1>1, <1>5, TimesMonotone
  <2>2. m * b = b * m /\ BPS * b = b * BPS BY <1>1
  <2>3. w * BPS <= b * BPS BY <1>3, <1>4, <2>1, <2>2
  <2>4. QED BY <1>1, <1>3, <2>3, TimesCancel
<1>6. ASSUME m >= BPS PROVE w >= b
  <2>1. BPS * b <= m * b BY <1>1, <1>6, TimesMonotone
  <2>2. m * b = b * m /\ BPS * b = b * BPS BY <1>1
  <2>3. b * BPS <= b * m BY <1>4, <2>1, <2>2
  <2>4. QED BY <1>1, <1>3, <2>3
<1>7. QED BY <1>1, <1>2, <1>3, <1>5, <1>6 DEF b, m

\* expire_game, which anyone may call, gives a session that ran out the better
\* of what its player could have asked for: the bet or the winnings so far.
THEOREM ExpiryStaysBest == Spec => ExpiryIsBest
<1> DEFINE Best(p) ==
             (game[p].status = "PLAYING" /\ game'[p].status \in {"EXPIRED", "WON"} /\ expire_game(p)) =>
                /\ received'[p][1] >= game[p].bet
                /\ game[p].safe # {} => received'[p][1] >= winnings(game[p])
<1>1. LegacyInv => \A p \in Players : Best(p)
  <2> SUFFICES ASSUME LegacyInv, NEW p \in Players, game[p].status = "PLAYING", expire_game(p)
               PROVE  /\ received'[p][1] >= game[p].bet
                      /\ game[p].safe # {} => received'[p][1] >= winnings(game[p])
    OBVIOUS
  <2>1. game[p] \in GameType /\ received \in [Players -> Seq(Nat)] /\ received[p] = <<>>
    BY DEF LegacyInv, TypeOK, PaidOnce
  <2>2. game[p].bet \in Nat BY <2>1 DEF GameType
  <2>3. game[p].mult \in Nat /\ BPS \in Nat BY <2>1, BpsAssumption DEF GameType
  <2>4. /\ winnings(game[p]) \in Nat
        /\ game[p].mult < BPS => winnings(game[p]) <= game[p].bet
        /\ game[p].mult >= BPS => winnings(game[p]) >= game[p].bet
    BY <2>1, WinningsAgainstBet
  <2>5. ASSUME NEW lamports \in Nat, pay(p, lamports) PROVE received'[p][1] = lamports
    <3>1. received'[p] = Append(<<>>, lamports) BY <2>1, <2>5 DEF pay
    <3>2. QED BY <3>1
  <2>6. CASE refunds(game[p]) /\ pay(p, game[p].bet)
    <3>1. received'[p][1] = game[p].bet BY <2>2, <2>5, <2>6
    <3>2. game[p].safe = {} \/ game[p].mult < BPS BY <2>6 DEF refunds
    <3>3. QED BY <2>2, <2>4, <3>1, <3>2
  <2>7. CASE ~refunds(game[p]) /\ pay(p, winnings(game[p]))
    <3>1. received'[p][1] = winnings(game[p]) BY <2>4, <2>5, <2>7
    <3>2. game[p].mult >= BPS BY <2>3, <2>7 DEF refunds
    <3>3. QED BY <2>2, <2>4, <3>1, <3>2
  <2>8. QED BY <2>6, <2>7 DEF expire_game
<1>2. Spec => [][\A p \in Players : Best(p)]_vars
  <2> HIDE DEF Best
  <2>1. LegacyInv => [\A p \in Players : Best(p)]_vars BY <1>1
  <2>2. QED BY <2>1, LegacyInvariant, PTL
<1>3. QED BY <1>2 DEF ExpiryIsBest

=============================================================================
