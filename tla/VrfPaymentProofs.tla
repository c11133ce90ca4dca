-------------------------- MODULE VrfPaymentProofs --------------------------
(***************************************************************************)
(* Theorems about the money of a VRF round: the settlement of a decided    *)
(* game is never refused, the vault covers its reservations, and the round *)
(* protocol implements the wager book.  They rest on the invariant of      *)
(* VrfRoundProofs and on the ladder lemmas of KaboomMathTheorems.          *)
(***************************************************************************)
EXTENDS VrfRoundProofs, SequenceTheorems

-----------------------------------------------------------------------------
(* Replaying the random words *)

Unplayed == [safe |-> 0, lost |-> FALSE]

\* One word of the replay.
Judge(before, rand, mines) ==
    IF before.lost THEN before
    ELSE IF decide_mine(rand, before.safe, mines)
         THEN [before EXCEPT !.lost = TRUE]
         ELSE [before EXCEPT !.safe = @ + 1]

\* f holds the verdict after each of the first n words of s.
IsRun(f, s, mines, n) ==
    f = [i \in 0..n |-> IF i = 0 THEN Unplayed ELSE Judge(f[i-1], s[i].rand, mines)]

LEMMA RunExists ==
  ASSUME NEW s, NEW mines, NEW n \in Nat
  PROVE  \E f : IsRun(f, s, mines, n)
<1> DEFINE Bad == {m \in 0..n : ~ \E f : IsRun(f, s, mines, m)}
<1>1. SUFFICES ASSUME Bad # {} PROVE FALSE
  <2>1. n \in 0..n OBVIOUS
  <2>2. QED BY <1>1, <2>1
<1>2. PICK m \in Bad : \A j \in Bad : m <= j
  <2>1. Bad \subseteq Nat OBVIOUS
  <2>2. QED BY <1>1, <2>1, NatMin
<1>3. m # 0
  <2> DEFINE f == [i \in 0..0 |-> Unplayed]
  <2>1. f = [i \in 0..0 |-> IF i = 0 THEN Unplayed ELSE Judge(f[i-1], s[i].rand, mines)] OBVIOUS
  <2>2. IsRun(f, s, mines, 0) BY <2>1 DEF IsRun
  <2>3. QED BY <1>2, <2>2
<1>4. m - 1 \in 0..n /\ m - 1 \notin Bad /\ m \in Nat BY <1>2, <1>3
<1>5. PICK g : IsRun(g, s, mines, m - 1) BY <1>4
<1> DEFINE last == Judge(g[m-1], s[m].rand, mines)
           h == [i \in 0..m |-> IF i = m THEN last ELSE g[i]]
<1>6. ASSUME NEW i \in 0..m
      PROVE  h[i] = IF i = 0 THEN Unplayed ELSE Judge(h[i-1], s[i].rand, mines)
  <2> HIDE DEF last
  <2>1. CASE i = m
    <3>1. h[i] = last /\ h[i-1] = g[m-1] BY <1>3, <1>4, <2>1
    <3>2. QED BY <1>3, <2>1, <3>1 DEF last
  <2>2. CASE i # m
    <3>1. i \in 0..(m-1) /\ h[i] = g[i] BY <1>4, <2>2
    <3>2. g[i] = IF i = 0 THEN Unplayed ELSE Judge(g[i-1], s[i].rand, mines)
      BY <1>5, <3>1 DEF IsRun
    <3>3. i # 0 => h[i-1] = g[i-1] BY <1>4, <3>1
    <3>4. QED BY <3>1, <3>2, <3>3
  <2>3. QED BY <2>1, <2>2
<1>7. h = [i \in 0..m |-> IF i = 0 THEN Unplayed ELSE Judge(h[i-1], s[i].rand, mines)]
  <2>1. h = [i \in 0..m |-> h[i]] OBVIOUS
  <2> HIDE DEF h
  <2>2. QED BY <1>6, <2>1
<1>8. IsRun(h, s, mines, m) BY <1>7 DEF IsRun
<1>9. QED BY <1>2, <1>8

\* Runs over words that agree have verdicts that agree.
LEMMA RunAgree ==
  ASSUME NEW s, NEW t, NEW mines, NEW k \in Nat, NEW l \in Nat, k <= l,
         \A i \in 1..k : s[i] = t[i],
         NEW f, IsRun(f, s, mines, k), NEW h, IsRun(h, t, mines, l)
  PROVE  f[k] = h[k]
<1> DEFINE Bad == {m \in 0..k : f[m] # h[m]}
<1>1. SUFFICES ASSUME Bad # {} PROVE FALSE
  <2>1. k \in 0..k OBVIOUS
  <2>2. QED BY <1>1, <2>1
<1>2. PICK m \in Bad : \A j \in Bad : m <= j
  <2>1. Bad \subseteq Nat OBVIOUS
  <2>2. QED BY <1>1, <2>1, NatMin
<1>3. m # 0 BY <1>2 DEF IsRun
<1>4. m - 1 \in 0..k /\ m - 1 \notin Bad /\ m \in 0..k /\ m \in 0..l /\ m \in 1..k BY <1>2, <1>3
<1>5. f[m] = Judge(f[m-1], s[m].rand, mines) BY <1>3, <1>4 DEF IsRun
<1>6. h[m] = Judge(h[m-1], t[m].rand, mines) BY <1>3, <1>4 DEF IsRun
<1>7. QED BY <1>2, <1>4, <1>5, <1>6

\* The recursive function of replayed(g) is such a run.
LEMMA ReplayedIs ==
  ASSUME NEW g, Len(g.reveals) \in Nat, NEW f, IsRun(f, g.reveals, g.mines, Len(g.reveals))
  PROVE  replayed(g) = f[Len(g.reveals)]
<1> DEFINE n == Len(g.reveals)
           Run == CHOOSE run : run = [i \in 0..n |->
                      IF i = 0 THEN [safe |-> 0, lost |-> FALSE]
                      ELSE LET before == run[i-1]
                           IN  IF before.lost THEN before
                               ELSE IF decide_mine(g.reveals[i].rand, before.safe, g.mines)
                                    THEN [before EXCEPT !.lost = TRUE]
                                    ELSE [before EXCEPT !.safe = @ + 1]]
<1>1. replayed(g) = Run[n] BY DEF replayed
<1>2. f = [i \in 0..n |->
              IF i = 0 THEN [safe |-> 0, lost |-> FALSE]
              ELSE LET before == f[i-1]
                   IN  IF before.lost THEN before
                       ELSE IF decide_mine(g.reveals[i].rand, before.safe, g.mines)
                            THEN [before EXCEPT !.lost = TRUE]
                            ELSE [before EXCEPT !.safe = @ + 1]]
  BY DEF IsRun, Judge, Unplayed
<1>3. IsRun(Run, g.reveals, g.mines, n) BY <1>2 DEF IsRun, Judge, Unplayed
<1> HIDE DEF Run
<1>4. Run[n] = f[n] BY <1>3, RunAgree
<1>5. QED BY <1>1, <1>4

\* Nothing revealed, nothing decided.
LEMMA ReplayEmpty ==
  ASSUME NEW g, g.reveals = <<>>
  PROVE  replayed(g) = Unplayed
<1>1. Len(g.reveals) = 0 OBVIOUS
<1>2. PICK f : IsRun(f, g.reveals, g.mines, 0) BY RunExists
<1>3. replayed(g) = f[0] BY <1>1, <1>2, ReplayedIs
<1>4. f[0] = Unplayed BY <1>2 DEF IsRun
<1>5. QED BY <1>3, <1>4

\* A further reveal is judged on the verdict of those before it.
LEMMA ReplayAppends ==
  ASSUME NEW g, NEW h, NEW S, NEW r \in S, g.reveals \in Seq(S),
         h.reveals = Append(g.reveals, r), h.mines = g.mines
  PROVE  replayed(h) = Judge(replayed(g), r.rand, g.mines)
<1> DEFINE s == g.reveals
           t == h.reveals
           n == Len(s)
<1>1. n \in Nat /\ Len(t) = n + 1 /\ t[n + 1] = r /\ \A i \in 1..n : s[i] = t[i] OBVIOUS
<1>2. PICK f : IsRun(f, s, g.mines, n) BY <1>1, RunExists
<1>3. PICK e : IsRun(e, t, g.mines, n + 1)
  <2>1. n + 1 \in Nat BY <1>1
  <2>2. QED BY <2>1, RunExists
<1>4. replayed(g) = f[n] BY <1>1, <1>2, ReplayedIs
<1>5. replayed(h) = e[n + 1]
  <2>1. Len(h.reveals) = n + 1 /\ Len(h.reveals) \in Nat BY <1>1
  <2> HIDE DEF n
  <2>2. IsRun(e, h.reveals, h.mines, Len(h.reveals)) BY <1>3, <2>1
  <2>3. replayed(h) = e[Len(h.reveals)] BY <2>1, <2>2, ReplayedIs
  <2>4. QED BY <2>1, <2>3
<1> HIDE DEF s, t, n
<1>6. f[n] = e[n] BY <1>1, <1>2, <1>3, RunAgree
<1>7. e[n + 1] = Judge(e[n], r.rand, g.mines)
  <2>1. n + 1 \in 0..(n + 1) /\ n + 1 # 0 /\ (n + 1) - 1 = n BY <1>1
  <2>2. e[n + 1] = Judge(e[(n + 1) - 1], t[n + 1].rand, g.mines) BY <1>3, <2>1 DEF IsRun
  <2>3. QED BY <1>1, <2>1, <2>2
<1>8. QED BY <1>4, <1>5, <1>6, <1>7

-----------------------------------------------------------------------------
(* What the rollup wrote is what L1 recomputes *)

\* A game whose committed fields are those its random words yield.
Played(g) ==
    /\ g.mines \in 1..(GRID_SIZE - 1)
    /\ Len(g.reveals) <= GRID_SIZE
    /\ replayed(g) \in [safe: Nat, lost: BOOLEAN]
    /\ replayed(g).safe = g.safe
    /\ replayed(g).lost <=> g.status = "LOST"
    /\ multiplier_defined(g.safe, g.mines)
    /\ g.mult = calc_multiplier(g.safe, g.mines, g.edge)
    /\ g.status = "WON" => g.safe > 0

GamesPlayed == \A p \in Players : game[p].at # "none" => Played(game[p])

\* A live claim holds the reservation its own terms ask for.
ClaimsReserved ==
    \A p \in Players : claim[p].live =>
        /\ claim[p].mines \in 1..(GRID_SIZE - 1)
        /\ claim[p].edge \in Edges
        /\ claim[p].reserved = worst_case_payout(claim[p].bet, claim[p].mines, claim[p].edge)

\* A new game has nothing to replay.
LEMMA FreshPlayed ==
  ASSUME NEW g, g.reveals = <<>>, g.status = "PLAYING", g.safe = 0, g.mult = BPS,
         g.mines \in 1..(GRID_SIZE - 1)
  PROVE  Played(g)
<1>1. replayed(g) = Unplayed BY ReplayEmpty
<1>2. Len(g.reveals) = 0 OBVIOUS
<1>3. multiplier_defined(g.safe, g.mines) /\ calc_multiplier(g.safe, g.mines, g.edge) = BPS
  BY DEF multiplier_defined, calc_multiplier
<1>4. QED BY <1>1, <1>2, <1>3, GridAssumption DEF Played, Unplayed

\* What the replay reads of a game; the rest may change freely.
LEMMA ReplaySame ==
  ASSUME NEW g, NEW h, NEW S, g.reveals \in Seq(S), h.reveals = g.reveals, h.mines = g.mines
  PROVE  replayed(h) = replayed(g)
<1>1. Len(g.reveals) \in Nat OBVIOUS
<1>2. PICK f : IsRun(f, g.reveals, g.mines, Len(g.reveals)) BY <1>1, RunExists
<1>3. replayed(g) = f[Len(g.reveals)] BY <1>1, <1>2, ReplayedIs
<1>4. replayed(h) = f[Len(h.reveals)] BY <1>1, <1>2, ReplayedIs
<1>5. QED BY <1>3, <1>4

\* A step that leaves the reveals and the multiplier alone, and makes no game
\* lost, keeps a game replayable.
LEMMA MovedPlayed ==
  ASSUME NEW g \in GameType, NEW h, Played(g),
         h.reveals = g.reveals, h.mines = g.mines, h.edge = g.edge, h.safe = g.safe, h.mult = g.mult,
         h.status = g.status \/ (g.status = "PLAYING" /\ h.status = "WON" /\ g.safe > 0)
                             \/ (g.status = "PLAYING" /\ h.status = "VOID")
  PROVE  Played(h)
<1>1. replayed(h) = replayed(g) BY ReplaySame DEF GameType
<1>2. QED BY <1>1 DEF Played

\* A callback judges its word as the replay does.
LEMMA RevealPlayed ==
  ASSUME NEW g \in GameType, Played(g), g.status = "PLAYING", g.pending, g.tile # NO_TILE,
         NEW rand \in Words, NEW round \in Nat, Len(g.reveals) < GRID_SIZE,
         \/ decide_mine(rand, g.safe, g.mines)
         \/ multiplier_defined(g.safe + 1, g.mines)
  PROVE  Played(apply_reveal(g, rand, round))
<1> USE GridAssumption
<1> DEFINE r == [tile |-> g.tile, rand |-> rand, round |-> round]
           mine == decide_mine(rand, g.safe, g.mines)
           h == apply_reveal(g, rand, round)
<1> SUFFICES Played(h) OBVIOUS
<1>1. g.reveals \in Seq(RevealType) /\ g.safe \in Nat /\ g.mines \in Nat /\ r \in RevealType
  BY DEF GameType, RevealType
<1>2. /\ h.reveals = Append(g.reveals, r) /\ h.mines = g.mines /\ h.edge = g.edge
      /\ h.safe = (IF mine THEN g.safe ELSE g.safe + 1)
      /\ h.mult = (IF mine THEN g.mult ELSE calc_multiplier(h.safe, g.mines, g.edge))
      /\ h.status = (IF mine THEN "LOST" ELSE IF h.safe >= GRID_SIZE - g.mines THEN "WON" ELSE g.status)
  BY DEF apply_reveal, GameType
<1> HIDE DEF h
<1>3. replayed(h) = Judge(replayed(g), rand, g.mines)
  <2>1. r.rand = rand OBVIOUS
  <2> HIDE DEF r
  <2>2. QED BY <1>1, <1>2, <2>1, ReplayAppends
<1>4. Len(h.reveals) = Len(g.reveals) + 1 /\ Len(g.reveals) \in Nat
  <2> HIDE DEF r
  <2>1. QED BY <1>1, <1>2
<1> DEFINE v == replayed(g)
<1>5. v \in [safe: Nat, lost: BOOLEAN] /\ v.safe = g.safe /\ v.lost = FALSE BY DEF Played
<1> HIDE DEF r, v
<1>6. CASE mine
  <2>1. replayed(h) = [v EXCEPT !.lost = TRUE] BY <1>3, <1>5, <1>6 DEF Judge, v
  <2>2. h.status = "LOST" /\ h.safe = g.safe /\ h.mult = g.mult BY <1>2, <1>6
  <2>3. multiplier_defined(h.safe, h.mines) /\ h.mult = calc_multiplier(h.safe, h.mines, h.edge)
    BY <1>2, <2>2 DEF Played
  <2>4. h.mines \in 1..(GRID_SIZE - 1) BY <1>2 DEF Played
  <2>5. replayed(h) \in [safe: Nat, lost: BOOLEAN] /\ replayed(h).safe = h.safe /\ replayed(h).lost
    BY <1>5, <2>1, <2>2
  <2>6. QED BY <1>4, <2>2, <2>3, <2>4, <2>5 DEF Played
<1>7. CASE ~mine
  <2>1. replayed(h) = [v EXCEPT !.safe = @ + 1] BY <1>3, <1>5, <1>7 DEF Judge, v
  <2>2. h.safe = g.safe + 1 /\ h.status \in {"WON", "PLAYING"} BY <1>2, <1>7
  <2>3. multiplier_defined(h.safe, h.mines) /\ h.mult = calc_multiplier(h.safe, h.mines, h.edge)
    BY <1>2, <1>7, <2>2
  <2>4. replayed(h) \in [safe: Nat, lost: BOOLEAN] /\ replayed(h).safe = h.safe /\ ~replayed(h).lost
    BY <1>1, <1>5, <2>1, <2>2
  <2>5. h.mines \in 1..(GRID_SIZE - 1) /\ h.safe > 0 BY <1>1, <1>2, <2>2 DEF Played
  <2>6. Len(h.reveals) <= GRID_SIZE BY <1>4
  <2>7. QED BY <2>2, <2>3, <2>4, <2>5, <2>6 DEF Played
<1>8. QED BY <1>6, <1>7

LEMMA InitPlayed == Init => GamesPlayed /\ ClaimsReserved
BY DEF Init, GamesPlayed, ClaimsReserved, NoGame, NoClaim

\* A step of one game keeps GamesPlayed when the new game is replayable.
LEMMA GamePlayed ==
  ASSUME TypeOK, GamesPlayed, NEW p \in Players,
         \A q \in Players \ {p} : game'[q] = game[q],
         game'[p].at # "none" => Played(game'[p])
  PROVE  GamesPlayed'
BY DEF GamesPlayed

LEMMA StartPlayed ==
  ASSUME TypeOK, GamesPlayed, NEW p \in Players, NEW mines \in MineCounts, NEW bet \in Bets,
         start_game_vrf(p, mines, bet)
  PROVE  GamesPlayed'
<1> DEFINE g == [NoGame EXCEPT !.at = "L1", !.status = "PLAYING",
                    !.mines = mines, !.edge = house_edge, !.tile = NO_TILE, !.mult = BPS]
<1>1. game'[p] = g /\ \A q \in Players \ {p} : game'[q] = game[q]
  BY DEF start_game_vrf, TypeOK, reuse_orphan_game
<1>2. mines \in 1..(GRID_SIZE - 1) BY DEF start_game_vrf, admissible
<1>3. Played(g)
  <2>1. g.reveals = <<>> /\ g.status = "PLAYING" /\ g.safe = 0 /\ g.mult = BPS /\ g.mines = mines
    BY DEF NoGame
  <2> HIDE DEF g
  <2>2. QED BY <1>2, <2>1, FreshPlayed
<1> HIDE DEF g
<1>4. QED BY <1>1, <1>3, GamePlayed

LEMMA PlayPlayed ==
  ASSUME TypeOK, GamesPlayed, NEW p \in Players,
         \/ delegate_vrf(p) \/ cash_out_vrf(p)
         \/ \E tile \in Tiles : reveal_request_vrf(p, tile)
         \/ schedule_undelegate(p) \/ process_undelegation(p)
  PROVE  GamesPlayed'
<1> DEFINE g == game[p]
           h == game'[p]
<1>1. g \in GameType BY DEF TypeOK
<1>2. g.at # "none" /\ \A q \in Players \ {p} : game'[q] = game[q]
  BY DEF delegate_vrf, check_vrf_game_delegable, cash_out_vrf, reveal_request_vrf,
         schedule_undelegate, process_undelegation, TypeOK
<1>3. /\ h.reveals = g.reveals /\ h.mines = g.mines /\ h.edge = g.edge
      /\ h.safe = g.safe /\ h.mult = g.mult
      /\ \/ h.status = g.status
         \/ g.status = "PLAYING" /\ h.status = "WON" /\ g.safe > 0
         \/ g.status = "PLAYING" /\ h.status = "VOID"
  <2>1. CASE delegate_vrf(p)
    <3>1. h = [g EXCEPT !.at = "ER"] BY <2>1 DEF delegate_vrf, TypeOK
    <3>2. QED BY <1>1, <3>1 DEF GameType
  <2>2. CASE cash_out_vrf(p)
    <3>1. h = [g EXCEPT !.status = "WON"] /\ g.status = "PLAYING" /\ g.safe > 0
      BY <2>2 DEF cash_out_vrf, cash_out_ok, TypeOK
    <3>2. QED BY <1>1, <3>1 DEF GameType
  <2>3. ASSUME NEW tile \in Tiles, reveal_request_vrf(p, tile)
        PROVE  /\ h.reveals = g.reveals /\ h.mines = g.mines /\ h.edge = g.edge
               /\ h.safe = g.safe /\ h.mult = g.mult /\ h.status = g.status
    <3>1. h = [g EXCEPT !.pending = TRUE, !.tile = tile] BY <2>3 DEF reveal_request_vrf, TypeOK
    <3>2. QED BY <1>1, <3>1 DEF GameType
  <2>4. CASE schedule_undelegate(p)
    <3>1. h = [end_playing(g) EXCEPT !.at = "returning"] BY <2>4 DEF schedule_undelegate, TypeOK
    <3>2. QED BY <1>1, <3>1 DEF GameType, end_playing
  <2>5. CASE process_undelegation(p)
    <3>1. h = [g EXCEPT !.at = "L1"] BY <2>5 DEF process_undelegation, TypeOK
    <3>2. QED BY <1>1, <3>1 DEF GameType
  <2>6. QED BY <2>1, <2>2, <2>3, <2>4, <2>5
<1>4. Played(g) BY <1>2 DEF GamesPlayed
<1> HIDE DEF g, h
<1>5. Played(h) BY <1>1, <1>3, <1>4, MovedPlayed
<1>6. QED BY <1>2, <1>5, GamePlayed DEF h

LEMMA CallbackPlayed ==
  ASSUME TypeOK, Strengthening, GamesPlayed, NEW p \in Players, NEW rand \in Words,
         reveal_callback_vrf(p, rand)
  PROVE  GamesPlayed'
<1>1. PICK q \in requests[p] :
        /\ game[p].at = "ER"
        /\ game[p].pending
        /\ Len(game[p].reveals) < GRID_SIZE
        /\ \/ decide_mine(rand, game[p].safe, game[p].mines)
           \/ multiplier_defined(game[p].safe + 1, game[p].mines)
        /\ game' = [game EXCEPT ![p] = apply_reveal(@, rand, q.round)]
  BY DEF reveal_callback_vrf
<1>2. /\ game[p] \in GameType /\ q.round \in Nat /\ game[p].tile # NO_TILE
      /\ game[p].status = "PLAYING" /\ Played(game[p])
  BY <1>1 DEF TypeOK, RequestType, Strengthening, GamesPlayed
<1>3. Played(apply_reveal(game[p], rand, q.round)) BY <1>1, <1>2, RevealPlayed
<1>4. /\ game'[p] = apply_reveal(game[p], rand, q.round)
      /\ \A k \in Players \ {p} : game'[k] = game[k]
  BY <1>1 DEF TypeOK
<1>5. QED BY <1>3, <1>4, GamePlayed

LEMMA EndPlayed ==
  ASSUME TypeOK, GamesPlayed, NEW p \in Players, RoundEnds(p)
  PROVE  GamesPlayed'
<1>1. game' = game \/ game' = [game EXCEPT ![p] = NoGame] BY RoundEndsShape
<1>2. \A q \in Players : game'[q] \in {game[q], NoGame} BY <1>1 DEF TypeOK
<1>3. NoGame.at = "none" BY DEF NoGame
<1>4. QED BY <1>2, <1>3 DEF GamesPlayed

\* Claims keep their terms until they close; only the clock touches them.
LEMMA ClaimTermsKept ==
  ASSUME TypeOK, ClaimsReserved, [Next]_vars
  PROVE  ClaimsReserved'
<1>1. ASSUME NEW p \in Players, NEW mines \in MineCounts, NEW bet \in Bets,
             start_game_vrf(p, mines, bet)
      PROVE  ClaimsReserved'
  <2>1. /\ claim'[p].mines = mines /\ claim'[p].bet = bet /\ claim'[p].edge = house_edge
        /\ claim'[p].reserved = worst_case_payout(bet, mines, house_edge)
        /\ mines \in 1..(GRID_SIZE - 1) /\ house_edge \in Edges
        /\ \A q \in Players \ {p} : claim'[q] = claim[q]
    BY <1>1 DEF start_game_vrf, admissible, TypeOK
  <2>2. QED BY <2>1 DEF ClaimsReserved
<1>2. ASSUME NEW p \in Players, RoundEnds(p) PROVE ClaimsReserved'
  <2>1. claim' = [claim EXCEPT ![p] = NoClaim] BY <1>2, RoundEndsShape
  <2>2. \A q \in Players : claim'[q] \in {claim[q], NoClaim} BY <2>1 DEF TypeOK
  <2>3. ~NoClaim.live BY DEF NoClaim
  <2>4. QED BY <2>2, <2>3 DEF ClaimsReserved
<1>3. CASE tick
  <2>1. ASSUME NEW p \in Players
        PROVE  /\ claim'[p].live = claim[p].live /\ claim'[p].bet = claim[p].bet
               /\ claim'[p].reserved = claim[p].reserved /\ claim'[p].mines = claim[p].mines
               /\ claim'[p].edge = claim[p].edge
    <3>1. claim[p] \in ClaimType BY DEF TypeOK
    <3>2. claim'[p] = IF claim[p].live
                      THEN [claim[p] EXCEPT !.age = min2(@ + 1, ABANDON_SLOTS + 1)] ELSE claim[p]
      BY <1>3 DEF tick
    <3>3. QED BY <3>1, <3>2 DEF ClaimType
  <2>2. QED BY <2>1 DEF ClaimsReserved
<1>4. CASE claim' = claim BY <1>4 DEF ClaimsReserved
<1>5. ASSUME NEW p \in Players,
             \/ delegate_vrf(p) \/ cash_out_vrf(p) \/ schedule_undelegate(p) \/ process_undelegation(p)
             \/ \E tile \in Tiles : reveal_request_vrf(p, tile)
             \/ \E rand \in Words : reveal_callback_vrf(p, rand)
      PROVE  claim' = claim
  BY <1>5 DEF delegate_vrf, cash_out_vrf, schedule_undelegate, process_undelegation,
              reveal_request_vrf, reveal_callback_vrf
<1>6. ASSUME \/ \E edge \in Edges : update_vault(edge)
             \/ \E m \in {"open", "closed", "unpinned"} : set_mode(m)
             \/ UNCHANGED vars
      PROVE  claim' = claim
  BY <1>6 DEF update_vault, set_mode, vars
<1>7. QED BY <1>1, <1>2, <1>3, <1>4, <1>5, <1>6, NextCases DEF RoundEnds

\* The inductive invariant of payment.
PaymentInv == RoundInv /\ GamesPlayed /\ ClaimsReserved

LEMMA NextPayment == PaymentInv /\ [Next]_vars => PaymentInv'
<1> SUFFICES ASSUME PaymentInv, [Next]_vars PROVE PaymentInv' OBVIOUS
<1>1. RoundInv /\ TypeOK /\ Strengthening /\ GamesPlayed /\ ClaimsReserved BY DEF PaymentInv, RoundInv
<1>2. RoundInv' BY <1>1, NextRoundInv
<1>3. ClaimsReserved' BY <1>1, ClaimTermsKept
<1>4. CASE \/ tick
           \/ \E edge \in Edges : update_vault(edge)
           \/ \E m \in {"open", "closed", "unpinned"} : set_mode(m)
           \/ UNCHANGED vars
  <2>1. game' = game BY <1>4 DEF tick, update_vault, set_mode, vars
  <2>2. GamesPlayed' BY <1>1, <2>1 DEF GamesPlayed
  <2>3. QED BY <1>2, <1>3, <2>2 DEF PaymentInv
<1>5. CASE Next
  <2>1. GamesPlayed' \/ tick \/ (\E edge \in Edges : update_vault(edge))
                     \/ \E m \in {"open", "closed", "unpinned"} : set_mode(m)
    BY <1>1, <1>5, NextCases, StartPlayed, PlayPlayed, CallbackPlayed, EndPlayed DEF RoundEnds
  <2>2. QED BY <1>2, <1>3, <1>4, <2>1 DEF PaymentInv
<1>6. QED BY <1>4, <1>5

LEMMA PaymentInvariant == Spec => []PaymentInv
<1>1. Init => PaymentInv BY InitRoundInv, InitPlayed DEF PaymentInv
<1>2. QED BY <1>1, NextPayment, PTL DEF Spec

\* A decided game with a live claim passes the replay, and its payout fits the
\* reservation.
LEMMA DecidedPays == PaymentInv => DecidedSettles
<1> SUFFICES ASSUME PaymentInv, NEW p \in Players,
                    claim[p].live, game[p].status \in {"WON", "LOST"}
             PROVE  /\ replay(game[p], claim[p])
                    /\ payout(claim[p], game[p]) <= claim[p].reserved
  BY DEF DecidedSettles
<1> USE GridAssumption, BpsAssumption
<1> DEFINE g == game[p]
           c == claim[p]
<1>1. g \in GameType /\ c \in ClaimType BY DEF PaymentInv, RoundInv, TypeOK
<1>2. /\ Played(g) /\ g.mines = c.mines /\ g.edge = c.edge
      /\ c.reserved = worst_case_payout(c.bet, c.mines, c.edge)
  BY DEF PaymentInv, RoundInv, ClaimOwnsGame, GamesPlayed, ClaimsReserved
<1> HIDE DEF g, c
<1>3. g.status \in {"WON", "LOST"} BY DEF g
<1>4. replay(g, c) BY <1>2, <1>3 DEF Played, replay
<1>5. payout(c, g) <= c.reserved
  <2>1. c.bet \in Nat /\ c.reserved \in Nat /\ g.safe \in Nat /\ g.edge \in 0..BPS
    BY <1>1 DEF ClaimType, GameType
  <2>2. CASE g.status = "LOST" BY <2>1, <2>2 DEF payout
  <2>3. CASE g.status = "WON"
    <3>1. g.mines \in 1..(GRID_SIZE - 1) /\ g.safe > 0 /\ multiplier_defined(g.safe, g.mines)
          /\ g.mult = calc_multiplier(g.safe, g.mines, g.edge)
      BY <1>2, <2>3 DEF Played
    <3>2. g.safe \in 1..(GRID_SIZE - g.mines) BY <2>1, <3>1 DEF multiplier_defined
    <3>3. mul_div_floor(c.bet, g.mult, BPS) <= worst_case_payout(c.bet, g.mines, g.edge)
      BY <2>1, <3>1, <3>2, WorstCaseIsWorst
    <3>4. payout(c, g) = mul_div_floor(c.bet, g.mult, BPS) BY <2>3 DEF payout
    <3>5. QED BY <1>2, <3>3, <3>4
  <2>4. QED BY <1>3, <2>2, <2>3
<1>6. QED BY <1>4, <1>5 DEF g, c

\* The settlement of a decided game is never refused, for any board, edge and
\* number of players: the recomputation from the random words agrees with what
\* the rollup committed, and the payout fits the reservation.
THEOREM DecidedAlwaysSettles == Spec => []DecidedSettles
BY PaymentInvariant, DecidedPays, PTL

-----------------------------------------------------------------------------
(* The vault covers its reservations *)

\* What the live rounds have staked.
Stakes == Total([p \in Players |-> claim[p].bet], N)

\* Beyond the reservations the vault still holds the fees of every live round,
\* at whatever edge and referral tier it may be settled.
Slack ==
    /\ outstanding <= assets
    /\ \A later \in Edges, cut \in ReferralCuts :
           (cut + later) * Stakes <= (assets - outstanding) * BPS

LEMMA StakesNat ==
  ASSUME TypeOK
  PROVE  Stakes \in Nat /\ \A p \in Players : claim[p].bet <= Stakes
<1> DEFINE f == [p \in Players |-> claim[p].bet]
<1>1. f \in [1..N -> Nat] /\ N \in Nat BY RoundAssumption DEF TypeOK, ClaimType, Players
<1>2. Stakes = Total(f, N) /\ \A p \in Players : f[p] = claim[p].bet BY DEF Stakes
<1> HIDE DEF f
<1>3. QED BY <1>1, <1>2, TotalNat, TotalBounds DEF Players

LEMMA StakesNatNext == TypeOK' => (Stakes \in Nat)'
<1>1. TypeOK => Stakes \in Nat BY StakesNat
<1>2. QED BY <1>1, PTL

\* One round opening or closing moves the stakes by its bet.
LEMMA StakesMove ==
  ASSUME TypeOK, TypeOK', NEW p \in Players, \A q \in Players \ {p} : claim'[q] = claim[q]
  PROVE  Stakes' = Stakes - claim[p].bet + claim'[p].bet
<1> DEFINE f == [q \in Players |-> claim[q].bet]
           h == [q \in Players |-> claim'[q].bet]
<1>1. N \in Nat /\ p \in 1..N BY RoundAssumption DEF Players
<1>2. f \in [1..N -> Nat] /\ h \in [1..N -> Nat] BY DEF TypeOK, ClaimType, Players
<1>3. f[p] = claim[p].bet /\ h[p] = claim'[p].bet OBVIOUS
<1>4. \A q \in 1..N \ {p} : h[q] = f[q] BY DEF Players
<1>5. Stakes = Total(f, N) /\ Stakes' = Total(h, N) BY DEF Stakes
<1> HIDE DEF f, h
<1>6. Total(h, N) = Total(f, N) - f[p] + h[p] BY <1>1, <1>2, <1>4, TotalUpdate
<1>7. QED BY <1>3, <1>5, <1>6

\* A reservation is worth its bet, and at the health floor's share the fees.
LEMMA ReservedWorth ==
  ASSUME TypeOK, ClaimsReserved, NEW p \in Players, claim[p].live
  PROVE  /\ claim[p].bet <= claim[p].reserved
         /\ \A later \in Edges, cut \in ReferralCuts :
                (cut + later) * claim[p].bet <= MinHealthBps * claim[p].reserved
<1> USE GridAssumption, BpsAssumption, RoundAssumption
<1> DEFINE b == claim[p].bet
           w == claim[p].reserved
           e == claim[p].edge
           k == mul_div_floor(GRID_SIZE, BPS - e, BPS)
<1>1. b \in Nat /\ w \in Nat /\ e \in Edges /\ e \in 0..BPS /\ claim[p].mines \in 1..(GRID_SIZE - 1)
      /\ w = worst_case_payout(b, claim[p].mines, e)
  BY DEF TypeOK, ClaimType, ClaimsReserved
<1>2. k = (GRID_SIZE * (BPS - e)) \div BPS BY DEF mul_div_floor
<1>3. BPS - e \in Nat /\ GRID_SIZE \in Nat BY <1>1
<1>4. b * k <= w BY <1>1, <1>2, WorstCaseCovers
<1>5. k \in Nat /\ 1 <= k
  <2>1. k \in Nat BY <1>3, MulDivNat
  <2>2. 1 * BPS <= GRID_SIZE * (BPS - e) BY <1>1, FeeAssumption
  <2>3. 1 <= k BY <1>3, <2>2, MulDivFloor
  <2>4. QED BY <2>1, <2>3
<1>6. ASSUME NEW later \in Edges, NEW cut \in ReferralCuts PROVE cut + later <= MinHealthBps * k
  BY <1>1, <1>2, FeeAssumption
<1> HIDE DEF b, w, k, e
<1>7. b <= w
  <2>1. 1 * b <= k * b BY <1>1, <1>5, TimesMonotone
  <2>2. k * b = b * k /\ k * b \in Nat BY <1>1, <1>5
  <2>3. QED BY <1>1, <1>4, <2>1, <2>2
<1>8. ASSUME NEW later \in Edges, NEW cut \in ReferralCuts PROVE (cut + later) * b <= MinHealthBps * w
  <2> DEFINE x == cut + later
             m == MinHealthBps
  <2>1. x \in Nat /\ m \in Nat /\ x <= m * k BY <1>6
  <2> HIDE DEF x, m
  <2>2. x * b <= (m * k) * b
    <3>1. m * k \in Nat BY <1>5, <2>1
    <3>2. QED BY <1>1, <2>1, <3>1, TimesMonotone
  <2>3. (b * k) * m <= w * m
    <3>1. b * k \in Nat BY <1>1, <1>5
    <3>2. QED BY <1>1, <1>4, <2>1, <3>1, TimesMonotone
  <2>4. (m * k) * b = (b * k) * m /\ w * m = m * w BY <1>1, <1>5, <2>1
  <2>5. x * b \in Nat /\ (b * k) * m \in Nat /\ m * w \in Nat BY <1>1, <1>5, <2>1
  <2>6. QED BY <2>2, <2>3, <2>4, <2>5 DEF x, m
<1>9. QED BY <1>7, <1>8 DEF b, w

\* No live claim has a bet above its reservation.
BetsWithin == \A p \in Players : claim[p].live => claim[p].bet <= claim[p].reserved

LEMMA BetsWithinNext == TypeOK' /\ ClaimsReserved' => BetsWithin'
<1>1. TypeOK /\ ClaimsReserved => BetsWithin BY ReservedWorth DEF BetsWithin
<1>2. QED BY <1>1, PTL

\* All fees together are below the health floor's share of all reservations.
FeesBelowFloor ==
    \A later \in Edges, cut \in ReferralCuts :
        (cut + later) * Stakes <= MinHealthBps * outstanding

LEMMA StakesWorth == PaymentInv => FeesBelowFloor
<1> USE RoundAssumption
<1> SUFFICES ASSUME PaymentInv, NEW later \in Edges, NEW cut \in ReferralCuts
             PROVE  (cut + later) * Stakes <= MinHealthBps * outstanding
  BY DEF FeesBelowFloor
<1> DEFINE f == [p \in Players |-> claim[p].bet]
           h == [p \in Players |-> claim[p].reserved]
<1>1. TypeOK /\ ClaimsReserved /\ Strengthening BY DEF PaymentInv, RoundInv
<1>2. f \in [1..N -> Nat] /\ h \in [1..N -> Nat] /\ N \in Nat
  BY <1>1 DEF TypeOK, ClaimType, Players
<1>3. ASSUME NEW p \in 1..N PROVE (cut + later) * f[p] <= MinHealthBps * h[p]
  <2>1. p \in Players /\ f[p] = claim[p].bet /\ h[p] = claim[p].reserved BY DEF Players
  <2>2. CASE claim[p].live BY <1>1, <2>1, <2>2, ReservedWorth
  <2>3. CASE ~claim[p].live
    <3>1. f[p] = 0 /\ h[p] = 0 BY <1>1, <2>1, <2>3 DEF Strengthening, NoClaim
    <3> HIDE DEF f, h
    <3>2. (cut + later) * 0 = 0 /\ MinHealthBps * 0 = 0 BY BpsAssumption
    <3>3. QED BY <3>1, <3>2
  <2>4. QED BY <2>2, <2>3
<1>4. outstanding = Total(h, N) /\ Stakes = Total(f, N)
  BY DEF PaymentInv, RoundInv, OutstandingExact, Stakes
<1>5. cut + later \in Nat BY BpsAssumption
<1> HIDE DEF f, h
<1>6. (cut + later) * Total(f, N) <= MinHealthBps * Total(h, N) BY <1>2, <1>3, <1>5, TotalScale
<1>7. QED BY <1>4, <1>6

LEMMA StakesWorthNext == PaymentInv' => FeesBelowFloor'
BY StakesWorth, PTL

\* Opening a round: the payout cap keeps the reservation within what is not
\* reserved yet, and the health floor keeps the fees of all rounds.
LEMMA StartSlack ==
  ASSUME PaymentInv, PaymentInv', Slack, NEW p \in Players, NEW mines \in MineCounts, NEW bet \in Bets,
         start_game_vrf(p, mines, bet)
  PROVE  /\ Slack'
         /\ worst_case_payout(bet, mines, house_edge) <= assets - outstanding
<1> USE RoundAssumption, BpsAssumption
<1> DEFINE worst == worst_case_payout(bet, mines, house_edge)
           payout_bps == min2(MaxPayoutBps, VrfMaxPayoutBps)
           cap == mul_div_floor(assets, (payout_bps * calc_health_bps(assets, outstanding,
                                    total_pending_units, total_units)) \div BPS, BPS)
           free == free_assets(assets, outstanding, total_pending_units, total_units)
<1>1. TypeOK /\ assets \in Nat /\ outstanding \in Nat /\ total_units \in Nat /\ total_pending_units \in Nat
      /\ assets' \in Nat /\ outstanding' \in Nat /\ TypeOK'
  BY DEF PaymentInv, RoundInv, TypeOK
<1>2. /\ worst <= cap
      /\ assets' = assets + bet /\ outstanding' = outstanding + worst
      /\ enforce_min_health(MinHealthBps, assets + bet, outstanding + worst,
                            total_pending_units, total_units)
      /\ mines \in 1..(GRID_SIZE - 1)
  BY DEF start_game_vrf, admissible
<1>3. bet \in Nat /\ house_edge \in 0..BPS BY <1>1 DEF TypeOK
<1>4. worst \in Nat BY <1>2, <1>3, WorstCasePayoutNat
<1>5. payout_bps \in 0..BPS BY FeeAssumption DEF min2
<1> HIDE DEF payout_bps, worst
<1>6. cap <= free BY <1>1, <1>5, CapIsFree
<1>7. cap \in Nat
  <2> DEFINE h == calc_health_bps(assets, outstanding, total_pending_units, total_units)
  <2>1. h \in Nat BY <1>1, HealthIsFree
  <2> HIDE DEF h
  <2>0. payout_bps \in Nat /\ BPS \in Nat \ {0} BY <1>5, BpsAssumption
  <2>2. mul_div_floor(payout_bps, h, BPS) \in Nat BY <2>0, <2>1, MulDivNat
  <2>3. (payout_bps * h) \div BPS \in Nat BY <2>2 DEF mul_div_floor
  <2>4. mul_div_floor(assets, (payout_bps * h) \div BPS, BPS) \in Nat BY <1>1, <2>3, MulDivNat
  <2>5. QED BY <2>4 DEF h
<1>8. free \in Nat /\ free <= assets - outstanding
  <2>1. free \in Nat /\ free <= saturating_sub(assets, outstanding) BY <1>1, FreeBelow
  <2>2. QED BY <1>1, <2>1 DEF saturating_sub, Slack
<1> HIDE DEF cap, free
<1>9. worst <= assets - outstanding BY <1>1, <1>2, <1>4, <1>6, <1>7, <1>8
<1>10. outstanding' <= assets' BY <1>1, <1>2, <1>3, <1>4, <1>9
<1>11. MinHealthBps * assets' <= (assets' - outstanding') * BPS
  BY <1>1, <1>2, <1>10, HealthFloor
<1>12. ASSUME NEW later \in Edges, NEW cut \in ReferralCuts
       PROVE  (cut + later) * Stakes' <= (assets' - outstanding') * BPS
  <2> DEFINE x == (cut + later) * Stakes'
             m == MinHealthBps
             a == assets'
             o == outstanding'
  <2>1. x <= m * o BY StakesWorthNext DEF FeesBelowFloor
  <2>2. x \in Nat
    <3>1. cut + later \in Nat OBVIOUS
    <3>2. QED BY <1>1, <3>1, StakesNatNext
  <2>3. m \in Nat /\ a \in Nat /\ o \in Nat /\ o <= a BY <1>1, <1>10
  <2>4. m * a <= (a - o) * BPS BY <1>11
  <2> HIDE DEF x, m, a, o
  <2>5. o * m <= a * m BY <2>3, TimesMonotone
  <2>6. o * m = m * o /\ a * m = m * a /\ o * m \in Nat /\ a * m \in Nat /\ (a - o) * BPS \in Nat
    BY <2>3
  <2>7. x <= (a - o) * BPS BY <2>1, <2>2, <2>4, <2>5, <2>6
  <2>8. QED BY <2>7 DEF x, a, o
<1>13. QED BY <1>9, <1>10, <1>12 DEF Slack, worst

\* What a settlement takes besides the payout: the referral cut and the
\* treasury's share of the edge, both rounded down.
LEMMA SettleFees ==
  ASSUME TypeOK, NEW p \in Players, settle_vrf(p)
  PROVE  \E cut \in ReferralCuts, fee \in Nat :
            /\ assets' = assets - payout(claim[p], game[p]) - fee
            /\ fee * BPS <= claim[p].bet * (cut + house_edge)
<1> USE RoundAssumption, BpsAssumption
<1> DEFINE b == claim[p].bet
           pay == payout(claim[p], game[p])
           out == release_outstanding(claim[p].reserved)
           held == assets - pay
<1>1. b \in Nat /\ claim[p].reserved \in Nat /\ house_edge \in Nat /\ assets \in Nat
      /\ total_units \in Nat /\ total_pending_units \in Nat /\ pay \in Nat
  <2>1. pay \in Nat BY SettleAssets
  <2>2. house_edge \in Nat BY DEF TypeOK
  <2> HIDE DEF pay
  <2>3. QED BY <2>1, <2>2 DEF TypeOK, ClaimType
<1>2. out \in Nat BY <1>1, SaturatingSub DEF TypeOK, release_outstanding
<1>3. held \in Nat BY <1>1 DEF settle_vrf
<1>4. PICK cut \in ReferralCuts :
         LET ref == referral_cut(p, assets - pay, cut)
         IN  assets' = assets - pay - ref - treasury_cut(p, assets - pay - ref, out)
  BY DEF settle_vrf
<1> DEFINE ref == referral_cut(p, held, cut)
           left == held - ref
           tre == treasury_cut(p, left, out)
           rmax == mul_div_floor(b, cut, BPS)
           tmax == mul_div_floor(b, house_edge, BPS)
           share == mul_div_floor(tmax, TreasurySplitBps, BPS)
<1>5. /\ rmax \in Nat /\ rmax * BPS <= b * cut
      /\ tmax \in Nat /\ tmax * BPS <= b * house_edge
  BY <1>1, MulDivNat, MulDivFloor
<1>6. ref \in Nat /\ ref <= rmax /\ ref <= held
  <2>1. ref = IF p \in Referred THEN min2(rmax, held) ELSE 0 BY DEF referral_cut
  <2> HIDE DEF rmax, held, ref
  <2>2. QED BY <1>3, <1>5, <2>1, Min2
<1>7. share \in Nat /\ share <= tmax
  <2> HIDE DEF tmax
  <2>1. share \in Nat /\ share * BPS <= tmax * TreasurySplitBps BY <1>5, MulDivNat, MulDivFloor
  <2> HIDE DEF share
  <2>2. TreasurySplitBps <= BPS /\ TreasurySplitBps \in Nat BY FeeAssumption
  <2>3. TreasurySplitBps * tmax <= BPS * tmax BY <1>5, <2>2, TimesMonotone
  <2>4. TreasurySplitBps * tmax = tmax * TreasurySplitBps /\ BPS * tmax = tmax * BPS
        /\ tmax * TreasurySplitBps \in Nat /\ tmax * BPS \in Nat /\ share * BPS \in Nat
    BY <1>5, <2>1, <2>2
  <2>5. share * BPS <= tmax * BPS BY <2>1, <2>3, <2>4
  <2>6. QED BY <1>5, <2>1, <2>5, TimesCancel
<1>8. tre \in Nat /\ tre <= tmax
  <2> DEFINE free == saturating_sub(saturating_sub(left, out),
                                    units_to_assets(total_pending_units, left, total_units))
  <2>1. tre = IF TreasurySplitBps > 0 THEN min2(share, free) ELSE 0
    BY DEF treasury_cut, treasury_fee
  <2> HIDE DEF ref, held
  <2>2. left \in Nat BY <1>3, <1>6
  <2> HIDE DEF left
  <2>3. free \in Nat
    <3>1. saturating_sub(left, out) \in Nat BY <1>2, <2>2, SaturatingSub
    <3>2. units_to_assets(total_pending_units, left, total_units) \in Nat
      BY <1>1, <2>2, UnitsToAssetsNat
    <3>3. QED BY <3>1, <3>2, SaturatingSub
  <2> HIDE DEF free, share, tmax, tre
  <2>4. QED BY <1>5, <1>7, <2>1, <2>3, Min2
<1> DEFINE fee == ref + tre
<1>9. assets' = assets - pay - ref - tre BY <1>4
<1> HIDE DEF b, pay, ref, tre, rmax, tmax, share
<1>10. fee \in Nat /\ assets' = assets - pay - fee
  BY <1>1, <1>6, <1>8, <1>9
<1>11. fee * BPS <= b * (cut + house_edge)
  <2>1. fee <= rmax + tmax /\ rmax + tmax \in Nat BY <1>5, <1>6, <1>8
  <2>2. fee * BPS <= (rmax + tmax) * BPS
    <3> HIDE DEF fee
    <3>1. QED BY <1>10, <2>1, TimesMonotone
  <2>3. (rmax + tmax) * BPS = rmax * BPS + tmax * BPS BY <1>5
  <2>4. b * (cut + house_edge) = b * cut + b * house_edge BY <1>1
  <2>5. /\ fee * BPS \in Nat /\ rmax * BPS \in Nat /\ tmax * BPS \in Nat
        /\ b * cut \in Nat /\ b * house_edge \in Nat
    <3> HIDE DEF fee
    <3>1. ASSUME NEW x \in Nat, NEW y \in Nat PROVE x * y \in Nat OBVIOUS
    <3>2. QED BY <1>1, <1>5, <1>10, <3>1
  <2> HIDE DEF fee
  <2>6. QED BY <1>5, <2>2, <2>3, <2>4, <2>5
<1>12. QED BY <1>10, <1>11 DEF b, pay

\* However a round ends, the player gets at most the reservation, and the fees
\* are at most the referral cut and the edge of the moment on the bet.
LEMMA EndPays ==
  ASSUME PaymentInv, NEW p \in Players, RoundEnds(p)
  PROVE  \E pay \in Nat, fee \in Nat, rate \in Nat :
            /\ assets' = assets - pay - fee
            /\ pay <= claim[p].reserved
            /\ fee * BPS <= claim[p].bet * rate
            /\ rate = 0 \/ \E cut \in ReferralCuts : rate = cut + house_edge
<1> USE RoundAssumption, BpsAssumption
<1> DEFINE b == claim[p].bet
<1>1. TypeOK /\ b \in Nat /\ claim[p].reserved \in Nat /\ house_edge \in Nat /\ assets \in Nat
      /\ total_units \in Nat /\ claim[p].live /\ claim[p].age \in Nat
  BY RoundEndsShape DEF PaymentInv, RoundInv, TypeOK, ClaimType
<1>2. b <= claim[p].reserved BY <1>1, ReservedWorth DEF PaymentInv
<1>3. CASE settle_vrf(p)
  <2>1. payout(claim[p], game[p]) \in Nat BY <1>1, <1>3, SettleAssets
  <2>2. payout(claim[p], game[p]) <= claim[p].reserved BY <1>3 DEF settle_vrf
  <2>3. PICK cut \in ReferralCuts, fee \in Nat :
            /\ assets' = assets - payout(claim[p], game[p]) - fee
            /\ fee * BPS <= claim[p].bet * (cut + house_edge)
    BY <1>1, <1>3, SettleFees
  <2>4. cut + house_edge \in Nat
    <3>1. cut \in Nat OBVIOUS
    <3>2. QED BY <1>1, <3>1
  <2>5. QED BY <2>1, <2>2, <2>3, <2>4
<1>4. ASSUME NEW pay \in Nat, pay <= b, assets' = assets - pay
      PROVE  \E pay2 \in Nat, fee \in Nat, rate \in Nat :
                /\ assets' = assets - pay2 - fee
                /\ pay2 <= claim[p].reserved
                /\ fee * BPS <= claim[p].bet * rate
                /\ rate = 0 \/ \E cut \in ReferralCuts : rate = cut + house_edge
  <2>1. pay <= claim[p].reserved BY <1>1, <1>2, <1>4
  <2>2. assets' = assets - pay - 0 BY <1>1, <1>4
  <2>3. 0 * BPS <= claim[p].bet * 0 BY <1>1
  <2>4. 0 \in Nat OBVIOUS
  <2>5. QED BY <2>1, <2>2, <2>3, <2>4
<1>5. ASSUME NEW by \in {"player", "house"}, refund_stalled_vrf(p, by)
      PROVE  b \in Nat /\ b <= b /\ assets' = assets - b
  BY <1>1, <1>5 DEF refund_stalled_vrf
<1>6. CASE admin_release_vrf_claim(p)
  <2> DEFINE spendable == admin_spendable(assets, total_units)
             pay == min2(b, spendable)
  <2>1. spendable \in Nat BY <1>1, SaturatingSub DEF admin_spendable
  <2>2. assets' = assets - pay BY <1>6 DEF admin_release_vrf_claim
  <2> HIDE DEF spendable, b
  <2>3. pay \in Nat /\ pay <= b BY <1>1, <2>1, Min2
  <2> HIDE DEF pay
  <2>4. QED BY <1>4, <2>2, <2>3
<1>7. QED BY <1>3, <1>4, <1>5, <1>6 DEF RoundEnds

\* A slack d that covers the stakes s at the rate of the fee taken on one bet
\* b covers the fee, and if it covers s at a rate c, then it covers the other
\* stakes at the rate c afterwards.
LEMMA FeeFits ==
  ASSUME NEW d \in Nat, NEW s \in Nat, NEW b \in Nat, NEW fee \in Nat, NEW rate \in Nat,
         NEW k \in Nat \ {0}, b <= s, fee * k <= b * rate, rate * s <= d * k
  PROVE  fee <= d
<1>1. b * rate <= s * rate BY TimesMonotone
<1>2. s * rate = rate * s OBVIOUS
<1>3. b * rate \in Nat /\ rate * s \in Nat /\ d * k \in Nat /\ fee * k \in Nat OBVIOUS
<1>4. fee * k <= d * k BY <1>1, <1>2, <1>3
<1>5. QED BY <1>4, TimesCancel

LEMMA FeesLeave ==
  ASSUME NEW d \in Nat, NEW s \in Nat, NEW b \in Nat, NEW fee \in Nat, NEW rate \in Nat,
         NEW c \in Nat, NEW k \in Nat \ {0},
         b <= s, fee * k <= b * rate, rate * s <= d * k, c * s <= d * k
  PROVE  c * (s - b) <= (d - fee) * k
<1> DEFINE r == s - b
<1>1. r \in Nat /\ s = r + b OBVIOUS
<1> HIDE DEF r
<1>2. rate * s = rate * r + b * rate /\ c * s = c * r + c * b BY <1>1
<1>3. /\ rate * r \in Nat /\ b * rate \in Nat /\ c * r \in Nat /\ c * b \in Nat
      /\ d * k \in Nat /\ fee * k \in Nat
  BY <1>1
<1>4. (d - fee) * k = d * k - fee * k OBVIOUS
<1>5. CASE c <= rate
  <2>1. c * r <= rate * r BY <1>1, <1>5, TimesMonotone
  <2>2. c * r <= d * k - fee * k BY <1>2, <1>3, <2>1
  <2>3. QED BY <1>4, <2>2 DEF r
<1>6. CASE rate <= c
  <2>1. rate * b <= c * b BY <1>6, TimesMonotone
  <2>2. rate * b = b * rate OBVIOUS
  <2>3. c * r <= d * k - fee * k BY <1>2, <1>3, <2>1, <2>2
  <2>4. QED BY <1>4, <2>3 DEF r
<1>7. QED BY <1>5, <1>6

\* A round that ends takes its reservation off the counter, and no fee but its
\* own out of the slack.
LEMMA EndSlack ==
  ASSUME PaymentInv, PaymentInv', Slack, NEW p \in Players, RoundEnds(p)
  PROVE  Slack'
<1> USE RoundAssumption, BpsAssumption
<1>1. /\ TypeOK /\ TypeOK' /\ claim[p].live
      /\ claim' = [claim EXCEPT ![p] = NoClaim]
      /\ outstanding' = release_outstanding(claim[p].reserved)
      /\ house_edge' = house_edge
  BY RoundEndsShape DEF PaymentInv, RoundInv, config
<1>2. /\ assets \in Nat /\ outstanding \in Nat /\ assets' \in Nat /\ outstanding' \in Nat
      /\ claim[p].reserved \in Nat /\ claim[p].bet \in Nat /\ house_edge \in Edges /\ house_edge \in Nat
  <2>1. house_edge \in Edges /\ house_edge \in Nat BY <1>1 DEF TypeOK
  <2>2. QED BY <1>1, <2>1 DEF TypeOK, ClaimType
<1>3. Stakes \in Nat /\ claim[p].bet <= Stakes BY <1>1, StakesNat
<1>4. Stakes' = Stakes - claim[p].bet
  <2>1. claim'[p].bet = 0 /\ \A q \in Players \ {p} : claim'[q] = claim[q]
    BY <1>1 DEF TypeOK, NoClaim
  <2>2. Stakes' = Stakes - claim[p].bet + claim'[p].bet BY <1>1, <2>1, StakesMove
  <2>3. QED BY <1>2, <1>3, <2>1, <2>2
<1>5. claim[p].reserved <= outstanding /\ outstanding' = outstanding - claim[p].reserved
  <2> DEFINE h == [q \in Players |-> claim[q].reserved]
  <2>1. N \in Nat /\ h \in [1..N -> Nat] BY <1>1 DEF TypeOK, ClaimType, Players
  <2>2. h[p] = claim[p].reserved /\ p \in 1..N BY DEF Players
  <2>3. outstanding = Total(h, N) BY DEF PaymentInv, RoundInv, OutstandingExact
  <2> HIDE DEF h
  <2>4. h[p] <= Total(h, N) BY <2>1, <2>2, TotalBounds
  <2>5. QED BY <1>1, <1>2, <2>2, <2>3, <2>4 DEF release_outstanding, saturating_sub
<1>6. PICK pay \in Nat, fee \in Nat, rate \in Nat :
         /\ assets' = assets - pay - fee
         /\ pay <= claim[p].reserved
         /\ fee * BPS <= claim[p].bet * rate
         /\ rate = 0 \/ \E cut \in ReferralCuts : rate = cut + house_edge
  BY EndPays
<1> DEFINE d == assets - outstanding
           s == Stakes
           b == claim[p].bet
           w == claim[p].reserved
<1>7. d \in Nat BY <1>2 DEF Slack
<1>8. rate * s <= d * BPS
  <2>1. CASE rate = 0
    <3> HIDE DEF d, s
    <3>1. d * BPS \in Nat /\ 0 * s = 0 BY <1>3, <1>7 DEF s
    <3>2. QED BY <2>1, <3>1
  <2>2. CASE \E cut \in ReferralCuts : rate = cut + house_edge BY <1>2, <2>2 DEF Slack
  <2>3. QED BY <1>6, <2>1, <2>2
<1>9. assets' - outstanding' = d - fee + (w - pay) /\ w - pay \in Nat
  BY <1>2, <1>5, <1>6, <1>7
<1> HIDE DEF d, s, b, w
<1>10. s \in Nat /\ b \in Nat /\ b <= s /\ fee * BPS <= b * rate BY <1>2, <1>3, <1>6 DEF s, b
<1>11. fee <= d
  <2>1. fee \in Nat /\ rate \in Nat /\ BPS \in Nat \ {0} OBVIOUS
  <2>2. QED BY <1>7, <1>8, <1>10, <2>1, FeeFits
<1>12. outstanding' <= assets'
  <2> DEFINE a == assets'
             o == outstanding'
  <2>1. a - o \in Nat BY <1>7, <1>9, <1>11
  <2>2. a \in Nat /\ o \in Nat BY <1>2
  <2> HIDE DEF a, o
  <2>3. o <= a BY <2>1, <2>2
  <2>4. QED BY <2>3 DEF a, o
<1>13. ASSUME NEW later \in Edges, NEW cut \in ReferralCuts
       PROVE  (cut + later) * Stakes' <= (assets' - outstanding') * BPS
  <2> DEFINE c == cut + later
             x == d - fee
             y == assets' - outstanding'
  <2>1. c \in Nat OBVIOUS
  <2>2. c * s <= d * BPS BY DEF Slack, s, d
  <2>3. x \in Nat /\ y \in Nat /\ x <= y BY <1>7, <1>9, <1>11
  <2> HIDE DEF c
  <2>4. c * (s - b) <= (d - fee) * BPS
    BY <1>6, <1>7, <1>8, <1>10, <2>1, <2>2, FeesLeave
  <2>5. c * (s - b) <= x * BPS BY <2>4
  <2> HIDE DEF x, y
  <2>6. x * BPS <= y * BPS BY <2>3, TimesMonotone
  <2>7. s - b \in Nat /\ c * (s - b) \in Nat
    <3>1. s - b \in Nat BY <1>10
    <3> DEFINE r == s - b
    <3> HIDE DEF r
    <3>2. r \in Nat /\ c * r \in Nat BY <2>1, <3>1 DEF r
    <3>3. QED BY <3>2 DEF r
  <2>8. x * BPS \in Nat /\ y * BPS \in Nat BY <2>3
  <2>9. c * (s - b) <= y * BPS BY <2>5, <2>6, <2>7, <2>8
  <2>10. Stakes' = s - b BY <1>4 DEF s, b
  <2>11. QED BY <2>9, <2>10 DEF c, y
<1>14. QED BY <1>12, <1>13 DEF Slack

LEMMA NextSlack == PaymentInv /\ PaymentInv' /\ Slack /\ [Next]_vars => Slack'
<1> SUFFICES ASSUME PaymentInv, PaymentInv', Slack, [Next]_vars PROVE Slack' OBVIOUS
<1>1. ASSUME NEW p \in Players, NEW mines \in MineCounts, NEW bet \in Bets,
             start_game_vrf(p, mines, bet)
      PROVE  Slack'
  BY <1>1, StartSlack
<1>2. ASSUME NEW p \in Players, RoundEnds(p) PROVE Slack' BY <1>2, EndSlack
<1>3. ASSUME UNCHANGED <<assets, outstanding>>,
             \A p \in Players : claim'[p].bet = claim[p].bet
      PROVE  Slack'
  <2>1. [p \in Players |-> claim'[p].bet] = [p \in Players |-> claim[p].bet] BY <1>3
  <2>2. Stakes' = Stakes BY <2>1 DEF Stakes
  <2>3. QED BY <1>3, <2>2 DEF Slack
<1>4. CASE tick
  <2>1. ASSUME NEW p \in Players PROVE claim'[p].bet = claim[p].bet
    <3>1. claim[p] \in ClaimType BY DEF PaymentInv, RoundInv, TypeOK
    <3>2. claim'[p] = IF claim[p].live
                      THEN [claim[p] EXCEPT !.age = min2(@ + 1, ABANDON_SLOTS + 1)] ELSE claim[p]
      BY <1>4 DEF tick
    <3>3. QED BY <3>1, <3>2 DEF ClaimType
  <2>2. QED BY <1>3, <1>4, <2>1 DEF tick
<1>5. ASSUME NEW p \in Players,
             \/ delegate_vrf(p) \/ cash_out_vrf(p) \/ schedule_undelegate(p) \/ process_undelegation(p)
             \/ \E tile \in Tiles : reveal_request_vrf(p, tile)
             \/ \E rand \in Words : reveal_callback_vrf(p, rand)
      PROVE  Slack'
  <2>1. UNCHANGED <<assets, outstanding, claim>>
    BY <1>5 DEF delegate_vrf, cash_out_vrf, schedule_undelegate, process_undelegation,
                reveal_request_vrf, reveal_callback_vrf
  <2>2. QED BY <1>3, <2>1
<1>6. ASSUME \/ \E edge \in Edges : update_vault(edge)
             \/ \E m \in {"open", "closed", "unpinned"} : set_mode(m)
             \/ UNCHANGED vars
      PROVE  Slack'
  <2>1. UNCHANGED <<assets, outstanding, claim>> BY <1>6 DEF update_vault, set_mode, vars
  <2>2. QED BY <1>3, <2>1
<1>7. QED BY <1>1, <1>2, <1>4, <1>5, <1>6, NextCases DEF RoundEnds

LEMMA InitSlack == Init => Slack
<1> SUFFICES ASSUME Init PROVE Slack OBVIOUS
<1> DEFINE f == [p \in Players |-> claim[p].bet]
<1>1. f \in [1..N -> Nat] /\ (\A i \in 1..N : f[i] = 0) /\ N \in Nat
  BY RoundAssumption DEF Init, NoClaim, Players
<1> HIDE DEF f
<1>2. Total(f, N) = 0 BY <1>1, TotalZero
<1>3. Stakes = 0 BY <1>2 DEF Stakes, f
<1>4. assets \in Nat /\ outstanding = 0 BY RoundAssumption DEF Init
<1>5. ASSUME NEW later \in Edges, NEW cut \in ReferralCuts
      PROVE  (cut + later) * Stakes <= (assets - outstanding) * BPS
  <2>1. cut + later \in Nat BY RoundAssumption, BpsAssumption
  <2>2. (cut + later) * 0 = 0 BY <2>1
  <2>3. assets * BPS \in Nat BY <1>4, BpsAssumption
  <2>4. assets - outstanding = assets BY <1>4
  <2>5. QED BY <1>3, <2>2, <2>3, <2>4
<1>6. QED BY <1>4, <1>5 DEF Slack

LEMMA SlackInvariant == Spec => []Slack
BY InitSlack, NextSlack, PaymentInvariant, PTL DEF Spec

\* The vault covers every reservation, whatever the players do and however the
\* owner moves the edge between a bet and its settlement, as long as the
\* configured shares are within FeeAssumption.
THEOREM VaultStaysCovered == Spec => []Covered
<1>1. Slack => Covered BY DEF Slack, Covered
<1>2. QED BY <1>1, SlackInvariant, PTL

-----------------------------------------------------------------------------
(* The wager book *)

\* The wager a claim stands for.
Wager(c) == [open |-> c.live, bet |-> c.bet, cap |-> c.reserved]
Wagers == [p \in Players |-> Wager(claim[p])]

\* The book's liability is the program's counter of outstanding payouts.
LEMMA LiabilityIs == PaymentInv => Book!Liability = outstanding
<1> DEFINE f == [p \in Players |-> claim[p].reserved]
           h == [p \in Book!Players |-> Wagers[p].cap]
<1>1. h = f BY DEF Wagers, Wager, Players, Book!Players
<1>2. Book!Liability = Book!Total(h, N) BY DEF Book!Liability, Wagers, Wager
<1>3. PaymentInv => outstanding = Total(f, N) BY DEF PaymentInv, RoundInv, OutstandingExact
<1> HIDE DEF f, h
<1>4. Book!Total(f, N) = Total(f, N)
  BY DEF Book!Total, Book!running_total, Total, running_total
<1>5. QED BY <1>1, <1>2, <1>3, <1>4

LEMMA LiabilityIsNext == PaymentInv' => (Book!Liability = outstanding)'
BY LiabilityIs, PTL

\* One claim opening or closing rewrites one wager.
LEMMA WagerMoves ==
  ASSUME TypeOK, NEW p \in Players, NEW c, claim' = [claim EXCEPT ![p] = c]
  PROVE  Wagers' = [Wagers EXCEPT ![p] = Wager(c)]
BY DEF Wagers, TypeOK

\* Opening a round is accepting a wager.
LEMMA StartAccepts ==
  ASSUME PaymentInv, PaymentInv', Slack, NEW p \in Players, NEW mines \in MineCounts, NEW bet \in Bets,
         start_game_vrf(p, mines, bet)
  PROVE  Book!Accept(p)
<1> DEFINE worst == worst_case_payout(bet, mines, house_edge)
           c == [live |-> TRUE, bet |-> bet, reserved |-> worst,
                 mines |-> mines, edge |-> house_edge, age |-> 0, round |-> rounds[p] + 1]
           w == Wager(c)
<1>1. TypeOK /\ TypeOK' /\ ClaimsReserved' BY DEF PaymentInv, RoundInv
<1>2. ~claim[p].live /\ claim' = [claim EXCEPT ![p] = c] /\ assets' = assets + bet
  BY DEF start_game_vrf
<1>3. worst <= assets - outstanding BY StartSlack
<1>4. w.open /\ w.bet = bet /\ w.cap = worst BY DEF Wager
<1>5. bet <= worst
  <2>1. claim'[p] = c BY <1>1, <1>2 DEF TypeOK
  <2>2. claim'[p].live /\ claim'[p].bet = bet /\ claim'[p].reserved = worst BY <2>1
  <2>3. claim'[p].bet <= claim'[p].reserved BY <1>1, <2>2, BetsWithinNext DEF BetsWithin
  <2>4. QED BY <2>2, <2>3
<1> HIDE DEF c
<1>6. Wagers' = [Wagers EXCEPT ![p] = w] BY <1>1, <1>2, WagerMoves
<1>7. Wagers'[p] = w /\ Wagers[p].open = claim[p].live
  <2>1. Wagers'[p] = w BY <1>6 DEF Wagers
  <2>2. QED BY <2>1 DEF Wagers, Wager
<1>8. Book!Liability = outstanding BY LiabilityIs
<1> HIDE DEF w, worst
<1>9. QED BY <1>2, <1>3, <1>4, <1>5, <1>6, <1>7, <1>8 DEF Book!Accept, Wagers, Wager

\* The end of a round is the closing of its wager.
LEMMA EndCloses ==
  ASSUME PaymentInv, PaymentInv', Slack', NEW p \in Players, RoundEnds(p)
  PROVE  Book!Close(p)
<1> USE RoundAssumption, BpsAssumption
<1>1. TypeOK /\ claim[p].live /\ claim' = [claim EXCEPT ![p] = NoClaim]
  BY RoundEndsShape DEF PaymentInv, RoundInv
<1>2. /\ assets \in Nat /\ assets' \in Nat /\ claim[p].reserved \in Nat /\ claim[p].bet \in Nat
      /\ house_edge \in Edges
  BY <1>1, RoundEndsShape DEF TypeOK, ClaimType
<1>3. PICK pay \in Nat, fee \in Nat, rate \in Nat :
         /\ assets' = assets - pay - fee
         /\ pay <= claim[p].reserved
         /\ fee * BPS <= claim[p].bet * rate
         /\ rate = 0 \/ \E cut \in ReferralCuts : rate = cut + house_edge
  BY EndPays
<1>4. rate <= BPS BY <1>2, <1>3, FeeAssumption
<1>5. fee <= claim[p].bet
  <2> DEFINE b == claim[p].bet
  <2>1. b \in Nat /\ fee * BPS <= b * rate BY <1>2, <1>3
  <2> HIDE DEF b
  <2>2. rate * b <= BPS * b BY <1>4, <2>1, TimesMonotone
  <2>3. rate * b = b * rate /\ BPS * b = b * BPS BY <2>1
  <2>4. b * rate \in Nat /\ b * BPS \in Nat /\ fee * BPS \in Nat BY <2>1
  <2>5. fee * BPS <= b * BPS BY <2>1, <2>2, <2>3, <2>4
  <2>6. QED BY <2>1, <2>5, TimesCancel DEF b
<1>6. assets' \in (assets - claim[p].reserved - claim[p].bet)..assets
  <2> DEFINE a == assets
             a2 == assets'
             w == claim[p].reserved
             b == claim[p].bet
  <2>1. a \in Nat /\ a2 \in Nat /\ w \in Nat /\ b \in Nat /\ a2 = a - pay - fee /\ pay <= w /\ fee <= b
    BY <1>2, <1>3, <1>5
  <2> HIDE DEF a, a2, w, b
  <2>2. a2 \in (a - w - b)..a BY <2>1
  <2>3. QED BY <2>2 DEF a, a2, w, b
<1>7. Wagers' = [Wagers EXCEPT ![p] = Wager(NoClaim)] BY <1>1, WagerMoves
<1>8. Wager(NoClaim) = Book!NoWager BY DEF Wager, NoClaim, Book!NoWager
<1>9. (Book!Liability)' <= assets' BY LiabilityIsNext DEF Slack
<1>10. Wagers[p].open /\ Wagers[p].bet = claim[p].bet /\ Wagers[p].cap = claim[p].reserved
  BY <1>1 DEF Wagers, Wager
<1>11. QED BY <1>6, <1>7, <1>8, <1>9, <1>10 DEF Book!Close, Wagers, Wager

\* Every other step leaves the book alone.
LEMMA StepIsBooked ==
  ASSUME PaymentInv, PaymentInv', Slack, Slack', [Next]_vars
  PROVE  [Book!Next]_(Book!vars)
<1>1. ASSUME NEW p \in Players, NEW mines \in MineCounts, NEW bet \in Bets,
             start_game_vrf(p, mines, bet)
      PROVE  Book!Next
  BY <1>1, StartAccepts DEF Book!Next, Book!Players, Players
<1>2. ASSUME NEW p \in Players, RoundEnds(p) PROVE Book!Next
  BY <1>2, EndCloses DEF Book!Next, Book!Players, Players
<1>3. ASSUME assets' = assets,
             \A p \in Players : /\ claim'[p].live = claim[p].live /\ claim'[p].bet = claim[p].bet
                                /\ claim'[p].reserved = claim[p].reserved
      PROVE  UNCHANGED Book!vars
  <2>1. Wagers' = Wagers BY <1>3 DEF Wagers, Wager
  <2>2. QED BY <1>3, <2>1 DEF Book!vars, Wagers, Wager
<1>4. CASE tick
  <2>1. ASSUME NEW p \in Players
        PROVE  /\ claim'[p].live = claim[p].live /\ claim'[p].bet = claim[p].bet
               /\ claim'[p].reserved = claim[p].reserved
    <3>1. claim[p] \in ClaimType BY DEF PaymentInv, RoundInv, TypeOK
    <3>2. claim'[p] = IF claim[p].live
                      THEN [claim[p] EXCEPT !.age = min2(@ + 1, ABANDON_SLOTS + 1)] ELSE claim[p]
      BY <1>4 DEF tick
    <3>3. QED BY <3>1, <3>2 DEF ClaimType
  <2>2. QED BY <1>3, <1>4, <2>1 DEF tick
<1>5. ASSUME NEW p \in Players,
             \/ delegate_vrf(p) \/ cash_out_vrf(p) \/ schedule_undelegate(p) \/ process_undelegation(p)
             \/ \E tile \in Tiles : reveal_request_vrf(p, tile)
             \/ \E rand \in Words : reveal_callback_vrf(p, rand)
      PROVE  UNCHANGED Book!vars
  <2>1. UNCHANGED <<assets, claim>>
    BY <1>5 DEF delegate_vrf, cash_out_vrf, schedule_undelegate, process_undelegation,
                reveal_request_vrf, reveal_callback_vrf
  <2>2. QED BY <1>3, <2>1
<1>6. ASSUME \/ \E edge \in Edges : update_vault(edge)
             \/ \E m \in {"open", "closed", "unpinned"} : set_mode(m)
             \/ UNCHANGED vars
      PROVE  UNCHANGED Book!vars
  <2>1. UNCHANGED <<assets, claim>> BY <1>6 DEF update_vault, set_mode, vars
  <2>2. QED BY <1>3, <2>1
<1>7. QED BY <1>1, <1>2, <1>4, <1>5, <1>6, NextCases DEF RoundEnds

\* The round protocol implements the wager book, for every number of players:
\* its initial states are the book's, and every step accepts one wager, closes
\* one, or leaves the book alone.
THEOREM RoundsImplementBook == Spec => ImplementsBook
<1>1. Init => Book!Init
  BY DEF Init, NoClaim, Book!Init, Book!NoWager, Book!Players, Players
<1>2. PaymentInv /\ PaymentInv' /\ Slack /\ Slack' /\ [Next]_vars => [Book!Next]_(Book!vars)
  BY StepIsBooked
<1>3. QED BY <1>1, <1>2, PaymentInvariant, SlackInvariant, PTL DEF Spec, ImplementsBook, Book!Spec

=============================================================================
